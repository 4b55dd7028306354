---------------------------- MODULE TourExecution -----------------------------
(*****************************************************************************)
(* Tour executions in the tours service (TourExecutionService): a tourist    *)
(* walks a bought tour, the page polls CheckKeyPoint with the position, and  *)
(* the tourist completes or abandons the walk.                               *)
(*                                                                           *)
(* Like all of this service, a handler reads the document, decides, and      *)
(* $sets fields by _id; the page does not wait for one poll before the next, *)
(* and a second page may show the same execution, so calls overlap.          *)
(* The key points of a started tour are taken as fixed (see TourAuthoring).  *)
(*****************************************************************************)
EXTENDS Naturals, FiniteSets, Sequences

CONSTANTS
  Exec,      \* ObjectIDs of executions, each inserted once (a bound)
  KeyPoint,  \* the key points of the tour
  Call,      \* requests that may be in progress at once
  None       \* "no key point was reached"

ASSUME KeyPointAssumption == IsFiniteSet(KeyPoint)
ASSUME NoneAssumption == None \notin KeyPoint

VARIABLES
  status,    \* Exec -> status of the document, "none" before it exists
  done,      \* Exec -> completedKeyPoints, as a sequence of key point ids
  stamps,    \* Exec -> which of completedAt and abandonedAt are set
  pc,        \* Call -> the next write of the handler, or "idle"
  target,    \* Call -> the execution it was called for
  read,      \* Call -> completedKeyPoints as CheckKeyPoint read it
  reached    \* Call -> the key point that CheckKeyPoint found near, or None

execVars == <<status, done, stamps>>
callVars == <<pc, target, read, reached>>
vars == <<execVars, callVars>>

Final  == {"completed", "abandoned"}
Status == {"none", "active"} \union Final
\* A finishing call is at the status it is about to write.
PC     == {"idle", "insert", "check"} \union Final

Elements(s) == {s[i] : i \in DOMAIN s}

TypeOK ==
  /\ status \in [Exec -> Status]
  /\ done \in [Exec -> Seq(KeyPoint)]
  /\ stamps \in [Exec -> SUBSET Final]
  /\ pc \in [Call -> PC]
  /\ target \in [Call -> Exec]
  /\ read \in [Call -> Seq(KeyPoint)]
  /\ reached \in [Call -> KeyPoint \union {None}]

Init ==
  /\ status = [e \in Exec |-> "none"]
  /\ done = [e \in Exec |-> <<>>]
  /\ stamps = [e \in Exec |-> {}]
  /\ pc = [c \in Call |-> "idle"]
  /\ target \in [Call -> Exec]
  /\ read = [c \in Call |-> <<>>]
  /\ reached = [c \in Call |-> None]

Goto(c, p) == pc' = [pc EXCEPT ![c] = p]

-------------------------------------------------------------------------------
(* Start.                                                                    *)

\* The tour is published or archived, HasToken says it was bought, and the
\* tourist's position is known.  Refused calls change nothing.  Executions the
\* tourist already has are not looked at.
StartRead(c) ==
  /\ pc[c] = "idle"
  /\ Goto(c, "insert")
  /\ UNCHANGED <<execVars, target, read, reached>>

\* InsertOne.
StartInsert(c) ==
  /\ pc[c] = "insert"
  /\ \E e \in Exec :
       /\ status[e] = "none"
       /\ status' = [status EXCEPT ![e] = "active"]
  /\ Goto(c, "idle")
  /\ UNCHANGED <<done, stamps, target, read, reached>>

-------------------------------------------------------------------------------
(* CheckKeyPoint.                                                            *)

\* Mutant of CheckRead: completed key points are not skipped.
CheckReadAll(c, e) ==
  /\ pc[c] = "idle"
  /\ status[e] = "active"
  /\ target' = [target EXCEPT ![c] = e]
  /\ read' = [read EXCEPT ![c] = done[e]]
  /\ \E k \in KeyPoint \union {None} : reached' = [reached EXCEPT ![c] = k]
  /\ Goto(c, "check")
  /\ UNCHANGED execVars

\* FindByID of an active execution, and the first key point that is within 200 m
\* of the position and not in the list: any of those left, or none.
CheckRead(c, e) ==
  /\ pc[c] = "idle"
  /\ status[e] = "active"
  /\ target' = [target EXCEPT ![c] = e]
  /\ read' = [read EXCEPT ![c] = done[e]]
  /\ \E k \in (KeyPoint \ Elements(done[e])) \union {None} :
       reached' = [reached EXCEPT ![c] = k]
  /\ Goto(c, "check")
  /\ UNCHANGED execVars

\* Mutant of CheckNothing: the list grows although no key point was near.
CheckNothingAppend(c) ==
  /\ pc[c] = "check"
  /\ reached[c] = None
  /\ done' = [done EXCEPT ![target[c]] = Append(read[c], None)]
  /\ Goto(c, "idle")
  /\ UNCHANGED <<status, stamps, target, read, reached>>

\* Nothing near: only lastActivityAt, which is not kept here, is written.
CheckNothing(c) ==
  /\ pc[c] = "check"
  /\ reached[c] = None
  /\ Goto(c, "idle")
  /\ UNCHANGED <<execVars, target, read, reached>>

\* Mutant of CheckWrite: the last key point does not finish the execution.
CheckWriteOnly(c) ==
  /\ pc[c] = "check"
  /\ reached[c] # None
  /\ done' = [done EXCEPT ![target[c]] = Append(read[c], reached[c])]
  /\ Goto(c, "idle")
  /\ UNCHANGED <<status, stamps, target, read, reached>>

\* Mutant of CheckWrite: the list is replaced, not appended to.
CheckWriteReplace(c) ==
  /\ pc[c] = "check"
  /\ reached[c] # None
  /\ done' = [done EXCEPT ![target[c]] = <<reached[c]>>]
  /\ Goto(c, "idle")
  /\ UNCHANGED <<status, stamps, target, read, reached>>

\* One UpdateOne: the list as read with the reached key point appended and, when
\* that makes it complete, the status and completedAt.
CheckWrite(c) ==
  /\ pc[c] = "check"
  /\ reached[c] # None
  /\ LET e    == target[c]
         list == Append(read[c], reached[c])
         full == Len(list) = Cardinality(KeyPoint)
     IN  /\ done' = [done EXCEPT ![e] = list]
         /\ status' = [status EXCEPT ![e] = IF full THEN "completed" ELSE @]
         /\ stamps' = [stamps EXCEPT ![e] = IF full THEN @ \union {"completed"} ELSE @]
  /\ Goto(c, "idle")
  /\ UNCHANGED <<target, read, reached>>

-------------------------------------------------------------------------------
(* Complete and Abandon (finishExecution).                                   *)

\* FindByID: the execution must be active.
FinishRead(c, e, s) ==
  /\ pc[c] = "idle"
  /\ status[e] = "active"
  /\ target' = [target EXCEPT ![c] = e]
  /\ Goto(c, s)
  /\ UNCHANGED <<execVars, read, reached>>

\* Mutant of FinishWrite: always stamps completedAt.
FinishWriteCompleted(c) ==
  /\ pc[c] \in Final
  /\ status' = [status EXCEPT ![target[c]] = pc[c]]
  /\ stamps' = [stamps EXCEPT ![target[c]] = @ \union {"completed"}]
  /\ Goto(c, "idle")
  /\ UNCHANGED <<done, target, read, reached>>

\* UpdateOne: the status and its own timestamp.
FinishWrite(c) ==
  /\ pc[c] \in Final
  /\ status' = [status EXCEPT ![target[c]] = pc[c]]
  /\ stamps' = [stamps EXCEPT ![target[c]] = @ \union {pc[c]}]
  /\ Goto(c, "idle")
  /\ UNCHANGED <<done, target, read, reached>>

\* A repository call fails or the service stops: the call writes nothing.
Stop(c) ==
  /\ pc[c] # "idle"
  /\ Goto(c, "idle")
  /\ UNCHANGED <<execVars, target, read, reached>>

-------------------------------------------------------------------------------

ExecutionStep(c) ==
  \/ StartRead(c) \/ StartInsert(c)
  \/ \E e \in Exec : CheckRead(c, e) \/ \E s \in Final : FinishRead(c, e, s)
  \/ CheckNothing(c) \/ CheckWrite(c)
  \/ FinishWrite(c)
  \/ Stop(c)

Next == \E c \in Call : ExecutionStep(c)

Spec == Init /\ [][Next]_vars

-------------------------------------------------------------------------------
(* Properties that hold for any number of overlapping calls.                 *)

\* No key point is completed twice, although overlapping checks may both find
\* the same one near (tour_execution_service.go:122-148).
NoKeyPointTwice ==
  \A e \in Exec : Cardinality(Elements(done[e])) = Len(done[e])

\* An execution whose key points are all completed is not active any more: no
\* late write of a shorter list or of another call can leave it at that
\* (tour_execution_service.go:150-156).
FullMeansFinished ==
  \A e \in Exec : KeyPoint # {} /\ Elements(done[e]) = KeyPoint => status[e] # "active"

\* completedAt and abandonedAt tell what happened: an active execution has
\* neither, a completed one has completedAt, an abandoned one abandonedAt
\* (tour_execution_service.go:196-207).
StampsTell ==
  \A e \in Exec :
    /\ status[e] \in {"none", "active"} => stamps[e] = {}
    /\ status[e] \in Final => status[e] \in stamps[e]

-------------------------------------------------------------------------------
(* Properties that hold until calls overlap (see MCExecutionPage).           *)

\* "execution is not active" (tour_execution_service.go:111, 193): a finished
\* execution is not changed any more.  TLC refutes it when calls overlap.
FinishedKept ==
  \A e \in Exec : status[e] \in Final => UNCHANGED <<status[e], done[e], stamps[e]>>
FinishedIsFinal == [][FinishedKept]_vars

\* "Dostigli ste ključnu tačku" (you have reached the key point,
\* tour-execution.component.ts:423): what was reached stays reached.
ReachedKept == \A e \in Exec : Elements(done[e]) \subseteq Elements(done'[e])
===============================================================================
