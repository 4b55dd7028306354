------------------------- MODULE TourExecutionProofs --------------------------
(*****************************************************************************)
(* Tour executions for any number of executions, key points and overlapping  *)
(* calls; the position documents that starting one looks for; and the page   *)
(* in front of both.                                                         *)
(*                                                                           *)
(* A check writes a list it read earlier with one key point appended.  That  *)
(* list was without repetition when it was read (Fresh), so what is written  *)
(* is too, and its length tells whether it holds all key points.             *)
(*****************************************************************************)
EXTENDS MCExecutionPage, FiniteSetTheorems, TLAPS

NoRepetition(s) == Cardinality(Elements(s)) = Len(s)

\* What a check that is about to write knows of what it read.
Fresh ==
  \A c \in Call : pc[c] = "check" =>
    NoRepetition(read[c]) /\ reached[c] \notin Elements(read[c])

\* Calls in progress have an execution that exists; one that does not is blank.
Begun ==
  /\ \A c \in Call : pc[c] \in {"check"} \union Final => status[target[c]] # "none"
  /\ \A e \in Exec : status[e] = "none" => done[e] = <<>>

ExecInv ==
  /\ TypeOK /\ Fresh /\ Begun
  /\ NoKeyPointTwice /\ FullMeansFinished /\ StampsTell

\* What CheckKeyPoint appends is one more element.
LEMMA Appended ==
  ASSUME NEW s \in Seq(KeyPoint), NEW k \in KeyPoint,
         NoRepetition(s), k \notin Elements(s)
  PROVE  NoRepetition(Append(s, k))
<1>1. Elements(Append(s, k)) = Elements(s) \union {k}
  <2>1. DOMAIN s = 1..Len(s) /\ DOMAIN Append(s, k) = 1..(Len(s) + 1)
    OBVIOUS
  <2>2. \A i \in 1..Len(s) : Append(s, k)[i] = s[i]
    OBVIOUS
  <2>3. Append(s, k)[Len(s) + 1] = k
    OBVIOUS
  <2>4. Len(s) \in Nat /\ 1..(Len(s) + 1) = (1..Len(s)) \union {Len(s) + 1}
    OBVIOUS
  <2>5. QED
    BY <2>1, <2>2, <2>3, <2>4 DEF Elements
<1>2. IsFiniteSet(Elements(s))
  <2>1. Elements(s) \subseteq KeyPoint
    BY DEF Elements
  <2>2. QED
    BY <2>1, KeyPointAssumption, FS_Subset
<1>3. Cardinality(Elements(s) \union {k}) = Cardinality(Elements(s)) + 1
  BY <1>2, FS_AddElement
<1>4. Len(Append(s, k)) = Len(s) + 1
  OBVIOUS
<1>5. QED
  BY <1>1, <1>3, <1>4 DEF NoRepetition

LEMMA EmptyList == NoRepetition(<<>>) /\ Elements(<<>>) = {}
<1>1. Elements(<<>>) = {}
  BY DEF Elements
<1>2. QED
  BY <1>1, FS_EmptySet DEF NoRepetition

\* The write of CheckKeyPoint.
LEMMA CheckWriteInv ==
  ASSUME ExecInv, NEW c \in Call, CheckWrite(c)
  PROVE  ExecInv'
<1> DEFINE e == target[c]
           list == Append(read[c], reached[c])
<1>1. /\ pc[c] = "check" /\ e \in Exec
      /\ read[c] \in Seq(KeyPoint) /\ reached[c] \in KeyPoint
      /\ status[e] # "none"
  BY DEF ExecInv, TypeOK, CheckWrite, Begun
<1>2. list \in Seq(KeyPoint) /\ NoRepetition(list)
  BY <1>1, Appended DEF ExecInv, Fresh
<1>3. /\ done' = [done EXCEPT ![e] = list]
      /\ pc' = [pc EXCEPT ![c] = "idle"]
      /\ UNCHANGED <<target, read, reached>>
  BY DEF CheckWrite, Goto
<1>4. \/ /\ Len(list) = Cardinality(KeyPoint)
         /\ status' = [status EXCEPT ![e] = "completed"]
         /\ stamps' = [stamps EXCEPT ![e] = @ \union {"completed"}]
      \/ /\ Len(list) # Cardinality(KeyPoint)
         /\ status' = status /\ stamps' = stamps
  BY DEF CheckWrite, ExecInv, TypeOK
<1> HIDE DEF e, list
<1>5. TypeOK'
  <2>1. done' \in [Exec -> Seq(KeyPoint)]
    BY <1>1, <1>2, <1>3 DEF ExecInv, TypeOK
  <2>2. pc' \in [Call -> PC]
    BY <1>3 DEF ExecInv, TypeOK, PC
  <2>3. status' \in [Exec -> Status] /\ stamps' \in [Exec -> SUBSET Final]
    <3>1. status \in [Exec -> Status] /\ stamps \in [Exec -> SUBSET Final] /\ e \in Exec
      BY <1>1 DEF ExecInv, TypeOK
    <3>2. "completed" \in Status /\ stamps[e] \union {"completed"} \in SUBSET Final
      BY <3>1 DEF Status, Final
    <3>3. QED
      BY <1>4, <3>1, <3>2
  <2>4. QED
    BY <1>3, <2>1, <2>2, <2>3 DEF ExecInv, TypeOK
<1>6. Fresh'
  BY <1>3 DEF ExecInv, TypeOK, Fresh
<1>7. Begun'
  BY <1>1, <1>3, <1>4 DEF ExecInv, TypeOK, Begun, Final
<1>8. NoKeyPointTwice'
  BY <1>1, <1>2, <1>3 DEF ExecInv, TypeOK, NoKeyPointTwice, NoRepetition
<1>9. FullMeansFinished'
  <2>1. Elements(list) = KeyPoint => Len(list) = Cardinality(KeyPoint)
    BY <1>2 DEF NoRepetition
  <2>2. QED
    BY <1>1, <1>3, <1>4, <2>1 DEF ExecInv, TypeOK, FullMeansFinished
<1>10. StampsTell'
  BY <1>1, <1>4 DEF ExecInv, TypeOK, StampsTell, Final
<1>11. QED
  BY <1>5, <1>6, <1>7, <1>8, <1>9, <1>10 DEF ExecInv

\* Everything but CheckKeyPoint's write leaves the lists alone.
LEMMA OtherStepInv ==
  ASSUME ExecInv, NEW c \in Call,
         \/ StartRead(c) \/ StartInsert(c)
         \/ \E e \in Exec : CheckRead(c, e) \/ \E s \in Final : FinishRead(c, e, s)
         \/ CheckNothing(c) \/ FinishWrite(c) \/ Stop(c)
  PROVE  ExecInv'
<1> USE DEF ExecInv, TypeOK, Fresh, Begun, NoKeyPointTwice, FullMeansFinished,
            StampsTell, execVars, Goto, PC, Status, Final
<1>1. CASE StartRead(c)
  BY <1>1 DEF StartRead
<1>2. CASE StartInsert(c)
  <2>1. PICK e \in Exec : /\ status[e] = "none"
                          /\ status' = [status EXCEPT ![e] = "active"]
    BY <1>2 DEF StartInsert
  <2>2. done[e] = <<>> /\ (KeyPoint # {} => Elements(done[e]) # KeyPoint)
    BY <2>1, EmptyList
  <2>3. QED
    BY <1>2, <2>1, <2>2 DEF StartInsert
<1>3. ASSUME NEW e \in Exec, CheckRead(c, e) PROVE ExecInv'
  <2>1. NoRepetition(done[e])
    BY DEF NoRepetition
  <2>2. PICK k \in (KeyPoint \ Elements(done[e])) \union {None} :
          reached' = [reached EXCEPT ![c] = k]
    BY <1>3 DEF CheckRead
  <2>3. k \notin Elements(done[e])
    <3>1. Elements(done[e]) \subseteq KeyPoint
      BY DEF Elements
    <3>2. QED
      BY <2>2, <3>1, NoneAssumption
  <2>4. Fresh' /\ TypeOK'
    BY <1>3, <2>1, <2>2, <2>3 DEF CheckRead
  <2>5. QED
    BY <1>3, <2>4 DEF CheckRead
<1>4. ASSUME NEW e \in Exec, NEW s \in Final, FinishRead(c, e, s) PROVE ExecInv'
  BY <1>4 DEF FinishRead
<1>5. CASE CheckNothing(c)
  BY <1>5 DEF CheckNothing
<1>6. CASE FinishWrite(c)
  BY <1>6 DEF FinishWrite
<1>7. CASE Stop(c)
  BY <1>7 DEF Stop
<1>8. QED
  BY <1>1, <1>2, <1>3, <1>4, <1>5, <1>6, <1>7

\* A step of the service keeps the invariant.
LEMMA ExecStep ==
  ASSUME ExecInv, [Next]_vars
  PROVE  ExecInv'
<1>1. CASE Next
  <2>1. PICK c \in Call :
          \/ CheckWrite(c)
          \/ \/ StartRead(c) \/ StartInsert(c)
             \/ \E e \in Exec : CheckRead(c, e) \/ \E s \in Final : FinishRead(c, e, s)
             \/ CheckNothing(c) \/ FinishWrite(c) \/ Stop(c)
    BY <1>1 DEF Next, ExecutionStep
  <2> QED  BY <2>1, CheckWriteInv, OtherStepInv
<1>2. CASE UNCHANGED vars
  BY <1>2 DEF vars, execVars, callVars, ExecInv, TypeOK, Fresh, Begun,
              NoKeyPointTwice, FullMeansFinished, StampsTell
<1> QED  BY <1>1, <1>2

LEMMA ExecStart == Init => ExecInv
<1> SUFFICES ASSUME Init PROVE ExecInv
  OBVIOUS
<1>1. TypeOK
  BY DEF Init, TypeOK, PC, Status
<1>2. \A e \in Exec : NoRepetition(done[e]) /\ Elements(done[e]) = {}
  BY EmptyList DEF Init
<1> QED
  BY <1>1, <1>2
  DEF Init, ExecInv, Fresh, Begun, NoKeyPointTwice, NoRepetition,
      FullMeansFinished, StampsTell, Final

\* The inductive invariant of the executions, whatever calls overlap.
THEOREM Executions == Spec => []ExecInv
BY ExecStart, ExecStep, PTL DEF Spec

\* The documents and the calls keep their types.
THEOREM ExecTyping == Spec => []TypeOK
<1>1. ExecInv => TypeOK
  BY DEF ExecInv
<1>2. QED
  BY <1>1, Executions, PTL

\* However many CheckKeyPoint calls overlap, none completes a key point again.
THEOREM CompletedOnce == Spec => []NoKeyPointTwice
<1>1. ExecInv => NoKeyPointTwice
  BY DEF ExecInv
<1>2. QED
  BY <1>1, Executions, PTL

\* An execution with all key points completed is never left active.
THEOREM FullIsFinished == Spec => []FullMeansFinished
<1>1. ExecInv => FullMeansFinished
  BY DEF ExecInv
<1>2. QED
  BY <1>1, Executions, PTL

\* completedAt and abandonedAt agree with the status.
THEOREM StampsAgree == Spec => []StampsTell
<1>1. ExecInv => StampsTell
  BY DEF ExecInv
<1>2. QED
  BY <1>1, Executions, PTL

-------------------------------------------------------------------------------
(* The position documents of a tourist, for any number of updates at once.   *)

LEMMA Finiteness ==
  ASSUME PositionsTypeOK
  PROVE  /\ IsFiniteSet(documents) /\ Cardinality(documents) \in Nat
         /\ IsFiniteSet(Upserting) /\ Cardinality(Upserting) \in Nat
         /\ Cardinality(Upserting) <= Cardinality(Updater)
         /\ Cardinality(Updater) \in Nat
<1>1. documents \subseteq Document /\ Upserting \subseteq Updater
  BY DEF PositionsTypeOK, Upserting
<1>2. IsFiniteSet(documents) /\ IsFiniteSet(Upserting)
  BY <1>1, FS_Subset, DocumentAssumption, UpdaterAssumption
<1>3. Cardinality(Upserting) <= Cardinality(Updater)
  BY <1>1, FS_Subset, UpdaterAssumption
<1> QED  BY <1>2, <1>3, FS_CardinalityType, UpdaterAssumption

\* A step keeps the types.
LEMMA TypesKept ==
  ASSUME PositionsTypeOK, [PositionsNext]_positionVars
  PROVE  PositionsTypeOK'
<1>1. CASE UNCHANGED positionVars
  BY <1>1 DEF PositionsTypeOK, positionVars
<1>2. ASSUME NEW u \in Updater, PositionStep(u)  PROVE PositionsTypeOK'
  BY <1>2 DEF PositionsTypeOK, PositionStep, UpsertFind, UpsertInsert, UpdateRead, UpdateFails
<1> QED  BY <1>1, <1>2 DEF PositionsNext

\* A step keeps the bound: an update that starts to insert found no document, so the
\* pending insertions are all there is to count.
LEMMA BoundKept ==
  ASSUME PositionsTypeOK, FewDocuments, [PositionsNext]_positionVars
  PROVE  FewDocuments'
<1>0. PositionsTypeOK'
  BY TypesKept
<1>1. /\ IsFiniteSet(documents) /\ Cardinality(documents) \in Nat
      /\ IsFiniteSet(Upserting) /\ Cardinality(Upserting) \in Nat
      /\ Cardinality(Updater) \in Nat
  BY Finiteness
<1>2. Cardinality(Upserting') \in Nat /\ Cardinality(Upserting') <= Cardinality(Updater)
  <2>1. Upserting' \subseteq Updater
    BY DEF Upserting
  <2> QED  BY <2>1, FS_Subset, FS_CardinalityType, UpdaterAssumption
<1>3. Cardinality(documents) + Cardinality(Upserting) <= Cardinality(Updater)
  BY DEF FewDocuments
<1>4. ASSUME documents' = documents, Upserting' \subseteq Upserting
      PROVE  FewDocuments'
  <2>1. Cardinality(Upserting') <= Cardinality(Upserting)
    BY <1>1, <1>4, FS_Subset
  <2> QED  BY <1>1, <1>2, <1>3, <1>4, <2>1 DEF FewDocuments
<1>5. CASE UNCHANGED positionVars
  BY <1>4, <1>5 DEF positionVars, Upserting
<1>6. ASSUME NEW u \in Updater, UpsertFind(u)  PROVE FewDocuments'
  <2>1. CASE documents = {}
    <3>1. Cardinality(documents') = 0
      BY <1>6, <2>1, FS_EmptySet DEF UpsertFind
    <3> QED  BY <1>1, <1>2, <3>1 DEF FewDocuments
  <2>2. CASE documents # {}
    <3>1. documents' = documents /\ Upserting' \subseteq Upserting
      BY <1>6, <2>2 DEF UpsertFind, Upserting, PositionsTypeOK
    <3> QED  BY <1>4, <3>1
  <2> QED  BY <2>1, <2>2
<1>7. ASSUME NEW u \in Updater, UpsertInsert(u)  PROVE FewDocuments'
  <2>1. PICK d \in Document \ documents : documents' = documents \union {d}
    BY <1>7 DEF UpsertInsert
  <2>2. Cardinality(documents') = Cardinality(documents) + 1
    BY <1>1, <2>1, FS_AddElement
  <2>3. Upserting' = Upserting \ {u} /\ u \in Upserting
    BY <1>7 DEF UpsertInsert, Upserting, PositionsTypeOK
  <2>4. Cardinality(Upserting') = Cardinality(Upserting) - 1
    BY <1>1, <2>3, FS_RemoveElement
  <2> QED  BY <1>1, <1>3, <2>2, <2>4 DEF FewDocuments
<1>8. ASSUME NEW u \in Updater, UpdateRead(u) \/ UpdateFails(u)  PROVE FewDocuments'
  <2>1. documents' = documents /\ Upserting' \subseteq Upserting
    BY <1>8 DEF UpdateRead, UpdateFails, Upserting, PositionsTypeOK
  <2> QED  BY <1>4, <2>1
<1> QED  BY <1>5, <1>6, <1>7, <1>8 DEF PositionsNext, PositionStep

\* However many updates overlap, a tourist has no more position documents than there
\* are updates at once (tourist_position_repository.go:38-40).
THEOREM FewPositions == PositionsSpec => []FewDocuments
<1>1. PositionsInit => PositionsTypeOK /\ FewDocuments
  <2> SUFFICES ASSUME PositionsInit PROVE PositionsTypeOK /\ FewDocuments
    OBVIOUS
  <2>1. PositionsTypeOK
    BY DEF PositionsInit, PositionsTypeOK
  <2>2. documents = {} /\ Upserting = {}
    BY DEF PositionsInit, Upserting
  <2> QED  BY <2>1, <2>2, FS_EmptySet, FS_CardinalityType, UpdaterAssumption DEF FewDocuments
<1>2. PositionsTypeOK /\ FewDocuments /\ [PositionsNext]_positionVars
        => (PositionsTypeOK /\ FewDocuments)'
  BY TypesKept, BoundKept
<1> QED  BY <1>1, <1>2, PTL DEF PositionsSpec

-------------------------------------------------------------------------------
(* The page: what its slots hold, whatever is in flight.                     *)

Views == {v \in [exec : Exec \union {None}, status : Status, done : Seq(KeyPoint)] :
            v.status # "none" => v.exec \in Exec}

PageTypeOK ==
  /\ page \in {"new", "open", "left"}
  /\ shown \in Views
  /\ keyPoints \in BOOLEAN /\ polling \in BOOLEAN /\ checking \in BOOLEAN
  /\ role \in [Call -> Role]
  /\ got \in [Call -> [state : {"pending", "ok", "error"}, view : Views]]
  /\ \A c \in Call : role[c] \in {"show", "check", "finish"} /\ got[c].state # "error"
       => got[c].view.exec \in Exec /\ (role[c] = "finish" => got[c].view.status \in Final)

\* A slot works on what its request asked for, and its answer is pending meanwhile.
Slot(c) ==
  /\ upsert[c] # "idle" =>
       pc[c] = "idle" /\ (role[c] = "none" \/ Asked(c, "position"))
  /\ pc[c] = "insert" /\ role[c] # "none" => Asked(c, "start")
  /\ pc[c] = "check" /\ role[c] # "none" =>
       Asked(c, "check") /\ target[c] = got[c].view.exec
  /\ pc[c] \in Final /\ role[c] # "none" =>
       Asked(c, "finish") /\ target[c] = got[c].view.exec /\ pc[c] = got[c].view.status

\* The requests from the opening of the page to its key points: one at a time, once.
Opening == {"show", "position", "start", "keyPoints"}
OpeningInv ==
  /\ page = "new" => shown = NoView /\ \A c \in Call : role[c] = "none"
  /\ page = "new" \/ (\E c \in Call : role[c] \in Opening) => keyPoints = FALSE
  /\ \A c, d \in Call : role[c] \in Opening /\ role[d] \in Opening => c = d

\* A page that was left polls only if its key points came later.
LeftInv ==
  /\ page = "new" => polling = FALSE
  /\ page = "left" /\ polling => late

\* Whoever has asked to finish is known to have.
FinishingInv == \A c \in Call : role[c] = "finish" => finishing

\* An undisturbed page has one request at most, and the service works for it alone.
OneRequest ==
  /\ \A c, d \in Call : role[c] # "none" /\ role[d] # "none" => c = d
  /\ \A c \in Call : role[c] = "none" => pc[c] = "idle"

Stored(e) == View(e, status[e], done[e])
Told(c, r) == role[c] \in r /\ got[c].state = "ok"

\* What an undisturbed page shows is stored, unless an answer brings the news; and
\* handlers hold what is stored.
Truth(c) ==
  /\ Told(c, {"show", "start", "check", "finish"}) => got[c].view = Stored(got[c].view.exec)
  /\ pc[c] = "check" => read[c] = done[target[c]] /\ status[target[c]] = "active"
  /\ pc[c] \in Final => got[c].view.done = done[target[c]]
  /\ role[c] \in {"show", "position", "start"} => shown = NoView
  /\ role[c] = "check" => shown.status = "active"

TruthInv ==
  /\ \A c \in Call : Truth(c)
  /\ ShownIsStored \/ \E c \in Call : Told(c, {"check", "finish"})

WaitingInv == ~disturbed => OneRequest /\ TruthInv
PollInv == ~disturbed /\ ~finishing => ActiveIsPolled

SlotInv == \A c \in Call : Slot(c)

\* What the page does leaves the service alone, and the other way round.
LEMMA PageKeepsService ==
  ASSUME NEW c \in Call, PageStep(c) \/ Leave
  PROVE  UNCHANGED <<vars, positionVars>>
BY DEF PageStep, OpenExisting, OpenStart, Poll, ManualCheck, Finish, ShowExecution, PositionSaved,
       KeyPointsLoaded, CheckAnswered, FinishAnswered, ErrorShown, AnswerLost, Leave

LEMMA ServiceKeepsPage ==
  ASSUME NEW c \in Call, ServiceStep(c), PageTypeOK
  PROVE  /\ PageIdle /\ role[c] # "none" /\ got[c].state = "pending"
         /\ \A d \in Call \ {c} : got'[d] = got[d]
         /\ ExecutionStep(c) \/ UNCHANGED vars
         /\ PositionStep(c) \/ UNCHANGED positionVars
<1> USE DEF Asked, Answer, PageTypeOK
<1>1. CASE ServeShow(c)
  BY <1>1 DEF ServeShow
<1>2. CASE ServeKeyPoints(c)
  BY <1>2 DEF ServeKeyPoints
<1>3. CASE ServePosition(c)
  BY <1>3 DEF ServePosition, PositionStep
<1>4. CASE ServeStart(c)
  BY <1>4 DEF ServeStart, ExecutionStep
<1>5. CASE ServeCheck(c)
  <2> DEFINE e == got[c].view.exec
  <2>1. e \in Exec
    BY <1>5 DEF ServeCheck
  <2> QED  BY <1>5, <2>1 DEF ServeCheck, ExecutionStep
<1>6. CASE ServeFinish(c)
  <2> DEFINE e == got[c].view.exec
             s == got[c].view.status
  <2>1. e \in Exec /\ s \in Final
    BY <1>6 DEF ServeFinish
  <2> QED  BY <1>6, <2>1 DEF ServeFinish, ExecutionStep
<1>7. CASE ServeFails(c)
  BY <1>7 DEF ServeFails, ExecutionStep, PositionStep
<1> QED  BY <1>1, <1>2, <1>3, <1>4, <1>5, <1>6, <1>7 DEF ServiceStep

\* The kinds of steps: the page's, the service's for the page, and for others.
LEMMA StepKinds ==
  ASSUME PageTypeOK, [PageNext]_everything
  PROVE  \/ UNCHANGED everything
         \/ Leave
         \/ \E c \in Call : PageStep(c) \/ ServiceStep(c)
                              \/ (OtherStep(c) /\ UNCHANGED pageVars)
BY DEF PageNext, OtherStep

\* Steps of the page are steps of the service, or leave it alone.
LEMMA ServiceParts ==
  ASSUME PageTypeOK, [PageNext]_everything
  PROVE  [Next]_vars /\ [PositionsNext]_positionVars
<1>1. CASE UNCHANGED everything
  BY <1>1 DEF everything
<1>2. CASE Leave
  BY <1>2 DEF Leave
<1>3. ASSUME NEW c \in Call, PageStep(c)
      PROVE  [Next]_vars /\ [PositionsNext]_positionVars
  BY <1>3, PageKeepsService
<1>4. ASSUME NEW c \in Call, ServiceStep(c)
      PROVE  [Next]_vars /\ [PositionsNext]_positionVars
  BY <1>4, ServiceKeepsPage, SlotAssumption DEF Next, PositionsNext
<1>5. ASSUME NEW c \in Call, OtherStep(c)
      PROVE  [Next]_vars /\ [PositionsNext]_positionVars
  BY <1>5, SlotAssumption DEF OtherStep, Next, PositionsNext
<1> QED  BY <1>1, <1>2, <1>3, <1>4, <1>5, StepKinds

LEMMA ViewsOf ==
  /\ NoView \in Views
  /\ \A e \in Exec, s \in Status, l \in Seq(KeyPoint) :
       /\ View(e, s, l) \in Views
       /\ View(e, s, l).exec = e /\ View(e, s, l).status = s /\ View(e, s, l).done = l
  /\ \A v \in Views : /\ v.status \in Status /\ v.done \in Seq(KeyPoint)
                      /\ v.status # "none" => v.exec \in Exec
                      /\ \A s \in Final : v.exec \in Exec => [v EXCEPT !.status = s] \in Views
  /\ NoView.status = "none"
  /\ <<>> \in Seq(KeyPoint) /\ {"none", "active", "completed", "abandoned"} \subseteq Status
BY DEF Views, NoView, View, Status, Final

\* A slot gets a request or an answer.
LEMMA SlotTyped ==
  ASSUME PageTypeOK, NEW c \in Call, NEW r \in Role, NEW a, role' = [role EXCEPT ![c] = r],
         got' = [got EXCEPT ![c] = a],
         a \in [state : {"pending", "ok", "error"}, view : Views],
         r \in {"show", "check", "finish"} /\ a.state # "error" => a.view.exec \in Exec,
         r = "finish" /\ a.state # "error" => a.view.status \in Final
  PROVE  /\ role' \in [Call -> Role]
         /\ got' \in [Call -> [state : {"pending", "ok", "error"}, view : Views]]
         /\ \A d \in Call : role'[d] \in {"show", "check", "finish"} /\ got'[d].state # "error"
              => got'[d].view.exec \in Exec /\ (role'[d] = "finish" => got'[d].view.status \in Final)
BY DEF PageTypeOK

LEMMA AnswersOf ==
  /\ Refused \in [state : {"pending", "ok", "error"}, view : Views] /\ Refused.state = "error"
  /\ \A v \in Views :
       /\ Pending(v) \in [state : {"pending", "ok", "error"}, view : Views]
       /\ Pending(v).state = "pending" /\ Pending(v).view = v
       /\ Answered(v) \in [state : {"pending", "ok", "error"}, view : Views]
       /\ Answered(v).state = "ok" /\ Answered(v).view = v
BY ViewsOf DEF Refused, Pending, Answered

LEMMA PageStepTyped ==
  ASSUME PageTypeOK, TypeOK, NEW c \in Call, PageStep(c)
  PROVE  PageTypeOK'
<1>0. ASSUME NEW r \in {"show", "check", "finish"}, NEW v \in Views, Send(c, r, v),
             v.exec \in Exec, r = "finish" => v.status \in Final,
             page' \in {"new", "open", "left"}, UNCHANGED <<shown, keyPoints>>,
             polling' \in BOOLEAN, checking' \in BOOLEAN
      PROVE  PageTypeOK'
  BY <1>0, SlotTyped, AnswersOf DEF Send, PageTypeOK, Role
<1>1. CASE OpenExisting(c)
  <2>1. PICK e \in Exec : Send(c, "show", View(e, "none", <<>>))
    BY <1>1 DEF OpenExisting
  <2> DEFINE v == View(e, "none", <<>>)
  <2>2. v \in Views /\ v.exec = e
    BY DEF Views, View, Status
  <2> HIDE DEF v
  <2>3. Send(c, "show", v)
    BY <2>1 DEF v
  <2> QED  BY <1>0, <1>1, <2>2, <2>3 DEF OpenExisting, PageTypeOK
<1>2. CASE OpenStart(c)
  BY <1>2, SlotTyped, AnswersOf, ViewsOf DEF OpenStart, Send, PageTypeOK, Role
<1>3. CASE Poll(c) \/ ManualCheck(c)
  <2>1. CASE role' = role /\ got' = got
    BY <1>3, <2>1 DEF Poll, ManualCheck, PageTypeOK
  <2>2. CASE shown.status = "active" /\ Send(c, "check", shown)
    <3>1. shown \in Views /\ shown.exec \in Exec
      BY <2>2, ViewsOf DEF PageTypeOK
    <3> QED  BY <1>3, <2>2, <3>1, SlotTyped, AnswersOf DEF Poll, ManualCheck, Send, PageTypeOK, Role
  <2> QED  BY <1>3, <2>1, <2>2 DEF Poll, ManualCheck
<1>4. ASSUME NEW s \in Final, Finish(c, s)
      PROVE  PageTypeOK'
  <2> DEFINE v == [shown EXCEPT !.status = s]
  <2>1. shown \in Views /\ shown.exec \in Exec
    BY <1>4, ViewsOf DEF PageTypeOK, Finish
  <2>2. v \in Views /\ v.exec \in Exec /\ v.status = s
    BY <2>1, ViewsOf DEF Views
  <2> HIDE DEF v
  <2>3. Send(c, "finish", v)
    BY <1>4 DEF v, Finish
  <2> QED  BY <1>0, <1>4, <2>2, <2>3 DEF Finish, PageTypeOK
<1>5. CASE ShowExecution(c) \/ PositionSaved(c) \/ KeyPointsLoaded(c) \/ CheckAnswered(c)
             \/ FinishAnswered(c) \/ ErrorShown(c) \/ AnswerLost(c)
  <2>1. shown' \in Views /\ page' = page
        /\ keyPoints' \in BOOLEAN /\ polling' \in BOOLEAN /\ checking' \in BOOLEAN
    BY <1>5 DEF PageTypeOK, ShowExecution, PositionSaved, KeyPointsLoaded, CheckAnswered,
                FinishAnswered, ErrorShown, AnswerLost
  <2>2. PICK r \in {"keyPoints", "start", "none"} : Handle(c, r)
    BY <1>5 DEF ShowExecution, PositionSaved, KeyPointsLoaded, CheckAnswered,
                FinishAnswered, ErrorShown, AnswerLost
  <2> QED  BY <2>1, <2>2, SlotTyped, AnswersOf, ViewsOf DEF Handle, PageTypeOK, Role
<1> QED  BY <1>1, <1>2, <1>3, <1>4, <1>5 DEF PageStep

LEMMA ServiceStepTyped ==
  ASSUME PageTypeOK, TypeOK, TypeOK', NEW c \in Call, ServiceStep(c)
  PROVE  PageTypeOK'
<1> DEFINE e == got[c].view.exec
           v == got[c].view
<1>1. v \in Views /\ PageIdle /\ role[c] \in Role /\ role' = [role EXCEPT ![c] = role[c]]
  BY ServiceKeepsPage DEF PageTypeOK, PageIdle
<1>2. ASSUME NEW w \in Views, \/ Answer(c, Answered(w)) \/ Answer(c, Pending(w)),
             role[c] \in {"show", "check", "finish"} => w.exec \in Exec,
             role[c] = "finish" => w.status \in Final
      PROVE  PageTypeOK'
  BY <1>1, <1>2, SlotTyped, AnswersOf DEF PageTypeOK, PageIdle, Answer
<1>3. ASSUME Answer(c, Refused) \/ UNCHANGED got
      PROVE  PageTypeOK'
  <2>1. CASE Answer(c, Refused)
    BY <1>1, <2>1, SlotTyped, AnswersOf DEF PageTypeOK, PageIdle, Answer
  <2>2. CASE UNCHANGED got
    BY <1>1, <2>2 DEF PageTypeOK, PageIdle
  <2> QED  BY <1>3, <2>1, <2>2
<1>4. role[c] \in {"show", "check", "finish"} => e \in Exec /\ (role[c] = "finish" => v.status \in Final)
  BY ServiceKeepsPage DEF PageTypeOK
<1>5. \A x \in Exec : status[x] \in Status /\ done[x] \in Seq(KeyPoint)
  BY DEF TypeOK
<1>6. CASE ServeShow(c)
  <2>1. View(e, status[e], done[e]) \in Views /\ View(e, status[e], done[e]).exec = e
    BY <1>4, <1>5, <1>6, ViewsOf DEF ServeShow, Asked
  <2> QED  BY <1>2, <1>4, <1>6, <2>1 DEF ServeShow, Asked
<1>7. CASE ServeKeyPoints(c)
  BY <1>2, <1>7, ViewsOf DEF ServeKeyPoints, Asked
<1>8. CASE ServePosition(c)
  BY <1>2, <1>3, <1>8, ViewsOf DEF ServePosition, Asked
<1>9. CASE ServeStart(c)
  <2>1. \A x \in Exec : View(x, "active", <<>>) \in Views
    <3>1. <<>> \in Seq(KeyPoint) /\ "active" \in Status
      BY ViewsOf
    <3> QED  BY <3>1, ViewsOf
  <2> QED  BY <1>2, <1>3, <1>9, <2>1 DEF ServeStart, Asked
<1>10. CASE ServeCheck(c)
  <2>1. role[c] = "check" /\ e \in Exec
    BY <1>4, <1>10 DEF ServeCheck, Asked
  <2>2. ASSUME NEW l \in Seq(KeyPoint), NEW s \in {"active", "completed"}
        PROVE  View(e, s, l) \in Views /\ View(e, s, l).exec = e
    BY <2>1, ViewsOf DEF Status, Final
  <2>3. CASE CheckNothing(c) /\ Answer(c, Answered(View(e, "active", read[c])))
    <3>1. read[c] \in Seq(KeyPoint)
      BY DEF TypeOK
    <3> QED  BY <1>2, <2>1, <2>2, <2>3, <3>1
  <2>4. CASE CheckWrite(c) /\ Answer(c, Answered(View(e, CheckedStatus(c), Checked(c))))
    <3>1. Checked(c) \in Seq(KeyPoint) /\ CheckedStatus(c) \in {"active", "completed"}
      BY <2>4 DEF TypeOK, CheckWrite, Checked, CheckedStatus
    <3> QED  BY <1>2, <2>1, <2>2, <2>4, <3>1
  <2> QED  BY <1>3, <1>10, <2>3, <2>4 DEF ServeCheck
<1>11. CASE ServeFinish(c)
  <2>1. role[c] = "finish" /\ e \in Exec /\ v.status \in Final
    BY <1>4, <1>11 DEF ServeFinish, Asked
  <2>2. View(e, v.status, done[e]) \in Views /\ View(e, v.status, done[e]).exec = e
        /\ View(e, v.status, done[e]).status = v.status
    BY <1>5, <2>1, ViewsOf DEF Status
  <2> QED  BY <1>1, <1>2, <1>3, <1>11, <2>1, <2>2 DEF ServeFinish
<1>12. CASE ServeFails(c)
  BY <1>3, <1>12 DEF ServeFails
<1> QED  BY <1>6, <1>7, <1>8, <1>9, <1>10, <1>11, <1>12 DEF ServiceStep

\* What the page shows and is told keeps its type.
LEMMA PageTyped ==
  ASSUME PageTypeOK, TypeOK, TypeOK', [PageNext]_everything
  PROVE  PageTypeOK'
<1>1. CASE UNCHANGED pageVars
  BY <1>1 DEF pageVars, PageTypeOK
<1>2. CASE Leave
  BY <1>2 DEF Leave, PageTypeOK
<1> QED  BY <1>1, <1>2, PageStepTyped, ServiceStepTyped, StepKinds DEF everything

AllTypesOK == TypeOK /\ PositionsTypeOK /\ PageTypeOK

\* A step in one slot leaves the others.
Same(d) ==
  /\ pc'[d] = pc[d] /\ target'[d] = target[d] /\ read'[d] = read[d]
  /\ upsert'[d] = upsert[d] /\ role'[d] = role[d] /\ got'[d] = got[d]

LEMMA Elsewhere ==
  ASSUME AllTypesOK, NEW c \in Call,
         PageStep(c) \/ ServiceStep(c) \/ (OtherStep(c) /\ UNCHANGED pageVars),
         NEW d \in Call \ {c}
  PROVE  Same(d)
<1> USE DEF AllTypesOK
<1>1. ASSUME ExecutionStep(c) \/ UNCHANGED vars
      PROVE  pc'[d] = pc[d] /\ target'[d] = target[d] /\ read'[d] = read[d]
  BY <1>1 DEF ExecutionStep, StartRead, StartInsert, CheckRead, FinishRead, CheckNothing,
              CheckWrite, FinishWrite, Stop, Goto, TypeOK, vars, callVars
<1>2. ASSUME PositionStep(c) \/ UNCHANGED positionVars
      PROVE  upsert'[d] = upsert[d]
  BY <1>2, SlotAssumption
  DEF PositionStep, UpsertFind, UpsertInsert, UpdateRead, UpdateFails, positionVars, PositionsTypeOK
<1>3. CASE PageStep(c)
  <2>1. role'[d] = role[d] /\ got'[d] = got[d]
    BY <1>3 DEF PageStep, OpenExisting, OpenStart, Poll, ManualCheck, Finish, ShowExecution,
                PositionSaved, KeyPointsLoaded, CheckAnswered, FinishAnswered, ErrorShown,
                AnswerLost, Send, Handle, PageTypeOK
  <2> QED  BY <1>1, <1>2, <1>3, <2>1, PageKeepsService DEF Same
<1>4. CASE ServiceStep(c)
  BY <1>1, <1>2, <1>4, ServiceKeepsPage DEF Same, PageIdle
<1>5. CASE OtherStep(c) /\ UNCHANGED pageVars
  BY <1>1, <1>2, <1>5 DEF Same, OtherStep, pageVars
<1> QED  BY <1>3, <1>4, <1>5

\* A slot whose request is answered, or that has none, is not worked on.
LEMMA IdleWhenAnswered ==
  ASSUME AllTypesOK, NEW c \in Call, Slot(c), role[c] # "none", got[c].state # "pending"
  PROVE  pc[c] = "idle" /\ upsert[c] = "idle"
BY DEF AllTypesOK, TypeOK, PC, Slot, Asked

LEMMA PageStepSlot ==
  ASSUME AllTypesOK, NEW c \in Call, Slot(c), PageStep(c)
  PROVE  Slot(c)'
<1>0. pc' = pc /\ upsert' = upsert /\ target' = target
  BY PageKeepsService DEF vars, callVars, positionVars
<1>1. ASSUME pc[c] = "idle" /\ upsert[c] = "idle"
      PROVE  Slot(c)'
  BY <1>0, <1>1 DEF Slot, Final
<1>2. CASE Free(c)
  BY <1>1, <1>2 DEF Free
<1>3. CASE role[c] # "none" /\ got[c].state # "pending"
  BY <1>1, <1>3, IdleWhenAnswered
<1>4. CASE role' = role /\ got' = got
  BY <1>0, <1>4 DEF Slot, Asked
<1>5. CASE AnswerLost(c)
  <2>1. role'[c] = "none"
    BY <1>5 DEF AnswerLost, Handle, AllTypesOK, PageTypeOK
  <2> QED  BY <1>0, <2>1 DEF Slot
<1> QED
  BY <1>2, <1>3, <1>4, <1>5
  DEF PageStep, OpenExisting, OpenStart, Poll, ManualCheck, Finish, ShowExecution, PositionSaved,
      KeyPointsLoaded, CheckAnswered, FinishAnswered, ErrorShown, Send, Arrived

LEMMA ServiceStepSlot ==
  ASSUME AllTypesOK, NEW c \in Call, Slot(c), ServiceStep(c)
  PROVE  Slot(c)'
<1>0. role' = role /\ role[c] # "none" /\ got[c].state = "pending"
  BY ServiceKeepsPage DEF AllTypesOK, PageIdle
<1> USE DEF AllTypesOK, TypeOK, PositionsTypeOK, PageTypeOK, Slot, Asked, Answer, Goto,
            positionVars, vars, callVars
<1>1. CASE ServeShow(c) \/ ServeKeyPoints(c)
  <2>1. pc'[c] = "idle" /\ upsert'[c] = "idle"
    BY <1>1 DEF ServeShow, ServeKeyPoints, PC
  <2> QED  BY <2>1 DEF Final
<1>2. CASE ServePosition(c)
  BY <1>0, <1>2, SlotAssumption
  DEF ServePosition, UpsertFind, UpsertInsert, UpdateRead, Final, PC
<1>3. CASE ServeStart(c)
  BY <1>0, <1>3 DEF ServeStart, StartRead, StartInsert, Final, PC
<1>4. CASE ServeCheck(c)
  BY <1>0, <1>4 DEF ServeCheck, CheckRead, CheckNothing, CheckWrite, Final, PC
<1>5. CASE ServeFinish(c)
  BY <1>0, <1>5 DEF ServeFinish, FinishRead, FinishWrite, Final, PC, Pending, View
<1>6. CASE ServeFails(c)
  <2>1. pc'[c] = "idle" /\ upsert'[c] = "idle"
    BY <1>6, SlotAssumption DEF ServeFails, Stop, UpdateFails
  <2> QED  BY <2>1 DEF Final
<1> QED  BY <1>1, <1>2, <1>3, <1>4, <1>5, <1>6 DEF ServiceStep

\* Slots keep to what was asked for.
LEMMA SlotKept ==
  ASSUME AllTypesOK, SlotInv, [PageNext]_everything
  PROVE  SlotInv'
<1>1. CASE UNCHANGED everything
  BY <1>1 DEF everything, vars, callVars, positionVars, pageVars, SlotInv, Slot, Asked
<1>2. CASE Leave
  BY <1>2 DEF Leave, vars, callVars, positionVars, SlotInv, Slot, Asked
<1>3. ASSUME NEW c \in Call,
             PageStep(c) \/ ServiceStep(c) \/ (OtherStep(c) /\ UNCHANGED pageVars)
      PROVE  SlotInv'
  <2>1. ASSUME NEW d \in Call \ {c}  PROVE Slot(d)'
    <3>1. Same(d) /\ Slot(d)
      BY <1>3, Elsewhere DEF SlotInv
    <3> QED  BY <3>1 DEF Same, Slot, Asked
  <2>2. Slot(c)'
    <3>1. CASE OtherStep(c) /\ UNCHANGED pageVars
      <4>1. role'[c] = "none"
        BY <3>1 DEF OtherStep, pageVars
      <4>2. upsert'[c] # "idle" => pc'[c] = "idle"
        BY <3>1 DEF OtherStep, positionVars, vars, callVars
      <4> QED  BY <4>1, <4>2 DEF Slot
    <3> QED  BY <1>3, <3>1, PageStepSlot, ServiceStepSlot DEF SlotInv
  <2> QED  BY <2>1, <2>2 DEF SlotInv
<1> QED  BY <1>1, <1>2, <1>3, StepKinds DEF AllTypesOK

-------------------------------------------------------------------------------
(* The page: its opening and its timer, whatever is in flight.               *)

LEMMA PageStepOpening ==
  ASSUME PageTypeOK, OpeningInv, LeftInv, MCNext, NEW c \in Call, PageStep(c)
  PROVE  OpeningInv' /\ LeftInv'
<1>0. late' = (late \/ (page = "left" /\ keyPoints' # keyPoints))
  BY DEF MCNext
<1>1. CASE OpenExisting(c) \/ OpenStart(c)
  <2>1. /\ page = "new" /\ page' = "open" /\ keyPoints' = keyPoints
        /\ \A d \in Call \ {c} : role'[d] = role[d]
    BY <1>1 DEF OpenExisting, OpenStart, Send, PageTypeOK
  <2> QED  BY <2>1 DEF OpeningInv, LeftInv, Opening
<1>2. CASE Poll(c) \/ ManualCheck(c) \/ \E s \in Final : Finish(c, s)
  <2>1. /\ page # "new" /\ page' = page /\ keyPoints' = keyPoints /\ (polling' => polling)
        /\ role'[c] \notin Opening \/ role'[c] = role[c]
        /\ \A d \in Call \ {c} : role'[d] = role[d]
    <3>1. ASSUME NEW r \in {"check", "finish"}, NEW v, Send(c, r, v)
          PROVE  /\ role'[c] \notin Opening
                 /\ \A d \in Call \ {c} : role'[d] = role[d]
      BY <3>1 DEF Send, PageTypeOK, Opening
    <3>2. CASE Poll(c)
      <4>1. page # "new"
        BY <3>2 DEF Poll, LeftInv, PageTypeOK
      <4> QED  BY <3>1, <3>2, <4>1 DEF Poll
    <3>3. CASE ManualCheck(c)
      BY <3>1, <3>3 DEF ManualCheck
    <3>4. CASE \E s \in Final : Finish(c, s)
      BY <3>1, <3>4 DEF Finish
    <3> QED  BY <1>2, <3>2, <3>3, <3>4
  <2> QED  BY <1>0, <2>1 DEF OpeningInv, LeftInv
<1>3. CASE ShowExecution(c) \/ PositionSaved(c)
  <2>1. /\ role[c] \in Opening /\ page' = page /\ keyPoints' = keyPoints /\ polling' = polling
        /\ \A d \in Call \ {c} : role'[d] = role[d]
    BY <1>3 DEF ShowExecution, PositionSaved, Arrived, Handle, PageTypeOK, Opening
  <2>2. page # "new"
    BY <2>1 DEF OpeningInv, Opening
  <2> QED  BY <1>0, <2>1, <2>2 DEF OpeningInv, LeftInv
<1>4. CASE KeyPointsLoaded(c)
  <2>1. /\ role[c] \in Opening /\ role'[c] \notin Opening
        /\ page' = page /\ keyPoints' = TRUE
        /\ \A d \in Call \ {c} : role'[d] = role[d]
    BY <1>4 DEF KeyPointsLoaded, Arrived, Handle, PageTypeOK, Opening
  <2>2. page # "new" /\ keyPoints = FALSE
    BY <2>1 DEF OpeningInv, Opening
  <2>3. page = "left" => late'
    BY <1>0, <2>1, <2>2
  <2>4. \A d \in Call : role'[d] \notin Opening
    BY <2>1 DEF OpeningInv
  <2> QED  BY <2>1, <2>2, <2>3, <2>4 DEF OpeningInv, LeftInv
<1>5. CASE CheckAnswered(c) \/ FinishAnswered(c) \/ ErrorShown(c) \/ AnswerLost(c)
  <2>1. /\ role[c] # "none" /\ role'[c] \notin Opening
        /\ page' = page /\ keyPoints' = keyPoints /\ (polling' => polling)
        /\ \A d \in Call \ {c} : role'[d] = role[d]
    BY <1>5 DEF CheckAnswered, FinishAnswered, ErrorShown, AnswerLost, Arrived, Handle, PageTypeOK,
                Opening
  <2>2. page # "new"
    BY <2>1 DEF OpeningInv
  <2> QED  BY <1>0, <2>1, <2>2 DEF OpeningInv, LeftInv
<1> QED  BY <1>1, <1>2, <1>3, <1>4, <1>5 DEF PageStep

\* The page is opened once, and a page that was left stops polling.
LEMMA OpeningKept ==
  ASSUME PageTypeOK, OpeningInv, LeftInv, [MCNext]_<<everything, history>>
  PROVE  OpeningInv' /\ LeftInv'
<1>1. CASE UNCHANGED <<pageVars, late>>
  BY <1>1 DEF pageVars, OpeningInv, LeftInv
<1>2. CASE MCNext
  <2>1. late => late'
    BY <1>2 DEF MCNext
  <2>2. CASE Leave
    BY <2>1, <2>2 DEF Leave, OpeningInv, LeftInv
  <2>3. CASE UNCHANGED <<page, shown, keyPoints, polling, role>>
    BY <2>1, <2>3 DEF OpeningInv, LeftInv
  <2> QED
    BY <1>2, <2>2, <2>3, PageStepOpening, ServiceKeepsPage, StepKinds
    DEF MCNext, PageIdle, pageVars, everything
<1> QED  BY <1>1, <1>2 DEF everything, history

\* Who has asked to finish is known to have.
LEMMA FinishingKept ==
  ASSUME FinishingInv, [MCNext]_<<everything, history>>
  PROVE  FinishingInv'
<1>1. CASE MCNext
  <2>1. finishing' = (finishing \/ \E c \in Call : role'[c] = "finish")
    BY <1>1 DEF MCNext
  <2> QED  BY <2>1 DEF FinishingInv
<1>2. CASE UNCHANGED <<everything, history>>
  BY <1>2 DEF FinishingInv, everything, pageVars, history
<1> QED  BY <1>1, <1>2

-------------------------------------------------------------------------------
(* Until calls overlap.                                                      *)

\* A write adds to the list it was read from.
LEMMA ListGrows ==
  ASSUME NEW s \in Seq(KeyPoint), NEW k \in KeyPoint
  PROVE  Elements(s) \subseteq Elements(Append(s, k))
<1>1. DOMAIN s = 1..Len(s) /\ DOMAIN Append(s, k) = 1..(Len(s) + 1) /\ Len(s) \in Nat
  OBVIOUS
<1>2. \A i \in 1..Len(s) : Append(s, k)[i] = s[i] /\ i \in 1..(Len(s) + 1)
  OBVIOUS
<1> QED  BY <1>1, <1>2 DEF Elements

\* Calls that go on alone hold what is stored.
Current == \A c \in Call :
  /\ pc[c] \in {"check"} \union Final => status[target[c]] = "active"
  /\ pc[c] = "check" => read[c] = done[target[c]]
OneCall == \A c, d \in Call : "idle" \notin {pc[c], pc[d]} => c = d
AloneInv == ~overlapped => OneCall /\ Current

LEMMA AloneStep ==
  ASSUME TypeOK, OneCall, Current, NEW c \in Call, ExecutionStep(c)
  PROVE  FinishedKept /\ ReachedKept /\ (OneCall' => Current')
<1> USE DEF TypeOK, Goto, execVars, FinishedKept, ReachedKept, Final
<1>1. ASSUME NEW e \in Exec, CheckRead(c, e) \/ \E s \in Final : FinishRead(c, e, s)
      PROVE  FinishedKept /\ ReachedKept /\ Current'
  BY <1>1 DEF CheckRead, FinishRead, Current
<1>2. CASE StartRead(c) \/ CheckNothing(c) \/ Stop(c)
  BY <1>2 DEF StartRead, CheckNothing, Stop, Current
<1>3. ASSUME pc[c] # "idle", \A d \in Call \ {c} : pc'[d] = pc[d], pc'[c] = "idle"
      PROVE  Current'
  <2>1. \A d \in Call : pc'[d] = "idle"
    BY <1>3 DEF OneCall
  <2> QED  BY <2>1 DEF Current
<1>4. CASE StartInsert(c)
  <2>1. Current'
    BY <1>3, <1>4 DEF StartInsert
  <2> QED  BY <1>4, <2>1 DEF StartInsert
<1>5. CASE CheckWrite(c)
  <2>1. Current'
    BY <1>3, <1>5 DEF CheckWrite
  <2>2. /\ read[c] = done[target[c]] /\ status[target[c]] = "active" /\ target[c] \in Exec
        /\ read[c] \in Seq(KeyPoint) /\ reached[c] \in KeyPoint
    BY <1>5 DEF CheckWrite, Current
  <2>3. FinishedKept
    BY <1>5, <2>2 DEF CheckWrite
  <2>4. ReachedKept
    <3>1. done' = [done EXCEPT ![target[c]] = Append(read[c], reached[c])]
      BY <1>5 DEF CheckWrite
    <3> QED  BY <2>2, <3>1, ListGrows
  <2> QED  BY <2>1, <2>3, <2>4
<1>6. CASE FinishWrite(c)
  <2>1. Current'
    BY <1>3, <1>6 DEF FinishWrite
  <2>2. status[target[c]] = "active" /\ target[c] \in Exec
    BY <1>6 DEF FinishWrite, Current
  <2> QED  BY <1>6, <2>1, <2>2 DEF FinishWrite
<1> QED  BY <1>1, <1>2, <1>4, <1>5, <1>6 DEF ExecutionStep

\* Every step of the page keeps this.
LEMMA AloneKept ==
  ASSUME TypeOK, PageTypeOK, AloneInv, [MCNext]_<<everything, history>>
  PROVE  /\ AloneInv'
         /\ [~overlapped => FinishedKept /\ ReachedKept]_vars
<1>1. ~overlapped' => ~overlapped /\ (MCNext => OneCall')
  BY DEF MCNext, OneCall, history
<1>2. [Next]_vars
  BY ServiceParts DEF MCNext, everything
<1>3. CASE UNCHANGED vars
  <2>1. OneCall' = OneCall /\ Current' = Current
    BY <1>3 DEF vars, execVars, callVars, OneCall, Current
  <2> QED  BY <1>1, <1>3, <2>1 DEF AloneInv
<1>4. CASE MCNext /\ Next
  BY <1>1, <1>4, AloneStep DEF AloneInv, Next
<1> QED  BY <1>2, <1>3, <1>4 DEF everything

-------------------------------------------------------------------------------
(* Whoever lets the page work alone.                                         *)

\* An undisturbed step leaves one request at most, and loses no answer with news.
LEMMA Undisturbed ==
  ASSUME AllTypesOK', MCNext, ~disturbed'
  PROVE  /\ ~disturbed /\ OneRequest'
         /\ \A c \in Call : AnswerLost(c) => CheckAnswered(c) \/ FinishAnswered(c)
<1>1. /\ ~disturbed /\ ~(Cardinality(InFlight') > 1)
      /\ \A c \in Call : ~(pc'[c] # "idle" /\ role'[c] = "none")
      /\ \A c \in Call : AnswerLost(c) => CheckAnswered(c) \/ FinishAnswered(c)
  BY DEF MCNext
<1>2. ASSUME NEW c \in InFlight', NEW d \in InFlight', c # d
      PROVE  FALSE
  <2>1. IsFiniteSet(InFlight') /\ Cardinality(InFlight') \in Nat
    <3>1. InFlight' \subseteq Call
      BY DEF InFlight
    <3> QED  BY <3>1, UpdaterAssumption, SlotAssumption, FS_Subset, FS_CardinalityType
  <2>2. IsFiniteSet({c}) /\ Cardinality({c}) = 1
    BY FS_Singleton
  <2>3. IsFiniteSet({c} \union {d}) /\ Cardinality({c} \union {d}) = 2
    BY <1>2, <2>2, FS_AddElement
  <2>4. Cardinality({c} \union {d}) <= Cardinality(InFlight')
    BY <2>1, FS_Subset
  <2> QED  BY <1>1, <2>1, <2>3, <2>4
<1>3. \A c, d \in Call : role'[c] # "none" /\ role'[d] # "none" => c = d
  BY <1>2 DEF InFlight
<1> QED  BY <1>1, <1>3 DEF OneRequest

LEMMA NoViewStored == shown = NoView => ShownIsStored
BY DEF NoView, View, ShownIsStored

LEMMA ViewParts ==
  /\ \A v \in Views : v = View(v.exec, v.status, v.done)
  /\ \A e, s, l : View(e, s, l).exec = e /\ View(e, s, l).status = s /\ View(e, s, l).done = l
BY DEF Views, View

LEMMA PageStepTruth ==
  ASSUME AllTypesOK, SlotInv, OpeningInv, OneRequest, TruthInv, OneRequest', MCNext,
         NEW c \in Call, PageStep(c),
         AnswerLost(c) => CheckAnswered(c) \/ FinishAnswered(c)
  PROVE  TruthInv'
<1>0. /\ status' = status /\ done' = done /\ UNCHANGED <<pc, read, target, upsert>>
      /\ \A e : Stored(e)' = Stored(e)
  BY PageKeepsService DEF vars, execVars, callVars, positionVars, Stored
<1>1. CASE UNCHANGED <<role, got, shown>>
  BY <1>0, <1>1 DEF TruthInv, Truth, Told, ShownIsStored, Stored
<1>2. ASSUME role[c] # "none" \/ role'[c] # "none", Truth(c)',
             (ShownIsStored \/ Told(c, {"check", "finish"}))'
      PROVE  TruthInv'
  <2>1. ASSUME NEW d \in Call \ {c}  PROVE Truth(d)'
    <3>1. role'[d] = role[d]
      BY Elsewhere DEF Same
    <3>2. role'[d] = "none"
      BY <1>2, <3>1 DEF OneRequest
    <3> QED  BY <3>2 DEF OneRequest, Truth, Told, Final
  <2> QED  BY <1>2, <2>1 DEF TruthInv
<1>3. ASSUME NEW r \in {"show", "position", "check", "finish"}, NEW v, Send(c, r, v),
             r \in {"show", "position"} => shown = NoView, r = "check" => shown.status = "active",
             shown' = shown
      PROVE  TruthInv'
  <2>1. /\ role'[c] = r /\ got'[c].state = "pending" /\ pc'[c] = "idle"
        /\ role[c] = "none" /\ \A d \in Call \ {c} : role'[d] = role[d]
    BY <1>0, <1>3 DEF Send, Free, AllTypesOK, PageTypeOK, Pending
  <2>2. \A d \in Call : role[d] = "none"
    BY <2>1, <1>3 DEF OneRequest
  <2>3. ShownIsStored'
    BY <1>0, <1>3, <2>2 DEF TruthInv, Told, ShownIsStored, Stored
  <2>4. Truth(c)'
    BY <1>3, <2>1 DEF Truth, Told, Final
  <2> QED  BY <1>2, <1>3, <2>1, <2>3, <2>4
<1>4. CASE OpenExisting(c) \/ OpenStart(c)
  <2>1. shown = NoView /\ shown' = shown
    BY <1>4 DEF OpenExisting, OpenStart, OpeningInv
  <2> QED  BY <1>3, <1>4, <2>1 DEF OpenExisting, OpenStart
<1>5. CASE Poll(c) \/ ManualCheck(c) \/ \E s \in Final : Finish(c, s)
  BY <1>1, <1>3, <1>5 DEF Poll, ManualCheck, Finish
<1>6. ASSUME role[c] # "none", got[c].state # "pending", NEW r \in {"none", "start", "keyPoints"},
             Handle(c, r), r = "start" => shown' = NoView, ShownIsStored'
      PROVE  TruthInv'
  <2>1. pc'[c] = "idle"
    BY <1>0, <1>6, IdleWhenAnswered DEF SlotInv
  <2>2. role'[c] = r /\ got'[c].state # "ok"
    BY <1>6 DEF Handle, AllTypesOK, PageTypeOK, Refused, Pending
  <2>3. Truth(c)'
    BY <1>6, <2>1, <2>2 DEF Truth, Told, Final
  <2> QED  BY <1>2, <1>6, <2>3
<1>7. CASE ShowExecution(c) \/ CheckAnswered(c) \/ FinishAnswered(c)
  <2>1. Told(c, {"show", "start", "check", "finish"}) /\ shown' = got[c].view
    BY <1>7 DEF ShowExecution, CheckAnswered, FinishAnswered, Arrived, Told
  <2>2. shown' = Stored(shown'.exec)
    BY <2>1 DEF TruthInv, Truth
  <2>3. ShownIsStored'
    BY <1>0, <2>2 DEF ShownIsStored, Stored
  <2> QED  BY <1>6, <1>7, <2>3 DEF ShowExecution, CheckAnswered, FinishAnswered, Arrived
<1>8. CASE PositionSaved(c)
  <2>1. shown' = NoView
    BY <1>8 DEF PositionSaved, Arrived, TruthInv, Truth
  <2>2. ShownIsStored'
    BY <2>1 DEF NoView, View, ShownIsStored
  <2> QED  BY <1>6, <1>8, <2>1, <2>2 DEF PositionSaved, Arrived
<1>9. CASE KeyPointsLoaded(c) \/ ErrorShown(c)
  <2>1. /\ role[c] # "none" /\ ~Told(c, {"check", "finish"}) /\ shown' = shown
        /\ got[c].state # "pending" /\ Handle(c, "none")
    BY <1>9 DEF KeyPointsLoaded, ErrorShown, Arrived, Told
  <2>2. ShownIsStored
    BY <2>1 DEF TruthInv, OneRequest, Told
  <2>3. ShownIsStored'
    BY <1>0, <2>1, <2>2 DEF ShownIsStored, Stored
  <2> QED  BY <1>6, <2>1, <2>3
<1> QED  BY <1>4, <1>5, <1>7, <1>8, <1>9 DEF PageStep

LEMMA ServiceStepTruth ==
  ASSUME AllTypesOK, AllTypesOK', Begun, SlotInv, OneRequest, TruthInv, OneRequest',
         NEW c \in Call, ServiceStep(c)
  PROVE  TruthInv'
<1> DEFINE e == got[c].view.exec
<1>0. /\ role' = role /\ shown' = shown /\ role[c] # "none" /\ got[c].state = "pending"
      /\ ShownIsStored
  BY ServiceKeepsPage DEF AllTypesOK, PageIdle, TruthInv, OneRequest, Told
<1>1. ASSUME Truth(c)', (ShownIsStored \/ Told(c, {"check", "finish"}))'
      PROVE  TruthInv'
  <2>1. ASSUME NEW d \in Call \ {c}  PROVE Truth(d)'
    <3>1. role'[d] = "none"
      BY <1>0 DEF OneRequest
    <3> QED  BY <3>1 DEF OneRequest, Truth, Told, Final
  <2> QED  BY <1>1, <2>1 DEF TruthInv
<1>2. /\ role[c] \in {"show", "position", "start"} => shown' = NoView
      /\ role[c] = "check" => shown'.status = "active"
  BY <1>0 DEF TruthInv, Truth
<1>3. ASSUME UNCHANGED execVars  PROVE ShownIsStored' /\ \A x : Stored(x)' = Stored(x)
  BY <1>0, <1>3 DEF ShownIsStored, execVars, Stored
<1>4. ASSUME UNCHANGED execVars, pc'[c] \in {"idle", "insert"},
             \/ ~Told(c, {"show", "start", "check", "finish"})'
             \/ got'[c].view = Stored(got'[c].view.exec)
      PROVE  TruthInv'
  <2>1. Truth(c)'
    BY <1>0, <1>2, <1>3, <1>4 DEF Truth, Final
  <2> QED  BY <1>1, <1>3, <1>4, <2>1
<1> USE DEF AllTypesOK, PageTypeOK, TypeOK, Asked, Answer, Goto
<1>5. CASE ServeShow(c)
  <2>1. pc'[c] = "idle" /\ UNCHANGED execVars /\ got'[c].view = Stored(e)
    BY <1>5 DEF ServeShow, SlotInv, Slot, PC, vars, callVars, Stored, Answered
  <2>2. got'[c].view.exec = e
    BY <2>1, ViewParts DEF Stored
  <2> QED  BY <1>4, <2>1, <2>2
<1>6. CASE ServeKeyPoints(c) \/ ServePosition(c)
  <2>1. role[c] \in {"keyPoints", "position"} /\ pc'[c] = "idle" /\ UNCHANGED execVars
    BY <1>6 DEF ServeKeyPoints, ServePosition, SlotInv, Slot, PC, vars, callVars
  <2> QED  BY <1>0, <1>4, <2>1 DEF Told
<1>7. CASE ServeStart(c)
  <2>0. role[c] = "start" /\ shown' = NoView /\ ShownIsStored'
    BY <1>0, <1>2, <1>7 DEF ServeStart, NoView, View, ShownIsStored
  <2>1. CASE StartInsert(c)
    <3>1. PICK x \in Exec : /\ status[x] # status'[x]
                            /\ Answer(c, Answered(View(x, "active", <<>>)))
      BY <1>7, <2>1 DEF ServeStart, StartRead, StartInsert
    <3>2. status'[x] = "active" /\ status[x] = "none" /\ done' = done /\ pc'[c] = "idle"
      BY <2>1, <3>1 DEF StartInsert
    <3>3. done'[x] = <<>>
      BY <3>2 DEF Begun
    <3>4. got'[c].view = View(x, "active", <<>>)
      BY <3>1 DEF Answered
    <3>5. got'[c].view.exec = x
      BY <3>4, ViewParts
    <3>6. got'[c].view = Stored(x)'
      BY <3>2, <3>3, <3>4 DEF Stored
    <3>7. Truth(c)'
      BY <2>0, <1>0, <3>2, <3>5, <3>6 DEF Truth, Final, Stored
    <3> QED  BY <1>1, <2>0, <3>7
  <2>2. CASE ~StartInsert(c)
    <3>1. pc'[c] \in {"idle", "insert"} /\ UNCHANGED execVars
      BY <1>7, <2>2 DEF ServeStart, StartRead, vars, callVars
    <3>2. got'[c].state # "ok"
      BY <1>0, <1>7, <2>2 DEF ServeStart, Refused
    <3> QED  BY <1>4, <3>1, <3>2 DEF Told
  <2> QED  BY <2>1, <2>2
<1>8. CASE ServeCheck(c)
  <2>0. role[c] = "check" /\ e \in Exec
    BY <1>8 DEF ServeCheck
  <2>1. ASSUME pc[c] = "check"
        PROVE  /\ target[c] = e /\ read[c] = done[e] /\ status[e] = "active"
               /\ read[c] \in Seq(KeyPoint)
    BY <2>0, <2>1 DEF SlotInv, Slot, TruthInv, Truth
  <2>2. ASSUME pc'[c] = "idle", NEW s, NEW l, Answer(c, Answered(View(e, s, l))),
               status'[e] = s, done'[e] = l
        PROVE  TruthInv'
    <3>1. got'[c] = Answered(View(e, s, l))
      BY <2>2
    <3>2. got'[c].state = "ok" /\ got'[c].view = View(e, s, l) /\ got'[c].view.exec = e
      BY <3>1, ViewParts DEF Answered
    <3>3. (got[c].view = Stored(got[c].view.exec))'
      BY <2>2, <3>2 DEF Stored
    <3>4. Told(c, {"check", "finish"})'
      BY <1>0, <2>0, <3>2 DEF Told
    <3>5. Truth(c)'
      BY <1>2, <1>0, <2>0, <2>2, <3>3 DEF Truth, Final
    <3> QED  BY <1>1, <3>4, <3>5
  <2>3. CASE CheckNothing(c) /\ Answer(c, Answered(View(e, "active", read[c])))
    BY <2>1, <2>2, <2>3 DEF CheckNothing, execVars
  <2>4. CASE CheckWrite(c) /\ Answer(c, Answered(View(e, CheckedStatus(c), Checked(c))))
    <3>1. /\ pc[c] = "check" /\ pc'[c] = "idle"
          /\ done' = [done EXCEPT ![target[c]] = Checked(c)]
          /\ status' = [status EXCEPT ![target[c]] =
                          IF Len(Checked(c)) = Cardinality(KeyPoint) THEN "completed" ELSE @]
      BY <2>4 DEF CheckWrite, Checked
    <3>2. done'[e] = Checked(c) /\ status'[e] = CheckedStatus(c)
      BY <2>0, <2>1, <3>1 DEF CheckedStatus
    <3> QED  BY <2>2, <2>4, <3>1, <3>2
  <2>5. CASE CheckRead(c, e) /\ UNCHANGED got
    <3>1. /\ pc'[c] = "check" /\ target'[c] = e /\ read'[c] = done[e] /\ status[e] = "active"
          /\ UNCHANGED execVars
      BY <2>0, <2>5 DEF CheckRead
    <3>2. Truth(c)'
      BY <1>0, <1>2, <2>0, <2>5, <3>1 DEF Truth, Told, Final, execVars
    <3> QED  BY <1>1, <1>3, <3>1, <3>2
  <2>6. CASE pc[c] = "idle" /\ Answer(c, Refused) /\ UNCHANGED vars
    <3>1. pc'[c] = "idle" /\ UNCHANGED execVars /\ got'[c].state # "ok"
      BY <2>6 DEF vars, callVars, Refused
    <3> QED  BY <1>4, <3>1 DEF Told
  <2> QED  BY <1>8, <2>3, <2>4, <2>5, <2>6 DEF ServeCheck
<1>9. CASE ServeFinish(c)
  <2> DEFINE s == got[c].view.status
  <2>0. role[c] = "finish" /\ e \in Exec /\ s \in Final
    BY <1>9 DEF ServeFinish
  <2>1. CASE FinishWrite(c) /\ Answer(c, Answered(got[c].view))
    <3>1. /\ pc[c] \in Final /\ pc'[c] = "idle" /\ done' = done
          /\ status' = [status EXCEPT ![target[c]] = pc[c]]
      BY <2>1 DEF FinishWrite
    <3>2. target[c] = e /\ pc[c] = s /\ got[c].view.done = done[e]
      BY <2>0, <3>1 DEF SlotInv, Slot, TruthInv, Truth
    <3>3. got[c].view = View(e, s, done[e])
      BY <3>2, ViewParts
    <3>4. got'[c] = Answered(got[c].view)
      BY <2>1
    <3>5. got'[c].state = "ok" /\ got'[c].view = got[c].view
      BY <3>4 DEF Answered
    <3>6. (got[c].view = Stored(got[c].view.exec))'
      BY <2>0, <3>1, <3>2, <3>3, <3>5 DEF Stored
    <3>7. Told(c, {"check", "finish"})'
      BY <1>0, <2>0, <3>5 DEF Told
    <3>8. Truth(c)'
      BY <1>0, <2>0, <3>1, <3>6 DEF Truth, Final
    <3> QED  BY <1>1, <3>7, <3>8
  <2>2. CASE FinishRead(c, e, s) /\ Answer(c, Pending(View(e, s, done[e])))
    <3>1. pc'[c] \in Final /\ target'[c] = e /\ UNCHANGED execVars
      BY <2>0, <2>2 DEF FinishRead
    <3>2. got'[c] = Pending(View(e, s, done[e]))
      BY <2>2
    <3>3. got'[c].state = "pending" /\ got'[c].view.done = done[e]
      BY <3>2, ViewParts DEF Pending
    <3>4. Truth(c)'
      BY <1>0, <2>0, <3>1, <3>3 DEF Truth, Told, Final, execVars
    <3> QED  BY <1>1, <1>3, <3>1, <3>4
  <2>3. CASE pc[c] = "idle" /\ Answer(c, Refused) /\ UNCHANGED vars
    <3>1. pc'[c] = "idle" /\ UNCHANGED execVars /\ got'[c].state # "ok"
      BY <2>3 DEF vars, callVars, Refused
    <3> QED  BY <1>4, <3>1 DEF Told
  <2> QED  BY <1>9, <2>1, <2>2, <2>3 DEF ServeFinish
<1>10. CASE ServeFails(c)
  <2>1. pc'[c] = "idle" /\ UNCHANGED execVars
    BY <1>10 DEF ServeFails, Stop, UpdateFails, SlotInv, Slot, vars, callVars
  <2>2. got'[c].state # "ok"
    BY <1>10 DEF ServeFails, Refused
  <2> QED  BY <1>4, <2>1, <2>2 DEF Told
<1> QED  BY <1>5, <1>6, <1>7, <1>8, <1>9, <1>10 DEF ServiceStep

\* A request of others is not let in, unless it only concerns positions.
LEMMA OtherStepTruth ==
  ASSUME AllTypesOK, OneRequest, TruthInv, OneRequest',
         NEW c \in Call, OtherStep(c), UNCHANGED pageVars
  PROVE  TruthInv'
<1>1. role[c] = "none" /\ pc[c] = "idle" /\ pc'[c] = "idle"
  BY DEF OtherStep, OneRequest, pageVars
<1>2. ~ExecutionStep(c)
  BY <1>1 DEF ExecutionStep, StartRead, StartInsert, CheckRead, FinishRead, CheckNothing, CheckWrite,
              FinishWrite, Stop, Goto, Final, AllTypesOK, TypeOK
<1>3. UNCHANGED vars
  BY <1>2 DEF OtherStep
<1> QED
  BY <1>3 DEF vars, execVars, callVars, pageVars, TruthInv, Truth, Told, Stored, ShownIsStored

\* What is shown to a page that is let alone stays right, and it goes on polling.
LEMMA WaitingKept ==
  ASSUME AllTypesOK, AllTypesOK', Begun, SlotInv, OpeningInv, WaitingInv,
         [MCNext]_<<everything, history>>
  PROVE  WaitingInv'
<1>1. CASE UNCHANGED <<everything, history>>
  BY <1>1
  DEF WaitingInv, OneRequest, TruthInv, Truth, Told, Stored, ShownIsStored,
      everything, vars, execVars, callVars, pageVars, history
<1>2. ASSUME MCNext, ~disturbed'
      PROVE  OneRequest' /\ TruthInv'
  <2>1. /\ ~disturbed /\ OneRequest' /\ OneRequest /\ TruthInv
        /\ \A c \in Call : AnswerLost(c) => CheckAnswered(c) \/ FinishAnswered(c)
    BY <1>2, Undisturbed DEF WaitingInv
  <2>2. CASE UNCHANGED everything \/ Leave
    BY <2>1, <2>2
    DEF TruthInv, Truth, Told, Stored, ShownIsStored, Leave,
        everything, vars, execVars, callVars, pageVars
  <2> QED
    BY <1>2, <2>1, <2>2, StepKinds, PageStepTruth, ServiceStepTruth, OtherStepTruth
    DEF MCNext, AllTypesOK
<1> QED  BY <1>1, <1>2 DEF WaitingInv

LEMMA PollKept ==
  ASSUME AllTypesOK, AllTypesOK', OpeningInv, WaitingInv, FinishingInv, PollInv,
         [MCNext]_<<everything, history>>
  PROVE  PollInv'
<1>1. CASE UNCHANGED <<everything, history>>
  BY <1>1 DEF PollInv, ActiveIsPolled, everything, pageVars, history
<1>2. ASSUME MCNext, ~disturbed', ~finishing'
      PROVE  ActiveIsPolled'
  <2>1. /\ ~disturbed /\ TruthInv /\ ~finishing
        /\ \A c \in Call : AnswerLost(c) => CheckAnswered(c) \/ FinishAnswered(c)
        /\ \A c \in Call : role'[c] # "finish"
    BY <1>2, Undisturbed DEF MCNext, WaitingInv
  <2>2. ActiveIsPolled /\ \A c \in Call : role[c] # "finish"
    BY <2>1 DEF PollInv, FinishingInv
  <2>3. CASE UNCHANGED <<page, keyPoints, shown, polling>>
    BY <2>2, <2>3 DEF ActiveIsPolled
  <2>4. CASE Leave
    BY <2>4 DEF Leave, ActiveIsPolled
  <2>5. ASSUME NEW c \in Call, PageStep(c)
        PROVE  ActiveIsPolled'
    <3> USE DEF ActiveIsPolled
    <3>1. CASE OpenExisting(c) \/ OpenStart(c) \/ ShowExecution(c)
      <4>1. keyPoints' = FALSE
        BY <3>1 DEF OpenExisting, OpenStart, ShowExecution, Arrived, OpeningInv, Opening
      <4> QED  BY <4>1
    <3>2. CASE Poll(c) /\ shown.status # "active"
      BY <3>2 DEF Poll
    <3>3. CASE Poll(c) /\ shown.status = "active"
      BY <2>3, <3>3 DEF Poll
    <3>4. CASE ManualCheck(c) \/ PositionSaved(c) \/ ErrorShown(c)
      BY <2>3, <3>4 DEF ManualCheck, PositionSaved, ErrorShown
    <3>5. ASSUME NEW s \in Final, Finish(c, s)
          PROVE  FALSE
      BY <2>1, <3>5 DEF Finish, Send, AllTypesOK, PageTypeOK
    <3>6. CASE KeyPointsLoaded(c)
      BY <3>6 DEF KeyPointsLoaded
    <3>7. CASE CheckAnswered(c)
      <4>1. shown.status = "active" /\ page' = page /\ keyPoints' = keyPoints
        BY <2>1, <3>7 DEF CheckAnswered, Arrived, TruthInv, Truth
      <4>2. ASSUME page' = "open", keyPoints', shown'.status = "active"
            PROVE  polling'
        BY <2>2, <3>7, <4>1, <4>2 DEF CheckAnswered
      <4> QED  BY <4>2
    <3>8. CASE FinishAnswered(c)
      BY <2>2, <3>8 DEF FinishAnswered, Arrived
    <3> QED  BY <2>1, <2>5, <3>1, <3>2, <3>3, <3>4, <3>5, <3>6, <3>7, <3>8 DEF PageStep
  <2> QED
    BY <1>2, <2>3, <2>4, <2>5, StepKinds, ServiceKeepsPage
    DEF MCNext, AllTypesOK, PageIdle, pageVars, everything
<1> QED  BY <1>1, <1>2 DEF PollInv

-------------------------------------------------------------------------------

\* The inductive invariant of the page with the service behind it.
PageInv ==
  /\ ExecInv /\ PositionsTypeOK /\ PageTypeOK
  /\ SlotInv /\ OpeningInv /\ LeftInv /\ FinishingInv
  /\ AloneInv /\ WaitingInv /\ PollInv

LEMMA PageStart == MCInit => PageInv
<1> SUFFICES ASSUME MCInit PROVE PageInv
  OBVIOUS
<1>1. PageInit /\ overlapped = FALSE /\ disturbed = FALSE /\ finishing = FALSE /\ late = FALSE
  BY DEF MCInit
<1>2. ExecInv /\ TypeOK
  BY <1>1, ExecStart DEF PageInit, ExecInv
<1>3. PositionsTypeOK
  BY <1>1 DEF PageInit, PositionsInit, PositionsTypeOK
<1>4. PageTypeOK
  BY <1>1, ViewsOf, AnswersOf DEF PageInit, PageTypeOK, Role
<1>5. \A c \in Call : pc[c] = "idle" /\ upsert[c] = "idle" /\ role[c] = "none"
  BY <1>1, SlotAssumption DEF PageInit, Init, PositionsInit
<1>6. SlotInv /\ FinishingInv
  BY <1>5 DEF SlotInv, Slot, Final, FinishingInv
<1>7. OpeningInv /\ LeftInv
  BY <1>1, <1>5 DEF PageInit, OpeningInv, LeftInv, Opening
<1>8. AloneInv
  BY <1>5 DEF AloneInv, OneCall, Current, Final
<1>9. WaitingInv
  <2>1. shown = NoView
    BY <1>1 DEF PageInit
  <2> QED  BY <1>5, <2>1, NoViewStored DEF WaitingInv, OneRequest, TruthInv, Truth, Told, Final
<1>10. PollInv
  BY <1>1 DEF PageInit, PollInv, ActiveIsPolled
<1> QED  BY <1>2, <1>3, <1>4, <1>6, <1>7, <1>8, <1>9, <1>10 DEF PageInv

LEMMA PageStepInv ==
  ASSUME PageInv, [MCNext]_<<everything, history>>
  PROVE  PageInv'
<1>0. [PageNext]_everything
  BY DEF MCNext
<1>1. ExecInv' /\ TypeOK /\ TypeOK' /\ Begun
  <2>1. ExecInv'
    BY <1>0, ServiceParts, ExecStep DEF PageInv
  <2> QED  BY <2>1 DEF PageInv, ExecInv
<1>2. PositionsTypeOK'
  BY <1>0, ServiceParts, TypesKept DEF PageInv
<1>3. PageTypeOK'
  BY <1>0, <1>1, PageTyped DEF PageInv
<1>4. AllTypesOK /\ AllTypesOK'
  BY <1>1, <1>2, <1>3 DEF PageInv, AllTypesOK
<1> QED
  BY <1>0, <1>1, <1>2, <1>3, <1>4, SlotKept, OpeningKept, FinishingKept, AloneKept, WaitingKept,
     PollKept
  DEF PageInv

\* The inductive invariant of the page, whatever calls and requests overlap.
THEOREM PageKept == MCSpec => []PageInv
BY PageStart, PageStepInv, PTL DEF MCSpec

\* What holds of the service and of the positions holds of them behind the page: its
\* steps are steps of theirs.
THEOREM PageUsesService == MCSpec => Spec /\ PositionsSpec
<1>1. MCInit => Init /\ PositionsInit
  BY DEF MCInit, PageInit
<1>2. PageInv /\ [MCNext]_<<everything, history>> => [Next]_vars /\ [PositionsNext]_positionVars
  BY ServiceParts DEF PageInv, MCNext
<1> QED  BY <1>1, <1>2, PageKept, PTL DEF MCSpec, Spec, PositionsSpec

\* Until two calls overlap, no step changes a finished execution or takes back a key
\* point that was reached (tour_execution_service.go:110, 148, 192).
THEOREM ProgressKept == MCSpec => SerialProgressKept
<1>1. PageInv /\ [MCNext]_<<everything, history>> => [~overlapped => FinishedKept /\ ReachedKept]_vars
  BY AloneKept DEF PageInv, ExecInv
<1> QED  BY <1>1, PageKept, PTL DEF MCSpec, SerialProgressKept

\* A page that works alone shows what is stored whenever no request of it is under way,
\* whatever requests failed (tour-execution.component.ts:80, 235, 399, 419, 455).
THEOREM ShownWhenWaiting == MCSpec => []WaitingPageTrue
<1>1. PageInv => WaitingPageTrue
  <2> SUFFICES ASSUME WaitingInv, ~disturbed, InFlight = {} PROVE ShownIsStored
    BY DEF PageInv, WaitingPageTrue
  <2>1. \A c \in Call : role[c] = "none"
    BY DEF InFlight
  <2> QED  BY <2>1 DEF WaitingInv, TruthInv, Told
<1> QED  BY <1>1, PageKept, PTL

\* The timer of such a page runs until the walk is asked to finish; and whatever
\* happens, a page that was left polls only if its key points came later
\* (tour-execution.component.ts:105, 267, 400, 429, 450).
THEOREM TimerRuns == MCSpec => []TimerTells
<1>1. PageInv => TimerTells
  BY DEF PageInv, LeftInv, PollInv, TimerTells
<1> QED  BY <1>1, PageKept, PTL
===============================================================================
