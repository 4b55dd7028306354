------------------------------ MODULE TourProofs ------------------------------
(*****************************************************************************)
(* One tour for any number of overlapping author requests, visitors, key     *)
(* points, tourists and reviews.                                             *)
(*                                                                           *)
(* TimestampsAgree is not inductive: a request writes what it decided on a   *)
(* document it read earlier.  Decided says what of that reading still holds. *)
(*                                                                           *)
(* Whoever has bought the tour or seen it listed was told of a tour that is  *)
(* not a draft, and never becomes one again.  While the author's requests do *)
(* not overlap, a tour that is not a draft keeps its key points (Frozen), so *)
(* every answer, however late, stays right.                                  *)
(*****************************************************************************)
EXTENDS MCTourAuthoring, MCTourPage, FiniteSetTheorems, TLAPS

Typed ==
  /\ clock \in Nat \ {0}
  /\ status \in Status
  /\ publishedAt \in Nat
  /\ archivedAt \in Nat
  /\ pc \in [Call -> PC]
  /\ seen \in [Call -> Nat]
  /\ since \in [Call -> Nat]

\* What a request that is about to write the status still knows.
Decided ==
  /\ publishedAt <= clock
  /\ \A c \in Call : pc[c] \in {"publish", "archive", "activate"} =>
       1 <= since[c] /\ since[c] <= clock
  /\ \A c \in Call : pc[c] = "archive" => seen[c] # 0 /\ seen[c] <= since[c]
  /\ \A c \in Call : pc[c] \in {"count", "publish"} => status # "none"
  /\ \A c \in Call : pc[c] \in {"archive", "activate"} =>
       status \in {"published", "archived"}

TimeInv == Typed /\ Decided /\ TimestampsAgree

KeyPointPC == {"idle", "insert", "checkUpdate", "update", "checkDelete", "delete",
               "list", "renumber"}

\* KeyPointService, and a request that stops, leave the status alone.
LEMMA KeyPointEffect ==
  ASSUME Typed, NEW c \in Call, KeyPointStep(c) \/ Stop(c)
  PROVE  /\ UNCHANGED <<clock, tourVars, seen, since>>
         /\ \E p \in KeyPointPC : pc' = [pc EXCEPT ![c] = p]
<1> USE DEF Typed, KeyPointPC, Goto, tourVars, kpVars
<1>1. CASE CreateKeyPointCheck(c)
  BY <1>1 DEF CreateKeyPointCheck
<1>2. CASE CreateKeyPointInsert(c)
  BY <1>2 DEF CreateKeyPointInsert
<1>3. CASE FindKeyPoint(c, "checkUpdate") \/ FindKeyPoint(c, "checkDelete")
  BY <1>3 DEF FindKeyPoint
<1>4. CASE \/ CheckDraft(c, "checkUpdate", "update")
           \/ CheckDraft(c, "checkDelete", "delete")
  BY <1>4 DEF CheckDraft
<1>5. CASE UpdateKeyPointWrite(c)
  BY <1>5 DEF UpdateKeyPointWrite
<1>6. CASE DeleteKeyPointWrite(c)
  BY <1>6 DEF DeleteKeyPointWrite
<1>7. CASE DeleteList(c)
  BY <1>7 DEF DeleteList
<1>8. CASE DeleteRenumber(c)
  <2>1. pc = [pc EXCEPT ![c] = "renumber"]
    BY <1>8 DEF DeleteRenumber
  <2>2. pc' = pc \/ pc' = [pc EXCEPT ![c] = "idle"]
    BY <1>8 DEF DeleteRenumber
  <2>3. QED
    BY <1>8, <2>1, <2>2 DEF DeleteRenumber
<1>9. CASE DeleteEnd(c)
  BY <1>9 DEF DeleteEnd
<1>10. CASE Stop(c)
  BY <1>10 DEF Stop
<1>11. QED
  BY <1>1, <1>2, <1>3, <1>4, <1>5, <1>6, <1>7, <1>8, <1>9, <1>10 DEF KeyPointStep

\* The writes of Publish, Archive and Activate, with the status and timestamps
\* they leave behind.
LEMMA TourStepInv ==
  ASSUME TimeInv, NEW c \in Call, TourStep(c)
  PROVE  TimeInv'
<1> USE DEF TimeInv, Typed, Decided, TimestampsAgree,
            Goto, tourVars, kpVars, Status, PC, WriteStatus
<1>1. CASE PublishRead(c)
  BY <1>1 DEF PublishRead
<1>2. CASE PublishCount(c)
  BY <1>2 DEF PublishCount
<1>3. CASE PublishWrite(c)
  <2>1. PICK now \in since[c]..clock : WriteStatus("published", now, 0)
    BY <1>3 DEF PublishWrite
  <2>2. QED
    BY <1>3, <2>1 DEF PublishWrite
<1>4. CASE ArchiveRead(c)
  BY <1>4 DEF ArchiveRead
<1>5. CASE ArchiveWrite(c)
  <2>1. PICK now \in since[c]..clock : WriteStatus("archived", seen[c], now)
    BY <1>5 DEF ArchiveWrite
  <2>2. QED
    BY <1>5, <2>1 DEF ArchiveWrite
<1>6. CASE ActivateRead(c)
  BY <1>6 DEF ActivateRead
<1>7. CASE ActivateWrite(c)
  <2>1. PICK now \in since[c]..clock : WriteStatus("published", now, 0)
    BY <1>7 DEF ActivateWrite
  <2>2. QED
    BY <1>7, <2>1 DEF ActivateWrite
<1>8. QED
  BY <1>1, <1>2, <1>3, <1>4, <1>5, <1>6, <1>7 DEF TourStep

\* Status and timestamps of a tour, and what every pending request knows of
\* them, whatever requests overlap.
THEOREM Timestamps == Spec => []TimeInv
<1>1. Init => TimeInv
  BY DEF Init, TimeInv, Typed, Decided, TimestampsAgree,
         Status, PC
<1>2. TimeInv /\ [Next]_vars => TimeInv'
  <2> SUFFICES ASSUME TimeInv, [Next]_vars PROVE TimeInv'
    OBVIOUS
  <2> USE DEF TimeInv, Typed, Decided, TimestampsAgree,
              tourVars, kpVars, callVars, Status, PC
  <2>1. CASE Tick
    BY <2>1 DEF Tick
  <2>2. CASE CreateTour
    BY <2>2 DEF CreateTour
  <2>3. CASE UpdateTour
    BY <2>3 DEF UpdateTour
  <2>4. ASSUME NEW c \in Call, TourStep(c) PROVE TimeInv'
    BY <2>4, TourStepInv
  <2>5. ASSUME NEW c \in Call, KeyPointStep(c) \/ Stop(c) PROVE TimeInv'
    <3>1. /\ UNCHANGED <<clock, tourVars, seen, since>>
          /\ \E p \in KeyPointPC : pc' = [pc EXCEPT ![c] = p]
      BY <2>5, KeyPointEffect
    <3>2. QED
      BY <3>1 DEF KeyPointPC
  <2>6. CASE UNCHANGED vars
    BY <2>6 DEF vars
  <2>7. QED
    BY <2>1, <2>2, <2>3, <2>4, <2>5, <2>6 DEF Next
<1>3. QED
  BY <1>1, <1>2, PTL DEF Spec

\* The timestamps of a tour tell its status (UpdateStatusWithTimestamps), however
\* many requests of the author overlap.
THEOREM TimestampsTell == Spec => []TimestampsAgree
<1>1. TimeInv => TimestampsAgree
  BY DEF TimeInv
<1>2. QED
  BY <1>1, Timestamps, PTL

\* What a request that is late writes is a move of the lifecycle all the same.
LEMMA LifecycleStep ==
  ASSUME TimeInv, [Next]_vars
  PROVE  [Lifecycle!Next]_status
<1> USE DEF TimeInv, Typed, Decided, Status, tourVars, Lifecycle!Next,
            Lifecycle!Draft, Lifecycle!Publish, Lifecycle!Archive, Lifecycle!Activate
<1>1. CASE Tick \/ CreateTour \/ UpdateTour
  BY <1>1 DEF Tick, CreateTour, UpdateTour
<1>2. ASSUME NEW c \in Call, TourStep(c) PROVE [Lifecycle!Next]_status
  BY <1>2 DEF TourStep, PublishRead, PublishCount, PublishWrite, ArchiveRead,
              ArchiveWrite, ActivateRead, ActivateWrite, WriteStatus
<1>3. ASSUME NEW c \in Call, KeyPointStep(c) \/ Stop(c) PROVE [Lifecycle!Next]_status
  BY <1>3, KeyPointEffect
<1>4. CASE UNCHANGED vars
  BY <1>4 DEF vars
<1>5. QED
  BY <1>1, <1>2, <1>3, <1>4 DEF Next

\* Publish, Archive and Activate implement the lifecycle, although each decides
\* on a status that may be outdated when it writes.
THEOREM LifecycleKept == Spec => ImplementsLifecycle
<1>1. Init => Lifecycle!Init
  BY DEF Init, Lifecycle!Init
<1>2. QED
  BY <1>1, LifecycleStep, Timestamps, PTL DEF Spec, ImplementsLifecycle, Lifecycle!Spec

-------------------------------------------------------------------------------
(* One request at a time: what it has read of status and key points is still *)
(* so when it writes.                                                        *)

\* The key points are finitely many, for any number of overlapping requests.
KeysInv ==
  /\ order = [k \in KeyPoints |-> order[k]]
  /\ IsFiniteSet(KeyPoints)
  /\ DOMAIN todo = Call

\* Only these steps write a key point or a plan of renumberings.
LEMMA KeyPointWrites ==
  ASSUME Next
  PROVE  \/ UNCHANGED <<order, todo>>
         \/ \E c \in Call : \/ CreateKeyPointInsert(c) \/ UpdateKeyPointWrite(c) \/ DeleteKeyPointWrite(c)
                            \/ DeleteList(c) \/ DeleteRenumber(c) \/ Stop(c)
<1>1. Tick \/ CreateTour \/ UpdateTour => UNCHANGED <<order, todo>>
  BY DEF Tick, CreateTour, UpdateTour, kpVars, callVars
<1>2. \A c \in Call : TourStep(c) => UNCHANGED <<order, todo>>
  BY DEF TourStep, PublishRead, PublishCount, PublishWrite, ArchiveRead, ArchiveWrite,
         ActivateRead, ActivateWrite, kpVars
<1>3. \A c \in Call : CreateKeyPointCheck(c) \/ DeleteEnd(c) => UNCHANGED <<order, todo>>
  BY DEF CreateKeyPointCheck, DeleteEnd, kpVars
<1>4. \A c \in Call : FindKeyPoint(c, "checkUpdate") \/ FindKeyPoint(c, "checkDelete")
                        => UNCHANGED <<order, todo>>
  BY DEF FindKeyPoint, kpVars
<1>5. \A c \in Call : CheckDraft(c, "checkUpdate", "update") \/ CheckDraft(c, "checkDelete", "delete")
                        => UNCHANGED <<order, todo>>
  BY DEF CheckDraft, kpVars
<1> QED  BY <1>1, <1>2, <1>3, <1>4, <1>5 DEF Next, KeyPointStep

LEMMA KeysStep ==
  ASSUME KeysInv, Next
  PROVE  KeysInv'
<1>1. CASE UNCHANGED <<order, todo>>
  BY <1>1 DEF KeysInv, KeyPoints
<1>2. ASSUME NEW c \in Call, CreateKeyPointInsert(c)  PROVE KeysInv'
  <2>1. PICK k \in KeyPoint \ used, n \in 0..MaxOrder :
           order' = [x \in KeyPoints \union {k} |-> IF x = k THEN n ELSE order[x]]
    BY <1>2 DEF CreateKeyPointInsert
  <2>2. KeyPoints' = KeyPoints \union {k}
    BY <2>1 DEF KeyPoints
  <2>3. IsFiniteSet(KeyPoints')
    BY <2>2, FS_AddElement DEF KeysInv
  <2> QED  BY <1>2, <2>1, <2>2, <2>3 DEF KeysInv, CreateKeyPointInsert
<1>3. ASSUME NEW c \in Call, UpdateKeyPointWrite(c)  PROVE KeysInv'
  <2>1. KeyPoints' = KeyPoints /\ order' = [k \in KeyPoints |-> order'[k]] /\ todo' = todo
    BY <1>3 DEF UpdateKeyPointWrite, KeysInv, KeyPoints
  <2> QED  BY <2>1 DEF KeysInv
<1>4. ASSUME NEW c \in Call, DeleteKeyPointWrite(c)  PROVE KeysInv'
  <2>1. /\ KeyPoints' = KeyPoints \ {target[c]} /\ order' = [k \in KeyPoints' |-> order'[k]]
        /\ todo' = todo
    BY <1>4 DEF DeleteKeyPointWrite, KeyPoints
  <2>2. IsFiniteSet(KeyPoints')
    BY <2>1, FS_Subset DEF KeysInv
  <2> QED  BY <2>1, <2>2 DEF KeysInv
<1>5. ASSUME NEW c \in Call, DeleteList(c) \/ Stop(c)  PROVE KeysInv'
  <2>1. order' = order /\ DOMAIN todo' = DOMAIN todo
    BY <1>5 DEF DeleteList, Stop, kpVars
  <2> QED  BY <2>1 DEF KeysInv, KeyPoints
<1>6. ASSUME NEW c \in Call, DeleteRenumber(c)  PROVE KeysInv'
  <2>1. PICK i : \/ order' = [order EXCEPT ![todo[c][i]] = i] /\ DOMAIN todo' = DOMAIN todo
                 \/ order' = order /\ DOMAIN todo' = DOMAIN todo
    BY <1>6 DEF DeleteRenumber
  <2>2. KeyPoints' = KeyPoints /\ order' = [k \in KeyPoints |-> order'[k]]
    BY <2>1 DEF KeysInv, KeyPoints
  <2> QED  BY <2>1, <2>2 DEF KeysInv
<1> QED  BY <1>1, <1>2, <1>3, <1>4, <1>5, <1>6, KeyPointWrites

\* The key points are finitely many and each has a number, whatever requests overlap
\* (keypoint_service.go:62, 183, 209).
THEOREM KeysKept == Spec => []KeysInv
<1>1. Init => KeysInv
  BY FS_EmptySet DEF Init, KeysInv, KeyPoints
<1>2. KeysInv /\ UNCHANGED vars => KeysInv'
  BY DEF KeysInv, KeyPoints, vars, kpVars, callVars
<1> QED  BY <1>1, <1>2, KeysStep, PTL DEF Spec

\* A list of all different key points is a list of all key points.
LEMMA ListsAll ==
  ASSUME NEW S, IsFiniteSet(S), NEW s \in [1..Cardinality(S) -> S], IsInjective(s)
  PROVE  \A k \in S : \E i \in DOMAIN s : s[i] = k
<1> DEFINE n == Cardinality(S)
           R == {s[i] : i \in 1..n}
<1>1. n \in Nat
  BY FS_CardinalityType
<1>2. IsFiniteSet(1..n) /\ Cardinality(1..n) = n
  BY <1>1, FS_Interval
<1>3. s \in Bijection(1..n, R)
  BY DEF Bijection, Injection, Surjection, IsInjective
<1>4. IsFiniteSet(R) /\ Cardinality(R) = n
  BY <1>2, <1>3, FS_Bijection DEF ExistsBijection
<1>5. ASSUME NEW k \in S, k \notin R  PROVE FALSE
  <2>1. IsFiniteSet(S \ {k}) /\ Cardinality(S \ {k}) = n - 1
    BY <1>5, FS_RemoveElement
  <2>2. R \in SUBSET (S \ {k})
    BY <1>5
  <2>3. Cardinality(R) <= n - 1
    <3> HIDE DEF R
    <3> QED  BY <2>1, <2>2, FS_Subset
  <2> QED  BY <1>1, <1>4, <2>3
<1> QED  BY <1>5

Alone == \A c, d \in Call : pc[c] # "idle" /\ pc[d] # "idle" => c = d

\* A plan t of renumberings: the key points stand in a list of all of them, and what
\* is not planned has its position for its order.
Renumbering(t) ==
  \E s \in [1..Cardinality(KeyPoints) -> KeyPoints] :
    /\ IsInjective(s)
    /\ \A i \in DOMAIN t : i \in DOMAIN s /\ t[i] = s[i]
    /\ \A i \in DOMAIN s : i \in DOMAIN t \/ order[s[i]] = i

\* The requests that decided on a draft, and those of them that change key points.
DraftPC == {"count", "publish", "insert", "update", "delete", "list", "renumber"}

\* What a request that is alone has read still holds.
SerialInv ==
  /\ PublishedHasKeyPoints
  /\ \A c \in Call : pc[c] \in DraftPC => status = "draft"
  /\ \A c \in Call : pc[c] = "publish" => Cardinality(KeyPoints) >= 2
  /\ \A c \in Call : pc[c] = "renumber" => Renumbering(todo[c])

\* A new list, sorted or not, makes a plan.
LEMMA ListPlans ==
  ASSUME KeysInv, NEW s \in [1..Cardinality(KeyPoints) -> KeyPoints], IsInjective(s),
         NEW t, t = Restrict(s, {i \in DOMAIN s : order[s[i]] # i})
  PROVE  Renumbering(t)
<1>1. DOMAIN t = {i \in DOMAIN s : order[s[i]] # i} /\ \A i \in DOMAIN t : t[i] = s[i]
  BY DEF Restrict
<1> QED  BY <1>1 DEF Renumbering

\* A renumbering that is done need not be planned any more.
LEMMA PlanGoesOn ==
  ASSUME KeysInv, NEW t, Renumbering(t), NEW i \in DOMAIN t,
         order' = [order EXCEPT ![t[i]] = i],
         NEW u, u = Restrict(t, DOMAIN t \ {i})
  PROVE  Renumbering(u)'
<1>1. PICK s \in [1..Cardinality(KeyPoints) -> KeyPoints] :
         /\ IsInjective(s)
         /\ \A j \in DOMAIN t : j \in DOMAIN s /\ t[j] = s[j]
         /\ \A j \in DOMAIN s : j \in DOMAIN t \/ order[s[j]] = j
  BY DEF Renumbering
<1>2. KeyPoints' = KeyPoints
  BY DEF KeysInv, KeyPoints
<1>3. DOMAIN u = DOMAIN t \ {i} /\ \A j \in DOMAIN u : u[j] = t[j]
  BY DEF Restrict
<1>4. ASSUME NEW j \in DOMAIN s, j \notin DOMAIN u  PROVE order'[s[j]] = j
  <2>1. CASE j = i
    BY <1>1, <2>1 DEF KeysInv
  <2>2. CASE j # i
    BY <1>1, <1>3, <1>4, <2>2 DEF KeysInv, IsInjective
  <2> QED  BY <2>1, <2>2
<1>5. \A j \in DOMAIN u : j \in DOMAIN s /\ u[j] = s[j]
  BY <1>1, <1>3
<1>6. s \in [1..Cardinality(KeyPoints') -> KeyPoints']
  BY <1>2
<1> QED  BY <1>1, <1>4, <1>5, <1>6 DEF Renumbering

\* A plan that is done leaves the orders 1 to n.
LEMMA PlanDone ==
  ASSUME KeysInv, NEW t, Renumbering(t), DOMAIN t = {}
  PROVE  Range(order) = 1..Cardinality(KeyPoints)
<1>1. PICK s \in [1..Cardinality(KeyPoints) -> KeyPoints] :
         IsInjective(s) /\ \A i \in DOMAIN s : order[s[i]] = i
  BY DEF Renumbering
<1>2. \A k \in KeyPoints : \E i \in DOMAIN s : s[i] = k
  BY <1>1, ListsAll DEF KeysInv
<1> QED  BY <1>1, <1>2 DEF Range, KeysInv, KeyPoints

\* A step of any other request or of the clock leaves the facts alone.
LEMMA SerialStays ==
  ASSUME KeysInv, SerialInv, UNCHANGED <<status, order, todo>>,
         \A c \in Call : \/ pc'[c] = pc[c] \/ pc'[c] \notin DraftPC
                         \/ status = "draft" /\ pc'[c] \notin {"publish", "renumber"}
  PROVE  SerialInv'
BY DEF SerialInv, PublishedHasKeyPoints, Renumbering, KeyPoints, DraftPC

LEMMA SerialTour ==
  ASSUME TimeInv, KeysInv, SerialInv, Alone, NEW c \in Call, TourStep(c)
  PROVE  SerialInv'
<1> USE DEF TimeInv, Typed
<1>1. UNCHANGED <<order, todo>> /\ KeyPoints' = KeyPoints
  BY DEF TourStep, PublishRead, PublishCount, PublishWrite, ArchiveRead, ArchiveWrite,
         ActivateRead, ActivateWrite, kpVars, KeyPoints
<1>2. ASSUME NEW p, Goto(c, p)  PROVE pc'[c] = p /\ \A d \in Call \ {c} : pc'[d] = pc[d]
  BY <1>2 DEF Goto
<1>3. CASE PublishRead(c)
  <2>1. pc'[c] = "count" /\ status = "draft" /\ status' = status
    BY <1>2, <1>3 DEF PublishRead, tourVars
  <2>2. \A d \in Call \ {c} : pc'[d] = pc[d]
    BY <1>2, <1>3 DEF PublishRead
  <2> QED  BY <1>1, <2>1, <2>2, SerialStays
<1>4. CASE PublishCount(c)
  <2>1. Cardinality(KeyPoints) \in Nat
    BY FS_CardinalityType DEF KeysInv
  <2>2. /\ status' = status /\ pc[c] = "count"
        /\ \/ pc'[c] = "idle"
           \/ pc'[c] = "publish" /\ Cardinality(KeyPoints) >= 2
    BY <1>2, <1>4, <2>1 DEF PublishCount, tourVars
  <2>3. \A d \in Call \ {c} : pc'[d] = pc[d]
    BY <1>2, <1>4 DEF PublishCount
  <2> QED  BY <1>1, <2>2, <2>3
           DEF SerialInv, PublishedHasKeyPoints, Renumbering, DraftPC
<1>5. CASE ArchiveRead(c) \/ ActivateRead(c)
  <2>1. status' = status /\ pc'[c] \in {"archive", "activate"} /\ \A d \in Call \ {c} : pc'[d] = pc[d]
    BY <1>2, <1>5 DEF ArchiveRead, ActivateRead, tourVars
  <2> QED  BY <1>1, <2>1, SerialStays DEF DraftPC
<1>6. CASE PublishWrite(c) \/ ArchiveWrite(c) \/ ActivateWrite(c)
  <2>1. /\ pc[c] \in {"publish", "archive", "activate"}
        /\ pc'[c] = "idle" /\ \A d \in Call \ {c} : pc'[d] = pc[d]
    BY <1>2, <1>6 DEF PublishWrite, ArchiveWrite, ActivateWrite
  <2>2. \A d \in Call : pc'[d] = "idle"
    BY <2>1 DEF Alone
  <2>3. Cardinality(KeyPoints) >= 2
    BY <2>1 DEF SerialInv, Decided, PublishedHasKeyPoints
  <2> QED  BY <1>1, <2>2, <2>3 DEF SerialInv, PublishedHasKeyPoints, DraftPC
<1> QED  BY <1>3, <1>4, <1>5, <1>6 DEF TourStep

\* The requests of the key points write only while the tour is a draft.
LEMMA SerialKeyPoint ==
  ASSUME TimeInv, KeysInv, SerialInv, Alone, NEW c \in Call, KeyPointStep(c) \/ Stop(c)
  PROVE  SerialInv'
<1> USE DEF TimeInv, Typed
<1>1. status' = status
  BY KeyPointEffect DEF tourVars
<1>2. ASSUME NEW p, Goto(c, p)  PROVE pc'[c] = p /\ \A d \in Call \ {c} : pc'[d] = pc[d]
  BY <1>2 DEF Goto
\* A step that writes key points: the tour is a draft, and nobody else is about.
<1>3. ASSUME pc[c] \in DraftPC \ {"count", "publish"}, pc'[c] # "publish",
             \A d \in Call \ {c} : pc'[d] = pc[d],
             pc'[c] = "renumber" => Renumbering(todo[c])'
      PROVE  SerialInv'
  <2>1. status = "draft" /\ \A d \in Call \ {c} : pc'[d] = "idle"
    BY <1>3 DEF SerialInv, Alone, DraftPC
  <2> QED  BY <1>1, <1>3, <2>1 DEF SerialInv, PublishedHasKeyPoints, DraftPC
<1>4. CASE \/ CreateKeyPointInsert(c) \/ UpdateKeyPointWrite(c) \/ DeleteKeyPointWrite(c)
           \/ DeleteEnd(c)
  BY <1>2, <1>3, <1>4
  DEF CreateKeyPointInsert, UpdateKeyPointWrite, DeleteKeyPointWrite, DeleteEnd, DraftPC
<1>5. CASE DeleteList(c)
  <2>1. PICK s \in Sorted :
           todo' = [todo EXCEPT ![c] = Restrict(s, {i \in DOMAIN s : order[s[i]] # i})]
    BY <1>5 DEF DeleteList
  <2>2. PICK t : t = Restrict(s, {i \in DOMAIN s : order[s[i]] # i})
    OBVIOUS
  <2>3. Renumbering(t)
    BY <2>2, ListPlans DEF Sorted
  <2>4. todo'[c] = t /\ order' = order
    BY <1>5, <2>1, <2>2 DEF KeysInv, DeleteList, kpVars
  <2>5. Renumbering(todo[c])'
    BY <2>3, <2>4 DEF Renumbering, KeyPoints
  <2> QED  BY <1>2, <1>3, <1>5, <2>5 DEF DeleteList, DraftPC
<1>6. CASE DeleteRenumber(c)
  <2>1. PICK i \in DOMAIN todo[c] :
           \/ /\ order' = [order EXCEPT ![todo[c][i]] = i]
              /\ todo' = [todo EXCEPT ![c] = Restrict(todo[c], DOMAIN todo[c] \ {i})]
              /\ UNCHANGED pc
           \/ Goto(c, "idle")
    BY <1>6 DEF DeleteRenumber
  <2>2. pc[c] = "renumber" /\ Renumbering(todo[c])
    BY <1>6 DEF DeleteRenumber, SerialInv
  <2>3. CASE Goto(c, "idle")
    BY <1>2, <1>3, <2>2, <2>3 DEF DraftPC
  <2>4. CASE ~Goto(c, "idle")
    <3>1. PICK u : u = Restrict(todo[c], DOMAIN todo[c] \ {i})
      OBVIOUS
    <3>2. Renumbering(u)'
      BY <2>1, <2>2, <2>4, <3>1, PlanGoesOn
    <3>3. todo'[c] = u
      BY <2>1, <2>4, <3>1 DEF KeysInv
    <3>4. Renumbering(todo[c])'
      BY <3>2, <3>3 DEF Renumbering
    <3> QED  BY <1>3, <2>1, <2>2, <2>4, <3>4 DEF DraftPC
  <2> QED  BY <2>3, <2>4
<1>7. CASE Stop(c)
  <2>1. pc[c] # "idle" /\ pc'[c] = "idle" /\ \A d \in Call \ {c} : pc'[d] = pc[d] /\ order' = order
    BY <1>2, <1>7 DEF Stop, kpVars
  <2>2. \A d \in Call : pc'[d] = "idle"
    BY <2>1 DEF Alone
  <2> QED  BY <1>1, <1>7, <2>2 DEF Stop, kpVars, SerialInv, PublishedHasKeyPoints, DraftPC, KeyPoints
<1>8. CASE CreateKeyPointCheck(c)
  <2>1. pc'[c] = "insert" /\ status = "draft" /\ UNCHANGED <<order, todo>>
    BY <1>2, <1>8 DEF CreateKeyPointCheck, kpVars
  <2>2. \A d \in Call \ {c} : pc'[d] = pc[d]
    BY <1>2, <1>8 DEF CreateKeyPointCheck
  <2> QED  BY <1>1, <2>1, <2>2, SerialStays
<1>9. CASE FindKeyPoint(c, "checkUpdate") \/ FindKeyPoint(c, "checkDelete")
  <2>1. /\ pc'[c] \in {"checkUpdate", "checkDelete"} /\ UNCHANGED <<order, todo>>
        /\ \A d \in Call \ {c} : pc'[d] = pc[d]
    BY <1>2, <1>9 DEF FindKeyPoint, kpVars
  <2> QED  BY <1>1, <2>1, SerialStays DEF DraftPC
<1>10. CASE CheckDraft(c, "checkUpdate", "update") \/ CheckDraft(c, "checkDelete", "delete")
  <2>1. /\ pc'[c] = "idle" \/ (pc'[c] \in {"update", "delete"} /\ status = "draft")
        /\ UNCHANGED <<order, todo>>
        /\ \A d \in Call \ {c} : pc'[d] = pc[d]
    BY <1>2, <1>10 DEF CheckDraft, kpVars
  <2> QED  BY <1>1, <2>1, SerialStays DEF DraftPC
<1> QED  BY <1>4, <1>5, <1>6, <1>7, <1>8, <1>9, <1>10 DEF KeyPointStep

LEMMA SerialStep ==
  ASSUME TimeInv, KeysInv, SerialInv, Alone, [Next]_vars
  PROVE  SerialInv'
<1>1. CASE Tick \/ UpdateTour \/ UNCHANGED vars
  <2>1. UNCHANGED <<status, order, todo, pc>>
    BY <1>1 DEF Tick, UpdateTour, tourVars, kpVars, callVars, vars
  <2> QED  BY <2>1, SerialStays
<1>2. CASE CreateTour
  <2>1. status = "none" /\ status' = "draft" /\ UNCHANGED <<order, todo, pc>>
    BY <1>2 DEF CreateTour, kpVars, callVars
  <2> QED  BY <2>1 DEF SerialInv, PublishedHasKeyPoints, Renumbering, KeyPoints, DraftPC
<1> QED  BY <1>1, <1>2, SerialTour, SerialKeyPoint DEF Next

-------------------------------------------------------------------------------
(* With the history of MCTourAuthoring.                                      *)

mcVars == <<vars, overlapped>>

\* Behaviours with the history are behaviours of the services.
LEMMA HistoryOnly == MCSpec => Spec
<1>1. MCInit => Init
  BY DEF MCInit
<1>2. [MCNext]_mcVars => [Next]_vars
  BY DEF MCNext, mcVars
<1> QED  BY <1>1, <1>2, PTL DEF MCSpec, Spec, mcVars

LEMMA InitSerial ==
  ASSUME Init
  PROVE  Alone /\ SerialInv
BY DEF Init, Alone, SerialInv, PublishedHasKeyPoints, DraftPC

UntilOverlap ==
  /\ overlapped \in BOOLEAN
  /\ ~overlapped => Alone /\ SerialInv

LEMMA UntilOverlapKept == MCSpec => []UntilOverlap
<1>1. MCInit => UntilOverlap
  BY InitSerial DEF MCInit, UntilOverlap
<1>2. TimeInv /\ KeysInv /\ UntilOverlap /\ UNCHANGED mcVars => UntilOverlap'
  <2> SUFFICES ASSUME TimeInv, KeysInv, UntilOverlap, UNCHANGED mcVars  PROVE UntilOverlap'
    OBVIOUS
  <2>1. overlapped' = overlapped /\ UNCHANGED vars /\ (Alone => Alone')
    BY DEF mcVars, vars, callVars, Alone
  <2> QED  BY <2>1, SerialStep DEF UntilOverlap
<1>3. TimeInv /\ KeysInv /\ UntilOverlap /\ MCNext => UntilOverlap'
  <2> SUFFICES ASSUME TimeInv, KeysInv, UntilOverlap, MCNext  PROVE UntilOverlap'
    OBVIOUS
  <2>1. Next /\ overlapped' \in BOOLEAN /\ (overlapped => overlapped')
    BY DEF MCNext, UntilOverlap
  <2>2. ~overlapped' => Alone'
    BY DEF MCNext, Alone
  <2> QED  BY <2>1, <2>2, SerialStep DEF UntilOverlap
<1> QED  BY <1>1, <1>2, <1>3, HistoryOnly, Timestamps, KeysKept, PTL DEF MCSpec, mcVars

\* Until two requests overlap, stopped ones included, a published tour has two key
\* points (tour_service.go:182).
THEOREM KeyPointsOfPublished == MCSpec => []SerialPublishedHasKeyPoints
<1>1. UntilOverlap => SerialPublishedHasKeyPoints
  BY DEF UntilOverlap, SerialInv, SerialPublishedHasKeyPoints
<1> QED  BY <1>1, UntilOverlapKept, PTL

\* Until two requests overlap, a delete that ran to its end leaves the orders 1 to n
\* (keypoint_service.go:203-221).
THEOREM DeleteRenumbers == MCSpec => []SerialDeleteNormalizes
<1>1. KeysInv /\ UntilOverlap => SerialDeleteNormalizes
  BY PlanDone DEF UntilOverlap, SerialInv, SerialDeleteNormalizes, DeleteNormalizes
<1> QED  BY <1>1, UntilOverlapKept, KeysKept, HistoryOnly, PTL

-------------------------------------------------------------------------------
(* What visitors are told.                                                   *)

pageVars == <<allVars, reviewVars, tourFound, side>>

\* Behaviours of the page are behaviours of the authoring and of the reviews.
LEMMA PageParts == PageSpec => Spec /\ ReviewSpec
<1>1. PageInit => Init /\ ReviewInit
  BY DEF PageInit
<1>2. [PageNext]_pageVars => [Next]_vars /\ [ReviewNext]_reviewVars
  BY DEF PageNext, pageVars, allVars
<1> QED  BY <1>1, <1>2, PTL DEF PageSpec, Spec, ReviewSpec, pageVars

Public == status \in {"published", "archived"}

\* A tour that was published keeps its key points and stays what it is.
LEMMA Frozen ==
  ASSUME TimeInv, KeysInv, SerialInv, [Next]_vars, Public
  PROVE  Public' /\ order' = order
<1>1. Public'
  BY LifecycleStep DEF Public, Lifecycle!Next, Lifecycle!Draft, Lifecycle!Publish,
                       Lifecycle!Archive, Lifecycle!Activate
<1>2. \A c \in Call : pc[c] \notin DraftPC
  BY DEF SerialInv, Public
<1>3. UNCHANGED order
  <2>1. CASE UNCHANGED vars
    BY <2>1 DEF vars, kpVars
  <2>2. CASE UNCHANGED <<order, todo>>
    BY <2>2
  <2>3. ASSUME NEW c \in Call, CreateKeyPointInsert(c) \/ UpdateKeyPointWrite(c)
                             \/ DeleteKeyPointWrite(c) \/ DeleteRenumber(c)
        PROVE  FALSE
    BY <1>2, <2>3
    DEF CreateKeyPointInsert, UpdateKeyPointWrite, DeleteKeyPointWrite, DeleteRenumber, DraftPC
  <2>4. ASSUME NEW c \in Call, DeleteList(c) \/ Stop(c)  PROVE UNCHANGED order
    BY <2>4 DEF DeleteList, Stop, kpVars
  <2> QED  BY <2>1, <2>2, <2>3, <2>4, KeyPointWrites
<1> QED  BY <1>1, <1>3

\* The document as the list read it when it was published.
WasPublished(tour) ==
  /\ tour = [status |-> tour.status, publishedAt |-> tour.publishedAt, archivedAt |-> tour.archivedAt]
  /\ tour.publishedAt # 0

\* What visitors have bought, are about to be told and were told.
VisitorsKnow ==
  /\ token \subseteq vetted /\ sold \subseteq vetted
  /\ vetted # {} => Public
  /\ reading = [v \in Visitor |-> reading[v]]
  /\ part = [v \in Visitor |-> part[v]]
  /\ answer = [v \in Visitor |-> answer[v]]
  /\ \A v \in Visitor :
       /\ reading[v] = "all" => v \in vetted
       /\ reading[v] = "preview" => Public /\ WasPublished(part[v])
       /\ answer[v].kind = "bought" => Public /\ answer[v].keyPoints = order
       /\ answer[v].kind = "listed" =>
            /\ Public
            /\ answer[v].tour.publishedAt # 0
            /\ answer[v].keyPoints # <<>>
            /\ answer[v].keyPoints \in FirstKeyPoint

\* An author's step leaves what visitors know right.
LEMMA AuthorStep ==
  ASSUME TimeInv, KeysInv, SerialInv, VisitorsKnow, [Next]_vars, UNCHANGED catalogVars
  PROVE  VisitorsKnow'
<1>1. Public => Public' /\ order' = order
  BY Frozen
<1>2. Public => FirstKeyPoint' = FirstKeyPoint
  BY <1>1 DEF FirstKeyPoint, KeyPoints
<1> QED  BY <1>1, <1>2 DEF VisitorsKnow, catalogVars

\* A request of a visitor that goes on.
LEMMA GoesOn ==
  ASSUME VisitorsKnow, UNCHANGED vars, NEW v \in Visitor, NEW p, Await(v, p),
         \/ UNCHANGED part
         \/ \E d : part' = [part EXCEPT ![v] = d] /\ (p = "preview" => WasPublished(d)),
         UNCHANGED <<vetted, sold, answer>>, token' \subseteq vetted,
         p = "all" => v \in vetted,
         p = "preview" => Public /\ ~UNCHANGED part
  PROVE  VisitorsKnow'
<1>1. Public' = Public /\ FirstKeyPoint' = FirstKeyPoint /\ order' = order
  BY DEF Public, FirstKeyPoint, KeyPoints, vars, tourVars, kpVars
<1>2. /\ reading' = [w \in Visitor |-> reading'[w]] /\ reading'[v] = p
      /\ \A w \in Visitor \ {v} : reading'[w] = reading[w]
  BY DEF VisitorsKnow, Await
<1>3. /\ part' = [w \in Visitor |-> part'[w]]
      /\ \A w \in Visitor \ {v} : part'[w] = part[w]
      /\ p = "preview" => WasPublished(part'[v])
  BY DEF VisitorsKnow
<1> QED  BY <1>1, <1>2, <1>3 DEF VisitorsKnow

\* A request of a visitor that is answered.
LEMMA Answers ==
  ASSUME VisitorsKnow, UNCHANGED vars, NEW v \in Visitor,
         NEW kind, NEW tour, NEW kps, Reply(v, kind, tour, kps), UNCHANGED <<vetted, sold, token>>,
         kind = "bought" => Public /\ kps = order,
         kind = "listed" => /\ Public /\ tour.publishedAt # 0
                            /\ kps # <<>> /\ kps \in FirstKeyPoint
  PROVE  VisitorsKnow'
<1>1. Public' = Public /\ FirstKeyPoint' = FirstKeyPoint /\ order' = order
  BY DEF Public, FirstKeyPoint, KeyPoints, vars, tourVars, kpVars
<1>2. /\ reading' = [w \in Visitor |-> reading'[w]] /\ reading'[v] = "idle"
      /\ part' = [w \in Visitor |-> part'[w]] /\ answer' = [w \in Visitor |-> answer'[w]]
      /\ answer'[v] = [kind |-> kind, tour |-> tour, keyPoints |-> kps]
      /\ \A w \in Visitor \ {v} :
           reading'[w] = reading[w] /\ part'[w] = part[w] /\ answer'[w] = answer[w]
  BY DEF VisitorsKnow, Reply, Await
<1>3. answer'[v].kind = kind /\ answer'[v].tour = tour /\ answer'[v].keyPoints = kps
  BY <1>2
<1> QED  BY <1>1, <1>2, <1>3 DEF VisitorsKnow

\* A tour with key points has a first one.
LEMMA FirstThere ==
  ASSUME KeysInv, SerialInv, Public, NEW kps \in FirstKeyPoint
  PROVE  kps # <<>>
<1>1. KeyPoints # {}
  BY FS_EmptySet DEF SerialInv, PublishedHasKeyPoints, Public
<1>2. PICK k : kps = Restrict(order, {k})
  BY <1>1 DEF FirstKeyPoint
<1>3. DOMAIN kps = {k}
  BY <1>2 DEF Restrict
<1> QED  BY <1>3

LEMMA VisitorStep ==
  ASSUME TimeInv, KeysInv, SerialInv, VisitorsKnow, CatalogNext, UNCHANGED vars
  PROVE  VisitorsKnow'
<1>1. PICK v \in Visitor :
        \/ Vet(v) \/ Sell(v) \/ TakeBack(v) \/ LearnPurchase(v)
        \/ GetTourOnly(v) \/ RpcGetTour(v)
        \/ ListPublished(v) \/ ListPreview(v)
        \/ TouristTour(v) \/ TouristToken(v) \/ TouristAll(v) \/ TouristFirst(v)
        \/ ReadFails(v)
  BY DEF CatalogNext
<1>2. CASE Vet(v) \/ Sell(v) \/ TakeBack(v) \/ LearnPurchase(v)
  <2>1. Public' = Public /\ FirstKeyPoint' = FirstKeyPoint /\ order' = order
    BY DEF Public, FirstKeyPoint, KeyPoints, vars, tourVars, kpVars
  <2>2. /\ UNCHANGED <<reading, part, answer>> /\ vetted \subseteq vetted'
        /\ token' \subseteq vetted' /\ sold' \subseteq vetted' /\ (vetted' # {} => Public)
    BY <1>2 DEF Vet, Sell, TakeBack, LearnPurchase, VisitorsKnow, Public
  <2> QED  BY <2>1, <2>2 DEF VisitorsKnow
<1>3. CASE GetTourOnly(v) \/ RpcGetTour(v) \/ ReadFails(v)
  <2>1. PICK kind, tour : kind \in {"tour", "none"} /\ Reply(v, kind, tour, <<>>)
    BY <1>3 DEF GetTourOnly, RpcGetTour, ReadFails
  <2> QED  BY <1>3, <2>1, Answers DEF GetTourOnly, RpcGetTour, ReadFails
<1>4. CASE ListPublished(v)
  <2>1. CASE FindAllPublished = Nothing
    BY <1>4, <2>1, Answers DEF ListPublished
  <2>2. CASE FindAllPublished # Nothing
    <3>1. status = "published" /\ FindAllPublished = Found
      BY <2>2 DEF FindAllPublished
    <3>2. Public /\ WasPublished(Found)
      BY <3>1 DEF Public, WasPublished, Found, TimeInv, TimestampsAgree
    <3>3. /\ part' = [part EXCEPT ![v] = Found] /\ Await(v, "preview")
          /\ UNCHANGED <<vetted, sold, token, answer>> /\ reading[v] = "idle"
      BY <1>4, <2>2, <3>1 DEF ListPublished
    <3>4. VisitorsKnow'
      <4>1. Public' = Public /\ FirstKeyPoint' = FirstKeyPoint /\ order' = order
        BY DEF Public, FirstKeyPoint, KeyPoints, vars, tourVars, kpVars
      <4>2. /\ reading' = [w \in Visitor |-> reading'[w]] /\ reading'[v] = "preview"
            /\ part' = [w \in Visitor |-> part'[w]] /\ part'[v] = Found
            /\ \A w \in Visitor \ {v} : reading'[w] = reading[w] /\ part'[w] = part[w]
        BY <3>3 DEF VisitorsKnow, Await
      <4>3. WasPublished(part'[v])
        BY <3>2, <4>2
      <4> QED  BY <3>2, <3>3, <4>1, <4>2, <4>3 DEF VisitorsKnow
    <3> QED  BY <3>4
  <2> QED  BY <2>1, <2>2
<1>5. CASE ListPreview(v)
  <2>1. PICK kps \in FirstKeyPoint : Reply(v, "listed", Preview(part[v]), kps)
    BY <1>5 DEF ListPreview
  <2>2. Public /\ WasPublished(part[v])
    BY <1>5 DEF ListPreview, VisitorsKnow
  <2>3. Preview(part[v]).publishedAt # 0
    BY <2>2 DEF WasPublished, Preview
  <2>4. kps # <<>>
    BY <2>2, FirstThere
  <2> QED  BY <1>5, <2>1, <2>2, <2>3, <2>4, Answers DEF ListPreview
<1>6. CASE TouristTour(v)
  <2>1. CASE status = "none"
    BY <1>6, <2>1, Answers DEF TouristTour
  <2>2. CASE status # "none"
    BY <1>6, <2>2, GoesOn DEF TouristTour, VisitorsKnow
  <2> QED  BY <2>1, <2>2
<1>7. CASE TouristToken(v)
  <2>1. PICK has \in HasToken(v) : /\ token' = IF has THEN token \union {v} ELSE token
                                   /\ Await(v, IF has THEN "all" ELSE "first")
    BY <1>7 DEF TouristToken
  <2>2. has => v \in vetted
    BY <2>1 DEF HasToken, VisitorsKnow
  <2>3. CASE has
    BY <1>7, <2>1, <2>2, <2>3, GoesOn DEF TouristToken, VisitorsKnow
  <2>4. CASE ~has
    BY <1>7, <2>1, <2>4, GoesOn DEF TouristToken, VisitorsKnow
  <2> QED  BY <2>3, <2>4
<1>8. CASE TouristAll(v)
  <2>1. Public
    BY <1>8 DEF TouristAll, VisitorsKnow
  <2> QED  BY <1>8, <2>1, Answers DEF TouristAll
<1>9. CASE TouristFirst(v)
  <2>1. PICK kps : Reply(v, "notBought", part[v], kps)
    BY <1>9 DEF TouristFirst
  <2> QED  BY <1>9, <2>1, Answers DEF TouristFirst
<1> QED  BY <1>1, <1>2, <1>3, <1>4, <1>5, <1>6, <1>7, <1>8, <1>9

\* While the author's requests do not overlap, what visitors were told stays right.
LEMMA VisitorsKept == PageSpec /\ []Alone => [](SerialInv /\ VisitorsKnow)
<1>1. PageInit => SerialInv /\ VisitorsKnow
  <2> SUFFICES ASSUME PageInit  PROVE VisitorsKnow
    BY InitSerial DEF PageInit
  <2>1. CatalogInit
    BY DEF PageInit
  <2>2. \A v \in Visitor : reading[v] = "idle" /\ answer[v].kind = "none"
    BY <2>1 DEF CatalogInit
  <2> QED  BY <2>1, <2>2 DEF CatalogInit, VisitorsKnow
<1>2. TimeInv /\ KeysInv /\ SerialInv /\ VisitorsKnow /\ Alone /\ [PageNext]_pageVars
        => (SerialInv /\ VisitorsKnow)'
  <2> SUFFICES ASSUME TimeInv, KeysInv, SerialInv, VisitorsKnow, Alone, [PageNext]_pageVars
               PROVE  (SerialInv /\ VisitorsKnow)'
    OBVIOUS
  <2>1. [Next]_vars
    BY DEF PageNext, pageVars, allVars
  <2>2. UNCHANGED catalogVars \/ (CatalogNext /\ UNCHANGED vars)
    BY DEF PageNext, pageVars, allVars
  <2> QED  BY <2>1, <2>2, SerialStep, AuthorStep, VisitorStep
<1> QED  BY <1>1, <1>2, PageParts, Timestamps, KeysKept, PTL DEF PageSpec, pageVars

\* While the author's requests do not overlap, a buyer was told of all key points of
\* the tour, two at least, for good (tour_service.go:286-296, keypoint_service.go:164-173).
THEOREM BuyersKnowTour == PageSpec /\ []Alone => []BuyerSeesTour
<1>1. SerialInv /\ VisitorsKnow => BuyerSeesTour
  BY DEF SerialInv, PublishedHasKeyPoints, VisitorsKnow, Public, BuyerSeesTour
<1> QED  BY <1>1, VisitorsKept, PTL

\* While the author's requests do not overlap, a listed tour was published and came
\* with what is its first key point to this day (tour_service.go:118-148).
THEOREM ListIsComplete == PageSpec /\ []Alone => []ListedIsComplete
<1>1. VisitorsKnow => ListedIsComplete
  BY DEF VisitorsKnow, ListedIsComplete
<1> QED  BY <1>1, VisitorsKept, PTL


-------------------------------------------------------------------------------
(* Reviews.                                                                  *)

LEMMA Finiteness ==
  ASSUME ReviewTypeOK, NEW t
  PROVE  /\ IsFiniteSet(ReviewsOf(t)) /\ Cardinality(ReviewsOf(t)) \in Nat
         /\ IsFiniteSet(Inserting(t)) /\ Cardinality(Inserting(t)) \in Nat
         /\ Cardinality(Inserting(t)) <= Cardinality(Writer)
<1>1. ReviewsOf(t) \subseteq Review /\ Inserting(t) \subseteq Writer
  BY DEF ReviewTypeOK, ReviewsOf, Inserting
<1>2. IsFiniteSet(ReviewsOf(t)) /\ IsFiniteSet(Inserting(t))
  BY <1>1, FS_Subset, ReviewAssumption, WriterAssumption
<1>3. Cardinality(Inserting(t)) <= Cardinality(Writer)
  BY <1>1, FS_Subset, WriterAssumption
<1> QED  BY <1>2, <1>3, FS_CardinalityType

\* Reviews and pending insertions that do not grow keep the bound.
LEMMA Shrinks ==
  ASSUME ReviewTypeOK, ReviewsBounded, ReviewTypeOK', NEW t \in Tourist,
         ReviewsOf(t)' \subseteq ReviewsOf(t), Inserting(t)' \subseteq Inserting(t)
  PROVE  Cardinality(ReviewsOf(t)') + Cardinality(Inserting(t)') <= Cardinality(Writer)
<1>1. /\ IsFiniteSet(ReviewsOf(t)) /\ Cardinality(ReviewsOf(t)) \in Nat
      /\ IsFiniteSet(Inserting(t)) /\ Cardinality(Inserting(t)) \in Nat
  BY Finiteness
<1>2. Cardinality(ReviewsOf(t)') <= Cardinality(ReviewsOf(t)) /\ Cardinality(ReviewsOf(t)') \in Nat
  BY <1>1, FS_Subset, FS_CardinalityType
<1>3. Cardinality(Inserting(t)') <= Cardinality(Inserting(t)) /\ Cardinality(Inserting(t)') \in Nat
  BY <1>1, FS_Subset, FS_CardinalityType
<1>4. Cardinality(Writer) \in Nat
  BY FS_CardinalityType, WriterAssumption
<1>5. Cardinality(ReviewsOf(t)) + Cardinality(Inserting(t)) <= Cardinality(Writer)
  BY DEF ReviewsBounded
<1> QED  BY <1>1, <1>2, <1>3, <1>4, <1>5

\* A step keeps the types.
LEMMA TypesKept ==
  ASSUME ReviewTypeOK, [ReviewNext]_reviewVars
  PROVE  ReviewTypeOK'
<1> USE DEF ReviewTypeOK, At, Go
<1>1. CASE UNCHANGED reviewVars
  BY <1>1 DEF reviewVars
<1>2. ASSUME NEW w \in Writer, CreateFindTour(w)  PROVE ReviewTypeOK'
  BY <1>2 DEF CreateFindTour
<1>3. ASSUME NEW w \in Writer, CreateCount(w)  PROVE ReviewTypeOK'
  BY <1>3 DEF CreateCount
<1>4. ASSUME NEW w \in Writer, CreateInsert(w)  PROVE ReviewTypeOK'
  BY <1>4 DEF CreateInsert
<1>5. ASSUME NEW w \in Writer, CreateFails(w)  PROVE ReviewTypeOK'
  BY <1>5 DEF CreateFails
<1>6. ASSUME NEW w \in Writer, Delete(w)  PROVE ReviewTypeOK'
  BY <1>6 DEF Delete
<1> QED  BY <1>1, <1>2, <1>3, <1>4, <1>5, <1>6 DEF ReviewNext

\* A step keeps the bound: whoever starts to insert found no review, so what is
\* pending then is all there is to count.
LEMMA BoundKept ==
  ASSUME ReviewTypeOK, ReviewsBounded, [ReviewNext]_reviewVars
  PROVE  ReviewsBounded'
<1>0. ReviewTypeOK'
  BY TypesKept
<1> SUFFICES ASSUME NEW t \in Tourist
             PROVE  Cardinality(ReviewsOf(t)') + Cardinality(Inserting(t)') <= Cardinality(Writer)
  BY DEF ReviewsBounded
<1> USE <1>0
<1>1. CASE UNCHANGED reviewVars
  <2>1. ReviewsOf(t)' = ReviewsOf(t) /\ Inserting(t)' = Inserting(t)
    BY <1>1 DEF reviewVars, ReviewsOf, Inserting
  <2> QED  BY <2>1, Shrinks
<1>2. ASSUME NEW w \in Writer, CreateFindTour(w)
      PROVE  Cardinality(ReviewsOf(t)') + Cardinality(Inserting(t)') <= Cardinality(Writer)
  <2>1. ReviewsOf(t)' = ReviewsOf(t) /\ Inserting(t)' \subseteq Inserting(t)
    BY <1>2 DEF CreateFindTour, Go, ReviewsOf, Inserting, ReviewTypeOK
  <2> QED  BY <2>1, Shrinks
<1>3. ASSUME NEW w \in Writer, CreateCount(w)
      PROVE  Cardinality(ReviewsOf(t)') + Cardinality(Inserting(t)') <= Cardinality(Writer)
  <2>1. ReviewsOf(t)' = ReviewsOf(t)
    BY <1>3 DEF CreateCount, ReviewsOf
  <2>2. CASE tourist[w] = t /\ ReviewsOf(t) = {}
    <3>1. Cardinality(ReviewsOf(t)') = 0
      BY <2>1, <2>2, FS_EmptySet
    <3>2. Cardinality(Inserting(t)') <= Cardinality(Writer) /\ Cardinality(Inserting(t)') \in Nat
      <4>1. Inserting(t)' \subseteq Writer
        BY DEF Inserting
      <4> QED  BY <4>1, FS_Subset, FS_CardinalityType, WriterAssumption
    <3> QED  BY <3>1, <3>2
  <2>3. CASE ~(tourist[w] = t /\ ReviewsOf(t) = {})
    <3>1. Inserting(t)' \subseteq Inserting(t)
      BY <1>3, <2>3 DEF CreateCount, Go, Inserting, ReviewTypeOK
    <3> QED  BY <2>1, <3>1, Shrinks
  <2> QED  BY <2>2, <2>3
<1>4. ASSUME NEW w \in Writer, CreateInsert(w)
      PROVE  Cardinality(ReviewsOf(t)') + Cardinality(Inserting(t)') <= Cardinality(Writer)
  <2>1. PICK r \in Review : /\ author[r] = None
                            /\ author' = [author EXCEPT ![r] = tourist[w]]
                            /\ stored' = stored \union {r}
    BY <1>4 DEF CreateInsert
  <2>2. CASE tourist[w] = t
    <3>1. ReviewsOf(t)' = ReviewsOf(t) \union {r} /\ r \notin ReviewsOf(t)
      BY <2>1, <2>2, TouristAssumption DEF ReviewsOf, ReviewTypeOK
    <3>2. Inserting(t)' = Inserting(t) \ {w} /\ w \in Inserting(t)
      BY <1>4, <2>2 DEF CreateInsert, Go, Inserting, ReviewTypeOK
    <3>3. /\ IsFiniteSet(ReviewsOf(t)) /\ Cardinality(ReviewsOf(t)) \in Nat
          /\ IsFiniteSet(Inserting(t)) /\ Cardinality(Inserting(t)) \in Nat
      BY Finiteness
    <3>4. Cardinality(ReviewsOf(t)') = Cardinality(ReviewsOf(t)) + 1
      BY <3>1, <3>3, FS_AddElement
    <3>5. Cardinality(Inserting(t)') = Cardinality(Inserting(t)) - 1
      BY <3>2, <3>3, FS_RemoveElement
    <3>6. Cardinality(ReviewsOf(t)) + Cardinality(Inserting(t)) <= Cardinality(Writer)
      BY DEF ReviewsBounded
    <3> QED  BY <3>3, <3>4, <3>5, <3>6, FS_CardinalityType, WriterAssumption
  <2>3. CASE tourist[w] # t
    <3>1. ReviewsOf(t)' = ReviewsOf(t)
      BY <2>1, <2>3, TouristAssumption DEF ReviewsOf, ReviewTypeOK
    <3>2. Inserting(t)' \subseteq Inserting(t)
      BY <1>4 DEF CreateInsert, Go, Inserting, ReviewTypeOK
    <3> QED  BY <3>1, <3>2, Shrinks
  <2> QED  BY <2>2, <2>3
<1>5. ASSUME NEW w \in Writer, CreateFails(w)
      PROVE  Cardinality(ReviewsOf(t)') + Cardinality(Inserting(t)') <= Cardinality(Writer)
  <2>1. ReviewsOf(t)' = ReviewsOf(t) /\ Inserting(t)' \subseteq Inserting(t)
    BY <1>5 DEF CreateFails, Go, ReviewsOf, Inserting, ReviewTypeOK
  <2> QED  BY <2>1, Shrinks
<1>6. ASSUME NEW w \in Writer, Delete(w)
      PROVE  Cardinality(ReviewsOf(t)') + Cardinality(Inserting(t)') <= Cardinality(Writer)
  <2>1. ReviewsOf(t)' \subseteq ReviewsOf(t) /\ Inserting(t)' = Inserting(t)
    BY <1>6 DEF Delete, ReviewsOf, Inserting
  <2> QED  BY <2>1, Shrinks
<1> QED  BY <1>1, <1>2, <1>3, <1>4, <1>5, <1>6 DEF ReviewNext

\* However many requests overlap and whatever is deleted, a tourist has no more
\* reviews of the tour than there are requests at once (review_service.go:48-74).
THEOREM FewReviews == ReviewSpec => []ReviewsBounded
<1>1. ReviewInit => ReviewTypeOK /\ ReviewsBounded
  <2> SUFFICES ASSUME ReviewInit PROVE ReviewTypeOK /\ ReviewsBounded
    OBVIOUS
  <2>1. ReviewTypeOK
    BY DEF ReviewInit, ReviewTypeOK, At
  <2>2. ASSUME NEW t \in Tourist
        PROVE  Cardinality(ReviewsOf(t)) + Cardinality(Inserting(t)) <= Cardinality(Writer)
    <3>1. ReviewsOf(t) = {} /\ Inserting(t) = {}
      BY DEF ReviewInit, ReviewsOf, Inserting
    <3> QED  BY <3>1, FS_EmptySet, FS_CardinalityType, WriterAssumption
  <2> QED  BY <2>1, <2>2 DEF ReviewsBounded
<1>2. ReviewTypeOK /\ ReviewsBounded /\ [ReviewNext]_reviewVars => (ReviewTypeOK /\ ReviewsBounded)'
  BY TypesKept, BoundKept
<1> QED  BY <1>1, <1>2, PTL DEF ReviewSpec

\* So it is in the page of the tour, whatever its author does meanwhile.
THEOREM FewReviewsOfPage == PageSpec => []ReviewsBounded
BY PageParts, FewReviews, PTL
===============================================================================
