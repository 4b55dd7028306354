---------------------------- MODULE TourAuthoring -----------------------------
(*****************************************************************************)
(* One tour and its key points in the tours service, under overlapping       *)
(* requests of the author (TourService, KeyPointService).                    *)
(*                                                                           *)
(* A handler reads the tour, decides, and writes later by _id only: MongoDB  *)
(* runs each repository call atomically and nothing else, so every           *)
(* repository call is a step.  Distinct tours share nothing here.            *)
(*****************************************************************************)
EXTENDS Naturals, FiniteSets, Functions

CONSTANTS
  Call,        \* requests that may be in progress at once
  KeyPoint,    \* ObjectIDs of key points, each inserted at most once (a bound)
  MaxOrder,    \* largest "order" a client sends (a bound)
  MaxTime      \* largest clock value (a bound)

ASSUME BoundsAssumption == MaxOrder \in Nat /\ MaxTime \in Nat

VARIABLES
  clock,       \* the time time.Now() returns; 0 stands for an absent field
  status,      \* tour.status, "none" before the document exists
  complete,    \* name, description, difficulty, tags and durations are there
  publishedAt, \* tour.publishedAt
  archivedAt,  \* tour.archivedAt
  order,       \* key point documents: a function from their ids to "order"
  used,        \* ids of all key points ever inserted
  pc,          \* Call -> the next repository call of the handler, or "idle"
  target,      \* Call -> the key point of an update or a delete
  seen,        \* Call -> publishedAt as Archive read it
  since,       \* Call -> when the handler decided to write the status
  todo         \* Call -> the key points normalizeKeyPointOrder has yet to write, by position

tourVars == <<status, complete, publishedAt, archivedAt>>
kpVars   == <<order, used>>
callVars == <<pc, target, seen, since, todo>>
vars == <<clock, tourVars, kpVars, callVars>>

Status == {"none", "draft", "published", "archived"}
Time   == 0..MaxTime
PC     == {"idle",
           "count", "publish",                      \* TourService.Publish
           "archive", "activate",                   \* Archive, Activate
           "insert",                                \* KeyPointService.Create
           "checkUpdate", "update",                 \* Update
           "checkDelete", "delete", "list", "renumber"}  \* Delete

TypeOK ==
  /\ clock \in 1..MaxTime
  /\ status \in Status
  /\ complete \in BOOLEAN
  /\ publishedAt \in Time
  /\ archivedAt \in Time
  /\ used \subseteq KeyPoint
  /\ order \in UNION {[S -> 0..MaxOrder \union 1..Cardinality(KeyPoint)] : S \in SUBSET used}
  /\ pc \in [Call -> PC]
  /\ target \in [Call -> KeyPoint \union {"none"}]
  /\ seen \in [Call -> Time]
  /\ since \in [Call -> Time]
  /\ todo \in [Call -> UNION {[P -> KeyPoint] : P \in SUBSET (1..Cardinality(KeyPoint))}]

Init ==
  /\ clock = 1
  /\ status = "none"
  /\ complete = FALSE
  /\ publishedAt = 0
  /\ archivedAt = 0
  /\ order = <<>>
  /\ used = {}
  /\ pc = [c \in Call |-> "idle"]
  /\ target = [c \in Call |-> "none"]
  /\ seen = [c \in Call |-> 0]
  /\ since = [c \in Call |-> 0]
  /\ todo = [c \in Call |-> <<>>]

Tick ==
  /\ clock < MaxTime
  /\ clock' = clock + 1
  /\ UNCHANGED <<tourVars, kpVars, callVars>>

Goto(c, p) == pc' = [pc EXCEPT ![c] = p]

KeyPoints == DOMAIN order

\* Mutant of WriteStatus: no $unset of an absent archivedAt.
WriteStatusSetOnly(s, published, archived) ==
  /\ status' = s
  /\ publishedAt' = published
  /\ archivedAt' = IF archived = 0 THEN archivedAt ELSE archived

\* UpdateStatusWithTimestamps: one UpdateOne that sets the status and both
\* timestamps, an absent one by $unset; its filter is the _id alone.  The time
\* written was taken between the handler's decision and the write.
WriteStatus(s, published, archived) ==
  /\ status' = s
  /\ publishedAt' = published
  /\ archivedAt' = archived

-------------------------------------------------------------------------------
(* TourService.                                                              *)

\* Create: inserts a draft; tags and durations may be empty.
CreateTour ==
  /\ status = "none"
  /\ status' = "draft"
  /\ complete' \in BOOLEAN
  /\ UNCHANGED <<clock, publishedAt, archivedAt, kpVars, callVars>>

\* Update: one write of the descriptive fields, whatever the status; only the
\* durations are validated, so it can blank a tour as well as complete it.
UpdateTour ==
  /\ status # "none"
  /\ complete' \in BOOLEAN
  /\ UNCHANGED <<clock, status, publishedAt, archivedAt, kpVars, callVars>>

\* Publish, 1: FindByID; a complete draft is required.
PublishRead(c) ==
  /\ pc[c] = "idle"
  /\ status = "draft" /\ complete
  /\ Goto(c, "count")
  /\ UNCHANGED <<clock, tourVars, kpVars, target, seen, since, todo>>

\* Mutant of PublishCount: one key point is enough.
PublishCountOne(c) ==
  /\ pc[c] = "count"
  /\ Goto(c, IF Cardinality(KeyPoints) < 1 THEN "idle" ELSE "publish")
  /\ since' = [since EXCEPT ![c] = clock]
  /\ UNCHANGED <<clock, tourVars, kpVars, target, seen, todo>>

\* Publish, 2: CountByTourID; at least two key points are required.
PublishCount(c) ==
  /\ pc[c] = "count"
  /\ Goto(c, IF Cardinality(KeyPoints) < 2 THEN "idle" ELSE "publish")
  /\ since' = [since EXCEPT ![c] = clock]
  /\ UNCHANGED <<clock, tourVars, kpVars, target, seen, todo>>

\* Publish, 3: the write.
PublishWrite(c) ==
  /\ pc[c] = "publish"
  /\ \E now \in since[c]..clock : WriteStatus("published", now, 0)
  /\ Goto(c, "idle")
  /\ UNCHANGED <<clock, complete, kpVars, target, seen, since, todo>>

\* Mutant of ArchiveRead: anything not archived yet may be archived.
ArchiveReadAny(c) ==
  /\ pc[c] = "idle"
  /\ status \in {"draft", "published"}
  /\ seen' = [seen EXCEPT ![c] = publishedAt]
  /\ since' = [since EXCEPT ![c] = clock]
  /\ Goto(c, "archive")
  /\ UNCHANGED <<clock, tourVars, kpVars, target, todo>>

\* Archive, 1: FindByID; the tour must be published.
ArchiveRead(c) ==
  /\ pc[c] = "idle"
  /\ status = "published"
  /\ seen' = [seen EXCEPT ![c] = publishedAt]
  /\ since' = [since EXCEPT ![c] = clock]
  /\ Goto(c, "archive")
  /\ UNCHANGED <<clock, tourVars, kpVars, target, todo>>

\* Mutant of ArchiveWrite: leaves publishedAt as it is in the document.
ArchiveWriteKeep(c) ==
  /\ pc[c] = "archive"
  /\ \E now \in since[c]..clock : WriteStatus("archived", publishedAt, now)
  /\ Goto(c, "idle")
  /\ UNCHANGED <<clock, complete, kpVars, target, seen, since, todo>>

\* Archive, 2: the write, with publishedAt as it was read.
ArchiveWrite(c) ==
  /\ pc[c] = "archive"
  /\ \E now \in since[c]..clock : WriteStatus("archived", seen[c], now)
  /\ Goto(c, "idle")
  /\ UNCHANGED <<clock, complete, kpVars, target, seen, since, todo>>

\* Activate, 1: FindByID; the tour must be archived.
ActivateRead(c) ==
  /\ pc[c] = "idle"
  /\ status = "archived"
  /\ since' = [since EXCEPT ![c] = clock]
  /\ Goto(c, "activate")
  /\ UNCHANGED <<clock, tourVars, kpVars, target, seen, todo>>

\* Activate, 2: the write.
ActivateWrite(c) ==
  /\ pc[c] = "activate"
  /\ \E now \in since[c]..clock : WriteStatus("published", now, 0)
  /\ Goto(c, "idle")
  /\ UNCHANGED <<clock, complete, kpVars, target, seen, since, todo>>

-------------------------------------------------------------------------------
(* KeyPointService.  lengthKm and updatedAt, which updateTourLength writes    *)
(* last, are not kept.                                                       *)

\* Create, 1: the tour must be a draft.
CreateKeyPointCheck(c) ==
  /\ pc[c] = "idle"
  /\ status = "draft"
  /\ Goto(c, "insert")
  /\ UNCHANGED <<clock, tourVars, kpVars, target, seen, since, todo>>

\* Create, 2: InsertOne, with the order the client sent.
CreateKeyPointInsert(c) ==
  /\ pc[c] = "insert"
  /\ \E k \in KeyPoint \ used, n \in 0..MaxOrder :
       /\ order' = [x \in KeyPoints \union {k} |-> IF x = k THEN n ELSE order[x]]
       /\ used' = used \union {k}
  /\ Goto(c, "idle")
  /\ UNCHANGED <<clock, tourVars, target, seen, since, todo>>

\* Update and Delete, 1: FindByID of an existing key point.
FindKeyPoint(c, next) ==
  /\ pc[c] = "idle"
  /\ \E k \in KeyPoints : target' = [target EXCEPT ![c] = k]
  /\ Goto(c, next)
  /\ UNCHANGED <<clock, tourVars, kpVars, seen, since, todo>>

\* Mutant of CheckDraft: a tour of any status will do.
CheckAnyStatus(c, here, next) ==
  /\ pc[c] = here
  /\ Goto(c, next)
  /\ UNCHANGED <<clock, tourVars, kpVars, target, seen, since, todo>>

\* Update and Delete, 2: the tour must be a draft.
CheckDraft(c, here, next) ==
  /\ pc[c] = here
  /\ Goto(c, IF status = "draft" THEN next ELSE "idle")
  /\ UNCHANGED <<clock, tourVars, kpVars, target, seen, since, todo>>

\* Update, 3: UpdateOne; a key point that is gone meanwhile is an error.
UpdateKeyPointWrite(c) ==
  /\ pc[c] = "update"
  /\ IF target[c] \in KeyPoints
       THEN \E n \in 0..MaxOrder : order' = [order EXCEPT ![target[c]] = n]
       ELSE order' = order
  /\ Goto(c, "idle")
  /\ UNCHANGED <<clock, tourVars, used, target, seen, since, todo>>

\* Delete, 3: DeleteOne; a key point that is gone already is an error.
DeleteKeyPointWrite(c) ==
  /\ pc[c] = "delete"
  /\ order' = [x \in KeyPoints \ {target[c]} |-> order[x]]
  /\ Goto(c, IF target[c] \in KeyPoints THEN "list" ELSE "idle")
  /\ UNCHANGED <<clock, tourVars, used, target, seen, since, todo>>

\* FindByTour: the key points sorted by "order", ties in any sequence.
Sorted ==
  {s \in [1..Cardinality(KeyPoints) -> KeyPoints] :
     /\ IsInjective(s)
     /\ \A i, j \in DOMAIN s : i < j => order[s[i]] <= order[s[j]]}

\* Mutant of DeleteList: the loop index is the order, counted from zero.
DeleteListFromZero(c) ==
  /\ pc[c] = "list"
  /\ \E s \in Sorted :
       todo' = [todo EXCEPT ![c] =
         [p \in {i - 1 : i \in {j \in DOMAIN s : order[s[j]] # j - 1}} |-> s[p + 1]]]
  /\ Goto(c, "renumber")
  /\ UNCHANGED <<clock, tourVars, kpVars, target, seen, since>>

\* normalizeKeyPointOrder, 1: reads the list and plans an update for every key
\* point whose order, as read, is not its position.
DeleteList(c) ==
  /\ pc[c] = "list"
  /\ \E s \in Sorted :
       todo' = [todo EXCEPT ![c] = Restrict(s, {i \in DOMAIN s : order[s[i]] # i})]
  /\ Goto(c, "renumber")
  /\ UNCHANGED <<clock, tourVars, kpVars, target, seen, since>>

\* normalizeKeyPointOrder, 2: the next update; it stops at a key point that is
\* gone.
DeleteRenumber(c) ==
  /\ pc[c] = "renumber"
  /\ \E i \in DOMAIN todo[c] :
       /\ \A j \in DOMAIN todo[c] : i <= j
       /\ IF todo[c][i] \in KeyPoints
            THEN /\ order' = [order EXCEPT ![todo[c][i]] = i]
                 /\ todo' = [todo EXCEPT ![c] = Restrict(@, DOMAIN @ \ {i})]
                 /\ UNCHANGED pc
            ELSE /\ todo' = [todo EXCEPT ![c] = <<>>]
                 /\ Goto(c, "idle")
                 /\ UNCHANGED order
  /\ UNCHANGED <<clock, tourVars, used, target, seen, since>>

\* Delete returns.
DeleteEnd(c) ==
  /\ pc[c] = "renumber"
  /\ DOMAIN todo[c] = {}
  /\ Goto(c, "idle")
  /\ UNCHANGED <<clock, tourVars, kpVars, target, seen, since, todo>>

\* A repository call fails, or the client's process or the service stops: the
\* handler goes no further and nothing is undone.
Stop(c) ==
  /\ pc[c] # "idle"
  /\ Goto(c, "idle")
  /\ todo' = [todo EXCEPT ![c] = <<>>]
  /\ UNCHANGED <<clock, tourVars, kpVars, target, seen, since>>

-------------------------------------------------------------------------------

TourStep(c) ==
  \/ PublishRead(c) \/ PublishCount(c) \/ PublishWrite(c)
  \/ ArchiveRead(c) \/ ArchiveWrite(c)
  \/ ActivateRead(c) \/ ActivateWrite(c)

KeyPointStep(c) ==
  \/ CreateKeyPointCheck(c) \/ CreateKeyPointInsert(c)
  \/ FindKeyPoint(c, "checkUpdate") \/ CheckDraft(c, "checkUpdate", "update")
  \/ UpdateKeyPointWrite(c)
  \/ FindKeyPoint(c, "checkDelete") \/ CheckDraft(c, "checkDelete", "delete")
  \/ DeleteKeyPointWrite(c) \/ DeleteList(c) \/ DeleteRenumber(c) \/ DeleteEnd(c)

Next ==
  \/ Tick
  \/ CreateTour
  \/ UpdateTour
  \/ \E c \in Call : TourStep(c) \/ KeyPointStep(c) \/ Stop(c)

Spec == Init /\ [][Next]_vars

-------------------------------------------------------------------------------
(* Properties that hold for any number of overlapping requests.              *)

\* The timestamps tell the status, whichever stale decision wrote last: a draft
\* has none, a published tour only publishedAt, an archived one both, the publication
\* first (tour_repository.go:130-156, tour_service.go:213).
TimestampsAgree ==
  /\ status \in {"none", "draft"} => publishedAt = 0 /\ archivedAt = 0
  /\ status = "published" => publishedAt # 0 /\ archivedAt = 0
  /\ status = "archived" => publishedAt # 0 /\ archivedAt # 0 /\ publishedAt <= archivedAt

\* The status moves as TourLifecycle allows, although every writer decides on a
\* status it read earlier.
Lifecycle == INSTANCE TourLifecycle
ImplementsLifecycle == Lifecycle!Spec

-------------------------------------------------------------------------------
(* Properties that hold until requests overlap (see MCTourAuthoring).        *)

\* "Tura mora imati najmanje 2 ključne tačke da bi bila objavljena" (a tour must
\* have at least two key points to be published, tour_service.go:183).
PublishedHasKeyPoints ==
  status \in {"published", "archived"} => Cardinality(KeyPoints) >= 2

\* A delete that ran to its end leaves the orders 1 to n, each once
\* (keypoint_service.go:203-221).
DeleteNormalizes ==
  \A c \in Call : pc[c] = "renumber" /\ DOMAIN todo[c] = {} =>
    Range(order) = 1..Cardinality(KeyPoints)
===============================================================================
