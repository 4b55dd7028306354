------------------------------- MODULE Positions -------------------------------
(*****************************************************************************)
(* The stored position of one tourist (TouristPositionService,               *)
(* TouristPositionRepository).                                               *)
(*                                                                           *)
(* Upsert is one UpdateOne with an upsert and no unique index: the server    *)
(* looks for a document and, finding none, inserts one, so that two first    *)
(* updates may insert a document each.  Nothing is ever deleted.             *)
(*****************************************************************************)
EXTENDS Naturals, FiniteSets

CONSTANTS
  Document,  \* ObjectIDs of position documents, each inserted at most once (a bound)
  Updater    \* requests that may be in progress at once

ASSUME DocumentAssumption == IsFiniteSet(Document)
ASSUME UpdaterAssumption == IsFiniteSet(Updater)

VARIABLES
  documents,  \* the documents with the tourist's name
  upsert      \* Updater -> "idle", "insert" or "read": what is left of Update

positionVars == <<documents, upsert>>

PositionsTypeOK ==
  /\ documents \subseteq Document
  /\ upsert \in [Updater -> {"idle", "insert", "read"}]

PositionsInit ==
  /\ documents = {}
  /\ upsert = [u \in Updater |-> "idle"]

\* Mutant of UpsertFind: every update inserts a document.
UpsertFindNone(u) ==
  /\ upsert[u] = "idle"
  /\ upsert' = [upsert EXCEPT ![u] = "insert"]
  /\ UNCHANGED documents

\* Upsert, 1: the document that is found is written.
UpsertFind(u) ==
  /\ upsert[u] = "idle"
  /\ upsert' = [upsert EXCEPT ![u] = IF documents = {} THEN "insert" ELSE "read"]
  /\ UNCHANGED documents

\* Upsert, 2: none was found.
UpsertInsert(u) ==
  /\ upsert[u] = "insert"
  /\ \E d \in Document \ documents : documents' = documents \union {d}
  /\ upsert' = [upsert EXCEPT ![u] = "read"]

\* FindByTouristID, whose answer is any of the documents.
UpdateRead(u) ==
  /\ upsert[u] = "read"
  /\ upsert' = [upsert EXCEPT ![u] = "idle"]
  /\ UNCHANGED documents

\* A repository call fails: what was written stays.
UpdateFails(u) ==
  /\ upsert[u] # "idle"
  /\ upsert' = [upsert EXCEPT ![u] = "idle"]
  /\ UNCHANGED documents

PositionStep(u) == UpsertFind(u) \/ UpsertInsert(u) \/ UpdateRead(u) \/ UpdateFails(u)

PositionsNext == \E u \in Updater : PositionStep(u)

PositionsSpec == PositionsInit /\ [][PositionsNext]_positionVars

\* The position of the tourist is known (FindByTouristID finds a document).
Known == documents # {}

Upserting == {u \in Updater : upsert[u] = "insert"}

\* A tourist has no more position documents than there were first updates at once,
\* pending insertions counted: one if updates do not overlap
\* (tourist_position_repository.go:38-40).
FewDocuments == Cardinality(documents) + Cardinality(Upserting) <= Cardinality(Updater)
===============================================================================
