---------------------------- MODULE MCExecutionPage ----------------------------
(* Small instances of ExecutionPage for TLC, and what holds until calls      *)
(* overlap.                                                                  *)
EXTENDS ExecutionPage, TLC

Symmetry == Permutations(Call) \union Permutations(KeyPoint)
              \union Permutations(Exec) \union Permutations(Document)

VARIABLES
  overlapped, \* history: two calls have been in progress at once in the service
  disturbed,  \* history: two requests of the page have been in flight at once, another
              \* page has called the service, or an answer with news was lost
  finishing,  \* history: complete or abandon has been asked for
  late        \* history: the key points came after the page was left

history == <<overlapped, disturbed, finishing, late>>

InFlight == {c \in Call : role[c] # "none"}

MCInit ==
  /\ PageInit
  /\ overlapped = FALSE /\ disturbed = FALSE /\ finishing = FALSE /\ late = FALSE
MCNext ==
  /\ PageNext
  /\ overlapped' = (overlapped \/ \E c, d \in Call : c # d /\ "idle" \notin {pc'[c], pc'[d]})
  /\ disturbed' = \/ disturbed
                  \/ Cardinality(InFlight') > 1
                  \/ \E c \in Call : \/ pc'[c] # "idle" /\ role'[c] = "none"
                                     \/ AnswerLost(c) /\ ~CheckAnswered(c) /\ ~FinishAnswered(c)
  /\ finishing' = (finishing \/ \E c \in Call : role'[c] = "finish")
  /\ late' = (late \/ (page = "left" /\ keyPoints' # keyPoints))
MCSpec == MCInit /\ [][MCNext]_<<everything, history>>

\* Until two calls overlap, a finished execution is not changed any more, and a key
\* point that was reached stays reached (tour_execution_service.go:110, 148, 192).
SerialProgressKept == [][~overlapped => FinishedKept /\ ReachedKept]_vars

\* Whoever lets the page work alone, and waits for its answers, is shown what is
\* stored, through failed requests (tour-execution.component.ts:80, 235, 419, 455).
WaitingPageTrue == ~disturbed /\ InFlight = {} => ShownIsStored

\* For such a tourist the timer runs as long as the execution is active and not being
\* finished; and a page that was left does not poll, unless its key points came
\* later (tour-execution.component.ts:105, 267, 400, 429, 450).
TimerTells ==
  /\ ~disturbed /\ ~finishing => ActiveIsPolled
  /\ page = "left" /\ polling => late
===============================================================================
