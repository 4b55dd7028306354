----------------------------- MODULE ExecutionPage -----------------------------
(*****************************************************************************)
(* The page of a tour execution (TourExecutionComponent) with the service    *)
(* behind it (TourExecution, Positions).                                     *)
(*                                                                           *)
(* A request of the page holds a slot of Call from its sending to the        *)
(* arrival of its answer; answers arrive in any order.  A slot the page does *)
(* not hold is a request of another page of the same tourist.  One page is   *)
(* opened; requests are not cancelled when it is left, so their answers are  *)
(* handled all the same.                                                     *)
(*****************************************************************************)
EXTENDS TourExecution, Positions

ASSUME SlotAssumption == Updater = Call

VARIABLES
  page,       \* "new", "open" or "left"
  shown,      \* this.execution: its id, status and completed key points
  keyPoints,  \* this.keyPoints has been loaded
  polling,    \* the interval timer runs
  checking,   \* checkingNow
  role,       \* Call -> what the page asked for in this slot, or "none"
  got         \* Call -> the answer: its state and the execution in it

pageVars == <<page, shown, keyPoints, polling, checking, role, got>>
everything == <<vars, positionVars, pageVars>>

Role == {"none", "show", "position", "start", "keyPoints", "check", "finish"}

\* An execution as the page or an answer shows it; status "none" for no execution.
View(e, s, list) == [exec |-> e, status |-> s, done |-> list]
NoView == View(None, "none", <<>>)

\* An answer is pending, ok or error; until it is ok, view is what the handler has
\* read so far, or what the page asked about.
Pending(view)  == [state |-> "pending", view |-> view]
Answered(view) == [state |-> "ok", view |-> view]
Refused        == [state |-> "error", view |-> NoView]

PageInit ==
  /\ Init /\ PositionsInit
  /\ page = "new"
  /\ shown = NoView
  /\ keyPoints = FALSE
  /\ polling = FALSE
  /\ checking = FALSE
  /\ role = [c \in Call |-> "none"]
  /\ got = [c \in Call |-> Refused]

Free(c) == role[c] = "none" /\ pc[c] = "idle" /\ upsert[c] = "idle"

\* The page sends a request.
Send(c, r, view) ==
  /\ Free(c)
  /\ role' = [role EXCEPT ![c] = r]
  /\ got' = [got EXCEPT ![c] = Pending(view)]

\* The page handles an answer, and sends the next request in its slot if there is one.
Handle(c, next) ==
  /\ role' = [role EXCEPT ![c] = next]
  /\ got' = [got EXCEPT ![c] = IF next = "none" THEN Refused ELSE Pending(NoView)]

-------------------------------------------------------------------------------
(* What the tourist and the timer do.                                        *)

\* ngOnInit of a page with an execution's id in its address.
OpenExisting(c) ==
  /\ page = "new"
  /\ \E e \in Exec : status[e] # "none" /\ Send(c, "show", View(e, "none", <<>>))
  /\ page' = "open"
  /\ UNCHANGED <<vars, positionVars, shown, keyPoints, polling, checking>>

\* startExecution, once the browser has a position: from ngOnInit of a page without
\* one, or from confirmPosition.
OpenStart(c) ==
  /\ page = "new"
  /\ Send(c, "position", NoView)
  /\ page' = "open"
  /\ UNCHANGED <<vars, positionVars, shown, keyPoints, polling, checking>>

\* The timer: checkKeyPoint.  It does not wait for earlier answers.
Poll(c) ==
  /\ polling
  /\ IF shown.status = "active"
       THEN Send(c, "check", shown) /\ UNCHANGED polling
       ELSE polling' = FALSE /\ UNCHANGED <<role, got>>
  /\ UNCHANGED <<vars, positionVars, page, shown, keyPoints, checking>>

\* manualCheck; its button is disabled while checkingNow.
ManualCheck(c) ==
  /\ page = "open" /\ shown.status = "active" /\ ~checking
  /\ Send(c, "check", shown)
  /\ checking' = TRUE
  /\ UNCHANGED <<vars, positionVars, page, shown, keyPoints, polling>>

\* completeTour and abandonTour: the polling stops first.
Finish(c, s) ==
  /\ page = "open" /\ shown.status = "active"
  /\ Send(c, "finish", [shown EXCEPT !.status = s])
  /\ polling' = FALSE
  /\ UNCHANGED <<vars, positionVars, page, shown, keyPoints, checking>>

\* Mutant of Leave: ngOnDestroy leaves the timer alone.
LeaveTimer ==
  /\ page = "open"
  /\ page' = "left"
  /\ UNCHANGED <<vars, positionVars, shown, keyPoints, polling, checking, role, got>>

\* ngOnDestroy.
Leave ==
  /\ page = "open"
  /\ page' = "left"
  /\ polling' = FALSE
  /\ UNCHANGED <<vars, positionVars, shown, keyPoints, checking, role, got>>

-------------------------------------------------------------------------------
(* The service on the page's requests.                                       *)

Asked(c, r) == role[c] = r /\ got[c].state = "pending"
Answer(c, answer) == got' = [got EXCEPT ![c] = answer]
PageIdle == UNCHANGED <<page, shown, keyPoints, polling, checking, role>>

\* GET /executions/{id}, and GET /keypoints/tour/{id}: one read.
ServeShow(c) ==
  /\ Asked(c, "show")
  /\ LET e == got[c].view.exec IN Answer(c, Answered(View(e, status[e], done[e])))
  /\ PageIdle /\ UNCHANGED <<vars, positionVars>>

ServeKeyPoints(c) ==
  /\ Asked(c, "keyPoints")
  /\ Answer(c, Answered(NoView))
  /\ PageIdle /\ UNCHANGED <<vars, positionVars>>

\* PUT /tourist-position.
ServePosition(c) ==
  /\ Asked(c, "position")
  /\ \/ (UpsertFind(c) \/ UpsertInsert(c)) /\ UNCHANGED got
     \/ UpdateRead(c) /\ Answer(c, Answered(NoView))
  /\ PageIdle /\ UNCHANGED vars

\* POST /executions: refused without a stored position.
ServeStart(c) ==
  /\ Asked(c, "start")
  /\ \/ ~Known /\ pc[c] = "idle" /\ Answer(c, Refused) /\ UNCHANGED vars
     \/ Known /\ StartRead(c) /\ UNCHANGED got
     \/ /\ StartInsert(c)
        /\ \E e \in Exec : status[e] # status'[e] /\ Answer(c, Answered(View(e, "active", <<>>)))
  /\ PageIdle /\ UNCHANGED positionVars

\* Mutant of Checked: the handler extends the list it writes, not its own copy.
CheckedOld(c) == read[c]

\* The list and the status of the handler's copy after a key point was reached.
Checked(c) == Append(read[c], reached[c])
CheckedStatus(c) == IF Len(Checked(c)) = Cardinality(KeyPoint) THEN "completed" ELSE "active"

\* POST /executions/{id}/check-keypoint: the answer is the handler's own copy of the
\* execution, changed as the document is.
ServeCheck(c) ==
  /\ Asked(c, "check")
  /\ LET e == got[c].view.exec IN
       \/ /\ status[e] # "active" /\ pc[c] = "idle"
          /\ Answer(c, Refused) /\ UNCHANGED vars
       \/ CheckRead(c, e) /\ UNCHANGED got
       \/ CheckNothing(c) /\ Answer(c, Answered(View(e, "active", read[c])))
       \/ CheckWrite(c) /\ Answer(c, Answered(View(e, CheckedStatus(c), Checked(c))))
  /\ PageIdle /\ UNCHANGED positionVars

\* PUT /executions/{id}/complete and abandon: the answer is the copy that was read,
\* with the new status.
ServeFinish(c) ==
  /\ Asked(c, "finish")
  /\ LET e == got[c].view.exec  s == got[c].view.status IN
       \/ /\ status[e] # "active" /\ pc[c] = "idle"
          /\ Answer(c, Refused) /\ UNCHANGED vars
       \/ FinishRead(c, e, s) /\ Answer(c, Pending(View(e, s, done[e])))
       \/ FinishWrite(c) /\ Answer(c, Answered(got[c].view))
  /\ PageIdle /\ UNCHANGED positionVars

\* A repository call fails or the service stops: the answer is an error.
ServeFails(c) ==
  /\ role[c] # "none" /\ got[c].state = "pending"
  /\ Answer(c, Refused)
  /\ \/ Stop(c) /\ UNCHANGED positionVars
     \/ UpdateFails(c) /\ UNCHANGED vars
     \/ pc[c] = "idle" /\ upsert[c] = "idle" /\ UNCHANGED <<vars, positionVars>>
  /\ PageIdle

-------------------------------------------------------------------------------
(* The page on the answers.                                                  *)

Arrived(c, r) == role[c] = r /\ got[c].state = "ok"

\* getById or start answered: the execution is shown and the key points are asked for.
ShowExecution(c) ==
  /\ Arrived(c, "show") \/ Arrived(c, "start")
  /\ shown' = got[c].view
  /\ Handle(c, "keyPoints")
  /\ UNCHANGED <<vars, positionVars, page, keyPoints, polling, checking>>

\* The position is stored: POST /executions.
PositionSaved(c) ==
  /\ Arrived(c, "position")
  /\ Handle(c, "start")
  /\ UNCHANGED <<vars, positionVars, page, shown, keyPoints, polling, checking>>

\* loadKeyPoints answered: an active execution is polled from now on.  On a page
\* that was left, drawing on the removed map throws before that, if there was a map.
KeyPointsLoaded(c) ==
  /\ Arrived(c, "keyPoints")
  /\ keyPoints' = TRUE
  /\ \/ polling' = (polling \/ shown.status = "active")
     \/ page = "left" /\ UNCHANGED polling
  /\ Handle(c, "none")
  /\ UNCHANGED <<vars, positionVars, page, shown, checking>>

\* checkKeyPoint answered: the page shows what it was told, and a completed
\* execution is not polled any more.
CheckAnswered(c) ==
  /\ Arrived(c, "check")
  /\ shown' = got[c].view
  /\ polling' = (polling /\ got[c].view.status # "completed")
  /\ checking' = FALSE
  /\ Handle(c, "none")
  /\ UNCHANGED <<vars, positionVars, page, keyPoints>>

\* completeTour or abandonTour answered.
FinishAnswered(c) ==
  /\ Arrived(c, "finish")
  /\ shown' = got[c].view
  /\ Handle(c, "none")
  /\ UNCHANGED <<vars, positionVars, page, keyPoints, polling, checking>>

\* An error is shown and nothing else changes: whatever was stopped stays stopped and
\* whatever polls goes on.
ErrorShown(c) ==
  /\ role[c] # "none" /\ got[c].state = "error"
  /\ checking' = (checking /\ role[c] # "check")
  /\ Handle(c, "none")
  /\ UNCHANGED <<vars, positionVars, page, shown, keyPoints, polling>>

\* The connection breaks: the page is told of an error while the service goes on with
\* the request, which is nobody's from then on.
AnswerLost(c) ==
  /\ role[c] # "none" /\ got[c].state # "error"
  /\ checking' = (checking /\ role[c] # "check")
  /\ Handle(c, "none")
  /\ UNCHANGED <<vars, positionVars, page, shown, keyPoints, polling>>

-------------------------------------------------------------------------------

PageStep(c) ==
  \/ OpenExisting(c) \/ OpenStart(c)
  \/ Poll(c) \/ ManualCheck(c) \/ \E s \in Final : Finish(c, s)
  \/ ShowExecution(c) \/ PositionSaved(c) \/ KeyPointsLoaded(c)
  \/ CheckAnswered(c) \/ FinishAnswered(c) \/ ErrorShown(c) \/ AnswerLost(c)

ServiceStep(c) ==
  \/ ServeShow(c) \/ ServeKeyPoints(c) \/ ServePosition(c) \/ ServeStart(c)
  \/ ServeCheck(c) \/ ServeFinish(c) \/ ServeFails(c)

\* A request that is not, or no longer, the page's.
OtherStep(c) ==
  /\ role[c] = "none"
  /\ \/ ExecutionStep(c) /\ (StartRead(c) => Known) /\ upsert[c] = "idle"
       /\ UNCHANGED positionVars
     \/ PositionStep(c) /\ pc[c] = "idle" /\ UNCHANGED vars
  /\ UNCHANGED pageVars

PageNext == Leave \/ \E c \in Call : PageStep(c) \/ ServiceStep(c) \/ OtherStep(c)

PageSpec == PageInit /\ [][PageNext]_everything

-------------------------------------------------------------------------------
(* Properties that hold under the histories of MCExecutionPage.              *)

\* The page shows the execution as it is stored.
ShownIsStored ==
  shown.exec # None => shown = View(shown.exec, status[shown.exec], done[shown.exec])

\* The page polls the active execution that it shows.
ActiveIsPolled == page = "open" /\ keyPoints /\ shown.status = "active" => polling
===============================================================================
