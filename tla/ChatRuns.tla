------------------------------ MODULE ChatRuns ------------------------------
(***************************************************************************)
(* One chat session of the embedded server: the slot its turns run in, the *)
(* questions a turn asks and the answers that come back, the streams that  *)
(* watch it (embedded/server/chat_state.py, routes/agent.py, and the voice *)
(* operator's share of both).                                              *)
(*                                                                         *)
(* The hub keeps its state per session, so one session is modelled.  No    *)
(* method of the hub awaits anything under its lock, and an asyncio lock   *)
(* that is free is taken without a switch: a method of the hub, and any    *)
(* sequence of them, is one action.  Reads and writes of the database are  *)
(* awaits, and steps of their own.                                         *)
(***************************************************************************)
EXTENDS FiniteSets

CONSTANTS
    Turns,      \* coroutines of turns that can be in memory at once
    Callers,    \* requests to start a turn (POST /agent/chat, send_message)
    Events,     \* rows of questions and approvals the session can have
    Answers,    \* requests that answer one, each at most once
    Tabs,       \* streams that can watch the session
    NoTurn, NoEvent, NoAnswer

FutureStates == {"none", "open", "cancelled"}

ASSUME NoTurnAssumption == NoTurn \notin Turns
ASSUME NoEventAssumption == NoEvent \notin Events
ASSUME NoAnswerAssumption == NoAnswer \notin Answers /\ Answers \cap FutureStates = {}

VARIABLES
    \* The hub.
    held,      \* the session has an entry in _run_tasks
    run,       \* the entry: a turn, or NoTurn for a reservation
    pending,   \* keys of _pending_answers
    future,    \* the future of a question: a state, or the answer it was given
    tabs,      \* of each stream: "away", "opening", "open", or "lost" with its
               \* queue still registered
    \* Coroutines.
    turn,      \* of each turn: its state
    asks,      \* the question a turn is about
    callers,   \* callers that hold the reservation
    req,       \* the requests that answer
    \* The database.
    rows,      \* of each question: kind, status and answer
    \* History.
    heard,     \* <<question, answer>>: answers that reached an agent
    watched    \* questions that a stream has seen waiting

hub == <<held, run, pending, future, tabs>>
coroutines == <<turn, asks, callers, req>>
vars == <<hub, coroutines, rows, heard, watched>>

\* A question or approval of the running turn, the delivery permission asked
\* after a turn, the scope approval of a delivery.
Kinds == {"question", "permission", "scope"}

\* asked:   the question is stored, its future not yet created
\* closing: the last message is published
\* ended:   done, and its callback has not yet given the slot back
TurnStates == {"unused", "created", "working", "asked", "waiting", "closing", "ended"}
Alive(t) == turn[t] \in {"created", "working", "asked", "waiting", "closing"}
TurnAlive == \E t \in Turns : Alive(t)

Registered == {b \in Tabs : tabs[b] # "away"}

NoRequest == [pc |-> "idle", via |-> "page", event |-> NoEvent, saw |-> FALSE, live |-> FALSE]

Init ==
    /\ held = FALSE /\ run = NoTurn /\ pending = {}
    /\ future = [e \in Events |-> "none"] /\ tabs = [b \in Tabs |-> "away"]
    /\ turn = [t \in Turns |-> "unused"] /\ asks = [t \in Turns |-> NoEvent]
    /\ callers = {} /\ req = [r \in Answers |-> NoRequest]
    /\ rows = [e \in Events |-> [kind |-> "question", status |-> "unused", answer |-> NoAnswer]]
    /\ heard = {} /\ watched = {}

-----------------------------------------------------------------------------
(* The slot (reserve_run, attach_run, attach_reserved_run, release_run).   *)

RunAlive == run # NoTurn /\ Alive(run)

\* Faulty variant: an entry that is still None counts as no entry.
Busy_IgnoresReservation == held /\ RunAlive

\* reserve_run and attach_run refuse.
Busy == held /\ (run = NoTurn \/ RunAlive)

TakeSlot(t) == held' = TRUE /\ run' = t
FreeSlot == held' = FALSE /\ run' = NoTurn

\* A message of the operator reserves the session, then is stored.
ReserveRun(c) ==
    /\ c \notin callers /\ ~Busy
    /\ callers' = callers \cup {c} /\ held' = TRUE /\ run' = NoTurn
    /\ UNCHANGED <<pending, future, tabs, turn, asks, req, rows, heard, watched>>

\* Faulty variant: the exception passes on, and the reservation stays.
StartFails_KeepsReservation(c) ==
    /\ c \in callers /\ callers' = callers \ {c}
    /\ UNCHANGED <<hub, turn, asks, req, rows, heard, watched>>

\* The message cannot be stored.
StartFails(c) ==
    /\ c \in callers /\ callers' = callers \ {c} /\ FreeSlot
    /\ UNCHANGED <<pending, future, tabs, turn, asks, req, rows, heard, watched>>

\* The message is stored and its turn takes the reservation's place.  It is
\* refused (attach_reserved_run) if another turn has that place, or nothing.
StartRun(c, t) ==
    /\ c \in callers /\ callers' = callers \ {c} /\ turn[t] = "unused"
    /\ IF held /\ ~RunAlive
       THEN TakeSlot(t) /\ turn' = [turn EXCEPT ![t] = "created"]
       ELSE FreeSlot /\ UNCHANGED turn
    /\ UNCHANGED <<pending, future, tabs, asks, req, rows, heard, watched>>

-----------------------------------------------------------------------------
(* A turn (_run_chat_turn, _authorize_chat_tool, handle_sprint_planning_turn, *)
(* _continue_after_delivery_permission_question).                          *)

Move(t, from, to) == turn[t] = from /\ turn' = [turn EXCEPT ![t] = to]

TurnBegins(t) ==
    /\ Move(t, "created", "working")
    /\ UNCHANGED <<hub, asks, callers, req, rows, heard, watched>>

\* The turn stores a question.  From here on every reader of the transcript
\* sees it pending.
Ask(t, e) ==
    /\ Move(t, "working", "asked") /\ rows[e].status = "unused"
    /\ \E k \in {"question", "scope"} :
           rows' = [rows EXCEPT ![e] = [kind |-> k, status |-> "pending", answer |-> NoAnswer]]
    /\ asks' = [asks EXCEPT ![t] = e]
    /\ UNCHANGED <<hub, callers, req, heard, watched>>

\* create_pending_answer and publish, then the turn waits for the future.
CreatePendingAnswer(t) ==
    /\ Move(t, "asked", "waiting")
    /\ pending' = pending \cup {asks[t]} /\ future' = [future EXCEPT ![asks[t]] = "open"]
    /\ watched' = IF Registered = {} THEN watched ELSE watched \cup {asks[t]}
    /\ UNCHANGED <<held, run, tabs, asks, callers, req, rows, heard>>

\* The turn goes on with the answer.
Hear(t) ==
    /\ turn[t] = "waiting" /\ future[asks[t]] \in Answers
    /\ Move(t, "waiting", "working")
    /\ heard' = heard \cup {<<asks[t], future[asks[t]]>>}
    /\ asks' = [asks EXCEPT ![t] = NoEvent]
    /\ UNCHANGED <<hub, callers, req, rows, watched>>

\* The future was cancelled.  The turn ends with CancelledError, unless its
\* runtime keeps that in the callback and goes on without the tool.
Cancelled(t) ==
    /\ turn[t] = "waiting" /\ future[asks[t]] = "cancelled"
    /\ Move(t, "waiting", "ended") \/ Move(t, "waiting", "working")
    /\ asks' = [asks EXCEPT ![t] = NoEvent]
    /\ UNCHANGED <<hub, callers, req, rows, heard, watched>>

\* Faulty variant: the turn goes on to its end with the question still its own.
RuntimeDies_KeepsQuestion(t) ==
    /\ Move(t, "waiting", "closing") /\ future[asks[t]] = "open"
    /\ future' = [future EXCEPT ![asks[t]] = "cancelled"]
    /\ UNCHANGED <<held, run, pending, tabs, asks, callers, req, rows, heard, watched>>

\* The runtime's process is gone while its callback waits: the callback's task
\* is cancelled and with it the future, whose entry stays with the hub.
RuntimeDies(t) ==
    /\ Move(t, "waiting", "closing") /\ future[asks[t]] = "open"
    /\ future' = [future EXCEPT ![asks[t]] = "cancelled"]
    /\ asks' = [asks EXCEPT ![t] = NoEvent]
    /\ UNCHANGED <<held, run, pending, tabs, callers, req, rows, heard, watched>>

PendingQuestion(e) == rows[e].kind # "scope" /\ rows[e].status = "pending"

\* After its last message the turn may ask for permission to deliver, with a
\* question that nothing waits for, unless another one is pending.
AskPermission(t, e) ==
    /\ Move(t, "working", "closing") /\ rows[e].status = "unused"
    /\ \A f \in Events : ~PendingQuestion(f)
    /\ rows' = [rows EXCEPT ![e] = [kind |-> "permission", status |-> "pending",
                                    answer |-> NoAnswer]]
    /\ UNCHANGED <<hub, asks, callers, req, heard, watched>>

TurnEnds(t) ==
    /\ Move(t, "working", "ended") \/ Move(t, "closing", "ended")
    /\ UNCHANGED <<hub, asks, callers, req, rows, heard, watched>>

\* Faulty variant: the callback pops the session's entry, whatever it is.
DropRun_Any(t) ==
    /\ Move(t, "ended", "unused") /\ FreeSlot
    /\ UNCHANGED <<pending, future, tabs, asks, callers, req, rows, heard, watched>>

\* The done callback of a turn, which runs as a task of its own.
DropRun(t) ==
    /\ Move(t, "ended", "unused")
    /\ IF run = t THEN FreeSlot ELSE UNCHANGED <<held, run>>
    /\ UNCHANGED <<pending, future, tabs, asks, callers, req, rows, heard, watched>>
-----------------------------------------------------------------------------
(* Answers (respond_to_chat_event; answer_pending_question and             *)
(* answer_tool_approval of the voice operator).                            *)

InRequest(r, from, to) == req[r].pc = from /\ req' = [req EXCEPT ![r].pc = to]

\* The row is read.  Only the voice operator insists that it is pending.
ReadRow(r, e) ==
    /\ req[r].pc = "idle" /\ rows[e].status # "unused"
    /\ LET saw == rows[e].status = "pending" IN
       \/ req' = [req EXCEPT ![r] = [NoRequest EXCEPT !.pc = "read", !.event = e, !.saw = saw]]
       \/ /\ saw
          /\ req' = [req EXCEPT ![r] = [NoRequest EXCEPT !.pc = "checked", !.event = e,
                                                         !.via = "voice"]]
    /\ UNCHANGED <<hub, turn, asks, callers, rows, heard, watched>>

\* The page's request goes on with a live waiter or a row that was pending.
CheckPending(r) ==
    /\ req[r].pc = "read"
    /\ LET live == req[r].event \in pending IN
       req' = [req EXCEPT ![r].pc = IF live \/ req[r].saw THEN "checked" ELSE "refused",
                          ![r].live = live]
    /\ UNCHANGED <<hub, turn, asks, callers, rows, heard, watched>>

\* update_request_event writes what it was given, over whatever is there now.
StoreAnswer(r) ==
    /\ InRequest(r, "checked", "stored")
    /\ rows' = [rows EXCEPT ![req[r].event].status = "answered", ![req[r].event].answer = r]
    /\ UNCHANGED <<hub, turn, asks, callers, heard, watched>>

\* The page goes by the waiter it saw, the voice operator looks only now.
HasWaiter(r) == IF req[r].via = "page" THEN req[r].live ELSE req[r].event \in pending

\* resolve_pending_answer: the first to come takes the waiter away.
Resolve(r) ==
    LET e == req[r].event IN
    /\ pending' = pending \ {e}
    /\ future' = IF e \in pending /\ future[e] = "open" THEN [future EXCEPT ![e] = r] ELSE future

\* Faulty variant: the result of resolve_pending_answer is not looked at.
AnswerWaiter_Unchecked(r) ==
    /\ InRequest(r, "stored", "accepted") /\ HasWaiter(r) /\ Resolve(r)
    /\ UNCHANGED <<held, run, tabs, turn, asks, callers, rows, heard, watched>>

AnswerWaiter(r) ==
    /\ InRequest(r, "stored", IF req[r].event \in pending THEN "accepted" ELSE "refused")
    /\ HasWaiter(r) /\ Resolve(r)
    /\ UNCHANGED <<held, run, tabs, turn, asks, callers, rows, heard, watched>>

\* A scope approval given on the page is acted on by the request itself.
ActedOnByRequest(r) == rows[req[r].event].kind = "scope" /\ req[r].via = "page"

\* Nothing waits for the answer any more: a new turn continues with it.
ContinueWithAnswer(r, t) ==
    /\ InRequest(r, "stored", "accepted") /\ ~HasWaiter(r) /\ ~ActedOnByRequest(r)
    /\ ~Busy /\ turn[t] = "unused" /\ TakeSlot(t)
    /\ turn' = [turn EXCEPT ![t] = "created"]
    /\ heard' = heard \cup {<<req[r].event, r>>}
    /\ UNCHANGED <<pending, future, tabs, asks, callers, rows, watched>>

\* The session is running.  The voice operator does not look at that.
CannotContinue(r) ==
    /\ InRequest(r, "stored", IF req[r].via = "page" THEN "refused" ELSE "accepted")
    /\ ~HasWaiter(r) /\ ~ActedOnByRequest(r) /\ Busy
    /\ UNCHANGED <<hub, turn, asks, callers, rows, heard, watched>>

\* The delivery is planned and started beside whatever runs in the session.
ActOnScope(r) ==
    /\ InRequest(r, "stored", "accepted") /\ ~HasWaiter(r) /\ ActedOnByRequest(r)
    /\ heard' = heard \cup {<<req[r].event, r>>}
    /\ UNCHANGED <<hub, turn, asks, callers, rows, watched>>

-----------------------------------------------------------------------------
(* Streams (chat_stream) and the transcript (get_chat_history).            *)

\* Once a permission is answered, scope approvals of its improvement are
\* superseded, unless the answer was to hold or it is of another one.
Superseded(rs) ==
    IF \E e \in Events : rs[e].kind = "permission" /\ rs[e].status = "answered"
    THEN [e \in Events |-> IF rs[e].kind = "scope" /\ rs[e].status # "unused"
                           THEN [rs[e] EXCEPT !.status = "superseded"] ELSE rs[e]]
    ELSE rs

ReconcileOwners == rows' \in {rows, Superseded(rows)}

ReadHistory ==
    /\ ReconcileOwners /\ UNCHANGED <<hub, coroutines, heard, watched>>

\* The stream's queue is registered before its snapshot is made.
Register(b) ==
    /\ tabs[b] = "away" /\ tabs' = [tabs EXCEPT ![b] = "opening"]
    /\ watched' = watched \cup pending
    /\ UNCHANGED <<held, run, pending, future, coroutines, rows, heard>>

ServeSnapshot(b) ==
    /\ tabs[b] = "opening" /\ tabs' = [tabs EXCEPT ![b] = "open"]
    /\ ReconcileOwners
    /\ UNCHANGED <<held, run, pending, future, coroutines, heard, watched>>

\* The snapshot cannot be made, or its client is gone before the stream starts:
\* nothing unregisters the queue.
OpenFails(b) ==
    /\ tabs[b] = "opening" /\ tabs' = [tabs EXCEPT ![b] = "lost"]
    /\ UNCHANGED <<held, run, pending, future, coroutines, rows, heard, watched>>

\* Faulty variant: the entries are dropped, and the futures stay open.
CancelPendingAnswers_DropsOnly == pending' = {} /\ UNCHANGED future

CancelPendingAnswers ==
    /\ pending' = {}
    /\ future' = [e \in Events |-> IF e \in pending /\ future[e] = "open" THEN "cancelled"
                                   ELSE future[e]]

\* Faulty variant: subscribers are looked for before this one is unregistered.
Leave_ChecksFirst(b) ==
    /\ tabs[b] = "open" /\ tabs' = [tabs EXCEPT ![b] = "away"]
    /\ IF Registered = {} THEN CancelPendingAnswers ELSE UNCHANGED <<pending, future>>
    /\ UNCHANGED <<held, run, coroutines, rows, heard, watched>>

\* The stream ends.  With the last of them go the answers waited for.
Leave(b) ==
    /\ tabs[b] = "open" /\ tabs' = [tabs EXCEPT ![b] = "away"]
    /\ IF Registered = {b} THEN CancelPendingAnswers ELSE UNCHANGED <<pending, future>>
    /\ UNCHANGED <<held, run, coroutines, rows, heard, watched>>

\* The server stops, by shutdown or crash, and starts again.
Restart ==
    /\ FreeSlot /\ pending' = {} /\ future' = [e \in Events |-> "none"]
    /\ tabs' = [b \in Tabs |-> "away"] /\ turn' = [t \in Turns |-> "unused"]
    /\ asks' = [t \in Turns |-> NoEvent] /\ callers' = {}
    /\ req' = [r \in Answers |->
                  IF req[r].pc = "idle" THEN req[r] ELSE [NoRequest EXCEPT !.pc = "gone"]]
    /\ UNCHANGED <<rows, heard, watched>>

-----------------------------------------------------------------------------
TurnStep(t) ==
    \/ TurnBegins(t) \/ CreatePendingAnswer(t) \/ Hear(t) \/ Cancelled(t) \/ RuntimeDies(t)
    \/ TurnEnds(t) \/ DropRun(t)
    \/ \E e \in Events : Ask(t, e) \/ AskPermission(t, e)

CallerStep(c) ==
    \/ StartFails(c) \/ \E t \in Turns : StartRun(c, t)

AnswerStep(r) ==
    \/ CheckPending(r) \/ StoreAnswer(r) \/ AnswerWaiter(r) \/ CannotContinue(r)
    \/ ActOnScope(r) \/ \E t \in Turns : ContinueWithAnswer(r, t)

Stream(b) == Register(b) \/ ServeSnapshot(b) \/ OpenFails(b) \/ Leave(b)

Next ==
    \/ \E t \in Turns : TurnStep(t)
    \/ \E c \in Callers : ReserveRun(c) \/ CallerStep(c)
    \/ \E r \in Answers : AnswerStep(r) \/ \E e \in Events : ReadRow(r, e)
    \/ \E b \in Tabs : Stream(b)
    \/ ReadHistory \/ Restart

Spec == Init /\ [][Next]_vars

\* The event loop gets to the callers and to the callbacks of turns.
FairSpec ==
    /\ Spec
    /\ \A c \in Callers : WF_vars(CallerStep(c))
    /\ \A t \in Turns : WF_vars(DropRun(t))

-----------------------------------------------------------------------------
(* Properties.                                                             *)

TypeOK ==
    /\ held \in BOOLEAN /\ run \in Turns \cup {NoTurn} /\ pending \in SUBSET Events
    /\ future \in [Events -> FutureStates \cup Answers]
    /\ tabs \in [Tabs -> {"away", "opening", "open", "lost"}]
    /\ turn \in [Turns -> TurnStates] /\ asks \in [Turns -> Events \cup {NoEvent}]
    /\ \A t \in Turns : asks[t] \in Events <=> turn[t] \in {"asked", "waiting"}
    /\ callers \in SUBSET Callers
    /\ req \in [Answers -> [pc : {"idle", "read", "checked", "stored", "accepted",
                                  "refused", "gone"},
                            via : {"page", "voice"}, event : Events \cup {NoEvent},
                            saw : BOOLEAN, live : BOOLEAN]]
    /\ rows \in [Events -> [kind : Kinds, answer : Answers \cup {NoAnswer},
                            status : {"unused", "pending", "answered", "superseded"}]]
    /\ heard \in SUBSET (Events \X Answers) /\ watched \in SUBSET Events

\* The slot stands for the turn that is at work: whatever callbacks of earlier
\* turns are outstanding, a session has one turn, or one caller that is about
\* to start one.
OneTurn ==
    /\ \A t \in Turns : Alive(t) => held /\ run = t
    /\ callers # {} => held /\ run = NoTurn
    /\ \A c, d \in callers : c = d

\* The session's turns are taken as TurnTaking promises.
Promise == INSTANCE TurnTaking WITH running <- {t \in Turns : Alive(t)}, claims <- callers
TurnsAreTaken == Promise!Spec

\* A turn that waits can be woken: its question is with the hub, or its future
\* has been resolved or cancelled.
WaiterIsReachable ==
    \A t \in Turns : turn[t] = "waiting" => asks[t] \in pending \/ future[asks[t]] # "open"

\* The page's answer to a waiting turn is accepted only if that turn hears it,
\* and no other answer, unless the runtime had died under the question.
AcceptedIsHeard ==
    \A r \in Answers :
        LET e == req[r].event IN
        req[r].pc = "accepted" /\ req[r].via = "page" /\ req[r].live =>
            /\ future[e] \in {r, "cancelled"}
            /\ future[e] = r => \/ <<e, r>> \in heard
                                \/ \E t \in Turns : turn[t] = "waiting" /\ asks[t] = e

\* No turn is pinned by a question that its last stream has left behind
\* (IMP-040): once a question was seen, it is waited for only while a stream
\* is registered.
LeftQuestionIsReleased ==
    \A e \in pending \cap watched : future[e] = "open" => Registered # {}

\* An answer that is refused because the session is running is no dead end
\* (tests/test_agent_pending_question_routes.py): its question is not left
\* answered by it.
RefusalIsNoDeadEnd ==
    \A r \in Answers :
        LET e == req[r].event IN
        req[r].pc = "refused" /\ ~req[r].live /\ req[r].saw =>
            ~(rows[e].status = "answered" /\ rows[e].answer = r)

\* A session that is busy without a turn has somebody who is about to free it
\* or to start one: a caller with its reservation, or the callback of the turn
\* that has ended in its slot.
SlotHasOwner ==
    held /\ ~TurnAlive =>
        IF run = NoTurn THEN \E c \in Callers : callers = {c} ELSE turn[run] = "ended"

\* A session does not stay busy without a turn: a reservation is used or given
\* back, and the slot of a turn that has ended is freed.
SessionIsFreed == (held /\ ~TurnAlive) ~> (~held \/ TurnAlive)
=============================================================================
