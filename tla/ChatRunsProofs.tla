---------------------------- MODULE ChatRunsProofs ----------------------------
(***************************************************************************)
(* Proofs about ChatRuns for any number of turns, callers, questions,      *)
(* answers and streams, and that it implements TurnTaking.                 *)
(*                                                                         *)
(* The slot is what keeps turns apart: a turn that is alive is the one in  *)
(* the slot.  A question is followed from its row through its future to    *)
(* the turn that waits for it: the future is created once, is open only    *)
(* while that turn waits, and is resolved by one answer.                   *)
(***************************************************************************)
EXTENDS ChatRuns, TLAPS

\* Requests under way name a question that was asked.
RequestsNameQuestions ==
    \A r \in Answers : req[r].pc \notin {"idle", "gone"} => req[r].event \in Events

\* A question that was not asked yet, or has no future yet, was seen by nobody.
FuturesAreNew ==
    /\ \A e \in Events : rows[e].status = "unused" => future[e] = "none" /\ e \notin watched
    /\ \A t \in Turns : turn[t] = "asked" => /\ rows[asks[t]].status # "unused"
                                             /\ future[asks[t]] = "none" /\ asks[t] \notin watched

\* What the hub has is not answered yet; what is open is waited for.
OpenIsWaitedFor ==
    /\ \A e \in pending : future[e] \in {"open", "cancelled"}
    /\ \A e \in Events : future[e] = "open" => \E t \in Turns : turn[t] = "waiting" /\ asks[t] = e

\* A request that saw a waiter speaks of a question with a future.
LiveHasFuture ==
    \A r \in Answers : req[r].pc # "idle" /\ req[r].live =>
                          req[r].event \in Events /\ future[req[r].event] # "none"

Questions == RequestsNameQuestions /\ FuturesAreNew /\ OpenIsWaitedFor /\ LiveHasFuture

IInv == /\ TypeOK /\ OneTurn /\ Questions
        /\ WaiterIsReachable /\ AcceptedIsHeard /\ LeftQuestionIsReleased

-----------------------------------------------------------------------------
(* The slot and the turns.                                                 *)

LEMMA OneIsAlive ==
  ASSUME IInv, NEW t \in Turns, NEW u \in Turns, Alive(t), Alive(u) PROVE t = u
  BY DEF IInv, OneTurn

\* Whoever finds the session free finds no turn and no reservation.
LEMMA FreeIsQuiet ==
  ASSUME IInv, ~Busy PROVE callers = {} /\ \A t \in Turns : ~Alive(t)
  BY NoTurnAssumption DEF IInv, OneTurn, Busy, RunAlive

\* A caller's reservation that no turn has taken excludes every turn.
LEMMA ClaimIsQuiet ==
  ASSUME IInv, NEW c \in callers PROVE callers = {c} /\ run = NoTurn /\ \A t \in Turns : ~Alive(t)
  BY NoTurnAssumption DEF IInv, OneTurn

LEMMA InitEstablishes == Init => IInv
  <1> SUFFICES ASSUME Init PROVE IInv
    OBVIOUS
  <1>1. TypeOK
    BY NoEventAssumption, NoTurnAssumption
       DEF Init, TypeOK, FutureStates, TurnStates, NoRequest, Kinds
  <1>2. OneTurn
    BY DEF Init, OneTurn, Alive
  <1>3. Questions
    BY DEF Init, Questions, RequestsNameQuestions, FuturesAreNew, OpenIsWaitedFor,
           LiveHasFuture, NoRequest
  <1> QED
    BY <1>1, <1>2, <1>3
       DEF Init, IInv, WaiterIsReachable, AcceptedIsHeard, LeftQuestionIsReleased, NoRequest

\* A step that moves no turn to or from a question, and nothing else that
\* questions are about, leaves what is known of them.
LEMMA QuietStep ==
  ASSUME IInv, UNCHANGED <<pending, future, tabs, asks, req, rows, heard, watched>>,
         \A t \in Turns : /\ turn'[t] = "asked" <=> turn[t] = "asked"
                          /\ turn'[t] = "waiting" <=> turn[t] = "waiting"
  PROVE  Questions' /\ WaiterIsReachable' /\ AcceptedIsHeard' /\ LeftQuestionIsReleased'
  <1>1. Questions'
    BY DEF IInv, Questions, RequestsNameQuestions, FuturesAreNew, OpenIsWaitedFor, LiveHasFuture
  <1>2. WaiterIsReachable' /\ LeftQuestionIsReleased'
    BY DEF IInv, WaiterIsReachable, LeftQuestionIsReleased, Registered
  <1>3. AcceptedIsHeard'
    BY DEF IInv, AcceptedIsHeard
  <1> QED
    BY <1>1, <1>2, <1>3

LEMMA ReserveRunPreserves ==
  ASSUME IInv, NEW c \in Callers, ReserveRun(c) PROVE IInv'
  <1>1. /\ callers = {} /\ callers' = {c} /\ held' = TRUE /\ run' = NoTurn
        /\ \A t \in Turns : ~Alive(t)
        /\ UNCHANGED <<pending, future, tabs, turn, asks, req, rows, heard, watched>>
    BY FreeIsQuiet DEF ReserveRun
  <1>2. TypeOK' /\ OneTurn'
    BY <1>1 DEF IInv, TypeOK, OneTurn, Alive
  <1> QED
    BY <1>1, <1>2, QuietStep DEF IInv

\* A caller that gives up frees a slot that is its own reservation.
LEMMA GiveUpPreserves ==
  ASSUME IInv, NEW c \in Callers, StartFails(c) PROVE IInv'
  <1>1. /\ c \in callers /\ callers' = callers \ {c} /\ held' = FALSE /\ run' = NoTurn
        /\ UNCHANGED <<pending, future, tabs, turn, asks, req, rows, heard, watched>>
    BY DEF StartFails, FreeSlot
  <1>2. callers' = {} /\ \A t \in Turns : ~Alive(t)
    BY <1>1, ClaimIsQuiet
  <1>3. TypeOK' /\ OneTurn'
    BY <1>1, <1>2 DEF IInv, TypeOK, OneTurn, Alive
  <1> QED
    BY <1>1, <1>3, QuietStep DEF IInv

LEMMA StartRunPreserves ==
  ASSUME IInv, NEW c \in Callers, NEW t \in Turns, StartRun(c, t) PROVE IInv'
  <1>0. held /\ ~RunAlive
    BY DEF StartRun, IInv, OneTurn, RunAlive
  <1>1. /\ c \in callers /\ callers' = callers \ {c} /\ held' = TRUE /\ run' = t
        /\ turn[t] = "unused" /\ turn' = [turn EXCEPT ![t] = "created"]
        /\ UNCHANGED <<pending, future, tabs, asks, req, rows, heard, watched>>
    BY <1>0 DEF StartRun, TakeSlot
  <1>2. callers' = {} /\ \A u \in Turns : ~Alive(u)
    BY <1>1, ClaimIsQuiet
  <1>3. TypeOK'
    BY <1>1 DEF IInv, TypeOK, TurnStates
  <1>4. OneTurn'
    BY <1>1, <1>2 DEF IInv, TypeOK, OneTurn, Alive
  <1> QED
    BY <1>1, <1>3, <1>4, QuietStep DEF IInv, TypeOK

\* The callback of a turn that has ended leaves the slot of another one.
LEMMA DropRunPreserves ==
  ASSUME IInv, NEW t \in Turns, DropRun(t) PROVE IInv'
  <1>1. /\ turn[t] = "ended" /\ turn' = [turn EXCEPT ![t] = "unused"]
        /\ IF run = t THEN held' = FALSE /\ run' = NoTurn ELSE UNCHANGED <<held, run>>
        /\ UNCHANGED <<pending, future, tabs, asks, callers, req, rows, heard, watched>>
    BY DEF DropRun, Move, FreeSlot
  <1>2. TypeOK'
    BY <1>1 DEF IInv, TypeOK, TurnStates
  <1>3. OneTurn'
    BY <1>1, NoTurnAssumption DEF IInv, TypeOK, OneTurn, Alive
  <1> QED
    BY <1>1, <1>2, <1>3, QuietStep DEF IInv, TypeOK

LEMMA TurnMovesPreserves ==
  ASSUME IInv, NEW t \in Turns, TurnBegins(t) \/ TurnEnds(t) PROVE IInv'
  <1>1. /\ turn[t] \in {"created", "working", "closing"}
        /\ \E s \in {"working", "ended"} : turn' = [turn EXCEPT ![t] = s]
        /\ UNCHANGED <<hub, asks, callers, req, rows, heard, watched>>
    BY DEF TurnBegins, TurnEnds, Move
  <1>2. TypeOK'
    BY <1>1 DEF IInv, TypeOK, TurnStates, hub
  <1>3. OneTurn'
    BY <1>1 DEF IInv, TypeOK, OneTurn, Alive, hub
  <1> QED
    BY <1>1, <1>2, <1>3, QuietStep DEF IInv, TypeOK, hub

-----------------------------------------------------------------------------
(* Questions.                                                              *)

LEMMA AskPreserves ==
  ASSUME IInv, NEW t \in Turns, NEW e \in Events, Ask(t, e) PROVE IInv'
  <1>1. PICK k \in {"question", "scope"} :
            rows' = [rows EXCEPT ![e] = [kind |-> k, status |-> "pending", answer |-> NoAnswer]]
    BY DEF Ask
  <1>2. /\ turn[t] = "working" /\ turn' = [turn EXCEPT ![t] = "asked"]
        /\ rows[e].status = "unused" /\ asks' = [asks EXCEPT ![t] = e]
        /\ UNCHANGED <<hub, callers, req, heard, watched>>
    BY DEF Ask, Move
  <1>3. future[e] = "none" /\ e \notin watched
    BY <1>2 DEF IInv, Questions, FuturesAreNew
  <1>4. \A u \in Turns \ {t} : turn[u] \notin {"asked", "waiting"}
    BY <1>2, OneIsAlive DEF Alive
  <1>5. TypeOK'
    <2>1. turn' \in [Turns -> TurnStates] /\ asks' \in [Turns -> Events \cup {NoEvent}]
      BY <1>2 DEF IInv, TypeOK, TurnStates
    <2>2. \A u \in Turns : asks'[u] \in Events <=> turn'[u] \in {"asked", "waiting"}
      BY <1>2 DEF IInv, TypeOK
    <2>3. rows' \in [Events -> [kind : Kinds, answer : Answers \cup {NoAnswer},
                                status : {"unused", "pending", "answered", "superseded"}]]
      BY <1>1 DEF IInv, TypeOK, Kinds
    <2> QED
      BY <1>2, <2>1, <2>2, <2>3 DEF IInv, TypeOK, hub
  <1>6. OneTurn'
    BY <1>2 DEF IInv, TypeOK, OneTurn, Alive, hub
  <1>7. FuturesAreNew'
    <2>1. \A f \in Events : rows'[f].status = "unused" => rows[f].status = "unused"
      BY <1>1, <1>2 DEF IInv, TypeOK
    <2>2. rows'[e].status = "pending"
      BY <1>1 DEF IInv, TypeOK
    <2> QED
      BY <1>2, <1>3, <1>4, <2>1, <2>2 DEF IInv, TypeOK, Questions, FuturesAreNew, hub
  <1>8. Questions'
    BY <1>2, <1>4, <1>7 DEF IInv, TypeOK, Questions, RequestsNameQuestions, OpenIsWaitedFor,
                            LiveHasFuture, hub
  <1>9. WaiterIsReachable' /\ AcceptedIsHeard' /\ LeftQuestionIsReleased'
    BY <1>2, <1>4 DEF IInv, TypeOK, WaiterIsReachable, AcceptedIsHeard, LeftQuestionIsReleased,
                      Registered, hub
  <1> QED
    BY <1>5, <1>6, <1>8, <1>9 DEF IInv

\* The answers that AcceptedIsHeard is about.
Accepted(r) == req[r].pc = "accepted" /\ req[r].via = "page" /\ req[r].live

\* A step changes the future of a question e that no accepted answer is of, and
\* no other turn's waiting.
LEMMA AcceptedIsHeardStays ==
  ASSUME IInv, NEW t \in Turns, NEW e, UNCHANGED <<req, heard>>,
         \A r \in Answers : Accepted(r) => req[r].event # e,
         \A f \in Events \ {e} : future'[f] = future[f],
         turn[t] = "waiting" => asks[t] = e,
         \A u \in Turns \ {t} : turn'[u] = turn[u] /\ asks'[u] = asks[u]
  PROVE  AcceptedIsHeard'
  <1> SUFFICES ASSUME NEW r \in Answers, Accepted(r)
               PROVE  /\ future'[req[r].event] \in {r, "cancelled"}
                      /\ future'[req[r].event] = r =>
                            \/ <<req[r].event, r>> \in heard
                            \/ \E u \in Turns : turn'[u] = "waiting" /\ asks'[u] = req[r].event
    <2>1. req' = req /\ heard' = heard
      OBVIOUS
    <2> QED
      BY <2>1 DEF AcceptedIsHeard, Accepted
  <1> DEFINE f == req[r].event
  <1>1. f # e /\ f \in Events
    BY DEF Accepted, IInv, Questions, RequestsNameQuestions
  <1>2. /\ future[f] \in {r, "cancelled"}
        /\ future[f] = r => \/ <<f, r>> \in heard
                            \/ \E u \in Turns : turn[u] = "waiting" /\ asks[u] = f
    BY DEF IInv, AcceptedIsHeard, Accepted
  <1>3. \A u \in Turns : turn[u] = "waiting" /\ asks[u] = f =>
                           turn'[u] = "waiting" /\ asks'[u] = f
    BY <1>1
  <1> QED
    BY <1>1, <1>2, <1>3

\* The future is created while no other turn is there to wait for anything.
LEMMA CreatePendingAnswerPreserves ==
  ASSUME IInv, NEW t \in Turns, CreatePendingAnswer(t) PROVE IInv'
  <1> DEFINE e == asks[t]
  <1>1. /\ turn[t] = "asked" /\ turn' = [turn EXCEPT ![t] = "waiting"]
        /\ pending' = pending \cup {e} /\ future' = [future EXCEPT ![e] = "open"]
        /\ watched' = IF Registered = {} THEN watched ELSE watched \cup {e}
        /\ UNCHANGED <<held, run, tabs, asks, callers, req, rows, heard>>
    BY DEF CreatePendingAnswer, Move
  <1>2. /\ e \in Events /\ rows[e].status # "unused" /\ future[e] = "none" /\ e \notin watched
    BY <1>1 DEF IInv, TypeOK, Questions, FuturesAreNew
  <1> HIDE DEF e
  <1>3. e = asks[t]
    BY DEF e
  <1>4. \A u \in Turns \ {t} : turn[u] \notin {"asked", "waiting"}
    BY <1>1, OneIsAlive DEF Alive
  <1>5. TypeOK'
    BY <1>1, <1>2 DEF IInv, TypeOK, TurnStates, FutureStates
  <1>6. OneTurn'
    BY <1>1 DEF IInv, TypeOK, OneTurn, Alive
  <1>7. RequestsNameQuestions' /\ FuturesAreNew'
    BY <1>1, <1>2, <1>4 DEF IInv, TypeOK, Questions, RequestsNameQuestions, FuturesAreNew
  <1>8. OpenIsWaitedFor'
    BY <1>1, <1>2, <1>3, <1>4 DEF IInv, TypeOK, Questions, OpenIsWaitedFor
  <1>9. LiveHasFuture'
    BY <1>1, <1>2 DEF IInv, TypeOK, Questions, LiveHasFuture
  <1>10. WaiterIsReachable'
    BY <1>1, <1>3, <1>4 DEF IInv, TypeOK, WaiterIsReachable
  <1>11. AcceptedIsHeard'
    <2>1. \A r \in Answers : Accepted(r) => req[r].event # e
      BY <1>2 DEF IInv, Questions, LiveHasFuture, Accepted
    <2>2. \A f \in Events \ {e} : future'[f] = future[f]
      BY <1>1 DEF IInv, TypeOK
    <2>3. /\ req' = req /\ heard' = heard /\ turn[t] # "waiting"
          /\ \A u \in Turns \ {t} : turn'[u] = turn[u] /\ asks'[u] = asks[u]
      BY <1>1 DEF IInv, TypeOK
    <2> QED
      BY <2>1, <2>2, <2>3, AcceptedIsHeardStays
  <1>12. LeftQuestionIsReleased'
    BY <1>1, <1>2 DEF IInv, TypeOK, LeftQuestionIsReleased, Registered
  <1> QED
    BY <1>5, <1>6, <1>7, <1>8, <1>9, <1>10, <1>11, <1>12 DEF IInv, Questions

\* A turn stops waiting for a future that is not open any more.
LEMMA StopWaiting ==
  ASSUME IInv, NEW t \in Turns, turn[t] = "waiting", future[asks[t]] # "open",
         NEW s \in {"working", "ended"}, turn' = [turn EXCEPT ![t] = s],
         asks' = [asks EXCEPT ![t] = NoEvent], heard \subseteq heard',
         heard' \in SUBSET (Events \X Answers),
         future[asks[t]] \in Answers => <<asks[t], future[asks[t]]>> \in heard',
         UNCHANGED <<hub, callers, req, rows, watched>>
  PROVE  IInv'
  <1>1. TypeOK'
    BY NoEventAssumption DEF IInv, TypeOK, TurnStates, hub
  <1>2. OneTurn'
    BY DEF IInv, TypeOK, OneTurn, Alive, hub
  <1>3. RequestsNameQuestions' /\ LiveHasFuture'
    BY DEF IInv, Questions, RequestsNameQuestions, LiveHasFuture, hub
  <1>4. FuturesAreNew' /\ OpenIsWaitedFor'
    BY DEF IInv, TypeOK, Questions, FuturesAreNew, OpenIsWaitedFor, hub
  <1>5. WaiterIsReachable'
    BY DEF IInv, TypeOK, WaiterIsReachable, hub
  <1>6. LeftQuestionIsReleased'
    BY DEF IInv, LeftQuestionIsReleased, Registered, hub
  <1>7. AcceptedIsHeard'
    <2>1. /\ req' = req /\ future' = future
          /\ \A u \in Turns \ {t} : turn'[u] = turn[u] /\ asks'[u] = asks[u]
      BY DEF IInv, TypeOK, hub
    <2>2. ASSUME NEW r \in Answers, Accepted(r)
          PROVE  /\ future[req[r].event] \in {r, "cancelled"}
                 /\ future[req[r].event] = r =>
                       \/ <<req[r].event, r>> \in heard'
                       \/ \E u \in Turns : turn'[u] = "waiting" /\ asks'[u] = req[r].event
      <3>1. /\ future[req[r].event] \in {r, "cancelled"}
            /\ future[req[r].event] = r =>
                  \/ <<req[r].event, r>> \in heard
                  \/ \E u \in Turns : turn[u] = "waiting" /\ asks[u] = req[r].event
        BY <2>2 DEF Accepted, IInv, AcceptedIsHeard
      <3> QED
        BY <2>1, <3>1
    <2> QED
      BY <2>1, <2>2 DEF AcceptedIsHeard, Accepted
  <1> QED
    BY <1>1, <1>2, <1>3, <1>4, <1>5, <1>6, <1>7 DEF IInv, Questions

LEMMA HearPreserves ==
  ASSUME IInv, NEW t \in Turns, Hear(t) PROVE IInv'
  <1>1. /\ turn[t] = "waiting" /\ future[asks[t]] \in Answers
        /\ turn' = [turn EXCEPT ![t] = "working"]
        /\ heard' = heard \cup {<<asks[t], future[asks[t]]>>}
        /\ asks' = [asks EXCEPT ![t] = NoEvent]
        /\ UNCHANGED <<hub, callers, req, rows, watched>>
    BY DEF Hear, Move
  <1>2. future[asks[t]] # "open"
    BY <1>1, NoAnswerAssumption DEF FutureStates
  <1>3. heard' \in SUBSET (Events \X Answers)
    BY <1>1 DEF IInv, TypeOK
  <1> QED
    BY <1>1, <1>2, <1>3, StopWaiting

LEMMA CancelledPreserves ==
  ASSUME IInv, NEW t \in Turns, Cancelled(t) PROVE IInv'
  <1>1. PICK s \in {"working", "ended"} : turn' = [turn EXCEPT ![t] = s]
    BY DEF Cancelled, Move
  <1>2. /\ turn[t] = "waiting" /\ future[asks[t]] = "cancelled"
        /\ asks' = [asks EXCEPT ![t] = NoEvent]
        /\ UNCHANGED <<hub, callers, req, rows, heard, watched>>
    BY DEF Cancelled
  <1>3. future[asks[t]] \notin Answers
    BY <1>2, NoAnswerAssumption DEF FutureStates
  <1>4. heard' \in SUBSET (Events \X Answers)
    BY <1>2 DEF IInv, TypeOK
  <1> QED
    BY <1>1, <1>2, <1>3, <1>4, StopWaiting

\* The future goes with the turn that waited for it, and its entry stays.
LEMMA RuntimeDiesPreserves ==
  ASSUME IInv, NEW t \in Turns, RuntimeDies(t) PROVE IInv'
  <1> DEFINE e == asks[t]
  <1>1. /\ turn[t] = "waiting" /\ turn' = [turn EXCEPT ![t] = "closing"] /\ future[e] = "open"
        /\ future' = [future EXCEPT ![e] = "cancelled"] /\ asks' = [asks EXCEPT ![t] = NoEvent]
        /\ UNCHANGED <<held, run, pending, tabs, callers, req, rows, heard, watched>>
    BY DEF RuntimeDies, Move
  <1>2. e \in Events
    BY <1>1 DEF IInv, TypeOK
  <1> HIDE DEF e
  <1>3. e = asks[t]
    BY DEF e
  <1>4. \A u \in Turns \ {t} : turn[u] \notin {"asked", "waiting"}
    BY <1>1, OneIsAlive DEF Alive
  <1>5. TypeOK'
    BY <1>1, <1>2, NoEventAssumption DEF IInv, TypeOK, TurnStates, FutureStates
  <1>6. OneTurn'
    BY <1>1 DEF IInv, TypeOK, OneTurn, Alive
  <1>7. RequestsNameQuestions' /\ FuturesAreNew' /\ LiveHasFuture'
    BY <1>1, <1>2, <1>4 DEF IInv, TypeOK, Questions, RequestsNameQuestions, FuturesAreNew,
                            LiveHasFuture
  <1>8. OpenIsWaitedFor'
    BY <1>1, <1>2, <1>3, <1>4 DEF IInv, TypeOK, Questions, OpenIsWaitedFor
  <1>9. WaiterIsReachable' /\ LeftQuestionIsReleased'
    BY <1>1, <1>2, <1>4 DEF IInv, TypeOK, WaiterIsReachable, LeftQuestionIsReleased, Registered
  <1>10. AcceptedIsHeard'
    <2>1. \A r \in Answers : req[r].event = e => future[req[r].event] \notin {r, "cancelled"}
      BY <1>1, NoAnswerAssumption DEF FutureStates
    <2>2. \A r \in Answers : Accepted(r) => req[r].event # e
      BY <2>1 DEF IInv, AcceptedIsHeard, Accepted
    <2>3. \A f \in Events \ {e} : future'[f] = future[f]
      BY <1>1 DEF IInv, TypeOK
    <2>4. /\ req' = req /\ heard' = heard
          /\ \A u \in Turns \ {t} : turn'[u] = turn[u] /\ asks'[u] = asks[u]
      BY <1>1 DEF IInv, TypeOK
    <2> QED
      BY <1>3, <2>2, <2>3, <2>4, AcceptedIsHeardStays
  <1> QED
    BY <1>5, <1>6, <1>7, <1>8, <1>9, <1>10 DEF IInv, Questions

LEMMA AskPermissionPreserves ==
  ASSUME IInv, NEW t \in Turns, NEW e \in Events, AskPermission(t, e) PROVE IInv'
  <1>1. /\ turn[t] = "working" /\ turn' = [turn EXCEPT ![t] = "closing"]
        /\ rows' = [rows EXCEPT ![e] = [kind |-> "permission", status |-> "pending",
                                        answer |-> NoAnswer]]
        /\ UNCHANGED <<hub, asks, callers, req, heard, watched>>
    BY DEF AskPermission, Move
  <1>2. TypeOK'
    <2>1. rows' \in [Events -> [kind : Kinds, answer : Answers \cup {NoAnswer},
                                status : {"unused", "pending", "answered", "superseded"}]]
      BY <1>1 DEF IInv, TypeOK, Kinds
    <2> QED
      BY <1>1, <2>1 DEF IInv, TypeOK, TurnStates, hub
  <1>3. OneTurn'
    BY <1>1 DEF IInv, TypeOK, OneTurn, Alive, hub
  <1>4. FuturesAreNew'
    <2>1. \A f \in Events : rows'[f].status = "unused" => rows[f].status = "unused"
      BY <1>1 DEF IInv, TypeOK
    <2> QED
      BY <1>1, <2>1 DEF IInv, TypeOK, Questions, FuturesAreNew, hub
  <1>5. Questions'
    BY <1>1, <1>4 DEF IInv, TypeOK, Questions, RequestsNameQuestions, OpenIsWaitedFor,
                      LiveHasFuture, hub
  <1>6. WaiterIsReachable' /\ AcceptedIsHeard' /\ LeftQuestionIsReleased'
    BY <1>1 DEF IInv, TypeOK, WaiterIsReachable, AcceptedIsHeard, LeftQuestionIsReleased,
                Registered, hub
  <1> QED
    BY <1>2, <1>3, <1>5, <1>6 DEF IInv

-----------------------------------------------------------------------------
(* Answers.                                                                *)

\* A request moves, or is refused; nothing else does.
LEMMA RequestMoves ==
  ASSUME IInv, NEW r \in Answers, NEW q, req' = [req EXCEPT ![r] = q],
         q \in [pc : {"read", "checked", "stored", "accepted", "refused"}, via : {"page", "voice"},
                event : Events, saw : BOOLEAN, live : BOOLEAN],
         q.live => future[q.event] # "none",
         q.pc = "accepted" => q.via = "voice" \/ ~q.live,
         TypeOK', FuturesAreNew', OneTurn', heard \subseteq heard',
         UNCHANGED <<pending, future, tabs, asks, watched>>,
         \A t \in Turns : turn'[t] = "waiting" <=> turn[t] = "waiting"
  PROVE  IInv'
  <1>1. RequestsNameQuestions' /\ LiveHasFuture'
    BY DEF IInv, TypeOK, Questions, RequestsNameQuestions, LiveHasFuture
  <1>2. OpenIsWaitedFor' /\ WaiterIsReachable' /\ LeftQuestionIsReleased'
    BY DEF IInv, Questions, OpenIsWaitedFor, WaiterIsReachable, LeftQuestionIsReleased, Registered
  <1>3. AcceptedIsHeard'
    <2>1. \A u \in Answers : Accepted(u)' => u # r /\ Accepted(u) /\ req'[u] = req[u]
      BY DEF Accepted, IInv, TypeOK
    <2>2. ASSUME NEW u \in Answers, Accepted(u)
          PROVE  /\ future[req[u].event] \in {u, "cancelled"}
                 /\ future[req[u].event] = u =>
                       \/ <<req[u].event, u>> \in heard
                       \/ \E t \in Turns : turn[t] = "waiting" /\ asks[t] = req[u].event
      BY <2>2 DEF Accepted, IInv, AcceptedIsHeard
    <2>3. ASSUME NEW u \in Answers, Accepted(u)'
          PROVE  /\ future'[req'[u].event] \in {u, "cancelled"}
                 /\ future'[req'[u].event] = u =>
                       \/ <<req'[u].event, u>> \in heard'
                       \/ \E t \in Turns : turn'[t] = "waiting" /\ asks'[t] = req'[u].event
      <3>1. u # r /\ Accepted(u) /\ req'[u] = req[u]
        BY <2>1, <2>3
      <3> QED
        BY <2>2, <3>1
    <2> QED
      BY <2>3 DEF AcceptedIsHeard, Accepted
  <1> QED
    BY <1>1, <1>2, <1>3 DEF IInv, Questions

LEMMA ReadRowPreserves ==
  ASSUME IInv, NEW r \in Answers, NEW e \in Events, ReadRow(r, e) PROVE IInv'
  <1>1. PICK q \in [pc : {"read", "checked"}, via : {"page", "voice"}, event : {e},
                    saw : BOOLEAN, live : {FALSE}] : req' = [req EXCEPT ![r] = q]
    BY DEF ReadRow, NoRequest
  <1>2. UNCHANGED <<hub, turn, asks, callers, rows, heard, watched>>
    BY DEF ReadRow
  <1>3. TypeOK'
    BY <1>1, <1>2 DEF IInv, TypeOK, hub
  <1>4. FuturesAreNew' /\ OneTurn'
    BY <1>2 DEF IInv, Questions, FuturesAreNew, OneTurn, Alive, hub
  <1> QED
    BY <1>1, <1>2, <1>3, <1>4, RequestMoves DEF hub

LEMMA CheckPendingPreserves ==
  ASSUME IInv, NEW r \in Answers, CheckPending(r) PROVE IInv'
  <1> DEFINE q == [req[r] EXCEPT !.pc = IF req[r].event \in pending \/ req[r].saw
                                        THEN "checked" ELSE "refused",
                                 !.live = req[r].event \in pending]
  <1>1. /\ req[r].pc = "read" /\ req' = [req EXCEPT ![r] = q]
        /\ UNCHANGED <<hub, turn, asks, callers, rows, heard, watched>>
    BY DEF CheckPending, IInv, TypeOK
  <1>2. /\ q.pc \in {"checked", "refused"} /\ q.event = req[r].event
        /\ q.live => q.event \in pending
        /\ q \in [pc : {"read", "checked", "stored", "accepted", "refused"}, via : {"page", "voice"},
                  event : Events, saw : BOOLEAN, live : BOOLEAN]
    <2>1. /\ req[r] \in [pc : {"idle", "read", "checked", "stored", "accepted", "refused", "gone"},
                         via : {"page", "voice"}, event : Events \cup {NoEvent},
                         saw : BOOLEAN, live : BOOLEAN]
          /\ req[r].event \in Events
      BY <1>1 DEF IInv, TypeOK, Questions, RequestsNameQuestions
    <2> DEFINE live == req[r].event \in pending
               pc == IF req[r].event \in pending \/ req[r].saw THEN "checked" ELSE "refused"
    <2>2. live \in BOOLEAN /\ (live => req[r].event \in pending) /\ pc \in {"checked", "refused"}
      OBVIOUS
    <2>3. q = [req[r] EXCEPT !.pc = pc, !.live = live]
      OBVIOUS
    <2> HIDE DEF live, pc, q
    <2> QED
      BY <2>1, <2>2, <2>3
  <1> HIDE DEF q
  <1>3. q.live => future[q.event] # "none"
    BY <1>2 DEF IInv, Questions, OpenIsWaitedFor
  <1>4. TypeOK'
    BY <1>1, <1>2 DEF IInv, TypeOK, hub
  <1>5. FuturesAreNew' /\ OneTurn'
    BY <1>1 DEF IInv, Questions, FuturesAreNew, OneTurn, Alive, hub
  <1> QED
    BY <1>1, <1>2, <1>3, <1>4, <1>5, RequestMoves DEF hub

\* A request that only goes on from "stored", or is about to be stored.
LEMMA RequestGoesOn ==
  ASSUME IInv, NEW r \in Answers, NEW s \in {"stored", "accepted", "refused"},
         req[r].pc \in {"checked", "stored"}, req' = [req EXCEPT ![r].pc = s]
  PROVE  LET q == [req[r] EXCEPT !.pc = s] IN
         /\ req' = [req EXCEPT ![r] = q]
         /\ q \in [pc : {"read", "checked", "stored", "accepted", "refused"},
                   via : {"page", "voice"}, event : Events, saw : BOOLEAN, live : BOOLEAN]
         /\ q.pc = s /\ q.event = req[r].event /\ q.via = req[r].via /\ q.live = req[r].live
         /\ q.live => future[q.event] # "none"
  BY DEF IInv, TypeOK, Questions, RequestsNameQuestions, LiveHasFuture

LEMMA StoreAnswerPreserves ==
  ASSUME IInv, NEW r \in Answers, StoreAnswer(r) PROVE IInv'
  <1> DEFINE q == [req[r] EXCEPT !.pc = "stored"]
             e == req[r].event
  <1>1. /\ req[r].pc = "checked" /\ req' = [req EXCEPT ![r].pc = "stored"]
        /\ rows' = [rows EXCEPT ![e].status = "answered", ![e].answer = r]
        /\ UNCHANGED <<hub, turn, asks, callers, heard, watched>>
    BY DEF StoreAnswer, InRequest
  <1>2. /\ req' = [req EXCEPT ![r] = q]
        /\ q \in [pc : {"read", "checked", "stored", "accepted", "refused"},
                  via : {"page", "voice"}, event : Events, saw : BOOLEAN, live : BOOLEAN]
        /\ q.pc = "stored"
        /\ q.live => future[q.event] # "none"
    BY <1>1, RequestGoesOn
  <1>3. rows' = [rows EXCEPT ![e] = [@ EXCEPT !.status = "answered", !.answer = r]]
    BY <1>1
  <1>4. /\ rows' \in [Events -> [kind : Kinds, answer : Answers \cup {NoAnswer},
                                 status : {"unused", "pending", "answered", "superseded"}]]
        /\ \A f \in Events : rows'[f].status = "unused" => rows[f].status = "unused"
    <2>1. e \in Events /\ r \in Answers
      BY <1>1 DEF IInv, Questions, RequestsNameQuestions
    <2>2. rows[e] \in [kind : Kinds, answer : Answers \cup {NoAnswer},
                      status : {"unused", "pending", "answered", "superseded"}]
      BY <2>1 DEF IInv, TypeOK
    <2> DEFINE w == [rows[e] EXCEPT !.status = "answered", !.answer = r]
    <2>3. /\ w \in [kind : Kinds, answer : Answers \cup {NoAnswer},
                    status : {"unused", "pending", "answered", "superseded"}]
          /\ w.status = "answered"
      BY <2>2
    <2>4. rows' = [rows EXCEPT ![e] = w]
      BY <1>3
    <2> HIDE DEF w, e
    <2> QED
      BY <2>1, <2>3, <2>4 DEF IInv, TypeOK
  <1> HIDE DEF q
  <1>5. TypeOK'
    BY <1>1, <1>2, <1>4 DEF IInv, TypeOK, hub
  <1>6. FuturesAreNew' /\ OneTurn'
    BY <1>1, <1>4 DEF IInv, TypeOK, Questions, FuturesAreNew, OneTurn, Alive, hub
  <1> QED
    BY <1>1, <1>2, <1>5, <1>6, RequestMoves DEF hub

\* An answer that goes to nobody, or to the request itself.
LEMMA NobodyWaitsPreserves ==
  ASSUME IInv, NEW r \in Answers, CannotContinue(r) \/ ActOnScope(r) PROVE IInv'
  <1>1. PICK s \in {"accepted", "refused"} : req' = [req EXCEPT ![r].pc = s]
    BY DEF CannotContinue, ActOnScope, InRequest, IInv, TypeOK
  <1> DEFINE q == [req[r] EXCEPT !.pc = s]
  <1>2. /\ req[r].pc = "stored" /\ ~HasWaiter(r)
        /\ heard' \in {heard, heard \cup {<<req[r].event, r>>}}
        /\ UNCHANGED <<hub, turn, asks, callers, rows, watched>>
    BY DEF CannotContinue, ActOnScope, InRequest
  <1>3. /\ req' = [req EXCEPT ![r] = q]
        /\ q \in [pc : {"read", "checked", "stored", "accepted", "refused"},
                  via : {"page", "voice"}, event : Events, saw : BOOLEAN, live : BOOLEAN]
        /\ q.via = req[r].via /\ q.live = req[r].live /\ q.event = req[r].event
        /\ q.live => future[q.event] # "none"
    BY <1>1, <1>2, RequestGoesOn
  <1> HIDE DEF q
  <1>4. q.via = "voice" \/ ~q.live
    BY <1>2, <1>3 DEF HasWaiter
  <1>5. TypeOK'
    <2>1. heard' \in SUBSET (Events \X Answers)
      BY <1>2, <1>3 DEF IInv, TypeOK
    <2> QED
      BY <1>2, <1>3, <2>1 DEF IInv, TypeOK, hub
  <1>6. FuturesAreNew' /\ OneTurn'
    BY <1>2 DEF IInv, Questions, FuturesAreNew, OneTurn, Alive, hub
  <1> QED
    BY <1>2, <1>3, <1>4, <1>5, <1>6, RequestMoves DEF hub

LEMMA ContinuePreserves ==
  ASSUME IInv, NEW r \in Answers, NEW t \in Turns, ContinueWithAnswer(r, t) PROVE IInv'
  <1> DEFINE q == [req[r] EXCEPT !.pc = "accepted"]
  <1>1. /\ req[r].pc = "stored" /\ req' = [req EXCEPT ![r].pc = "accepted"] /\ ~HasWaiter(r)
        /\ ~Busy /\ turn[t] = "unused" /\ turn' = [turn EXCEPT ![t] = "created"]
        /\ held' = TRUE /\ run' = t /\ heard' = heard \cup {<<req[r].event, r>>}
        /\ UNCHANGED <<pending, future, tabs, asks, callers, rows, watched>>
    BY DEF ContinueWithAnswer, InRequest, TakeSlot
  <1>2. callers = {} /\ \A u \in Turns : ~Alive(u)
    BY <1>1, FreeIsQuiet
  <1>3. /\ req' = [req EXCEPT ![r] = q]
        /\ q \in [pc : {"read", "checked", "stored", "accepted", "refused"},
                  via : {"page", "voice"}, event : Events, saw : BOOLEAN, live : BOOLEAN]
        /\ q.via = req[r].via /\ q.live = req[r].live /\ q.event = req[r].event
        /\ q.live => future[q.event] # "none"
    BY <1>1, RequestGoesOn
  <1> HIDE DEF q
  <1>4. q.via = "voice" \/ ~q.live
    BY <1>1, <1>3 DEF HasWaiter
  <1>5. TypeOK'
    <2>1. heard' \in SUBSET (Events \X Answers)
      BY <1>1, <1>3 DEF IInv, TypeOK
    <2>2. \A u \in Turns : asks'[u] \in Events <=> turn'[u] \in {"asked", "waiting"}
      BY <1>1 DEF IInv, TypeOK
    <2> QED
      BY <1>1, <1>3, <2>1, <2>2 DEF IInv, TypeOK, TurnStates
  <1>6. FuturesAreNew'
    BY <1>1 DEF IInv, TypeOK, Questions, FuturesAreNew
  <1>7. OneTurn'
    BY <1>1, <1>2 DEF IInv, TypeOK, OneTurn, Alive
  <1>8. heard \subseteq heard' /\ \A u \in Turns : turn'[u] = "waiting" <=> turn[u] = "waiting"
    BY <1>1 DEF IInv, TypeOK
  <1>9. UNCHANGED <<pending, future, tabs, asks, watched>>
    BY <1>1
  <1> QED
    BY <1>3, <1>4, <1>5, <1>6, <1>7, <1>8, <1>9, RequestMoves

\* The first answer resolves the future that the turn waits for, unless that
\* was cancelled; the second finds no waiter, and is refused.
LEMMA AnswerWaiterPreserves ==
  ASSUME IInv, NEW r \in Answers, AnswerWaiter(r) PROVE IInv'
  <1> DEFINE e == req[r].event
             s == IF e \in pending THEN "accepted" ELSE "refused"
             q == [req[r] EXCEPT !.pc = s]
  <1>1. /\ req[r].pc = "stored" /\ req' = [req EXCEPT ![r].pc = s]
        /\ pending' = pending \ {e}
        /\ future' = IF e \in pending /\ future[e] = "open" THEN [future EXCEPT ![e] = r] ELSE future
        /\ UNCHANGED <<held, run, tabs, turn, asks, callers, rows, heard, watched>>
    BY DEF AnswerWaiter, InRequest, Resolve
  <1>2. e \in Events
    BY <1>1 DEF IInv, Questions, RequestsNameQuestions
  <1>3. /\ req' = [req EXCEPT ![r] = q]
        /\ q \in [pc : {"read", "checked", "stored", "accepted", "refused"},
                  via : {"page", "voice"}, event : Events, saw : BOOLEAN, live : BOOLEAN]
        /\ q.pc = s /\ q.event = e
        /\ q.live => future[q.event] # "none"
    BY <1>1, RequestGoesOn
  <1> HIDE DEF q
  <1>4. future' \in [Events -> FutureStates \cup Answers]
    BY <1>1, <1>2 DEF IInv, TypeOK
  <1>5. TypeOK'
    <2>1. req' \in [Answers -> [pc : {"idle", "read", "checked", "stored", "accepted",
                                     "refused", "gone"},
                               via : {"page", "voice"}, event : Events \cup {NoEvent},
                               saw : BOOLEAN, live : BOOLEAN]]
      BY <1>3 DEF IInv, TypeOK
    <2>2. pending' \in SUBSET Events
      BY <1>1 DEF IInv, TypeOK
    <2>3. UNCHANGED <<held, run, tabs, turn, asks, callers, rows, heard, watched>>
      BY <1>1
    <2> QED
      BY <1>4, <2>1, <2>2, <2>3 DEF IInv, TypeOK
  <1>6. OneTurn'
    BY <1>1 DEF IInv, OneTurn, Alive
  <1>7. \A f \in Events : /\ future'[f] = "none" <=> future[f] = "none"
                          /\ future'[f] = "open" <=> future[f] = "open" /\ (f = e => e \notin pending)
                          /\ f # e => future'[f] = future[f]
    BY <1>1, <1>2, NoAnswerAssumption DEF IInv, TypeOK, FutureStates
  <1>8. FuturesAreNew'
    BY <1>1, <1>7 DEF IInv, TypeOK, Questions, FuturesAreNew
  <1>9. CASE e \notin pending
    <2>1. UNCHANGED <<pending, future, tabs, asks, watched>> /\ q.pc = "refused"
      BY <1>1, <1>3, <1>9
    <2>2. heard \subseteq heard' /\ \A t \in Turns : turn'[t] = "waiting" <=> turn[t] = "waiting"
      BY <1>1
    <2> QED
      BY <1>3, <1>5, <1>6, <1>8, <2>1, <2>2, RequestMoves
  <1>10. CASE e \in pending
    <2>1. RequestsNameQuestions'
      BY <1>1, <1>2, <1>3 DEF IInv, TypeOK, Questions, RequestsNameQuestions
    <2>2. LiveHasFuture'
      <3>1. ASSUME NEW u \in Answers, req'[u].pc # "idle", req'[u].live
            PROVE  req'[u].event \in Events /\ future[req'[u].event] # "none"
        BY <1>3, <3>1 DEF IInv, TypeOK, Questions, LiveHasFuture
      <3>2. ASSUME NEW f PROVE future[f] # "none" => future'[f] # "none"
        BY <1>1, <1>7, <1>2, NoAnswerAssumption DEF IInv, TypeOK, FutureStates
      <3> QED
        BY <3>1, <3>2 DEF LiveHasFuture
    <2>3. OpenIsWaitedFor'
      BY <1>1, <1>2, <1>7 DEF IInv, TypeOK, Questions, OpenIsWaitedFor
    <2>4. WaiterIsReachable' /\ LeftQuestionIsReleased'
      BY <1>1, <1>7, <1>10
         DEF IInv, TypeOK, WaiterIsReachable, LeftQuestionIsReleased, Registered
    <2>5. AcceptedIsHeard'
      <3>1. ASSUME NEW u \in Answers, u # r, Accepted(u)
            PROVE  /\ future'[req[u].event] = future[req[u].event]
                   /\ future[req[u].event] \in {u, "cancelled"}
                   /\ future[req[u].event] = u =>
                         \/ <<req[u].event, u>> \in heard
                         \/ \E t \in Turns : turn[t] = "waiting" /\ asks[t] = req[u].event
        <4>1. /\ future[req[u].event] \in {u, "cancelled"}
              /\ future[req[u].event] = u =>
                    \/ <<req[u].event, u>> \in heard
                    \/ \E t \in Turns : turn[t] = "waiting" /\ asks[t] = req[u].event
          BY <3>1 DEF Accepted, IInv, AcceptedIsHeard
        <4>2. future[req[u].event] # "open"
          BY <4>1, NoAnswerAssumption DEF FutureStates
        <4> QED
          BY <1>1, <1>2, <4>1, <4>2 DEF IInv, TypeOK
      <3>2. /\ future'[e] \in {r, "cancelled"}
            /\ future'[e] = r => \E t \in Turns : turn[t] = "waiting" /\ asks[t] = e
        <4>1. future[e] \in {"open", "cancelled"}
          BY <1>10 DEF IInv, Questions, OpenIsWaitedFor
        <4>2. future[e] = "open" => \E t \in Turns : turn[t] = "waiting" /\ asks[t] = e
          BY <1>2 DEF IInv, Questions, OpenIsWaitedFor
        <4>3. future[e] = "cancelled" => future'[e] # r
          BY <1>1, NoAnswerAssumption DEF FutureStates
        <4>4. future[e] = "open" => future'[e] = r
          BY <1>1, <1>2, <1>10 DEF IInv, TypeOK
        <4>5. future[e] = "cancelled" => future'[e] = "cancelled"
          BY <1>1
        <4> QED
          BY <4>1, <4>2, <4>3, <4>4, <4>5
      <3>3. ASSUME NEW u \in Answers, Accepted(u)'
            PROVE  /\ future'[req'[u].event] \in {u, "cancelled"}
                   /\ future'[req'[u].event] = u =>
                         \/ <<req'[u].event, u>> \in heard'
                         \/ \E t \in Turns : turn'[t] = "waiting" /\ asks'[t] = req'[u].event
        <4>1. CASE u = r
          <5>1. req'[r].event = e
            BY <1>3 DEF IInv, TypeOK
          <5>2. turn' = turn /\ asks' = asks
            BY <1>1
          <5> HIDE DEF e
          <5> QED
            BY <3>2, <4>1, <5>1, <5>2
        <4>2. CASE u # r
          <5>1. req'[u] = req[u] /\ Accepted(u)
            BY <1>3, <3>3, <4>2 DEF IInv, TypeOK, Accepted
          <5>2. turn' = turn /\ asks' = asks /\ heard' = heard
            BY <1>1
          <5> QED
            BY <3>1, <4>2, <5>1, <5>2
        <4> QED
          BY <4>1, <4>2
      <3> QED
        BY <3>3 DEF AcceptedIsHeard, Accepted
    <2> QED
      BY <1>5, <1>6, <1>8, <2>1, <2>2, <2>3, <2>4, <2>5 DEF IInv, Questions
  <1> QED
    BY <1>9, <1>10

-----------------------------------------------------------------------------
(* Streams, the transcript, restarts.                                      *)

\* Superseding an approval makes no question unused.
LEMMA ReconcileKeeps ==
  ASSUME IInv, ReconcileOwners
  PROVE  /\ rows' \in [Events -> [kind : Kinds, answer : Answers \cup {NoAnswer},
                                  status : {"unused", "pending", "answered", "superseded"}]]
         /\ \A e \in Events : rows'[e].status = "unused" <=> rows[e].status = "unused"
  <1>1. CASE rows' = rows
    BY <1>1 DEF IInv, TypeOK
  <1>2. CASE rows' = [e \in Events |-> IF rows[e].kind = "scope" /\ rows[e].status # "unused"
                                       THEN [rows[e] EXCEPT !.status = "superseded"] ELSE rows[e]]
    <2>1. ASSUME NEW e \in Events
          PROVE  /\ rows'[e] \in [kind : Kinds, answer : Answers \cup {NoAnswer},
                                  status : {"unused", "pending", "answered", "superseded"}]
                 /\ rows'[e].status = "unused" <=> rows[e].status = "unused"
      <3>1. rows[e] \in [kind : Kinds, answer : Answers \cup {NoAnswer},
                         status : {"unused", "pending", "answered", "superseded"}]
        BY DEF IInv, TypeOK
      <3>2. CASE rows[e].kind = "scope" /\ rows[e].status # "unused"
        <4>1. rows'[e] = [rows[e] EXCEPT !.status = "superseded"]
          BY <1>2, <3>2
        <4> QED
          BY <3>1, <3>2, <4>1
      <3>3. CASE ~(rows[e].kind = "scope" /\ rows[e].status # "unused")
        BY <1>2, <3>1, <3>3
      <3> QED
        BY <3>2, <3>3
    <2> QED
      BY <1>2, <2>1
  <1> QED
    BY <1>1, <1>2 DEF ReconcileOwners, Superseded

\* A step of a stream, or a reading of the transcript, that cancels nothing.
LEMMA StreamStep ==
  ASSUME IInv, UNCHANGED <<held, run, pending, future, coroutines, heard>>,
         tabs' \in [Tabs -> {"away", "opening", "open", "lost"}],
         rows' \in [Events -> [kind : Kinds, answer : Answers \cup {NoAnswer},
                               status : {"unused", "pending", "answered", "superseded"}]],
         \A e \in Events : rows'[e].status = "unused" <=> rows[e].status = "unused",
         watched' \in {watched, watched \cup pending},
         Registered' = {} => pending \cap watched' = {} \/ (Registered = {} /\ watched' = watched)
  PROVE  IInv'
  <1>1. TypeOK'
    BY DEF IInv, TypeOK, coroutines
  <1>2. OneTurn' /\ AcceptedIsHeard' /\ WaiterIsReachable'
    BY DEF IInv, OneTurn, Alive, AcceptedIsHeard, WaiterIsReachable, coroutines
  <1>3. RequestsNameQuestions' /\ OpenIsWaitedFor' /\ LiveHasFuture'
    BY DEF IInv, Questions, RequestsNameQuestions, OpenIsWaitedFor, LiveHasFuture, coroutines
  <1>4. FuturesAreNew'
    <2>1. \A e \in pending : future[e] # "none"
      BY DEF IInv, Questions, OpenIsWaitedFor
    <2> QED
      BY <2>1 DEF IInv, TypeOK, Questions, FuturesAreNew, coroutines
  <1>5. LeftQuestionIsReleased'
    BY DEF IInv, LeftQuestionIsReleased
  <1> QED
    BY <1>1, <1>2, <1>3, <1>4, <1>5 DEF IInv, Questions

LEMMA RowsUnchanged ==
  ASSUME IInv, rows' = rows
  PROVE  /\ rows' \in [Events -> [kind : Kinds, answer : Answers \cup {NoAnswer},
                                  status : {"unused", "pending", "answered", "superseded"}]]
         /\ \A e \in Events : rows'[e].status = "unused" <=> rows[e].status = "unused"
  BY DEF IInv, TypeOK

LEMMA ReadHistoryPreserves ==
  ASSUME IInv, ReadHistory PROVE IInv'
  <1>1. UNCHANGED <<hub, coroutines, heard, watched>> /\ ReconcileOwners
    BY DEF ReadHistory
  <1>2. tabs' \in [Tabs -> {"away", "opening", "open", "lost"}] /\ Registered' = Registered
    BY <1>1 DEF IInv, TypeOK, Registered, hub
  <1> QED
    BY <1>1, <1>2, ReconcileKeeps, StreamStep DEF hub

\* A queue that is registered stays so: the stream is served or lost.
LEMMA StreamOpensPreserves ==
  ASSUME IInv, NEW b \in Tabs, Register(b) \/ ServeSnapshot(b) \/ OpenFails(b) PROVE IInv'
  <1>1. /\ \E s \in {"opening", "open", "lost"} : tabs' = [tabs EXCEPT ![b] = s]
        /\ watched' \in {watched, watched \cup pending}
        /\ UNCHANGED <<held, run, pending, future, coroutines, heard>>
    BY DEF Register, ServeSnapshot, OpenFails
  <1>2. tabs' \in [Tabs -> {"away", "opening", "open", "lost"}] /\ b \in Registered'
    BY <1>1 DEF IInv, TypeOK, Registered
  <1>3. rows' = rows \/ ReconcileOwners
    BY DEF Register, ServeSnapshot, OpenFails
  <1>4. /\ rows' \in [Events -> [kind : Kinds, answer : Answers \cup {NoAnswer},
                                 status : {"unused", "pending", "answered", "superseded"}]]
        /\ \A e \in Events : rows'[e].status = "unused" <=> rows[e].status = "unused"
    BY <1>3, RowsUnchanged, ReconcileKeeps
  <1> QED
    BY <1>1, <1>2, <1>4, StreamStep

\* The last stream cancels what the hub has, which wakes whoever waits for it.
LEMMA LeavePreserves ==
  ASSUME IInv, NEW b \in Tabs, Leave(b) PROVE IInv'
  <1>1. /\ tabs[b] = "open" /\ tabs' = [tabs EXCEPT ![b] = "away"]
        /\ IF Registered = {b} THEN CancelPendingAnswers ELSE UNCHANGED <<pending, future>>
        /\ UNCHANGED <<held, run, coroutines, rows, heard, watched>>
    BY DEF Leave
  <1>2. tabs' \in [Tabs -> {"away", "opening", "open", "lost"}] /\ Registered' = Registered \ {b}
    BY <1>1 DEF IInv, TypeOK, Registered
  <1>3. CASE Registered # {b}
    <2>1. Registered' # {} /\ UNCHANGED <<held, run, pending, future, coroutines, heard>>
      BY <1>1, <1>2, <1>3 DEF Registered
    <2> QED
      BY <1>1, <1>2, <2>1, RowsUnchanged, StreamStep
  <1>4. CASE Registered = {b}
    <2>1. /\ pending' = {}
          /\ future' = [e \in Events |-> IF e \in pending /\ future[e] = "open" THEN "cancelled"
                                         ELSE future[e]]
      BY <1>1, <1>4 DEF CancelPendingAnswers
    <2>2. TypeOK'
      BY <1>1, <1>2, <2>1 DEF IInv, TypeOK, FutureStates, coroutines
    <2>3. OneTurn' /\ RequestsNameQuestions' /\ LeftQuestionIsReleased'
      BY <1>1, <2>1 DEF IInv, OneTurn, Alive, Questions, RequestsNameQuestions,
                        LeftQuestionIsReleased, coroutines
    <2>4. FuturesAreNew' /\ OpenIsWaitedFor'
      BY <1>1, <2>1 DEF IInv, TypeOK, Questions, FuturesAreNew, OpenIsWaitedFor, coroutines
    <2>5. LiveHasFuture'
      BY <1>1, <2>1 DEF IInv, Questions, LiveHasFuture, coroutines
    <2>6. WaiterIsReachable'
      BY <1>1, <2>1 DEF IInv, TypeOK, WaiterIsReachable, coroutines
    <2>7. AcceptedIsHeard'
      <3>1. ASSUME NEW r \in Answers, Accepted(r)
            PROVE  future'[req[r].event] = future[req[r].event]
        <4>1. req[r].event \in Events /\ future[req[r].event] \in {r, "cancelled"}
          BY <3>1 DEF Accepted, IInv, Questions, RequestsNameQuestions, AcceptedIsHeard
        <4>2. future[req[r].event] # "open"
          BY <4>1, NoAnswerAssumption DEF FutureStates
        <4> QED
          BY <2>1, <4>1, <4>2
      <3>2. req' = req /\ turn' = turn /\ asks' = asks /\ heard' = heard
        BY <1>1 DEF coroutines
      <3> QED
        BY <3>1, <3>2 DEF IInv, AcceptedIsHeard, Accepted
    <2> QED
      BY <2>2, <2>3, <2>4, <2>5, <2>6, <2>7 DEF IInv, Questions
  <1> QED
    BY <1>3, <1>4

LEMMA RestartPreserves ==
  ASSUME IInv, Restart PROVE IInv'
  <1>1. /\ held' = FALSE /\ run' = NoTurn /\ pending' = {} /\ future' = [e \in Events |-> "none"]
        /\ tabs' = [b \in Tabs |-> "away"] /\ turn' = [t \in Turns |-> "unused"]
        /\ asks' = [t \in Turns |-> NoEvent] /\ callers' = {}
        /\ req' = [r \in Answers |->
                      IF req[r].pc = "idle" THEN req[r] ELSE [NoRequest EXCEPT !.pc = "gone"]]
        /\ UNCHANGED <<rows, heard, watched>>
    BY DEF Restart, FreeSlot
  <1>2. \A r \in Answers : \/ req'[r] = req[r] /\ req'[r].pc = "idle"
                           \/ /\ req'[r] = [pc |-> "gone", via |-> "page", event |-> NoEvent,
                                            saw |-> FALSE, live |-> FALSE]
    BY <1>1 DEF NoRequest
  <1>3. TypeOK'
    <2>1. req' \in [Answers -> [pc : {"idle", "read", "checked", "stored", "accepted",
                                      "refused", "gone"},
                                via : {"page", "voice"}, event : Events \cup {NoEvent},
                                saw : BOOLEAN, live : BOOLEAN]]
      BY <1>1 DEF IInv, TypeOK, NoRequest
    <2> QED
      BY <1>1, <2>1, NoEventAssumption DEF IInv, TypeOK, FutureStates, TurnStates
  <1>4. OneTurn'
    BY <1>1 DEF OneTurn, Alive
  <1>5. RequestsNameQuestions' /\ LiveHasFuture' /\ AcceptedIsHeard'
    BY <1>2 DEF RequestsNameQuestions, LiveHasFuture, AcceptedIsHeard
  <1>6. FuturesAreNew' /\ OpenIsWaitedFor'
    BY <1>1 DEF IInv, Questions, FuturesAreNew, OpenIsWaitedFor
  <1>7. WaiterIsReachable' /\ LeftQuestionIsReleased'
    BY <1>1 DEF WaiterIsReachable, LeftQuestionIsReleased
  <1> QED
    BY <1>3, <1>4, <1>5, <1>6, <1>7 DEF IInv, Questions

LEMMA NextPreserves ==
  ASSUME IInv, [Next]_vars PROVE IInv'
  <1>1. CASE UNCHANGED vars
    BY <1>1 DEF vars, hub, coroutines, IInv, TypeOK, OneTurn, Alive, Questions,
                RequestsNameQuestions, FuturesAreNew, OpenIsWaitedFor, LiveHasFuture,
                WaiterIsReachable, AcceptedIsHeard, LeftQuestionIsReleased, Registered
  <1>2. ASSUME NEW t \in Turns, TurnStep(t) PROVE IInv'
    BY <1>2, TurnMovesPreserves, CreatePendingAnswerPreserves, HearPreserves, CancelledPreserves,
       RuntimeDiesPreserves, DropRunPreserves, AskPreserves, AskPermissionPreserves DEF TurnStep
  <1>3. ASSUME NEW c \in Callers, ReserveRun(c) \/ CallerStep(c) PROVE IInv'
    BY <1>3, ReserveRunPreserves, GiveUpPreserves, StartRunPreserves DEF CallerStep
  <1>4. ASSUME NEW r \in Answers, AnswerStep(r) \/ \E e \in Events : ReadRow(r, e) PROVE IInv'
    BY <1>4, CheckPendingPreserves, StoreAnswerPreserves, AnswerWaiterPreserves,
       NobodyWaitsPreserves, ContinuePreserves, ReadRowPreserves DEF AnswerStep
  <1>5. ASSUME NEW b \in Tabs, Stream(b) PROVE IInv'
    BY <1>5, StreamOpensPreserves, LeavePreserves DEF Stream
  <1>6. CASE ReadHistory \/ Restart
    BY <1>6, ReadHistoryPreserves, RestartPreserves
  <1> QED
    BY <1>1, <1>2, <1>3, <1>4, <1>5, <1>6 DEF Next

-----------------------------------------------------------------------------
(* Theorems.                                                               *)

\* The inductive invariant: slot, turns, questions, futures and requests stay
\* in step through streams that come and go, runtimes that die and restarts.
THEOREM ChatInvariant == Spec => []IInv
  <1> QED
    BY InitEstablishes, NextPreserves, PTL DEF Spec

\* Every variable keeps its type, and a turn is about a question exactly while
\* it asks it or waits for its answer.
THEOREM TypeCorrect == Spec => []TypeOK
  <1>1. IInv => TypeOK
    BY DEF IInv
  <1> QED
    BY <1>1, ChatInvariant, PTL

\* A session has one turn, or one caller about to start one, and the hub's
\* slot knows which.
THEOREM OneTurnAtATime == Spec => []OneTurn
  <1>1. IInv => OneTurn
    BY DEF IInv
  <1> QED
    BY <1>1, ChatInvariant, PTL

\* A waiting turn's future is with the hub, or was resolved or cancelled.
THEOREM WaitersAreReachable == Spec => []WaiterIsReachable
  <1>1. IInv => WaiterIsReachable
    BY DEF IInv
  <1> QED
    BY <1>1, ChatInvariant, PTL

\* Of all the answers given to a waiting turn, one is accepted: the one heard.
THEOREM AcceptedAnswersAreHeard == Spec => []AcceptedIsHeard
  <1>1. IInv => AcceptedIsHeard
    BY DEF IInv
  <1> QED
    BY <1>1, ChatInvariant, PTL

\* A question that was seen does not pin its turn once every stream has left.
THEOREM LeftQuestionsAreReleased == Spec => []LeftQuestionIsReleased
  <1>1. IInv => LeftQuestionIsReleased
    BY DEF IInv
  <1> QED
    BY <1>1, ChatInvariant, PTL

-----------------------------------------------------------------------------
(* The hub implements TurnTaking.                                          *)

Running == {t \in Turns : Alive(t)}

LEMMA InitImplements == Init => Promise!Init
  BY DEF Init, Promise!Init, Alive

\* A turn that is the only one to change its state.
LEMMA TurnStepImplements ==
  ASSUME IInv, NEW t \in Turns, TurnStep(t) PROVE [Promise!Next]_Promise!vars
  <1>1. CASE Alive(t) /\ Alive(t)' /\ callers' = callers
             /\ \A u \in Turns \ {t} : turn'[u] = turn[u]
    <2>1. Running' = Running
      BY <1>1 DEF Running, Alive
    <2> QED
      BY <1>1, <2>1 DEF Running, Promise!vars
  <1>2. CASE Alive(t) /\ ~Alive(t)' /\ callers' = callers
             /\ \A u \in Turns \ {t} : turn'[u] = turn[u]
    <2>1. t \in Running /\ Running' = Running \ {t}
      BY <1>2 DEF Running, Alive
    <2>2. Promise!Finish(t)
      BY <1>2, <2>1 DEF Running, Promise!Finish
    <2> QED
      BY <2>2 DEF Promise!Next
  <1>3. CASE DropRun(t)
    <2>1. Running' = Running /\ callers' = callers
      BY <1>3 DEF DropRun, Move, IInv, TypeOK, Running, Alive
    <2> QED
      BY <2>1 DEF Running, Promise!vars
  <1>4. TurnStep(t) /\ ~DropRun(t) => /\ Alive(t) /\ callers' = callers
                                      /\ \A u \in Turns \ {t} : turn'[u] = turn[u]
    BY DEF TurnStep, TurnBegins, CreatePendingAnswer, Hear, Cancelled, RuntimeDies, TurnEnds,
           Ask, AskPermission, Move, Alive, IInv, TypeOK
  <1> QED
    BY <1>1, <1>2, <1>3, <1>4

LEMMA CallerStepImplements ==
  ASSUME IInv, NEW c \in Callers, ReserveRun(c) \/ CallerStep(c) PROVE [Promise!Next]_Promise!vars
  <1>1. CASE ReserveRun(c)
    <2>1. callers = {} /\ callers' = {c} /\ Running = {} /\ Running' = Running
      BY <1>1, FreeIsQuiet DEF ReserveRun, Running, Alive
    <2>2. Promise!Claim(c)
      BY <2>1 DEF Running, Promise!Claim
    <2> QED
      BY <2>2 DEF Promise!Next
  <1>2. CASE StartFails(c)
    <2>1. c \in callers /\ callers' = callers \ {c} /\ Running' = Running
      BY <1>2 DEF StartFails, Running, Alive
    <2>2. Promise!Abandon(c)
      BY <2>1 DEF Running, Promise!Abandon
    <2> QED
      BY <2>2 DEF Promise!Next
  <1>3. ASSUME NEW t \in Turns, StartRun(c, t) PROVE [Promise!Next]_Promise!vars
    <2>1. /\ c \in callers /\ callers' = callers \ {c}
          /\ turn' = [turn EXCEPT ![t] = "created"]
      BY <1>3 DEF StartRun, IInv, OneTurn, RunAlive
    <2>2. Running = {} /\ Running' = {t}
      BY <2>1, ClaimIsQuiet DEF IInv, TypeOK, Running, Alive
    <2>3. Promise!Begin(t)
      BY <2>1, <2>2 DEF Running, Promise!Begin
    <2> QED
      BY <2>3 DEF Promise!Next
  <1> QED
    BY <1>1, <1>2, <1>3 DEF CallerStep

LEMMA AnswerStepImplements ==
  ASSUME IInv, NEW r \in Answers, AnswerStep(r) \/ \E e \in Events : ReadRow(r, e)
  PROVE  [Promise!Next]_Promise!vars
  <1>1. ASSUME NEW t \in Turns, ContinueWithAnswer(r, t) PROVE [Promise!Next]_Promise!vars
    <2>1. ~Busy /\ turn' = [turn EXCEPT ![t] = "created"] /\ callers' = callers
      BY <1>1 DEF ContinueWithAnswer
    <2>2. Running = {} /\ Running' = {t} /\ callers = {}
      BY <2>1, FreeIsQuiet DEF IInv, TypeOK, Running, Alive
    <2>3. Promise!Begin(t)
      BY <2>1, <2>2 DEF Running, Promise!Begin
    <2> QED
      BY <2>3 DEF Promise!Next
  <1>2. CASE ~\E t \in Turns : ContinueWithAnswer(r, t)
    <2>1. turn' = turn /\ callers' = callers
      BY <1>2 DEF AnswerStep, CheckPending, StoreAnswer, AnswerWaiter, CannotContinue, ActOnScope,
                  ReadRow
    <2>2. Running' = Running
      BY <2>1 DEF Running, Alive
    <2> QED
      BY <2>1, <2>2 DEF Running, Promise!vars
  <1> QED
    BY <1>1, <1>2

LEMMA NextImplements ==
  ASSUME IInv, [Next]_vars PROVE [Promise!Next]_Promise!vars
  <1>1. ASSUME turn' = turn, callers' = callers PROVE [Promise!Next]_Promise!vars
    <2>1. Running' = Running
      BY <1>1 DEF Running, Alive
    <2> QED
      BY <1>1, <2>1 DEF Running, Promise!vars
  <1>2. CASE UNCHANGED vars \/ ReadHistory \/ \E b \in Tabs : Stream(b)
    <2>1. turn' = turn /\ callers' = callers
      BY <1>2 DEF vars, coroutines, ReadHistory, Stream, Register, ServeSnapshot, OpenFails, Leave
    <2> QED
      BY <1>1, <2>1
  <1>3. CASE Restart
    <2>1. Running' = {} /\ callers' = {}
      BY <1>3 DEF Restart, Running, Alive
    <2> QED
      BY <2>1 DEF Running, Promise!Next, Promise!Reset
  <1> QED
    BY <1>2, <1>3, TurnStepImplements, CallerStepImplements, AnswerStepImplements DEF Next

\* Whatever its slot, its reservations and its callbacks go through, a session
\* takes its turns as TurnTaking promises.
THEOREM Implementation == Spec => TurnsAreTaken
  <1> QED
    BY InitImplements, NextImplements, ChatInvariant, PTL DEF Spec, TurnsAreTaken, Promise!Spec

-----------------------------------------------------------------------------
(* A busy session has somebody who frees it.                               *)

\* The slot holds the reservation of a caller that is still there, or a turn
\* whose callback has not run.
SlotIsOwned ==
    held => IF run = NoTurn THEN callers # {} ELSE turn[run] # "unused"

\* A step that leaves slot and callers alone, and has no turn forgotten.
LEMMA SlotUntouched ==
  ASSUME IInv, SlotIsOwned, UNCHANGED <<held, run, callers>>,
         \A t \in Turns : turn[t] # "unused" => turn'[t] # "unused"
  PROVE  SlotIsOwned'
  BY DEF IInv, TypeOK, SlotIsOwned

LEMMA TurnStepOwns ==
  ASSUME IInv, SlotIsOwned, NEW t \in Turns, TurnStep(t) PROVE SlotIsOwned'
  <1>1. CASE DropRun(t)
    <2>1. /\ turn' = [turn EXCEPT ![t] = "unused"] /\ callers' = callers
          /\ IF run = t THEN held' = FALSE /\ run' = NoTurn ELSE UNCHANGED <<held, run>>
      BY <1>1 DEF DropRun, Move, FreeSlot
    <2> QED
      BY <2>1 DEF IInv, TypeOK, SlotIsOwned
  <1>2. CASE ~DropRun(t)
    <2>1. /\ UNCHANGED <<held, run, callers>>
          /\ \E s \in TurnStates \ {"unused"} : turn' = [turn EXCEPT ![t] = s]
      BY <1>2 DEF TurnStep, TurnBegins, CreatePendingAnswer, Hear, Cancelled, RuntimeDies,
                  TurnEnds, Ask, AskPermission, Move, TurnStates, hub
    <2>2. \A u \in Turns : turn[u] # "unused" => turn'[u] # "unused"
      BY <2>1 DEF IInv, TypeOK
    <2> QED
      BY <2>1, <2>2, SlotUntouched
  <1> QED
    BY <1>1, <1>2

LEMMA CallerStepOwns ==
  ASSUME IInv, SlotIsOwned, NEW c \in Callers, ReserveRun(c) \/ CallerStep(c) PROVE SlotIsOwned'
  <1>1. CASE ReserveRun(c)
    BY <1>1 DEF ReserveRun, SlotIsOwned
  <1>2. CASE StartFails(c)
    BY <1>2 DEF StartFails, FreeSlot, SlotIsOwned
  <1>3. ASSUME NEW t \in Turns, StartRun(c, t) PROVE SlotIsOwned'
    BY <1>3, NoTurnAssumption DEF StartRun, TakeSlot, FreeSlot, IInv, TypeOK, SlotIsOwned
  <1> QED
    BY <1>1, <1>2, <1>3 DEF CallerStep

LEMMA AnswerStepOwns ==
  ASSUME IInv, SlotIsOwned, NEW r \in Answers,
         AnswerStep(r) \/ \E e \in Events : ReadRow(r, e)
  PROVE  SlotIsOwned'
  <1>1. ASSUME NEW t \in Turns, ContinueWithAnswer(r, t) PROVE SlotIsOwned'
    BY <1>1, NoTurnAssumption DEF ContinueWithAnswer, TakeSlot, IInv, TypeOK, SlotIsOwned
  <1>2. ASSUME ~\E t \in Turns : ContinueWithAnswer(r, t) PROVE SlotIsOwned'
    <2>1. UNCHANGED <<held, run, callers, turn>>
      BY <1>2 DEF AnswerStep, ReadRow, CheckPending, StoreAnswer, AnswerWaiter, CannotContinue,
                  ActOnScope, hub
    <2> QED
      BY <2>1, SlotUntouched
  <1> QED
    BY <1>1, <1>2

LEMMA NextOwns ==
  ASSUME IInv, SlotIsOwned, [Next]_vars PROVE SlotIsOwned'
  <1>1. CASE Restart
    BY <1>1 DEF Restart, FreeSlot, SlotIsOwned
  <1>2. CASE UNCHANGED vars \/ ReadHistory \/ \E b \in Tabs : Stream(b)
    <2>1. UNCHANGED <<held, run, callers, turn>>
      BY <1>2 DEF vars, hub, coroutines, ReadHistory, Stream, Register, ServeSnapshot, OpenFails,
                  Leave
    <2> QED
      BY <2>1, SlotUntouched
  <1> QED
    BY <1>1, <1>2, TurnStepOwns, CallerStepOwns, AnswerStepOwns DEF Next

\* A session that is busy without a turn is about to be freed, or to get one:
\* by the one caller that holds it, or by the callback of the turn that ended
\* in it (chat_state.py, reserve_run and release_run).
THEOREM BusySessionsHaveOwners == Spec => []SlotHasOwner
  <1>1. Init => SlotIsOwned
    BY DEF Init, SlotIsOwned
  <1>2. IInv /\ SlotIsOwned /\ [Next]_vars => SlotIsOwned'
    BY NextOwns
  <1>3. IInv /\ SlotIsOwned => SlotHasOwner
    <2> SUFFICES ASSUME IInv, SlotIsOwned, held, ~TurnAlive
                 PROVE  IF run = NoTurn THEN \E c \in Callers : callers = {c}
                        ELSE turn[run] = "ended"
      BY DEF SlotHasOwner
    <2>1. CASE run = NoTurn
      <3>1. PICK c \in Callers : c \in callers
        BY <2>1 DEF SlotIsOwned, IInv, TypeOK
      <3> QED
        BY <2>1, <3>1, ClaimIsQuiet
    <2>2. CASE run # NoTurn
      <3>1. run \in Turns /\ turn[run] \in TurnStates /\ turn[run] # "unused" /\ ~Alive(run)
        BY <2>2 DEF SlotIsOwned, IInv, TypeOK, TurnAlive
      <3> QED
        BY <2>2, <3>1 DEF Alive, TurnStates
    <2> QED
      BY <2>1, <2>2
  <1> QED
    BY <1>1, <1>2, <1>3, ChatInvariant, PTL DEF Spec
=============================================================================
