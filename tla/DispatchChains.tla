--------------------------- MODULE DispatchChains ---------------------------
(***************************************************************************)
(* The dispatch chains of one server that work on the tasks of one feature *)
(* at the same time: reservations, follow-ups, and the routes that start   *)
(* chains (services/dispatch_lock.py, dispatch_chain.py,                   *)
(* autonomous_orchestration.py, api/routes and embedded/server/routes).    *)
(*                                                                         *)
(* What happens to one task inside a step is in TaskLifecycle.  Here three *)
(* statuses stand for its pipeline: pending, implementation and            *)
(* build_verify; a retried gate is part of implementation.                 *)
(*                                                                         *)
(* The server is one asyncio event loop, so code between two awaits is one *)
(* action.  The end of a step, from the handler's last write through the   *)
(* choice of the follow-up to the commit, is one action too.               *)
(***************************************************************************)
EXTENDS TaskStatus, Naturals, FiniteSets

CONSTANTS
    MaxTasks,   \* a feature has at most so many tasks
    Requests,   \* background jobs the server can have at once
    MaxSteps    \* MAX_DISPATCH_FOLLOWUP_STEPS

ASSUME MaxTasksAssumption == MaxTasks \in Nat \ {0}
ASSUME MaxStepsAssumption == MaxSteps \in Nat \ {0}

NoTask == 0

VARIABLES
    server,        \* "api" or "embedded"
    size,          \* the number of tasks of the feature
    inSprint,      \* the feature is in a sprint with a remote
    \* The database.
    status,        \* of each task
    gate,          \* tasks with a pending gate
    sprintGate,    \* the sprint's pull request waits for review
    \* The server's memory.
    reserved,      \* _RUNNING_DISPATCHES
    slot,          \* _PROJECT_ACTIVE_DISPATCHES of the project
    job,           \* the background job of each request
    \* History.
    approved,      \* tasks an approval put to work that no step has loaded since
    stranded,      \* tasks whose chains an escaped exception never started
    slotLost       \* a step failed before it knew its project

config == <<server, size, inSprint>>
vars == <<config, status, gate, sprintGate, reserved, slot, job, approved,
          stranded, slotLost>>

\* In order of creation.
Tasks == 1 .. size

\* deciding: an approval is committed, its chains are not yet reserved
\* waiting:  a chain waits for its turn        ready: a step loads its task
\* work:     the handler runs                  tail:  the step has committed
Stages == {"free", "deciding", "waiting", "ready", "work", "tail"}

Statuses == {"pending", "implementation", "build_verify", "review_pending", "done"} \cup OffPath

\* todo: tasks whose chains wait in the same request
Idle == [pc |-> "free", task |-> NoTask, todo |-> {}, follow |-> NoTask,
         seen |-> {}, steps |-> 0, loaded |-> "none", project |-> FALSE]

Free(c) == job[c].pc = "free"

\* Request c has its chains at task t, or will have.
InHands(c, t) ==
    /\ ~Free(c)
    /\ t \in {job[c].task, job[c].follow} \cup job[c].todo

Quiet == \A c \in Requests : Free(c)

Init ==
    /\ server \in {"api", "embedded"} /\ size \in 1 .. MaxTasks /\ inSprint \in BOOLEAN
    /\ status = [t \in Tasks |-> "pending"] /\ gate = {} /\ sprintGate = FALSE
    /\ reserved = {} /\ slot = 0
    /\ \/ job = [c \in Requests |-> Idle]
       \* A sprint planned in the chat starts its first task unreserved.
       \/ /\ server = "embedded" /\ inSprint
          /\ \E c \in Requests :
                 job = [d \in Requests |->
                           IF d = c THEN [Idle EXCEPT !.pc = "waiting", !.task = 1] ELSE Idle]
    /\ approved = {} /\ stranded = {} /\ slotLost = FALSE

-----------------------------------------------------------------------------
(* choose_followup_after_dispatch                                          *)

\* A limited task whose limit has reset goes first; time decides which has.
\* An unfinished task that can go on is next.  After a finished one comes the
\* first task in order of creation, if no other is open.
Followups(t, s, st) ==
    LET limited == {u \in Tasks : st[u] = "capability_limit"}
        open == {u \in Tasks \ {t} : st[u] \in WORK_IN_PROGRESS_STATUSES}
        ready == {u \in Tasks \ {t} : st[u] \in DISPATCHABLE_STATUSES}
        usual == IF s \in DISPATCHABLE_STATUSES THEN {t}
                 ELSE IF s # "done" \/ open # {} \/ ready = {} THEN {NoTask}
                 ELSE {u \in ready : \A v \in ready : u <= v}
    IN  {[task |-> u, status |-> st] : u \in usual} \cup
        {[task |-> u, status |-> [st EXCEPT ![u] = "implementation"]] : u \in limited}

\* The step of c ends with its task in status s of the statuses st.
EndStep(c, s, st) ==
    \E f \in Followups(job[c].task, s, st) :
        /\ status' = f.status
        /\ job' = [job EXCEPT ![c].pc = "tail", ![c].follow = f.task, ![c].project = TRUE,
                              ![c].loaded = "none",
                              ![c].seen = @ \cup {<<job[c].task, job[c].loaded>>}]

-----------------------------------------------------------------------------
(* A dispatch chain.                                                       *)

\* The finally block of a step, given whether it knows its project.
Release(c, project) ==
    slot' = IF server = "embedded" /\ project /\ slot > 0 THEN slot - 1 ELSE slot

\* The chains of a request run one after the other, in the order of its rows.
Queued(tasks) ==
    IF tasks = {} THEN {Idle}
    ELSE {[Idle EXCEPT !.pc = "waiting", !.task = t, !.todo = tasks \ {t}] : t \in tasks}

NextChain(c) == \E j \in Queued(job[c].todo) : job' = [job EXCEPT ![c] = j]

\* The chain's first step.  It goes on if the task is reserved, by whomever.
ChainBegins(c) ==
    /\ job[c].pc = "waiting"
    /\ reserved' = reserved \cup {job[c].task}
    /\ job' = [job EXCEPT ![c].pc = "ready", ![c].steps = 1]
    /\ UNCHANGED <<config, status, gate, sprintGate, slot, approved, stranded, slotLost>>

Key(c) == <<job[c].task, status[job[c].task]>>

\* Faulty variant: a cycle leaves the step without its finally block.
StepFindsCycle_KeepsReservation(c) ==
    /\ job[c].pc = "ready" /\ Key(c) \in job[c].seen
    /\ status' = [status EXCEPT ![job[c].task] = "blocked"]
    /\ NextChain(c)
    /\ approved' = approved \ {job[c].task}
    /\ UNCHANGED <<config, gate, sprintGate, reserved, slot, stranded, slotLost>>

\* The step loads its task and finds that the chain has been here before.
StepFindsCycle(c) ==
    /\ job[c].pc = "ready" /\ Key(c) \in job[c].seen
    /\ status' = [status EXCEPT ![job[c].task] = "blocked"]
    /\ job' = [job EXCEPT ![c].pc = "tail", ![c].follow = NoTask, ![c].project = TRUE]
    /\ approved' = approved \ {job[c].task}
    /\ UNCHANGED <<config, gate, sprintGate, reserved, slot, stranded, slotLost>>

\* The task waits for somebody: the handler is skipped, the follow-up is not.
StepFindsNoHandler(c) ==
    LET t == job[c].task
    IN  /\ job[c].pc = "ready" /\ Key(c) \notin job[c].seen
        /\ status[t] \in BLOCKED_STATUSES
        /\ \E f \in Followups(t, status[t], status) :
               /\ status' = f.status
               /\ job' = [job EXCEPT ![c].pc = "tail", ![c].follow = f.task,
                                     ![c].project = TRUE, ![c].seen = @ \cup {Key(c)}]
        /\ approved' = approved \ {t}
        /\ UNCHANGED <<config, gate, sprintGate, reserved, slot, stranded, slotLost>>

StepStarts(c) ==
    /\ job[c].pc = "ready" /\ Key(c) \notin job[c].seen
    /\ status[job[c].task] \in DISPATCHABLE_STATUSES
    /\ job' = [job EXCEPT ![c].pc = "work", ![c].loaded = status[job[c].task]]
    /\ approved' = approved \ {job[c].task}
    /\ UNCHANGED <<config, status, gate, sprintGate, reserved, slot, stranded, slotLost>>

\* What a handler that started in status s may leave behind.
Outcomes(s) ==
    CASE s = "pending" -> {"implementation", "failed"}
      [] s = "implementation" -> {IF inSprint THEN "build_verify" ELSE "review_pending"} \cup OffPath
      [] s = "build_verify" -> {"done", "failed"}

\* The handler writes the outcome over whatever the row holds by now.
StepEnds(c) ==
    LET t == job[c].task
    IN  /\ job[c].pc = "work"
        /\ \E s \in Outcomes(job[c].loaded) :
               /\ EndStep(c, s, [status EXCEPT ![t] = s])
               /\ gate' = IF s = "review_pending" THEN gate \cup {t} ELSE gate
               /\ sprintGate' = (sprintGate \/ (/\ inSprint /\ s = "done"
                                                /\ \A u \in Tasks \ {t} : status[u] = "done"))
        /\ UNCHANGED <<config, reserved, slot, approved, stranded, slotLost>>

\* The step raises: before its task is loaded, or later.  The task is blocked.
StepRaises(c) ==
    /\ job[c].pc \in {"ready", "work"}
    /\ status' = [status EXCEPT ![job[c].task] = "blocked"]
    /\ job' = [job EXCEPT ![c].pc = "tail", ![c].follow = NoTask,
                          ![c].loaded = "none", ![c].project = (job[c].pc = "work")]
    /\ approved' = approved \ {job[c].task}
    /\ slotLost' = (slotLost \/ (job[c].pc = "ready" /\ slot > 0))
    /\ UNCHANGED <<config, gate, sprintGate, reserved, slot, stranded>>

\* Blocking the task raises as well: the exception leaves the chain and ends
\* the background job with the chains that waited in it.
BlockingRaises(c) ==
    /\ job[c].pc \in {"ready", "work"}
    /\ reserved' = reserved \ {job[c].task} /\ Release(c, job[c].pc = "work")
    /\ job' = [job EXCEPT ![c] = Idle]
    /\ approved' = approved \ {job[c].task}
    /\ stranded' = stranded \cup job[c].todo
    /\ slotLost' = (slotLost \/ (job[c].pc = "ready" /\ slot > 0))
    /\ UNCHANGED <<config, status, gate, sprintGate>>

ChainEnds(c) ==
    /\ job[c].pc = "tail" /\ job[c].follow = NoTask
    /\ reserved' = reserved \ {job[c].task} /\ Release(c, job[c].project)
    /\ NextChain(c)
    /\ UNCHANGED <<config, status, gate, sprintGate, approved, stranded, slotLost>>

\* Faulty variant: the limit is checked one step late.
ChainFollowsUp_OneTooMany(c) ==
    /\ job[c].pc = "tail" /\ job[c].follow # NoTask /\ job[c].steps <= MaxSteps
    /\ reserved' = (reserved \ {job[c].task}) \cup {job[c].follow} /\ Release(c, job[c].project)
    /\ job' = [job EXCEPT ![c].pc = "ready", ![c].task = job[c].follow, ![c].follow = NoTask,
                          ![c].steps = @ + 1, ![c].project = FALSE]
    /\ UNCHANGED <<config, status, gate, sprintGate, approved, stranded, slotLost>>

\* Faulty variant: every step of a chain starts with a new chain state.
ChainFollowsUp_FreshState(c) ==
    /\ job[c].pc = "tail" /\ job[c].follow # NoTask
    /\ reserved' = (reserved \ {job[c].task}) \cup {job[c].follow} /\ Release(c, job[c].project)
    /\ job' = [job EXCEPT ![c].pc = "ready", ![c].task = job[c].follow, ![c].follow = NoTask,
                          ![c].steps = 1, ![c].seen = {}, ![c].project = FALSE]
    /\ UNCHANGED <<config, status, gate, sprintGate, approved, stranded, slotLost>>

\* The step releases its task and the next one reserves its own in one breath.
ChainFollowsUp(c) ==
    /\ job[c].pc = "tail" /\ job[c].follow # NoTask /\ job[c].steps < MaxSteps
    /\ reserved' = (reserved \ {job[c].task}) \cup {job[c].follow} /\ Release(c, job[c].project)
    /\ job' = [job EXCEPT ![c].pc = "ready", ![c].task = job[c].follow, ![c].follow = NoTask,
                          ![c].steps = @ + 1, ![c].project = FALSE]
    /\ UNCHANGED <<config, status, gate, sprintGate, approved, stranded, slotLost>>

ChainTooLong(c) ==
    /\ job[c].pc = "tail" /\ job[c].follow # NoTask /\ job[c].steps >= MaxSteps
    /\ status' = [status EXCEPT ![job[c].follow] = "blocked"]
    /\ reserved' = reserved \ {job[c].task} /\ Release(c, job[c].project)
    /\ NextChain(c)
    /\ approved' = approved \ {job[c].follow}
    /\ UNCHANGED <<config, gate, sprintGate, stranded, slotLost>>

-----------------------------------------------------------------------------
(* The routes.                                                             *)

\* POST /dispatch: only the embedded server looks at the project.
Dispatch(c, t) ==
    /\ Free(c)
    /\ status[t] \in DISPATCHABLE_STATUSES /\ t \notin reserved
    /\ IF server = "embedded" THEN slot = 0 /\ slot' = 1 ELSE UNCHANGED slot
    /\ reserved' = reserved \cup {t}
    /\ job' = [job EXCEPT ![c] = [Idle EXCEPT !.pc = "waiting", !.task = t]]
    /\ UNCHANGED <<config, status, gate, sprintGate, approved, stranded, slotLost>>

\* A task started by voice: reserved like any other, but not in the project.
DispatchByVoice(c, t) ==
    /\ Free(c) /\ server = "embedded"
    /\ status[t] \in DISPATCHABLE_STATUSES /\ t \notin reserved
    /\ reserved' = reserved \cup {t}
    /\ job' = [job EXCEPT ![c] = [Idle EXCEPT !.pc = "waiting", !.task = t]]
    /\ UNCHANGED <<config, status, gate, sprintGate, slot, approved, stranded, slotLost>>

\* An approval commits, publishes, and then looks for reservations.
Approve(c, t) ==
    /\ Free(c) /\ t \in gate
    /\ gate' = gate \ {t}
    /\ status' = [status EXCEPT ![t] = "build_verify"]
    /\ job' = [job EXCEPT ![c] = [Idle EXCEPT !.pc = "deciding", !.todo = {t}]]
    /\ approved' = approved \cup {t}
    /\ UNCHANGED <<config, sprintGate, reserved, slot, stranded, slotLost>>

\* The sprint's pull request is approved, rejected or overridden.
DecideSprint ==
    /\ sprintGate /\ sprintGate' = FALSE
    /\ UNCHANGED <<config, status, gate, reserved, slot, job, approved, stranded, slotLost>>

\* Changes requested of a sprint put every task of it to work again.
RequestSprintChanges(c) ==
    /\ Free(c) /\ sprintGate
    /\ sprintGate' = FALSE
    /\ status' = [t \in Tasks |-> "implementation"]
    /\ job' = [job EXCEPT ![c] = [Idle EXCEPT !.pc = "deciding", !.todo = Tasks]]
    /\ approved' = Tasks
    /\ UNCHANGED <<config, gate, reserved, slot, stranded, slotLost>>

\* Faulty variant: approved tasks are started without looking at reservations.
StartDecided_Always(c) ==
    /\ job[c].pc = "deciding"
    /\ reserved' = reserved \cup job[c].todo
    /\ NextChain(c)
    /\ UNCHANGED <<config, status, gate, sprintGate, slot, approved, stranded, slotLost>>

\* A task that is reserved by now is passed over, and so is one that cannot be
\* dispatched any more, if its row is read again.
StartDecided(c) ==
    /\ job[c].pc = "deciding"
    /\ \E mine \in SUBSET (job[c].todo \ reserved) :
           /\ \A t \in job[c].todo \ (reserved \cup mine) : status[t] \in BLOCKED_STATUSES
           /\ reserved' = reserved \cup mine
           /\ \E j \in Queued(mine) : job' = [job EXCEPT ![c] = j]
    /\ UNCHANGED <<config, status, gate, sprintGate, slot, approved, stranded, slotLost>>

\* "Continue" in the chat approves the first pull request and starts a chain
\* without a reservation.
ApproveInChat(c, t) ==
    /\ Free(c) /\ server = "embedded" /\ t \in gate
    /\ gate' = gate \ {t}
    /\ status' = [status EXCEPT ![t] = "build_verify"]
    /\ job' = [job EXCEPT ![c] = [Idle EXCEPT !.pc = "waiting", !.task = t]]
    /\ approved' = approved \cup {t}
    /\ UNCHANGED <<config, sprintGate, reserved, slot, stranded, slotLost>>

Reject(t) ==
    /\ t \in gate
    /\ gate' = gate \ {t}
    /\ status' = [status EXCEPT ![t] = "blocked"]
    /\ approved' = approved \ {t}
    /\ UNCHANGED <<config, sprintGate, reserved, slot, job, stranded, slotLost>>

\* POST /tasks/{id}/recover, which TaskRecovery has in full.
Recover(t) ==
    /\ status[t] \in OffPath
    /\ status' = [status EXCEPT ![t] = "implementation"]
    /\ UNCHANGED <<config, gate, sprintGate, reserved, slot, job, approved, stranded,
                   slotLost>>

\* The process ends.  Tasks whose handler was running are failed by the next one.
Restart ==
    /\ status' = [t \in Tasks |->
                     IF \E c \in Requests : job[c].pc = "work" /\ job[c].task = t
                                            /\ status[t] \in ACTIVE_STATUSES
                     THEN "failed" ELSE status[t]]
    /\ reserved' = {} /\ slot' = 0 /\ job' = [c \in Requests |-> Idle]
    /\ approved' = {} /\ stranded' = {} /\ slotLost' = FALSE
    /\ UNCHANGED <<config, gate, sprintGate>>

-----------------------------------------------------------------------------
ChainStep(c) ==
    \/ ChainBegins(c) \/ StepFindsCycle(c) \/ StepFindsNoHandler(c) \/ StepStarts(c)
    \/ StepEnds(c) \/ StepRaises(c) \/ BlockingRaises(c)
    \/ ChainEnds(c) \/ ChainFollowsUp(c) \/ ChainTooLong(c) \/ StartDecided(c)

Route(c) ==
    \/ RequestSprintChanges(c)
    \/ \E t \in Tasks : Dispatch(c, t) \/ DispatchByVoice(c, t) \/ Approve(c, t)
                       \/ ApproveInChat(c, t)

Next ==
    \/ \E c \in Requests : ChainStep(c) \/ Route(c)
    \/ \E t \in Tasks : Reject(t) \/ Recover(t)
    \/ DecideSprint \/ Restart

Spec == Init /\ [][Next]_vars

\* The event loop gets to every background job, and an agent run ends: the
\* runtime is called with an inactivity deadline.
FairSpec == Spec /\ \A c \in Requests : WF_vars(ChainStep(c))

-----------------------------------------------------------------------------
(* Properties.                                                             *)

Jobs == [pc : Stages, task : Tasks \cup {NoTask}, todo : SUBSET Tasks,
         follow : Tasks \cup {NoTask}, seen : SUBSET (Tasks \X Statuses), steps : 0 .. MaxSteps,
         loaded : Statuses \cup {"none"}, project : BOOLEAN]

TypeOK ==
    /\ server \in {"api", "embedded"} /\ size \in 1 .. MaxTasks /\ inSprint \in BOOLEAN
    /\ status \in [Tasks -> Statuses] /\ gate \in SUBSET Tasks /\ sprintGate \in BOOLEAN
    /\ reserved \in SUBSET Tasks /\ slot \in 0 .. 1
    /\ job \in [Requests -> Jobs]
    /\ approved \in SUBSET Tasks /\ stranded \in SUBSET Tasks /\ slotLost \in BOOLEAN

\* "Approval and manual dispatch can start duplicate agents for the same task"
\* is a failure (docs/quality-gate/approval.md): the handlers of a task never
\* run twice at a time.
OneAgentPerTask ==
    \A c, d \in Requests :
        job[c].pc = "work" /\ job[d].pc = "work" /\ job[c].task = job[d].task => c = d

\* The API server keeps the promise for a feature with one task, where chains
\* have nothing to follow up to but their own: whatever operators dispatch,
\* approve and recover while a chain begins or ends, a step holds the task's
\* reservation for as long as it lasts and the task has one agent.
Sole == server = "api" /\ size = 1
SoleTaskIsGuarded ==
    Sole => /\ OneAgentPerTask
            /\ \A c \in Requests :
                   job[c].pc \in {"ready", "work", "tail"} => job[c].task \in reserved

\* No reservation is left behind, of a task or of the project, but by the two
\* ways a failure can skip the code that gives it back.
NothingLeaks ==
    /\ \A t \in reserved : t \in stranded \/ \E c \in Requests : InHands(c, t)
    /\ slot > 0 => slotLost \/ ~Quiet

\* A task that an approval put to work is taken up by a chain.
ApprovedIsTakenUp ==
    \A t \in approved : status[t] \in DISPATCHABLE_STATUSES => \E c \in Requests : InHands(c, t)

\* The steps that are left to a chain that still has all of them.
ChainSteps == 3 * MaxSteps + 1

\* The steps that are left to the current chain of a job, at most.
StepsOfChain(j) ==
    CASE j.pc = "free" -> 0
      [] j.pc = "deciding" -> 1
      [] j.pc = "waiting" -> ChainSteps
      [] j.pc = "ready" -> 3 * (MaxSteps - j.steps) + 3
      [] j.pc = "work" -> 3 * (MaxSteps - j.steps) + 2
      [] j.pc = "tail" -> 3 * (MaxSteps - j.steps) + 1

\* The steps that are left to a job, at most: those of its chains.
StepsOfJob(j) == Cardinality(j.todo) * ChainSteps + StepsOfChain(j)

\* What makes every background job end: each step it takes leaves fewer, and
\* nothing that others do to its tasks gives it a step more.
JobsAdvance ==
    [][\A c \in Requests :
           /\ ChainStep(c) => StepsOfJob(job'[c]) < StepsOfJob(job[c])
           /\ Free(c) \/ job'[c] = job[c] \/ StepsOfJob(job'[c]) < StepsOfJob(job[c])]_vars

\* Every background job ends.
JobsEnd == \A c \in Requests : ~Free(c) ~> Free(c)
=============================================================================
