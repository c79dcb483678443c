--------------------------- MODULE DispatchProofs ---------------------------
(***************************************************************************)
(* Proofs about DispatchChains for any number of tasks, background jobs    *)
(* and steps of a chain.  A reservation, of a task or of the project, is   *)
(* never without a job that will give it back: the proofs follow the       *)
(* obligation from the code that takes the reservation to the finally      *)
(* block of the last step.                                                 *)
(***************************************************************************)
EXTENDS DispatchChains, FiniteSetTheorems, TLAPS

Chaining == {"waiting", "ready", "work", "tail"}

\* A chain has a task, and a handler is running in one of three statuses.
ChainsHaveTasks ==
    \A c \in Requests :
        /\ job[c].pc \in Chaining => job[c].task \in Tasks
        /\ job[c].pc = "work" => job[c].loaded \in {"pending", "implementation", "build_verify"}

\* The chain of c, or one that waits behind it, gives t back.
Holds(c, t) == job[c].pc \in Chaining /\ t \in {job[c].task} \cup job[c].todo

ReservationsAreHeld ==
    \A t \in reserved : t \in stranded \/ \E c \in Requests : Holds(c, t)

\* The step of c, or its next one, gives the project back.
Owes(c) ==
    \/ job[c].pc \in {"waiting", "ready", "work"}
    \/ job[c].pc = "tail" /\ job[c].project = TRUE

SlotIsOwed ==
    /\ server = "api" => slot = 0
    /\ slot > 0 => slotLost \/ \E c \in Requests : Owes(c)

\* One chain at a time works on a sole task, and holds its reservation.
SoleChain ==
    Sole =>
        /\ \A c \in Requests :
               job[c].pc \in Chaining => job[c].todo = {} /\ job[c].task \in reserved
        /\ \A c, d \in Requests : job[c].pc \in Chaining /\ job[d].pc \in Chaining => c = d

IInv == TypeOK /\ ChainsHaveTasks /\ ReservationsAreHeld /\ SlotIsOwed /\ SoleChain
-----------------------------------------------------------------------------
(* The definitions, as the provers need them.                              *)

LEMMA SizeIsNatural ==
  ASSUME TypeOK PROVE Tasks \subseteq Nat /\ NoTask \notin Tasks /\ NoTask \in Nat
  BY MaxTasksAssumption DEF TypeOK, Tasks, NoTask

LEMMA IdleFits == Idle \in Jobs
  BY MaxStepsAssumption DEF Idle, Jobs, Stages, Statuses

\* A waiting job of the tasks that a request put to work.
LEMMA QueuedFits ==
  ASSUME NEW tasks \in SUBSET Tasks, NEW j \in Queued(tasks)
  PROVE  /\ j \in Jobs /\ (tasks = {} => j = Idle)
         /\ tasks # {} => j.pc = "waiting" /\ j.task \in tasks /\ j.todo = tasks \ {j.task}
  <1>1. CASE tasks = {}
    BY <1>1, IdleFits DEF Queued
  <1>2. CASE tasks # {}
    <2>1. PICK t \in tasks : j = [Idle EXCEPT !.pc = "waiting", !.task = t, !.todo = tasks \ {t}]
      BY <1>2 DEF Queued
    <2>2. j \in Jobs
      BY <2>1, IdleFits DEF Jobs, Stages
    <2> QED
      BY <1>2, <2>1, <2>2 DEF Idle
  <1> QED
    BY <1>1, <1>2

\* The statuses of a follow-up are those of the tasks, and it is one of them.
LEMMA FollowupsFit ==
  ASSUME NEW t \in Tasks, NEW s, NEW st \in [Tasks -> Statuses], NEW f \in Followups(t, s, st)
  PROVE  f.task \in Tasks \cup {NoTask} /\ f.status \in [Tasks -> Statuses]
  <1> DEFINE open == {u \in Tasks \ {t} : st[u] \in WORK_IN_PROGRESS_STATUSES}
             ready == {u \in Tasks \ {t} : st[u] \in DISPATCHABLE_STATUSES}
             usual == IF s \in DISPATCHABLE_STATUSES THEN {t}
                      ELSE IF s # "done" \/ open # {} \/ ready = {} THEN {NoTask}
                      ELSE {u \in ready : \A v \in ready : u <= v}
             limited == {u \in Tasks : st[u] = "capability_limit"}
  <1>1. usual \subseteq Tasks \cup {NoTask}
    OBVIOUS
  <1>2. \/ \E u \in usual : f = [task |-> u, status |-> st]
        \/ \E u \in limited : f = [task |-> u, status |-> [st EXCEPT ![u] = "implementation"]]
    BY DEF Followups
  <1>3. CASE \E u \in usual : f = [task |-> u, status |-> st]
    BY <1>1, <1>3
  <1>4. CASE \E u \in limited : f = [task |-> u, status |-> [st EXCEPT ![u] = "implementation"]]
    <2>1. "implementation" \in Statuses
      BY DEF Statuses
    <2> QED
      BY <1>4, <2>1
  <1> QED
    BY <1>2, <1>3, <1>4

\* One job changes, to a job of its type.
LEMMA OneJobFits ==
  ASSUME job \in [Requests -> Jobs], NEW c \in Requests, NEW j \in Jobs
  PROVE  /\ [job EXCEPT ![c] = j] \in [Requests -> Jobs]
         /\ \A d \in Requests : [job EXCEPT ![c] = j][d] = IF d = c THEN j ELSE job[d]
  OBVIOUS

-----------------------------------------------------------------------------
(* Types.                                                                  *)

Typed == TypeOK /\ ChainsHaveTasks

\* What holds of a job, and of its task.
JobOK(j) ==
    /\ j \in Jobs
    /\ j.pc \in Chaining => j.task \in Tasks
    /\ j.pc = "work" => j.loaded \in {"pending", "implementation", "build_verify"}

LEMMA JobsAreOK ==
  ASSUME Typed, NEW c \in Requests PROVE JobOK(job[c])
  BY DEF Typed, TypeOK, ChainsHaveTasks, JobOK

\* Everything but the jobs, after a step.
RestIsTyped ==
    /\ UNCHANGED config
    /\ status' \in [Tasks -> Statuses] /\ gate' \in SUBSET Tasks /\ sprintGate' \in BOOLEAN
    /\ reserved' \in SUBSET Tasks /\ slot' \in 0 .. 1
    /\ approved' \in SUBSET Tasks /\ stranded' \in SUBSET Tasks /\ slotLost' \in BOOLEAN

LEMMA SameJobsTyped ==
  ASSUME Typed, RestIsTyped, UNCHANGED job PROVE Typed'
  BY DEF Typed, TypeOK, ChainsHaveTasks, RestIsTyped, config, Tasks, Jobs

LEMMA OneJobTyped ==
  ASSUME Typed, RestIsTyped, NEW c \in Requests, NEW j, JobOK(j), job' = [job EXCEPT ![c] = j]
  PROVE  Typed'
  <1>1. UNCHANGED <<server, size, inSprint>> /\ Tasks' = Tasks /\ Jobs' = Jobs
    BY DEF RestIsTyped, config, Tasks, Jobs
  <1>2. job \in [Requests -> Jobs] /\ j \in Jobs
    BY DEF Typed, TypeOK, JobOK
  <1>3. /\ job' \in [Requests -> Jobs]
        /\ \A d \in Requests : job'[d] = IF d = c THEN j ELSE job[d]
    BY <1>2
  <1>4. TypeOK'
    BY <1>1, <1>3 DEF Typed, TypeOK, RestIsTyped
  <1>5. ChainsHaveTasks'
    BY <1>1, <1>3 DEF Typed, ChainsHaveTasks, JobOK
  <1> QED
    BY <1>4, <1>5 DEF Typed

LEMMA NamedStatuses ==
  /\ "pending" \in Statuses /\ "implementation" \in Statuses /\ "build_verify" \in Statuses
  /\ "blocked" \in Statuses /\ "failed" \in Statuses /\ "review_pending" \in Statuses
  /\ "done" \in Statuses /\ OffPath \subseteq Statuses
  BY DEF Statuses, OffPath

LEMMA DispatchableStatuses ==
  ASSUME NEW s \in Statuses, s \in DISPATCHABLE_STATUSES
  PROVE  s \in {"pending", "implementation", "build_verify"}
  BY DEF Statuses, OffPath, DISPATCHABLE_STATUSES

LEMMA ReleaseIsTyped ==
  ASSUME slot \in 0 .. 1, NEW c, NEW project, Release(c, project)
  PROVE  slot' \in 0 .. 1
  BY DEF Release

LEMMA QueuedIsOK ==
  ASSUME NEW tasks \in SUBSET Tasks, NEW j \in Queued(tasks) PROVE JobOK(j)
  <1>1. /\ j \in Jobs /\ (tasks = {} => j = Idle)
        /\ tasks # {} => j.pc = "waiting" /\ j.task \in tasks
    BY QueuedFits
  <1>2. tasks = {} => JobOK(j)
    BY <1>1 DEF JobOK, Idle, Chaining
  <1>3. tasks # {} => JobOK(j)
    BY <1>1 DEF JobOK
  <1> QED
    BY <1>2, <1>3

LEMMA NextChainIsTyped ==
  ASSUME Typed, RestIsTyped, NEW c \in Requests, NextChain(c) PROVE Typed'
  <1>1. job[c].todo \in SUBSET Tasks
    BY JobsAreOK DEF JobOK, Jobs
  <1>2. PICK j \in Queued(job[c].todo) : job' = [job EXCEPT ![c] = j]
    BY DEF NextChain
  <1>3. JobOK(j)
    BY <1>1, QueuedIsOK
  <1> QED
    BY <1>2, <1>3, OneJobTyped

LEMMA StageNames == {"free", "deciding", "waiting", "ready", "work", "tail"} = Stages
  BY DEF Stages

\* A chain's step, but for those that choose a follow-up or the next chain.
LEMMA OneStepIsTyped ==
  ASSUME Typed, NEW c \in Requests,
         \/ ChainBegins(c) \/ StepFindsCycle(c) \/ StepStarts(c) \/ StepRaises(c)
         \/ BlockingRaises(c) \/ ChainFollowsUp(c)
  PROVE  Typed'
  <1>1. JobOK(job[c]) /\ job[c] \in Jobs
    BY JobsAreOK DEF JobOK
  <1>2. TypeOK
    BY DEF Typed
  <1>3. \A s \in {"free", "deciding", "waiting", "ready", "work", "tail"} : s \in Stages
    BY StageNames
  <1>4. CASE ChainBegins(c)
    <2> DEFINE j == [job[c] EXCEPT !.pc = "ready", !.steps = 1]
    <2>0. job[c].task \in Tasks /\ 1 \in 0 .. MaxSteps
      BY <1>1, <1>2, <1>4, MaxStepsAssumption DEF TypeOK, JobOK, Jobs, Chaining, ChainBegins
    <2>1. j \in Jobs
      BY <1>1, <1>3, <2>0 DEF Jobs
    <2>2. JobOK(j)
      BY <1>1, <1>4, <2>1, <2>0 DEF JobOK, Jobs, Chaining, ChainBegins
    <2>3. RestIsTyped
      BY <1>2, <1>4, <2>0, NamedStatuses DEF TypeOK, RestIsTyped, ChainBegins
    <2>4. job' = [job EXCEPT ![c] = j]
      BY <1>4 DEF ChainBegins
    <2> HIDE DEF j
    <2> QED
      BY <2>2, <2>3, <2>4, OneJobTyped
  <1>5. CASE StepFindsCycle(c)
    <2> DEFINE j == [job[c] EXCEPT !.pc = "tail", !.follow = NoTask, !.project = TRUE]
    <2>0. job[c].task \in Tasks
      BY <1>1, <1>2, <1>5 DEF TypeOK, JobOK, Jobs, Chaining, StepFindsCycle
    <2>1. j \in Jobs
      BY <1>1, <1>3, <2>0 DEF Jobs
    <2>2. JobOK(j)
      BY <1>1, <1>5, <2>1, <2>0 DEF JobOK, Jobs, Chaining, StepFindsCycle
    <2>3. RestIsTyped
      BY <1>2, <1>5, <2>0, NamedStatuses DEF TypeOK, RestIsTyped, StepFindsCycle
    <2>4. job' = [job EXCEPT ![c] = j]
      BY <1>5 DEF StepFindsCycle
    <2> HIDE DEF j
    <2> QED
      BY <2>2, <2>3, <2>4, OneJobTyped
  <1>6. CASE StepStarts(c)
    <2> DEFINE j == [job[c] EXCEPT !.pc = "work", !.loaded = status[job[c].task]]
    <2>0. job[c].task \in Tasks /\ status[job[c].task] \in Statuses
      BY <1>1, <1>2, <1>6 DEF TypeOK, JobOK, Jobs, Chaining, StepStarts
    <2>1. j \in Jobs
      BY <1>1, <1>3, <2>0 DEF Jobs
    <2>2. JobOK(j)
      BY <1>1, <1>6, <2>1, <2>0, DispatchableStatuses DEF JobOK, Jobs, Chaining, StepStarts
    <2>3. RestIsTyped
      BY <1>2, <1>6, <2>0, NamedStatuses DEF TypeOK, RestIsTyped, StepStarts
    <2>4. job' = [job EXCEPT ![c] = j]
      BY <1>6 DEF StepStarts
    <2> HIDE DEF j
    <2> QED
      BY <2>2, <2>3, <2>4, OneJobTyped
  <1>7. CASE StepRaises(c)
    <2> DEFINE j == [job[c] EXCEPT !.pc = "tail", !.follow = NoTask, !.loaded = "none",
                                !.project = (job[c].pc = "work")]
    <2>0. job[c].task \in Tasks
      BY <1>1, <1>2, <1>7 DEF TypeOK, JobOK, Jobs, Chaining, StepRaises
    <2>1. j \in Jobs
      BY <1>1, <1>3, <2>0 DEF Jobs
    <2>2. JobOK(j)
      BY <1>1, <1>7, <2>1, <2>0 DEF JobOK, Jobs, Chaining, StepRaises
    <2>3. RestIsTyped
      BY <1>2, <1>7, <2>0, NamedStatuses DEF TypeOK, RestIsTyped, StepRaises
    <2>4. job' = [job EXCEPT ![c] = j]
      BY <1>7 DEF StepRaises
    <2> HIDE DEF j
    <2> QED
      BY <2>2, <2>3, <2>4, OneJobTyped
  <1>8. CASE BlockingRaises(c)
    <2> DEFINE j == Idle
    <2>0. job[c].task \in Tasks /\ job[c].todo \in SUBSET Tasks
      BY <1>1, <1>2, <1>8 DEF TypeOK, JobOK, Jobs, Chaining, BlockingRaises
    <2>1. j \in Jobs
      BY <1>1, <1>3, <2>0, IdleFits DEF Jobs
    <2>2. JobOK(j)
      BY <1>1, <1>8, <2>1 DEF JobOK, Idle, Chaining
    <2>3. RestIsTyped
      BY <1>2, <1>8, <2>0, ReleaseIsTyped DEF TypeOK, RestIsTyped, BlockingRaises
    <2>4. job' = [job EXCEPT ![c] = j]
      BY <1>8 DEF BlockingRaises
    <2> HIDE DEF j
    <2> QED
      BY <2>2, <2>3, <2>4, OneJobTyped
  <1>9. CASE ChainFollowsUp(c)
    <2> DEFINE j == [job[c] EXCEPT !.pc = "ready", !.task = job[c].follow, !.follow = NoTask,
                                !.steps = @ + 1, !.project = FALSE]
    <2>0. /\ job[c].task \in Tasks /\ job[c].follow \in Tasks
          /\ job[c].steps + 1 \in 0 .. MaxSteps
      BY <1>1, <1>2, <1>9, MaxStepsAssumption DEF TypeOK, JobOK, Jobs, Chaining, ChainFollowsUp
    <2>1. j \in Jobs
      BY <1>1, <1>3, <2>0 DEF Jobs
    <2>2. JobOK(j)
      BY <1>1, <1>9, <2>1, <2>0 DEF JobOK, Jobs, Chaining, ChainFollowsUp
    <2>3. RestIsTyped
      BY <1>2, <1>9, <2>0, ReleaseIsTyped DEF TypeOK, RestIsTyped, ChainFollowsUp
    <2>4. job' = [job EXCEPT ![c] = j]
      BY <1>9 DEF ChainFollowsUp
    <2> HIDE DEF j
    <2> QED
      BY <2>2, <2>3, <2>4, OneJobTyped
  <1> QED
    BY <1>4, <1>5, <1>6, <1>7, <1>8, <1>9

\* The steps that choose a follow-up.
LEMMA NoHandlerIsTyped ==
  ASSUME Typed, NEW c \in Requests, StepFindsNoHandler(c) PROVE Typed'
  <1> DEFINE t == job[c].task
  <1>1. /\ JobOK(job[c]) /\ job[c] \in Jobs /\ TypeOK /\ t \in Tasks
        /\ Key(c) \in Tasks \X Statuses
    BY JobsAreOK DEF JobOK, Typed, TypeOK, StepFindsNoHandler, Chaining, Key
  <1>2. PICK f \in Followups(t, status[t], status) :
          /\ status' = f.status
          /\ job' = [job EXCEPT ![c].pc = "tail", ![c].follow = f.task,
                                ![c].project = TRUE, ![c].seen = @ \cup {Key(c)}]
    BY DEF StepFindsNoHandler
  <1>3. f.task \in Tasks \cup {NoTask} /\ f.status \in [Tasks -> Statuses]
    BY <1>1, FollowupsFit DEF TypeOK
  <1> DEFINE j == [job[c] EXCEPT !.pc = "tail", !.follow = f.task,
                                 !.project = TRUE, !.seen = @ \cup {Key(c)}]
  <1>4. job[c].seen \cup {Key(c)} \in SUBSET (Tasks \X Statuses) /\ "tail" \in Stages
    BY <1>1, StageNames DEF Jobs
  <1>5. j \in Jobs
    BY <1>1, <1>3, <1>4 DEF Jobs
  <1>6. JobOK(j)
    BY <1>1, <1>5 DEF JobOK, Jobs
  <1>7. RestIsTyped
    BY <1>1, <1>2, <1>3 DEF TypeOK, RestIsTyped, StepFindsNoHandler
  <1>8. job' = [job EXCEPT ![c] = j]
    BY <1>2
  <1> HIDE DEF j
  <1> QED
    BY <1>6, <1>7, <1>8, OneJobTyped

LEMMA EndsAreTyped ==
  ASSUME Typed, NEW c \in Requests, StepEnds(c) PROVE Typed'
  <1> DEFINE t == job[c].task
  <1>1. /\ JobOK(job[c]) /\ job[c] \in Jobs /\ TypeOK /\ t \in Tasks
        /\ job[c].loaded \in {"pending", "implementation", "build_verify"}
    BY JobsAreOK DEF JobOK, Typed, StepEnds, Chaining
  <1>2. PICK s \in Outcomes(job[c].loaded) :
          /\ EndStep(c, s, [status EXCEPT ![t] = s])
          /\ gate' = IF s = "review_pending" THEN gate \cup {t} ELSE gate
    BY DEF StepEnds
  <1>3. s \in Statuses
    BY <1>1, NamedStatuses DEF Outcomes
  <1> DEFINE st == [status EXCEPT ![t] = s]
  <1>4. st \in [Tasks -> Statuses]
    BY <1>1, <1>3 DEF TypeOK
  <1>5. PICK f \in Followups(t, s, st) :
          /\ status' = f.status
          /\ job' = [job EXCEPT ![c].pc = "tail", ![c].follow = f.task, ![c].project = TRUE,
                                ![c].loaded = "none",
                                ![c].seen = @ \cup {<<t, job[c].loaded>>}]
    BY <1>2 DEF EndStep
  <1>6. f.task \in Tasks \cup {NoTask} /\ f.status \in [Tasks -> Statuses]
    <2> HIDE DEF st
    <2> QED
      BY <1>1, <1>4, <1>5, FollowupsFit
  <1> DEFINE j == [job[c] EXCEPT !.pc = "tail", !.follow = f.task, !.project = TRUE,
                                 !.loaded = "none", !.seen = @ \cup {<<t, job[c].loaded>>}]
  <1>7. job[c].loaded \in Statuses
    BY <1>1, NamedStatuses
  <1>8. /\ job[c].seen \cup {<<t, job[c].loaded>>} \in SUBSET (Tasks \X Statuses)
        /\ "tail" \in Stages
    BY <1>1, <1>7, StageNames DEF Jobs
  <1>9. j \in Jobs
    BY <1>1, <1>6, <1>8 DEF Jobs
  <1>10. JobOK(j)
    BY <1>1, <1>9 DEF JobOK, Jobs
  <1>11. sprintGate' \in BOOLEAN
    BY <1>1 DEF TypeOK, StepEnds
  <1>12. RestIsTyped
    BY <1>1, <1>2, <1>5, <1>6, <1>11 DEF TypeOK, RestIsTyped, StepEnds
  <1>13. job' = [job EXCEPT ![c] = j]
    BY <1>5
  <1> HIDE DEF j
  <1> QED
    BY <1>10, <1>12, <1>13, OneJobTyped

\* The steps that go on with the next chain of the request.
LEMMA ChainStepIsTyped ==
  ASSUME Typed, NEW c \in Requests, ChainStep(c) PROVE Typed'
  <1>1. JobOK(job[c]) /\ job[c] \in Jobs /\ TypeOK
    BY JobsAreOK DEF JobOK, Typed
  <1>2. CASE ChainEnds(c)
    <2>1. RestIsTyped
      BY <1>1, <1>2, ReleaseIsTyped DEF ChainEnds, TypeOK, RestIsTyped
    <2> QED
      BY <1>2, <2>1, NextChainIsTyped DEF ChainEnds
  <1>3. CASE ChainTooLong(c)
    <2>1. job[c].follow \in Tasks
      BY <1>1, <1>3 DEF ChainTooLong, Jobs
    <2>2. RestIsTyped
      BY <1>1, <1>3, <2>1, ReleaseIsTyped, NamedStatuses
      DEF ChainTooLong, TypeOK, RestIsTyped
    <2> QED
      BY <1>3, <2>2, NextChainIsTyped DEF ChainTooLong
  <1>4. CASE StartDecided(c)
    <2>1. PICK mine \in SUBSET (job[c].todo \ reserved) :
            /\ reserved' = reserved \cup mine
            /\ \E j \in Queued(mine) : job' = [job EXCEPT ![c] = j]
      BY <1>4 DEF StartDecided
    <2>2. mine \in SUBSET Tasks
      BY <1>1 DEF Jobs
    <2>3. PICK j \in Queued(mine) : job' = [job EXCEPT ![c] = j]
      BY <2>1
    <2>4. JobOK(j)
      BY <2>2, QueuedIsOK
    <2>5. RestIsTyped
      BY <1>1, <1>4, <2>1, <2>2 DEF StartDecided, TypeOK, RestIsTyped
    <2> QED
      BY <2>3, <2>4, <2>5, OneJobTyped
  <1> QED
    BY <1>2, <1>3, <1>4, OneStepIsTyped, NoHandlerIsTyped, EndsAreTyped DEF ChainStep

\* A request begins.
LEMMA TaskRouteIsTyped ==
  ASSUME Typed, NEW c \in Requests, NEW t \in Tasks,
         Dispatch(c, t) \/ DispatchByVoice(c, t) \/ Approve(c, t) \/ ApproveInChat(c, t)
  PROVE  Typed'
  <1>1. TypeOK /\ "waiting" \in Stages /\ "deciding" \in Stages
    BY StageNames DEF Typed
  <1>2. CASE Dispatch(c, t)
    <2> DEFINE j == [Idle EXCEPT !.pc = "waiting", !.task = t]
    <2>1. j \in Jobs
      BY <1>1, IdleFits DEF Idle, Jobs
    <2>2. JobOK(j)
      BY <1>1, <2>1 DEF JobOK, Idle, Chaining
    <2>3. RestIsTyped
      BY <1>1, <1>2, NamedStatuses DEF Dispatch, TypeOK, RestIsTyped
    <2>4. job' = [job EXCEPT ![c] = j]
      BY <1>2 DEF Dispatch
    <2> HIDE DEF j
    <2> QED
      BY <2>2, <2>3, <2>4, OneJobTyped
  <1>3. CASE DispatchByVoice(c, t)
    <2> DEFINE j == [Idle EXCEPT !.pc = "waiting", !.task = t]
    <2>1. j \in Jobs
      BY <1>1, IdleFits DEF Idle, Jobs
    <2>2. JobOK(j)
      BY <1>1, <2>1 DEF JobOK, Idle, Chaining
    <2>3. RestIsTyped
      BY <1>1, <1>3, NamedStatuses DEF DispatchByVoice, TypeOK, RestIsTyped
    <2>4. job' = [job EXCEPT ![c] = j]
      BY <1>3 DEF DispatchByVoice
    <2> HIDE DEF j
    <2> QED
      BY <2>2, <2>3, <2>4, OneJobTyped
  <1>4. CASE Approve(c, t)
    <2> DEFINE j == [Idle EXCEPT !.pc = "deciding", !.todo = {t}]
    <2>1. j \in Jobs
      BY <1>1, IdleFits DEF Idle, Jobs
    <2>2. JobOK(j)
      BY <1>1, <2>1 DEF JobOK, Idle, Chaining
    <2>3. RestIsTyped
      BY <1>1, <1>4, NamedStatuses DEF Approve, TypeOK, RestIsTyped
    <2>4. job' = [job EXCEPT ![c] = j]
      BY <1>4 DEF Approve
    <2> HIDE DEF j
    <2> QED
      BY <2>2, <2>3, <2>4, OneJobTyped
  <1>5. CASE ApproveInChat(c, t)
    <2> DEFINE j == [Idle EXCEPT !.pc = "waiting", !.task = t]
    <2>1. j \in Jobs
      BY <1>1, IdleFits DEF Idle, Jobs
    <2>2. JobOK(j)
      BY <1>1, <2>1 DEF JobOK, Idle, Chaining
    <2>3. RestIsTyped
      BY <1>1, <1>5, NamedStatuses DEF ApproveInChat, TypeOK, RestIsTyped
    <2>4. job' = [job EXCEPT ![c] = j]
      BY <1>5 DEF ApproveInChat
    <2> HIDE DEF j
    <2> QED
      BY <2>2, <2>3, <2>4, OneJobTyped
  <1> QED
    BY <1>2, <1>3, <1>4, <1>5

LEMMA RouteIsTyped ==
  ASSUME Typed, NEW c \in Requests, Route(c) PROVE Typed'
  <1>1. TypeOK /\ "deciding" \in Stages
    BY StageNames DEF Typed
  <1>2. CASE RequestSprintChanges(c)
    <2> DEFINE j == [Idle EXCEPT !.pc = "deciding", !.todo = Tasks]
    <2>1. j \in Jobs
      BY <1>1, IdleFits DEF Idle, Jobs
    <2>2. JobOK(j)
      BY <1>1, <2>1 DEF JobOK, Idle, Chaining
    <2>3. RestIsTyped
      BY <1>1, <1>2, NamedStatuses DEF RequestSprintChanges, TypeOK, RestIsTyped
    <2>4. job' = [job EXCEPT ![c] = j]
      BY <1>2 DEF RequestSprintChanges
    <2> HIDE DEF j
    <2> QED
      BY <2>2, <2>3, <2>4, OneJobTyped
  <1> QED
    BY <1>2, TaskRouteIsTyped DEF Route

\* A step that leaves the jobs alone.
LEMMA OtherStepIsTyped ==
  ASSUME Typed, DecideSprint \/ \E t \in Tasks : Reject(t) \/ Recover(t)
  PROVE  Typed'
  <1>1. TypeOK
    BY DEF Typed
  <1>2. RestIsTyped /\ UNCHANGED job
    <2>1. CASE DecideSprint
      BY <1>1, <2>1 DEF DecideSprint, TypeOK, RestIsTyped
    <2>2. ASSUME NEW t \in Tasks, Reject(t) PROVE RestIsTyped /\ UNCHANGED job
      BY <1>1, <2>2, NamedStatuses DEF Reject, TypeOK, RestIsTyped
    <2>3. ASSUME NEW t \in Tasks, Recover(t) PROVE RestIsTyped /\ UNCHANGED job
      BY <1>1, <2>3, NamedStatuses DEF Recover, TypeOK, RestIsTyped
    <2> QED
      BY <2>1, <2>2, <2>3
  <1> QED
    BY <1>2, SameJobsTyped

LEMMA RestartIsTyped ==
  ASSUME Typed, Restart PROVE Typed'
  <1>1. TypeOK /\ UNCHANGED <<server, size, inSprint>> /\ Tasks' = Tasks /\ Jobs' = Jobs
    BY DEF Typed, Restart, config, Tasks, Jobs
  <1>2. RestIsTyped
    <2> DEFINE Running(t) == \E c \in Requests : /\ job[c].pc = "work" /\ job[c].task = t
                                                 /\ status[t] \in ACTIVE_STATUSES
    <2>1. status' = [t \in Tasks |-> IF Running(t) THEN "failed" ELSE status[t]]
      BY DEF Restart
    <2> HIDE DEF Running
    <2>2. status' \in [Tasks -> Statuses]
      BY <1>1, <2>1, NamedStatuses DEF TypeOK
    <2>3. /\ UNCHANGED config /\ gate' = gate /\ sprintGate' = sprintGate
          /\ reserved' = {} /\ slot' = 0 /\ approved' = {} /\ stranded' = {}
          /\ slotLost' = FALSE
      BY DEF Restart
    <2>4. gate' \in SUBSET Tasks /\ sprintGate' \in BOOLEAN /\ slotLost' \in BOOLEAN
      BY <1>1, <2>3 DEF TypeOK
    <2>5. /\ reserved' \in SUBSET Tasks /\ approved' \in SUBSET Tasks
          /\ stranded' \in SUBSET Tasks /\ slot' \in 0 .. 1
      BY <2>3
    <2> QED
      BY <2>2, <2>3, <2>4, <2>5 DEF RestIsTyped
  <1>3. job' = [c \in Requests |-> Idle] /\ JobOK(Idle)
    BY IdleFits DEF Restart, JobOK, Idle, Chaining
  <1>4. TypeOK'
    BY <1>1, <1>2, <1>3, IdleFits DEF TypeOK, RestIsTyped
  <1>5. ChainsHaveTasks'
    BY <1>1, <1>3 DEF ChainsHaveTasks, JobOK
  <1> QED
    BY <1>4, <1>5 DEF Typed

LEMMA NextIsTyped ==
  ASSUME Typed, [Next]_vars PROVE Typed'
  <1>1. CASE UNCHANGED vars
    BY <1>1, SameJobsTyped DEF vars, Typed, TypeOK, RestIsTyped
  <1> QED
    BY <1>1, ChainStepIsTyped, RouteIsTyped, OtherStepIsTyped, RestartIsTyped DEF Next

-----------------------------------------------------------------------------
(* Reservations.                                                           *)

Kept == ReservationsAreHeld /\ SlotIsOwed /\ SoleChain

\* What a step of c changes is its own job, now j.
Becomes(c, j) ==
    /\ job'[c] = j
    /\ \A d \in Requests \ {c} : job'[d] = job[d]

LEMMA JobBecomes ==
  ASSUME Typed, NEW c \in Requests, NEW j, job' = [job EXCEPT ![c] = j]
  PROVE  Becomes(c, j)
  BY DEF Typed, TypeOK, Becomes

LEMMA HoldsAfter ==
  ASSUME ReservationsAreHeld, NEW c \in Requests, NEW j, Becomes(c, j),
         stranded \subseteq stranded',
         \A t \in reserved' :
             \/ t \in stranded'
             \/ j.pc \in Chaining /\ t \in {j.task} \cup j.todo
             \/ t \in reserved /\ ~Holds(c, t)
  PROVE  ReservationsAreHeld'
  <1> SUFFICES ASSUME NEW t \in reserved'
               PROVE  t \in stranded' \/ \E d \in Requests : Holds(d, t)'
    BY DEF ReservationsAreHeld, Holds
  <1>1. CASE t \in stranded'
    BY <1>1
  <1>2. CASE j.pc \in Chaining /\ t \in {j.task} \cup j.todo
    BY <1>2 DEF Holds, Becomes
  <1>3. CASE t \in reserved /\ ~Holds(c, t)
    <2>1. CASE t \in stranded
      BY <2>1
    <2>2. CASE \E d \in Requests : Holds(d, t)
      BY <1>3, <2>2 DEF Holds, Becomes
    <2> QED
      BY <1>3, <2>1, <2>2 DEF ReservationsAreHeld
  <1> QED
    BY <1>1, <1>2, <1>3

\* That job j owes the project.
JobOwes(j) == j.pc \in {"waiting", "ready", "work"} \/ (j.pc = "tail" /\ j.project = TRUE)

LEMMA OwesAfter ==
  ASSUME SlotIsOwed, NEW c \in Requests, NEW j, Becomes(c, j), slot \in 0 .. 1,
         server' = server, server = "api" => slot' = 0, slotLost => slotLost',
         slot' > 0 => slotLost' \/ JobOwes(j) \/ (slot > 0 /\ ~Owes(c))
  PROVE  SlotIsOwed'
  <1>1. SUFFICES ASSUME slot' > 0, ~slotLost' PROVE \E d \in Requests : Owes(d)'
    BY DEF SlotIsOwed, Owes
  <1>2. CASE JobOwes(j)
    BY <1>2 DEF JobOwes, Owes, Becomes
  <1>3. CASE slot > 0 /\ ~Owes(c)
    <2>1. PICK d \in Requests : Owes(d)
      BY <1>1, <1>3 DEF SlotIsOwed
    <2>2. job'[d] = job[d]
      BY <1>3, <2>1 DEF Becomes
    <2> QED
      BY <2>1, <2>2 DEF Owes
  <1> QED
    BY <1>1, <1>2, <1>3

LEMMA SoleTask ==
  ASSUME TypeOK, Sole, NEW t \in Tasks, NEW u \in Tasks PROVE t = u
  BY DEF TypeOK, Sole, Tasks

LEMMA SoleAfter ==
  ASSUME Typed, SoleChain, NEW c \in Requests, NEW j, Becomes(c, j), UNCHANGED config,
         Sole => /\ j.pc \in Chaining => j.todo = {} /\ j.task \in reserved'
                 /\ job[c].pc \notin Chaining =>
                        /\ reserved \subseteq reserved'
                        /\ j.pc \in Chaining => \E t \in Tasks : t \notin reserved
  PROVE  SoleChain'
  <1>1. SUFFICES ASSUME Sole
                 PROVE  /\ \A d \in Requests : job'[d].pc \in Chaining =>
                               job'[d].todo = {} /\ job'[d].task \in reserved'
                        /\ \A d, e \in Requests :
                               job'[d].pc \in Chaining /\ job'[e].pc \in Chaining => d = e
    BY DEF SoleChain, Sole, config
  <1>2. CASE job[c].pc \in Chaining
    <2>1. \A d \in Requests \ {c} : job'[d].pc \notin Chaining
      BY <1>1, <1>2 DEF SoleChain, Becomes
    <2> QED
      BY <1>1, <2>1 DEF Becomes
  <1>3. CASE job[c].pc \notin Chaining /\ j.pc \notin Chaining
    BY <1>1, <1>3 DEF SoleChain, Becomes
  <1>4. CASE job[c].pc \notin Chaining /\ j.pc \in Chaining
    <2>1. PICK t \in Tasks : t \notin reserved
      BY <1>1, <1>4
    <2>2. \A d \in Requests : job[d].pc \notin Chaining
      <3>1. SUFFICES ASSUME NEW d \in Requests, job[d].pc \in Chaining PROVE FALSE
        OBVIOUS
      <3>2. job[d].task \in Tasks /\ job[d].task \in reserved
        BY <1>1, <3>1 DEF Typed, ChainsHaveTasks, SoleChain
      <3> QED
        BY <1>1, <2>1, <3>2, SoleTask DEF Typed
    <2> QED
      BY <1>1, <1>4, <2>2 DEF Becomes
  <1> QED
    BY <1>2, <1>3, <1>4

\* A step that keeps the chain's task and its reservations.
LEMMA SameTaskKeeps ==
  ASSUME Typed, Kept, NEW c \in Requests, NEW j, Becomes(c, j), UNCHANGED <<config, slot>>,
         job[c].pc \in Chaining, j.pc \in Chaining, j.task = job[c].task, j.todo = job[c].todo,
         stranded' = stranded, slotLost => slotLost',
         reserved' = reserved \/ reserved' = reserved \cup {j.task},
         Owes(c) => JobOwes(j) \/ slotLost' \/ slot = 0
  PROVE  Kept'
  <1>1. ReservationsAreHeld'
    BY HoldsAfter DEF Kept, Holds
  <1>2. SlotIsOwed'
    BY OwesAfter DEF Kept, Typed, TypeOK, SlotIsOwed, config
  <1>3. SoleChain'
    BY SoleAfter DEF Kept, SoleChain
  <1> QED
    BY <1>1, <1>2, <1>3 DEF Kept

\* The steps within a chain's step.
LEMMA WorkKeeps ==
  ASSUME Typed, Kept, NEW c \in Requests,
         \/ ChainBegins(c) \/ StepFindsCycle(c) \/ StepFindsNoHandler(c) \/ StepStarts(c)
         \/ StepEnds(c) \/ StepRaises(c)
  PROVE  Kept'
  <1>1. job[c] \in Jobs /\ slot \in 0 .. 1
    BY JobsAreOK DEF JobOK, Typed, TypeOK
  <1>2. CASE ChainBegins(c)
    <2> DEFINE j == [job[c] EXCEPT !.pc = "ready", !.steps = 1]
    <2>1. job' = [job EXCEPT ![c] = j]
      BY <1>2 DEF ChainBegins
    <2>2. j.pc = "ready" /\ j.task = job[c].task /\ j.todo = job[c].todo
      BY <1>1 DEF Jobs
    <2> HIDE DEF j
    <2>3. Becomes(c, j)
      BY <2>1, JobBecomes
    <2>4. job[c].pc \in Chaining /\ j.pc \in Chaining
      BY <1>2, <2>2 DEF ChainBegins, Chaining
    <2>5. JobOwes(j)
      BY <2>2 DEF JobOwes
    <2> QED
      BY <1>2, <2>2, <2>3, <2>4, <2>5, SameTaskKeeps DEF ChainBegins
  <1>3. CASE StepFindsCycle(c)
    <2> DEFINE j == [job[c] EXCEPT !.pc = "tail", !.follow = NoTask, !.project = TRUE]
    <2>1. job' = [job EXCEPT ![c] = j]
      BY <1>3 DEF StepFindsCycle
    <2>2. j.pc = "tail" /\ j.task = job[c].task /\ j.todo = job[c].todo /\ j.project = TRUE
      BY <1>1 DEF Jobs
    <2> HIDE DEF j
    <2>3. Becomes(c, j)
      BY <2>1, JobBecomes
    <2>4. job[c].pc \in Chaining /\ j.pc \in Chaining
      BY <1>3, <2>2 DEF StepFindsCycle, Chaining
    <2>5. JobOwes(j)
      BY <2>2 DEF JobOwes
    <2> QED
      BY <1>3, <2>2, <2>3, <2>4, <2>5, SameTaskKeeps DEF StepFindsCycle
  <1>4. CASE StepFindsNoHandler(c)
    <2>0. PICK f \in Followups(job[c].task, status[job[c].task], status) :
            job' = [job EXCEPT ![c].pc = "tail", ![c].follow = f.task,
                               ![c].project = TRUE, ![c].seen = @ \cup {Key(c)}]
      BY <1>4 DEF StepFindsNoHandler
    <2> DEFINE j == [job[c] EXCEPT !.pc = "tail", !.follow = f.task,
                                !.project = TRUE, !.seen = @ \cup {Key(c)}]
    <2>1. job' = [job EXCEPT ![c] = j]
      BY <1>4, <2>0 DEF StepFindsNoHandler
    <2>2. j.pc = "tail" /\ j.task = job[c].task /\ j.todo = job[c].todo /\ j.project = TRUE
      BY <1>1 DEF Jobs
    <2> HIDE DEF j
    <2>3. Becomes(c, j)
      BY <2>1, JobBecomes
    <2>4. job[c].pc \in Chaining /\ j.pc \in Chaining
      BY <1>4, <2>2 DEF StepFindsNoHandler, Chaining
    <2>5. JobOwes(j)
      BY <2>2 DEF JobOwes
    <2> QED
      BY <1>4, <2>2, <2>3, <2>4, <2>5, SameTaskKeeps DEF StepFindsNoHandler
  <1>5. CASE StepStarts(c)
    <2> DEFINE j == [job[c] EXCEPT !.pc = "work", !.loaded = status[job[c].task]]
    <2>1. job' = [job EXCEPT ![c] = j]
      BY <1>5 DEF StepStarts
    <2>2. j.pc = "work" /\ j.task = job[c].task /\ j.todo = job[c].todo
      BY <1>1 DEF Jobs
    <2> HIDE DEF j
    <2>3. Becomes(c, j)
      BY <2>1, JobBecomes
    <2>4. job[c].pc \in Chaining /\ j.pc \in Chaining
      BY <1>5, <2>2 DEF StepStarts, Chaining
    <2>5. JobOwes(j)
      BY <2>2 DEF JobOwes
    <2> QED
      BY <1>5, <2>2, <2>3, <2>4, <2>5, SameTaskKeeps DEF StepStarts
  <1>6. CASE StepEnds(c)
    <2> DEFINE st(s) == [status EXCEPT ![job[c].task] = s]
    <2>a. PICK s \in Outcomes(job[c].loaded) : EndStep(c, s, st(s))
      BY <1>6 DEF StepEnds
    <2>0. PICK f \in Followups(job[c].task, s, st(s)) :
            job' = [job EXCEPT ![c].pc = "tail", ![c].follow = f.task, ![c].project = TRUE,
                               ![c].loaded = "none",
                               ![c].seen = @ \cup {<<job[c].task, job[c].loaded>>}]
      BY <2>a DEF EndStep
    <2> DEFINE j == [job[c] EXCEPT !.pc = "tail", !.follow = f.task, !.project = TRUE,
                                !.loaded = "none",
                                !.seen = @ \cup {<<job[c].task, job[c].loaded>>}]
    <2>1. job' = [job EXCEPT ![c] = j]
      BY <1>6, <2>0 DEF StepEnds
    <2>2. j.pc = "tail" /\ j.task = job[c].task /\ j.todo = job[c].todo /\ j.project = TRUE
      BY <1>1 DEF Jobs
    <2> HIDE DEF j
    <2>3. Becomes(c, j)
      BY <2>1, JobBecomes
    <2>4. job[c].pc \in Chaining /\ j.pc \in Chaining
      BY <1>6, <2>2 DEF StepEnds, Chaining
    <2>5. JobOwes(j)
      BY <2>2 DEF JobOwes
    <2> QED
      BY <1>6, <2>2, <2>3, <2>4, <2>5, SameTaskKeeps DEF StepEnds
  <1>7. CASE StepRaises(c)
    <2> DEFINE j == [job[c] EXCEPT !.pc = "tail", !.follow = NoTask, !.loaded = "none",
                                !.project = (job[c].pc = "work")]
    <2>1. job' = [job EXCEPT ![c] = j]
      BY <1>7 DEF StepRaises
    <2>2. j.pc = "tail" /\ j.task = job[c].task /\ j.todo = job[c].todo
          /\ j.project = (job[c].pc = "work")
      BY <1>1 DEF Jobs
    <2> HIDE DEF j
    <2>3. Becomes(c, j)
      BY <2>1, JobBecomes
    <2>4. job[c].pc \in Chaining /\ j.pc \in Chaining
      BY <1>7, <2>2 DEF StepRaises, Chaining
    <2>5. JobOwes(j) \/ slotLost' \/ slot = 0
      <3>1. CASE job[c].pc = "work"
        BY <2>2, <3>1 DEF JobOwes
      <3>2. CASE job[c].pc = "ready" /\ slot > 0
        BY <1>7, <3>2 DEF StepRaises
      <3>3. CASE job[c].pc = "ready" /\ slot = 0
        BY <3>3
      <3> QED
        BY <1>1, <1>7, <3>1, <3>2, <3>3 DEF StepRaises
    <2> QED
      BY <1>7, <2>2, <2>3, <2>4, <2>5, SameTaskKeeps DEF StepRaises
  <1> QED
    BY <1>2, <1>3, <1>4, <1>5, <1>6, <1>7

\* A step that gives the project back, if it has it.
LEMMA ReleaseKeeps ==
  ASSUME Typed, SlotIsOwed, NEW c \in Requests, NEW j, Becomes(c, j), UNCHANGED config,
         NEW project \in BOOLEAN, Release(c, project),
         slotLost => slotLost', Owes(c) => project \/ slotLost' \/ slot = 0
  PROVE  SlotIsOwed'
  <1>1. server \in {"api", "embedded"} /\ slot \in 0 .. 1 /\ server' = server
    BY DEF Typed, TypeOK, config
  <1>2. CASE project
    <2>1. slot' = 0
      BY <1>1, <1>2 DEF SlotIsOwed, Release
    <2> QED
      BY <1>1, <2>1, OwesAfter
  <1>3. CASE ~project
    <2>1. slot' = slot
      BY <1>3 DEF Release
    <2>2. server = "api" => slot' = 0
      BY <2>1 DEF SlotIsOwed
    <2>3. slot' > 0 => slotLost' \/ (slot > 0 /\ ~Owes(c))
      BY <1>1, <1>3, <2>1
    <2> QED
      BY <1>1, <2>2, <2>3, OwesAfter
  <1> QED
    BY <1>2, <1>3

\* What the next chain of c is, if tasks wait in c.
LEMMA NextChainBecomes ==
  ASSUME Typed, NEW c \in Requests, NextChain(c)
  PROVE  \E j \in Jobs :
             /\ Becomes(c, j)
             /\ job[c].todo = {} => j = Idle
             /\ job[c].todo # {} => /\ j.pc = "waiting"
                                    /\ {j.task} \cup j.todo = job[c].todo
  <1>1. job[c].todo \in SUBSET Tasks
    BY JobsAreOK DEF JobOK, Jobs
  <1>2. PICK j \in Queued(job[c].todo) : job' = [job EXCEPT ![c] = j]
    BY DEF NextChain
  <1>3. Becomes(c, j)
    BY <1>2, JobBecomes
  <1>4. /\ j \in Jobs /\ (job[c].todo = {} => j = Idle)
        /\ job[c].todo # {} => j.pc = "waiting" /\ j.task \in job[c].todo
                               /\ j.todo = job[c].todo \ {j.task}
    BY <1>1, QueuedFits
  <1> QED
    BY <1>3, <1>4

\* The last step of a chain.
LEMMA LastStepKeeps ==
  ASSUME Typed, Kept, NEW c \in Requests, NextChain(c), job[c].pc = "tail",
         reserved' = reserved \ {job[c].task}, Release(c, job[c].project),
         UNCHANGED <<config, stranded, slotLost>>
  PROVE  Kept'
  <1>1. PICK j \in Jobs :
             /\ Becomes(c, j)
             /\ job[c].todo = {} => j = Idle
             /\ job[c].todo # {} => /\ j.pc = "waiting"
                                    /\ {j.task} \cup j.todo = job[c].todo
    BY NextChainBecomes
  <1>2. job[c].pc \in Chaining /\ (j.pc = "waiting" => j.pc \in Chaining)
    BY DEF Chaining
  <1>3. ASSUME NEW t \in reserved'
        PROVE  \/ j.pc \in Chaining /\ t \in {j.task} \cup j.todo
               \/ t \in reserved /\ ~Holds(c, t)
    BY <1>1, <1>2, <1>3 DEF Holds
  <1>4. ReservationsAreHeld'
    BY <1>1, <1>3, HoldsAfter DEF Kept
  <1>5. job[c].project \in BOOLEAN
    BY JobsAreOK DEF JobOK, Jobs
  <1>6. Owes(c) => job[c].project
    BY DEF Owes
  <1>7. SlotIsOwed'
    BY <1>1, <1>5, <1>6, ReleaseKeeps DEF Kept
  <1>8. Sole => j = Idle
    BY <1>1, <1>2 DEF Kept, SoleChain
  <1>9. Idle.pc \notin Chaining
    BY DEF Idle, Chaining
  <1>10. SoleChain'
    BY <1>1, <1>2, <1>8, <1>9, SoleAfter DEF Kept
  <1> QED
    BY <1>4, <1>7, <1>10 DEF Kept

LEMMA ChainStepKeeps ==
  ASSUME Typed, Kept, NEW c \in Requests, ChainStep(c)
  PROVE  Kept'
  <1>1. job[c] \in Jobs /\ slot \in 0 .. 1
    BY JobsAreOK DEF JobOK, Typed, TypeOK
  <1>2. CASE ChainEnds(c)
    BY <1>2, LastStepKeeps DEF ChainEnds
  <1>3. CASE ChainTooLong(c)
    BY <1>3, LastStepKeeps DEF ChainTooLong
  <1>4. CASE BlockingRaises(c)
    <2>1. Becomes(c, Idle) /\ UNCHANGED config
      BY <1>4, JobBecomes DEF BlockingRaises
    <2>2. ReservationsAreHeld'
      BY <1>4, <2>1, HoldsAfter DEF BlockingRaises, Kept, Holds
    <2>3. job[c].pc = "work" \/ slotLost' \/ slot = 0
      <3>1. CASE job[c].pc = "ready" /\ slot > 0
        BY <1>4, <3>1 DEF BlockingRaises
      <3>2. CASE job[c].pc = "work" \/ (job[c].pc = "ready" /\ slot = 0)
        BY <3>2
      <3> QED
        BY <1>1, <1>4, <3>1, <3>2 DEF BlockingRaises
    <2>4. SlotIsOwed'
      <3>1. Release(c, job[c].pc = "work") /\ (slotLost => slotLost')
        BY <1>4 DEF BlockingRaises
      <3> QED
        BY <2>1, <2>3, <3>1, ReleaseKeeps DEF Kept
    <2>5. job[c].pc \in Chaining /\ Idle.pc \notin Chaining
      BY <1>4 DEF BlockingRaises, Chaining, Idle
    <2>6. SoleChain'
      BY <2>1, <2>5, SoleAfter DEF Kept
    <2> QED
      BY <2>2, <2>4, <2>6 DEF Kept
  <1>5. CASE ChainFollowsUp(c)
    <2> DEFINE j == [job[c] EXCEPT !.pc = "ready", !.task = job[c].follow, !.follow = NoTask,
                                   !.steps = @ + 1, !.project = FALSE]
    <2>1. job' = [job EXCEPT ![c] = j]
      BY <1>5 DEF ChainFollowsUp
    <2>2. j.pc = "ready" /\ j.task = job[c].follow /\ j.todo = job[c].todo
      BY <1>1 DEF Jobs
    <2> HIDE DEF j
    <2>3. Becomes(c, j)
      BY <2>1, JobBecomes
    <2>4. job[c].pc \in Chaining /\ j.pc \in Chaining
      BY <1>5, <2>2 DEF ChainFollowsUp, Chaining
    <2>5. ReservationsAreHeld'
      BY <1>5, <2>2, <2>3, <2>4, HoldsAfter DEF ChainFollowsUp, Kept, Holds
    <2>6. SlotIsOwed'
      <3>1. job[c].project \in BOOLEAN
        BY <1>1 DEF Jobs
      <3>2. Owes(c) => job[c].project
        BY <1>5 DEF Owes, ChainFollowsUp
      <3>3. Release(c, job[c].project) /\ UNCHANGED <<config, slotLost>>
        BY <1>5 DEF ChainFollowsUp
      <3> QED
        BY <2>3, <3>1, <3>2, <3>3, ReleaseKeeps DEF Kept
    <2>7. SoleChain'
      BY <1>5, <2>2, <2>3, <2>4, SoleAfter DEF ChainFollowsUp, Kept, SoleChain
    <2> QED
      BY <2>5, <2>6, <2>7 DEF Kept
  <1>6. CASE StartDecided(c)
    <2>a. PICK mine \in SUBSET (job[c].todo \ reserved) :
            /\ reserved' = reserved \cup mine
            /\ \E j \in Queued(mine) : job' = [job EXCEPT ![c] = j]
      BY <1>6 DEF StartDecided
    <2>1. PICK j \in Queued(mine) : job' = [job EXCEPT ![c] = j]
      BY <2>a
    <2>2. mine \in SUBSET Tasks /\ mine \cap reserved = {}
      BY <1>1 DEF Jobs
    <2>3. /\ mine = {} => j = Idle
          /\ mine # {} => j.pc = "waiting" /\ j.task \in mine /\ j.todo = mine \ {j.task}
      BY <2>2, QueuedFits
    <2>4. Becomes(c, j)
      BY <2>1, JobBecomes
    <2>5. /\ job[c].pc \notin Chaining
          /\ IF mine = {} THEN j.pc = "free" ELSE j.pc = "waiting"
      BY <1>6, <2>3 DEF StartDecided, Chaining, Idle
    <2>6. \A t : ~Holds(c, t)
      BY <2>5 DEF Holds
    <2>7. j.pc \in Chaining <=> mine # {}
      BY <2>5 DEF Chaining
    <2>8. UNCHANGED <<config, slot, stranded, slotLost>>
      BY <1>6 DEF StartDecided
    <2>9. ReservationsAreHeld'
      BY <2>a, <2>3, <2>4, <2>6, <2>7, <2>8, HoldsAfter DEF Kept
    <2>10. ~Owes(c)
      BY <1>6 DEF Owes, StartDecided
    <2>11. SlotIsOwed'
      BY <1>1, <2>4, <2>8, <2>10, OwesAfter DEF Kept, SlotIsOwed, config
    <2>12. SoleChain'
      <3>1. Sole => \A t, u \in mine : t = u
        BY <2>2, SoleTask DEF Typed
      <3> QED
        BY <2>a, <2>2, <2>3, <2>4, <2>7, <2>8, <3>1, SoleAfter DEF Kept
    <2> QED
      BY <2>9, <2>11, <2>12 DEF Kept
  <1> QED
    BY <1>2, <1>3, <1>4, <1>5, <1>6, WorkKeeps DEF ChainStep

\* A request that starts a chain, of a task that nobody has reserved.
LEMMA RequestKeeps ==
  ASSUME Typed, Kept, NEW c \in Requests, NEW t \in Tasks,
         Dispatch(c, t) \/ DispatchByVoice(c, t)
  PROVE  Kept'
  <1> DEFINE j == [Idle EXCEPT !.pc = "waiting", !.task = t]
  <1>1. /\ Free(c) /\ t \notin reserved /\ reserved' = reserved \cup {t}
        /\ UNCHANGED <<config, stranded, slotLost>>
        /\ job' = [job EXCEPT ![c] = j]
    BY DEF Dispatch, DispatchByVoice
  <1>2. j.pc = "waiting" /\ j.task = t /\ j.todo = {} /\ j.pc \in Chaining
    BY DEF Idle, Chaining
  <1> HIDE DEF j
  <1>3. Becomes(c, j)
    BY <1>1, JobBecomes
  <1>4. job[c].pc \notin Chaining /\ \A u : ~Holds(c, u)
    BY <1>1 DEF Free, Chaining, Holds
  <1>5. ReservationsAreHeld'
    BY <1>1, <1>2, <1>3, <1>4, HoldsAfter DEF Kept
  <1>6. slot \in 0 .. 1 /\ (server = "api" => slot' = 0) /\ JobOwes(j)
    BY <1>2 DEF Typed, TypeOK, Kept, SlotIsOwed, Dispatch, DispatchByVoice, JobOwes
  <1>7. SlotIsOwed'
    BY <1>1, <1>3, <1>6, OwesAfter DEF Kept, config
  <1>8. SoleChain'
    BY <1>1, <1>2, <1>3, <1>4, SoleAfter DEF Kept
  <1> QED
    BY <1>5, <1>7, <1>8 DEF Kept

\* A request that starts none, or not yet, or one that reserves nothing.
LEMMA UnreservedKeeps ==
  ASSUME Typed, Kept, NEW c \in Requests, NEW j, Becomes(c, j), Free(c),
         UNCHANGED <<config, reserved, slot, stranded, slotLost>>,
         j.pc = "deciding" \/ server = "embedded"
  PROVE  Kept'
  <1>1. /\ job[c].pc \notin Chaining /\ (\A u : ~Holds(c, u)) /\ ~Owes(c)
        /\ "deciding" \notin Chaining
    BY DEF Free, Chaining, Holds, Owes
  <1>2. ReservationsAreHeld'
    BY <1>1, HoldsAfter DEF Kept
  <1>3. SlotIsOwed'
    BY <1>1, OwesAfter DEF Kept, SlotIsOwed, Typed, TypeOK, config
  <1>4. SoleChain'
    BY <1>1, SoleAfter DEF Kept, Sole
  <1> QED
    BY <1>2, <1>3, <1>4 DEF Kept

LEMMA RouteKeeps ==
  ASSUME Typed, Kept, NEW c \in Requests, Route(c) PROVE Kept'
  <1>1. ASSUME NEW t \in Tasks, Approve(c, t) PROVE Kept'
    <2> DEFINE j == [Idle EXCEPT !.pc = "deciding", !.todo = {t}]
    <2>1. /\ job' = [job EXCEPT ![c] = j] /\ Free(c)
          /\ UNCHANGED <<config, reserved, slot, stranded, slotLost>>
      BY <1>1 DEF Approve
    <2>2. j.pc = "deciding"
      BY DEF Idle
    <2> HIDE DEF j
    <2> QED
      BY <2>1, <2>2, JobBecomes, UnreservedKeeps
  <1>2. ASSUME NEW t \in Tasks, ApproveInChat(c, t) PROVE Kept'
    <2> DEFINE j == [Idle EXCEPT !.pc = "waiting", !.task = t]
    <2>1. /\ job' = [job EXCEPT ![c] = j] /\ Free(c) /\ server = "embedded"
          /\ UNCHANGED <<config, reserved, slot, stranded, slotLost>>
      BY <1>2 DEF ApproveInChat
    <2> HIDE DEF j
    <2> QED
      BY <2>1, JobBecomes, UnreservedKeeps
  <1>3. CASE RequestSprintChanges(c)
    <2> DEFINE j == [Idle EXCEPT !.pc = "deciding", !.todo = Tasks]
    <2>1. /\ job' = [job EXCEPT ![c] = j] /\ Free(c)
          /\ UNCHANGED <<config, reserved, slot, stranded, slotLost>>
      BY <1>3 DEF RequestSprintChanges
    <2>2. j.pc = "deciding"
      BY DEF Idle
    <2> HIDE DEF j
    <2> QED
      BY <2>1, <2>2, JobBecomes, UnreservedKeeps
  <1> QED
    BY <1>1, <1>2, <1>3, RequestKeeps DEF Route

LEMMA OtherStepKeeps ==
  ASSUME Kept, UNCHANGED <<config, reserved, slot, job, stranded, slotLost>>
  PROVE  Kept'
  BY DEF Kept, ReservationsAreHeld, Holds, SlotIsOwed, Owes, SoleChain, Sole, config

\* A server that starts has nothing to give back.
LEMMA StartKeeps ==
  ASSUME reserved' = {}, slot' = 0, job' = [c \in Requests |-> Idle]
  PROVE  Kept'
  <1>1. \A c \in Requests : job'[c].pc \notin Chaining
    BY DEF Idle, Chaining
  <1> QED
    BY <1>1 DEF Kept, ReservationsAreHeld, SlotIsOwed, SoleChain

-----------------------------------------------------------------------------
(* The theorems.                                                           *)

LEMMA InitKept ==
  ASSUME Init PROVE Typed /\ Kept
  <1>1. /\ reserved = {} /\ slot = 0 /\ JobOK(Idle) /\ Idle \in Jobs /\ 1 \in Tasks
        /\ "waiting" \in Stages
    BY IdleFits, StageNames DEF Init, JobOK, Idle, Chaining, Tasks
  <1>2. /\ job \in [Requests -> Jobs] /\ \A c \in Requests : JobOK(job[c])
        /\ server = "embedded" \/ \A c \in Requests : job[c].pc \notin Chaining
    <2>1. CASE job = [c \in Requests |-> Idle]
      BY <1>1, <2>1 DEF Idle, Chaining
    <2>2. ASSUME server = "embedded", NEW c \in Requests,
                 job = [d \in Requests |->
                           IF d = c THEN [Idle EXCEPT !.pc = "waiting", !.task = 1] ELSE Idle]
          PROVE  job \in [Requests -> Jobs] /\ \A d \in Requests : JobOK(job[d])
      <3> DEFINE j == [Idle EXCEPT !.pc = "waiting", !.task = 1]
      <3>1. j \in Jobs
        BY <1>1 DEF Jobs
      <3>2. JobOK(j)
        BY <1>1, <3>1 DEF JobOK, Idle
      <3>3. job = [d \in Requests |-> IF d = c THEN j ELSE Idle]
        BY <2>2
      <3> HIDE DEF j
      <3> QED
        BY <1>1, <3>1, <3>2, <3>3
    <2> QED
      BY <2>1, <2>2 DEF Init
  <1>3. status \in [Tasks -> Statuses]
    BY NamedStatuses DEF Init
  <1>4. TypeOK
    <2>1. /\ server \in {"api", "embedded"} /\ size \in 1 .. MaxTasks /\ inSprint \in BOOLEAN
          /\ gate = {} /\ sprintGate = FALSE /\ reserved = {} /\ slot = 0
          /\ approved = {} /\ stranded = {} /\ slotLost = FALSE
      BY DEF Init
    <2>2. sprintGate \in BOOLEAN /\ slotLost \in BOOLEAN
      BY <2>1
    <2>3. /\ gate \in SUBSET Tasks /\ reserved \in SUBSET Tasks /\ slot \in 0 .. 1
          /\ approved \in SUBSET Tasks /\ stranded \in SUBSET Tasks
      BY <2>1
    <2> QED
      BY <1>2, <1>3, <2>1, <2>2, <2>3 DEF TypeOK
  <1>5. ChainsHaveTasks
    BY <1>2 DEF ChainsHaveTasks, JobOK
  <1>6. Kept
    BY <1>1, <1>2 DEF Kept, ReservationsAreHeld, SlotIsOwed, SoleChain, Sole
  <1> QED
    BY <1>4, <1>5, <1>6 DEF Typed

\* The inductive invariant: every reservation has a job that gives it back.
THEOREM DispatchInvariant == Spec => []IInv
  <1>1. Init => IInv
    BY InitKept DEF IInv, Typed, Kept
  <1>2. IInv /\ [Next]_vars => IInv'
    <2> SUFFICES ASSUME IInv, [Next]_vars PROVE Typed' /\ Kept'
      BY DEF IInv, Typed, Kept
    <2>0. Typed /\ Kept
      BY DEF IInv, Typed, Kept
    <2>1. Typed'
      BY <2>0, NextIsTyped
    <2>2. ASSUME UNCHANGED vars PROVE Kept'
      BY <2>0, <2>2, OtherStepKeeps DEF vars
    <2>3. ASSUME DecideSprint PROVE Kept'
      BY <2>0, <2>3, OtherStepKeeps DEF DecideSprint
    <2>4. ASSUME NEW t \in Tasks, Reject(t) \/ Recover(t) PROVE Kept'
      BY <2>0, <2>4, OtherStepKeeps DEF Reject, Recover
    <2>5. ASSUME Restart PROVE Kept'
      BY <2>5, StartKeeps DEF Restart
    <2> QED
      BY <2>0, <2>1, <2>2, <2>3, <2>4, <2>5, ChainStepKeeps, RouteKeeps DEF Next
  <1> QED
    BY <1>1, <1>2, PTL DEF Spec

\* Every variable keeps its type, and no chain takes more than MaxSteps steps
\* (dispatch_chain.py, run_dispatch_followup_chain).
THEOREM TypeCorrect == Spec => []TypeOK
  <1>1. IInv => TypeOK
    BY DEF IInv
  <1> QED
    BY <1>1, DispatchInvariant, PTL

\* On the API server, the one task of a feature never has two agents, and a
\* step never runs without the task's reservation (docs/quality-gate/approval.md).
THEOREM SoleTasksAreGuarded == Spec => []SoleTaskIsGuarded
  <1>1. IInv => SoleTaskIsGuarded
    BY DEF IInv, SoleChain, SoleTaskIsGuarded, OneAgentPerTask, Chaining
  <1> QED
    BY <1>1, DispatchInvariant, PTL

\* A reservation of a task or of the project outlives its jobs only where an
\* exception skips the code that gives it back (dispatch_lock.py, _run_dispatch).
THEOREM NothingIsLeaked == Spec => []NothingLeaks
  <1>1. ASSUME IInv PROVE NothingLeaks
    <2>1. \A c \in Requests, t \in Tasks : Holds(c, t) => InHands(c, t)
      BY DEF Holds, InHands, Free, Chaining
    <2>2. \A c \in Requests : Owes(c) => ~Free(c)
      BY DEF Owes, Free
    <2>3. reserved \subseteq Tasks
      BY <1>1 DEF IInv, TypeOK
    <2> QED
      BY <1>1, <2>1, <2>2, <2>3
      DEF IInv, ReservationsAreHeld, SlotIsOwed, NothingLeaks, Quiet
  <1> QED
    BY <1>1, DispatchInvariant, PTL

-----------------------------------------------------------------------------
(* A job comes nearer to its end.                                          *)

LEMMA ChainStepsAreMany == ChainSteps \in Nat /\ ChainSteps > 0
  BY MaxStepsAssumption DEF ChainSteps

LEMMA TasksAreCounted ==
  ASSUME TypeOK, NEW S \in SUBSET Tasks
  PROVE  IsFiniteSet(S) /\ Cardinality(S) \in 0 .. MaxTasks
  <1>1. size \in Int /\ 1 \in Int /\ size >= 1 /\ size <= MaxTasks
    BY MaxTasksAssumption DEF TypeOK
  <1>2. IsFiniteSet(Tasks) /\ Cardinality(Tasks) = size
    BY <1>1, FS_Interval DEF Tasks
  <1>3. IsFiniteSet(S) /\ Cardinality(S) <= size
    BY <1>2, FS_Subset
  <1>4. Cardinality(S) \in Nat
    BY <1>3, FS_CardinalityType
  <1> QED
    BY <1>1, <1>3, <1>4, MaxTasksAssumption

\* Fewer chains have fewer steps.
LEMMA FewerChains ==
  ASSUME NEW n \in Nat, NEW m \in Nat, n < m
  PROVE  n * ChainSteps + ChainSteps <= m * ChainSteps
  <1>1. (m - n) * ChainSteps = m * ChainSteps - n * ChainSteps
    BY ChainStepsAreMany, Z3
  <1>2. m - n >= 1 => (m - n) * ChainSteps >= ChainSteps
    BY ChainStepsAreMany, Z3
  <1>3. n * ChainSteps \in Nat /\ m * ChainSteps \in Nat
    BY ChainStepsAreMany
  <1> QED
    BY <1>1, <1>2, <1>3, ChainStepsAreMany

LEMMA IdleIsOver == StepsOfJob(Idle) = 0
  <1>1. Idle.todo = {} /\ Idle.pc = "free"
    BY DEF Idle
  <1> QED
    BY <1>1, FS_EmptySet, ChainStepsAreMany DEF StepsOfJob, StepsOfChain

\* Every stage of a chain leaves it a step at least, and ChainSteps at most.
LEMMA StagesHaveSteps ==
  ASSUME NEW j \in Jobs, j.pc # "free"
  PROVE  StepsOfChain(j) \in 1 .. ChainSteps + 2
  <1>1. j.steps \in 0 .. MaxSteps /\ j.pc \in Stages
    BY DEF Jobs
  <1> QED
    BY <1>1, MaxStepsAssumption DEF StepsOfChain, ChainSteps, Stages

LEMMA AnyJobHasSteps ==
  ASSUME TypeOK, NEW j \in Jobs
  PROVE  /\ Cardinality(j.todo) * ChainSteps \in Nat
         /\ j.pc # "free" => StepsOfChain(j) \in 1 .. ChainSteps + 2
         /\ StepsOfJob(j) \in Nat /\ (j.pc # "free" => StepsOfJob(j) > 0)
  <1>1. j.todo \in SUBSET Tasks
    BY DEF Jobs
  <1>2. Cardinality(j.todo) * ChainSteps \in Nat
    BY <1>1, TasksAreCounted, ChainStepsAreMany, MaxTasksAssumption
  <1>3. j.pc # "free" => StepsOfChain(j) \in 1 .. ChainSteps + 2
    BY StagesHaveSteps
  <1>4. j.pc = "free" => StepsOfChain(j) = 0
    BY DEF StepsOfChain
  <1> QED
    BY <1>2, <1>3, <1>4, ChainStepsAreMany DEF StepsOfJob

LEMMA JobHasSteps ==
  ASSUME TypeOK, NEW c \in Requests, ~Free(c)
  PROVE  /\ Cardinality(job[c].todo) * ChainSteps \in Nat
         /\ StepsOfChain(job[c]) \in 1 .. ChainSteps + 2
         /\ StepsOfJob(job[c]) \in Nat \ {0}
  BY AnyJobHasSteps DEF TypeOK, Free

\* Chains that have yet to begin have no more than all their steps.
LEMMA QueuedHasSteps ==
  ASSUME TypeOK, NEW S \in SUBSET Tasks, NEW j \in Queued(S)
  PROVE  StepsOfJob(j) = Cardinality(S) * ChainSteps
  <1>1. IsFiniteSet(S) /\ Cardinality(S) \in Nat
    BY TasksAreCounted, MaxTasksAssumption
  <1>2. CASE S = {}
    BY <1>2, QueuedFits, IdleIsOver, FS_EmptySet, ChainStepsAreMany
  <1>3. CASE S # {}
    <2>1. j.pc = "waiting" /\ j.task \in S /\ j.todo = S \ {j.task}
      BY <1>3, QueuedFits
    <2>2. Cardinality(j.todo) = Cardinality(S) - 1
      <3>1. \A t \in S : Cardinality(S \ {t}) = Cardinality(S) - 1
        BY <1>1, FS_RemoveElement
      <3> QED
        BY <2>1, <3>1
    <2>3. StepsOfJob(j) = (Cardinality(S) - 1) * ChainSteps + ChainSteps
      BY <2>1, <2>2 DEF StepsOfJob, StepsOfChain
    <2>4. \A n \in Nat : (n - 1) * ChainSteps + ChainSteps = n * ChainSteps
      BY ChainStepsAreMany, Z3
    <2> QED
      BY <1>1, <2>3, <2>4
  <1> QED
    BY <1>2, <1>3

\* The job goes on to a stage that leaves its chain fewer steps.
LEMMA SameChainAdvances ==
  ASSUME TypeOK, NEW c \in Requests, ~Free(c), NEW j, j.todo = job[c].todo,
         StepsOfChain(j) \in Int, StepsOfChain(j) < StepsOfChain(job[c]),
         job' = [job EXCEPT ![c] = j]
  PROVE  StepsOfJob(job'[c]) < StepsOfJob(job[c])
  <1>1. job'[c] = j
    BY DEF TypeOK
  <1> QED
    BY <1>1, JobHasSteps DEF StepsOfJob

\* The chain is over, and the job goes on to the next one.
LEMMA NextChainAdvances ==
  ASSUME TypeOK, NEW c \in Requests, ~Free(c), NextChain(c)
  PROVE  StepsOfJob(job'[c]) < StepsOfJob(job[c])
  <1>1. job[c].todo \in SUBSET Tasks
    BY DEF TypeOK, Jobs
  <1>2. job'[c] \in Queued(job[c].todo)
    BY DEF NextChain, TypeOK
  <1>3. StepsOfJob(job'[c]) = Cardinality(job[c].todo) * ChainSteps
    BY <1>1, <1>2, QueuedHasSteps
  <1> QED
    BY <1>3, JobHasSteps DEF StepsOfJob

LEMMA StartedAdvances ==
  ASSUME TypeOK, NEW c \in Requests, StartDecided(c)
  PROVE  StepsOfJob(job'[c]) < StepsOfJob(job[c])
  <1>1. job[c].pc = "deciding" /\ ~Free(c) /\ job[c].todo \in SUBSET Tasks
    BY DEF StartDecided, Free, TypeOK, Jobs
  <1>2. PICK mine \in SUBSET job[c].todo : job'[c] \in Queued(mine)
    BY DEF StartDecided, TypeOK
  <1>3. IsFiniteSet(job[c].todo) /\ Cardinality(job[c].todo) \in Nat
    BY <1>1, TasksAreCounted, MaxTasksAssumption
  <1>4. Cardinality(mine) <= Cardinality(job[c].todo) /\ Cardinality(mine) \in Nat
    BY <1>1, <1>3, FS_Subset, FS_CardinalityType
  <1>5. StepsOfJob(job'[c]) = Cardinality(mine) * ChainSteps
    BY <1>1, <1>2, QueuedHasSteps
  <1>6. Cardinality(mine) * ChainSteps <= Cardinality(job[c].todo) * ChainSteps
    <2>1. CASE Cardinality(mine) = Cardinality(job[c].todo)
      BY <2>1, <1>3, ChainStepsAreMany
    <2>2. CASE Cardinality(mine) < Cardinality(job[c].todo)
      <3>1. Cardinality(mine) * ChainSteps + ChainSteps <= Cardinality(job[c].todo) * ChainSteps
        BY <1>3, <1>4, <2>2, FewerChains
      <3>2. /\ Cardinality(mine) * ChainSteps \in Nat
            /\ Cardinality(job[c].todo) * ChainSteps \in Nat
        BY <1>3, <1>4, ChainStepsAreMany
      <3> QED
        BY <3>1, <3>2, ChainStepsAreMany
    <2> QED
      BY <1>3, <1>4, <2>1, <2>2
  <1>7. Cardinality(mine) * ChainSteps \in Nat /\ Cardinality(job[c].todo) * ChainSteps \in Nat
    BY <1>3, <1>4, ChainStepsAreMany
  <1>8. StepsOfChain(job[c]) = 1
    BY <1>1 DEF StepsOfChain
  <1> QED
    BY <1>5, <1>6, <1>7, <1>8 DEF StepsOfJob

LEMMA ChainStepAdvances ==
  ASSUME TypeOK, NEW c \in Requests, ChainStep(c)
  PROVE  ~Free(c) /\ StepsOfJob(job'[c]) < StepsOfJob(job[c])
  <1>1. /\ job[c] \in Jobs /\ job[c].steps \in 0 .. MaxSteps
        /\ MaxSteps \in Nat /\ MaxSteps >= 1
    BY MaxStepsAssumption DEF TypeOK, Jobs
  <1>2. job \in [Requests -> Jobs]
    BY DEF TypeOK
  <1>3. ~Free(c)
    BY DEF ChainStep, Free, ChainBegins, StepFindsCycle, StepFindsNoHandler, StepStarts,
           StepEnds, StepRaises, BlockingRaises, ChainEnds, ChainFollowsUp, ChainTooLong,
           StartDecided
  <1>4. CASE ChainBegins(c)
    <2> DEFINE j == [job[c] EXCEPT !.pc = "ready", !.steps = 1]
    <2>1. job[c].pc = "waiting" /\ job' = [job EXCEPT ![c] = j]
      BY <1>4 DEF ChainBegins
    <2>2. j.pc = "ready" /\ j.steps = 1 /\ j.todo = job[c].todo
      BY <1>1 DEF Jobs
    <2> HIDE DEF j
    <2>3. StepsOfChain(j) = 3 * MaxSteps /\ StepsOfChain(job[c]) = 3 * MaxSteps + 1
      BY <1>1, <2>1, <2>2 DEF StepsOfChain, ChainSteps
    <2>4. StepsOfChain(j) \in Int /\ StepsOfChain(j) < StepsOfChain(job[c])
      BY <1>1, <2>3
    <2> QED
      BY <1>3, <2>1, <2>2, <2>4, SameChainAdvances
  <1>5. CASE StepStarts(c)
    <2> DEFINE j == [job[c] EXCEPT !.pc = "work", !.loaded = status[job[c].task]]
    <2>1. job[c].pc = "ready" /\ job' = [job EXCEPT ![c] = j]
      BY <1>5 DEF StepStarts
    <2>2. j.pc = "work" /\ j.steps = job[c].steps /\ j.todo = job[c].todo
      BY <1>1 DEF Jobs
    <2> HIDE DEF j
    <2>3. /\ StepsOfChain(j) = 3 * (MaxSteps - job[c].steps) + 2
          /\ StepsOfChain(job[c]) = 3 * (MaxSteps - job[c].steps) + 3
      BY <1>1, <2>1, <2>2 DEF StepsOfChain
    <2>4. StepsOfChain(j) \in Int /\ StepsOfChain(j) < StepsOfChain(job[c])
      BY <1>1, <2>3
    <2> QED
      BY <1>3, <2>1, <2>2, <2>4, SameChainAdvances
  <1>6. CASE StepFindsCycle(c) \/ StepFindsNoHandler(c) \/ StepEnds(c) \/ StepRaises(c)
    <2>1. job[c].pc \in {"ready", "work"}
      BY <1>6 DEF StepFindsCycle, StepFindsNoHandler, StepEnds, StepRaises
    <2>2. \E follow, seen, loaded, project :
             job' = [job EXCEPT ![c] = [job[c] EXCEPT !.pc = "tail", !.follow = follow,
                        !.seen = seen, !.loaded = loaded, !.project = project]]
      <3>1. CASE StepFindsCycle(c)
        <4>1. job' = [job EXCEPT ![c] = [job[c] EXCEPT !.pc = "tail", !.follow = NoTask,
                        !.seen = job[c].seen, !.loaded = job[c].loaded, !.project = TRUE]]
          BY <1>1, <1>2, <3>1 DEF StepFindsCycle, Jobs
        <4> QED
          BY <4>1
      <3>2. CASE StepFindsNoHandler(c)
        <4>1. PICK f \in Followups(job[c].task, status[job[c].task], status) :
                 job' = [job EXCEPT ![c].pc = "tail", ![c].follow = f.task,
                            ![c].project = TRUE, ![c].seen = @ \cup {Key(c)}]
          BY <3>2 DEF StepFindsNoHandler
        <4>2. job' = [job EXCEPT ![c] = [job[c] EXCEPT !.pc = "tail", !.follow = f.task,
                        !.seen = job[c].seen \cup {Key(c)}, !.loaded = job[c].loaded,
                        !.project = TRUE]]
          BY <1>1, <1>2, <4>1 DEF Jobs
        <4> QED
          BY <4>2
      <3>3. CASE StepEnds(c)
        <4>1. PICK s, st : EndStep(c, s, st)
          BY <3>3 DEF StepEnds
        <4>2. PICK f \in Followups(job[c].task, s, st) :
                 job' = [job EXCEPT ![c].pc = "tail", ![c].follow = f.task,
                            ![c].project = TRUE, ![c].loaded = "none",
                            ![c].seen = @ \cup {<<job[c].task, job[c].loaded>>}]
          BY <4>1 DEF EndStep
        <4>3. job' = [job EXCEPT ![c] = [job[c] EXCEPT !.pc = "tail", !.follow = f.task,
                        !.seen = job[c].seen \cup {<<job[c].task, job[c].loaded>>},
                        !.loaded = "none", !.project = TRUE]]
          BY <1>1, <1>2, <4>2 DEF Jobs
        <4> QED
          BY <4>3
      <3>4. CASE StepRaises(c)
        <4>1. job' = [job EXCEPT ![c] = [job[c] EXCEPT !.pc = "tail", !.follow = NoTask,
                        !.seen = job[c].seen, !.loaded = "none",
                        !.project = (job[c].pc = "work")]]
          BY <1>1, <1>2, <3>4 DEF StepRaises, Jobs
        <4> QED
          BY <4>1
      <3> QED
        BY <1>6, <3>1, <3>2, <3>3, <3>4
    <2>3. PICK follow, seen, loaded, project :
             job' = [job EXCEPT ![c] = [job[c] EXCEPT !.pc = "tail", !.follow = follow,
                        !.seen = seen, !.loaded = loaded, !.project = project]]
      BY <2>2
    <2> DEFINE j == [job[c] EXCEPT !.pc = "tail", !.follow = follow,
                        !.seen = seen, !.loaded = loaded, !.project = project]
    <2>4. j.pc = "tail" /\ j.steps = job[c].steps /\ j.todo = job[c].todo
      BY <1>1 DEF Jobs
    <2>5. job' = [job EXCEPT ![c] = j]
      BY <2>3
    <2> HIDE DEF j
    <2>6. /\ StepsOfChain(j) = 3 * (MaxSteps - job[c].steps) + 1
          /\ StepsOfChain(job[c]) \in {3 * (MaxSteps - job[c].steps) + 2,
                                       3 * (MaxSteps - job[c].steps) + 3}
      BY <1>1, <2>1, <2>4 DEF StepsOfChain
    <2>7. StepsOfChain(j) \in Int /\ StepsOfChain(j) < StepsOfChain(job[c])
      BY <1>1, <2>6
    <2> QED
      BY <1>3, <2>4, <2>5, <2>7, SameChainAdvances
  <1>7. CASE ChainFollowsUp(c)
    <2> DEFINE j == [job[c] EXCEPT !.pc = "ready", !.task = job[c].follow, !.follow = NoTask,
                        !.steps = job[c].steps + 1, !.project = FALSE]
    <2>1. job[c].pc = "tail" /\ job' = [job EXCEPT ![c] = j]
      BY <1>1, <1>2, <1>7 DEF ChainFollowsUp, Jobs
    <2>2. j.pc = "ready" /\ j.steps = job[c].steps + 1 /\ j.todo = job[c].todo
      BY <1>1 DEF Jobs
    <2> HIDE DEF j
    <2>3. /\ StepsOfChain(j) = 3 * (MaxSteps - (job[c].steps + 1)) + 3
          /\ StepsOfChain(job[c]) = 3 * (MaxSteps - job[c].steps) + 1
      BY <1>1, <2>1, <2>2 DEF StepsOfChain
    <2>4. StepsOfChain(j) \in Int /\ StepsOfChain(j) < StepsOfChain(job[c])
      BY <1>1, <2>3
    <2> QED
      BY <1>3, <2>1, <2>2, <2>4, SameChainAdvances
  <1>8. CASE BlockingRaises(c)
    <2>1. job'[c] = Idle
      BY <1>2, <1>8 DEF BlockingRaises
    <2> QED
      BY <1>3, <2>1, IdleIsOver, JobHasSteps
  <1>9. CASE ChainEnds(c) \/ ChainTooLong(c)
    BY <1>3, <1>9, NextChainAdvances DEF ChainEnds, ChainTooLong
  <1>10. CASE StartDecided(c)
    BY <1>3, <1>10, StartedAdvances
  <1> QED
    BY <1>4, <1>5, <1>6, <1>7, <1>8, <1>9, <1>10 DEF ChainStep

\* What the others do leaves a job as it is, or ends it.
LEMMA JobsAreLeftAlone ==
  ASSUME TypeOK, [Next]_vars, NEW c \in Requests, ~ChainStep(c), ~Route(c)
  PROVE  job'[c] = job[c] \/ job'[c] = Idle
  <1>1. ASSUME NEW d \in Requests, d # c, NEW j, job' = [job EXCEPT ![d] = j]
        PROVE  job'[c] = job[c]
    BY <1>1 DEF TypeOK
  <1>2. ASSUME NEW d \in Requests, ChainStep(d) PROVE job'[c] = job[c]
    <2>1. d # c
      BY <1>2
    <2>2. \E j : job' = [job EXCEPT ![d] = j]
      BY <1>2 DEF ChainStep, ChainBegins, StepFindsCycle, StepFindsNoHandler, StepStarts,
                  StepEnds, EndStep, StepRaises, BlockingRaises, ChainEnds, ChainFollowsUp,
                  ChainTooLong, StartDecided, NextChain
    <2> QED
      BY <1>1, <2>1, <2>2
  <1>3. ASSUME NEW d \in Requests, Route(d) PROVE job'[c] = job[c]
    <2>1. d # c /\ \E j : job' = [job EXCEPT ![d] = j]
      BY <1>3 DEF Route, RequestSprintChanges, Dispatch, DispatchByVoice, Approve, ApproveInChat
    <2> QED
      BY <1>1, <2>1
  <1>4. CASE Restart
    BY <1>4 DEF Restart
  <1>5. ASSUME UNCHANGED job PROVE job'[c] = job[c]
    BY <1>5
  <1> QED
    BY <1>2, <1>3, <1>4, <1>5 DEF Next, Reject, Recover, DecideSprint, vars

JobsAreBounded == \A c \in Requests : StepsOfJob(job[c]) <= MaxTasks * ChainSteps + 1

\* A job that a route starts has the steps of a chain for each task, and one more.
LEMMA StartedIsBounded ==
  ASSUME TypeOK, NEW S \in SUBSET Tasks
  PROVE  Cardinality(S) * ChainSteps + 1 <= MaxTasks * ChainSteps + 1
  <1>1. Cardinality(S) \in 0 .. MaxTasks /\ MaxTasks \in Nat
    BY TasksAreCounted, MaxTasksAssumption
  <1>2. /\ MaxTasks * ChainSteps \in Nat /\ Cardinality(S) * ChainSteps \in Nat
        /\ ChainSteps \in Nat
    BY <1>1, ChainStepsAreMany
  <1>3. CASE Cardinality(S) < MaxTasks
    BY <1>1, <1>2, <1>3, FewerChains
  <1>4. CASE Cardinality(S) = MaxTasks
    BY <1>2, <1>4
  <1> QED
    BY <1>1, <1>3, <1>4

LEMMA WaitingHasSteps ==
  ASSUME NEW t PROVE StepsOfJob([Idle EXCEPT !.pc = "waiting", !.task = t]) = ChainSteps
  <1> DEFINE j == [Idle EXCEPT !.pc = "waiting", !.task = t]
  <1>1. j.pc = "waiting" /\ j.todo = {}
    BY DEF Idle
  <1> HIDE DEF j
  <1>2. StepsOfJob(j) = ChainSteps
    BY <1>1, FS_EmptySet, ChainStepsAreMany DEF StepsOfJob, StepsOfChain
  <1> QED
    BY <1>2 DEF j

LEMMA DecidingHasSteps ==
  ASSUME NEW S
  PROVE  StepsOfJob([Idle EXCEPT !.pc = "deciding", !.todo = S]) = Cardinality(S) * ChainSteps + 1
  <1> DEFINE j == [Idle EXCEPT !.pc = "deciding", !.todo = S]
  <1>1. j.pc = "deciding" /\ j.todo = S
    BY DEF Idle
  <1> HIDE DEF j
  <1>2. StepsOfJob(j) = Cardinality(S) * ChainSteps + 1
    BY <1>1 DEF StepsOfJob, StepsOfChain
  <1> QED
    BY <1>2 DEF j

\* One chain is within the bound.
LEMMA ChainIsBounded == ChainSteps <= MaxTasks * ChainSteps + 1 /\ MaxTasks * ChainSteps \in Nat
  <1>1. MaxTasks \in Nat /\ MaxTasks >= 1
    BY MaxTasksAssumption
  <1>2. MaxTasks * ChainSteps \in Nat /\ 0 * ChainSteps = 0
    BY <1>1, ChainStepsAreMany
  <1>3. 0 * ChainSteps + ChainSteps <= MaxTasks * ChainSteps
    BY <1>1, FewerChains
  <1> QED
    BY <1>2, <1>3, ChainStepsAreMany

LEMMA RouteIsBounded ==
  ASSUME TypeOK, JobsAreBounded, NEW c \in Requests, Route(c)
  PROVE  StepsOfJob(job'[c]) <= MaxTasks * ChainSteps + 1
  <1>1. CASE RequestSprintChanges(c)
    <2>1. job'[c] = [Idle EXCEPT !.pc = "deciding", !.todo = Tasks]
      BY <1>1 DEF RequestSprintChanges, TypeOK
    <2>2. StepsOfJob(job'[c]) = Cardinality(Tasks) * ChainSteps + 1
      BY <2>1, DecidingHasSteps
    <2> QED
      BY <2>2, StartedIsBounded
  <1>2. ASSUME NEW t \in Tasks, Approve(c, t) PROVE StepsOfJob(job'[c]) <= MaxTasks * ChainSteps + 1
    <2>1. job'[c] = [Idle EXCEPT !.pc = "deciding", !.todo = {t}]
      BY <1>2 DEF Approve, TypeOK
    <2>2. StepsOfJob(job'[c]) = Cardinality({t}) * ChainSteps + 1
      BY <2>1, DecidingHasSteps
    <2> QED
      BY <2>2, StartedIsBounded
  <1>3. ASSUME NEW t \in Tasks, Dispatch(c, t) \/ DispatchByVoice(c, t) \/ ApproveInChat(c, t)
        PROVE  StepsOfJob(job'[c]) <= MaxTasks * ChainSteps + 1
    <2>1. job'[c] = [Idle EXCEPT !.pc = "waiting", !.task = t]
      BY <1>3 DEF Dispatch, DispatchByVoice, ApproveInChat, TypeOK
    <2> QED
      BY <2>1, WaitingHasSteps, ChainIsBounded
  <1> QED
    BY <1>1, <1>2, <1>3 DEF Route

LEMMA RoutesAreForFreeJobs ==
  ASSUME NEW c \in Requests, Route(c) PROVE Free(c)
  BY DEF Route, RequestSprintChanges, Dispatch, DispatchByVoice, Approve, ApproveInChat

\* What each request does, together.
Advances(c) ==
    /\ ChainStep(c) => StepsOfJob(job'[c]) < StepsOfJob(job[c])
    /\ Free(c) \/ job'[c] = job[c] \/ StepsOfJob(job'[c]) < StepsOfJob(job[c])

LEMMA NextAdvances ==
  ASSUME TypeOK, [Next]_vars, NEW c \in Requests PROVE Advances(c)
  <1>1. CASE ChainStep(c)
    BY <1>1, ChainStepAdvances DEF Advances
  <1>2. CASE ~ChainStep(c) /\ ~Free(c)
    BY <1>2, JobsAreLeftAlone, RoutesAreForFreeJobs, IdleIsOver, JobHasSteps DEF Advances
  <1>3. CASE ~ChainStep(c) /\ Free(c)
    BY <1>3 DEF Advances
  <1> QED
    BY <1>1, <1>2, <1>3

LEMMA SettingsStay ==
  ASSUME [Next]_vars PROVE UNCHANGED config
  BY DEF Next, ChainStep, ChainBegins, StepFindsCycle, StepFindsNoHandler, StepStarts,
         StepEnds, StepRaises, BlockingRaises, ChainEnds, ChainFollowsUp, ChainTooLong,
         StartDecided, Route, RequestSprintChanges, Dispatch, DispatchByVoice, Approve,
         ApproveInChat, Reject, Recover, DecideSprint, Restart, vars

LEMMA StepKeepsBound ==
  ASSUME TypeOK, TypeOK', JobsAreBounded, [Next]_vars PROVE JobsAreBounded'
  <1> SUFFICES ASSUME NEW c \in Requests PROVE StepsOfJob(job'[c]) <= MaxTasks * ChainSteps + 1
    BY DEF JobsAreBounded
  <1>1. /\ StepsOfJob(job[c]) <= MaxTasks * ChainSteps + 1
        /\ MaxTasks * ChainSteps \in Nat /\ StepsOfJob(Idle) = 0
    BY ChainIsBounded, IdleIsOver DEF JobsAreBounded
  <1>2. CASE Route(c)
    BY <1>2, RouteIsBounded
  <1>3. CASE Free(c) /\ ~Route(c)
    BY <1>1, <1>3, JobsAreLeftAlone, ChainStepAdvances
  <1>4. CASE ~Free(c)
    <2>1. CASE job'[c] = job[c]
      BY <1>1, <2>1
    <2>2. CASE ~(job'[c] = job[c])
      <3>1. StepsOfJob(job'[c]) < StepsOfJob(job[c])
        BY <1>4, <2>2, NextAdvances DEF Advances
      <3>2. StepsOfJob(job[c]) \in Nat
        BY <1>4, JobHasSteps
      <3>3. StepsOfJob(job'[c]) \in Int
        <4>1. UNCHANGED <<server, size, inSprint>> /\ Tasks' = Tasks /\ Jobs' = Jobs
          BY SettingsStay DEF config, Tasks, Jobs
        <4>2. job'[c] \in Jobs
          BY <4>1 DEF TypeOK
        <4> QED
          BY <4>2, AnyJobHasSteps
      <3> QED
        BY <1>1, <3>1, <3>2, <3>3
    <2> QED
      BY <2>1, <2>2
  <1> QED
    BY <1>2, <1>3, <1>4

LEMMA InitIsBounded ==
  ASSUME Init PROVE JobsAreBounded
  <1>1. StepsOfJob(Idle) <= MaxTasks * ChainSteps + 1
    BY IdleIsOver, ChainIsBounded
  <1>2. StepsOfJob([Idle EXCEPT !.pc = "waiting", !.task = 1]) <= MaxTasks * ChainSteps + 1
    BY WaitingHasSteps, ChainIsBounded
  <1>3. \A c \in Requests : job[c] \in {Idle, [Idle EXCEPT !.pc = "waiting", !.task = 1]}
    BY DEF Init
  <1> QED
    BY <1>1, <1>2, <1>3 DEF JobsAreBounded

\* Every background job comes to an end (dispatch_chain.py,
\* run_dispatch_followup_chain, and the loops over the tasks of a request): it
\* has MaxTasks * ChainSteps + 1 steps at most, each step it takes leaves it
\* fewer, and nothing that other jobs or operators do to its tasks gives it
\* one more.
THEOREM JobsComeToAnEnd ==
    Spec => [](\A c \in Requests : StepsOfJob(job[c]) <= MaxTasks * ChainSteps + 1) /\ JobsAdvance
  <1>1. Init => JobsAreBounded
    BY InitIsBounded
  <1>2. TypeOK /\ TypeOK' /\ JobsAreBounded /\ [Next]_vars => JobsAreBounded'
    BY StepKeepsBound
  <1>3. TypeOK /\ [Next]_vars =>
          [\A c \in Requests :
              /\ ChainStep(c) => StepsOfJob(job'[c]) < StepsOfJob(job[c])
              /\ Free(c) \/ job'[c] = job[c] \/ StepsOfJob(job'[c]) < StepsOfJob(job[c])]_vars
    BY NextAdvances DEF Advances
  <1>4. Spec => []JobsAreBounded
    BY <1>1, <1>2, TypeCorrect, PTL DEF Spec
  <1>5. Spec => JobsAdvance
    BY <1>3, TypeCorrect, PTL DEF Spec, JobsAdvance
  <1>6. JobsAreBounded => \A c \in Requests : StepsOfJob(job[c]) <= MaxTasks * ChainSteps + 1
    BY DEF JobsAreBounded
  <1>7. Spec => [](\A c \in Requests : StepsOfJob(job[c]) <= MaxTasks * ChainSteps + 1)
    BY <1>4, <1>6, PTL
  <1> QED
    BY <1>5, <1>7

=============================================================================
