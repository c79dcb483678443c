# Verification of the autonomous agent builder

TLA+ models of the parts of the builder that keep protocol state: what drives a
task from the backlog to done, the background chains and reservations behind it,
the sprint it belongs to, the git repository its work goes through, the chat in
which it is planned, and the onboarding that comes before all of them. Paths below
are relative to `src/autonomous_agent_builder/` of the repository unless they begin
with `docs/` or `tests/`.

* [Parts of the system](#parts-of-the-system)
* [Modules](#modules), how they correspond to the code and how they abstract
* [Runs](#runs), [bounds](#bounds), [fairness](#fairness)
* [What the runs found](#what-the-runs-found)
* [Proofs](#proofs)
* [Not modelled](#not-modelled), [plan](#plan)

Run a check from this directory with `tlc -config <cfg> <module>`, and the proofs with
`tlapm <module>Proofs.tla`, one call for each of the modules named `...Proofs`.
`PROJECT.json` has the machine-readable form: every run with its properties, the
line numbers that each definition translates, a faulty variant of the code for
every property, and the hazards that the properties are about.

## Parts of the system

The builder is one Python process: a FastAPI server (`api/app.py`, or
`embedded/server/app.py` for a server that lives in the project it builds) on one
asyncio event loop, over a SQLite or PostgreSQL database. Agents are SDK sessions
or child processes that a phase handler awaits, for minutes.

| Part | State it keeps | Operations | Hard behaviour | Correct when |
|---|---|---|---|---|
| Task vocabulary (`db/models.py`, `services/task_dispatch_policy.py`) | `tasks.status`, `tasks.phase` | `set_task_status` | several copies of the same status sets | the phase follows the status, and survives where recovery needs it |
| Orchestrator phases (`orchestrator/orchestrator.py`, `agent_run_lifecycle.py`) | task row, `agent_runs` rows | `dispatch` and one handler per status | a commit, then minutes of waiting for an agent; exceptions in between | no code passes to a pull request ungated or to done unverified |
| Gate feedback (`gate_feedback.py`, `quality_gate_runner.py`) | `retry_count` | autofix, new environment, remediator, escalation, cap | two ways count retries without a budget | the loop is bounded |
| Approvals (`approval_outcomes.py`, `services/approval_resolution.py`, `api/routes/gates.py`) | `approval_gates`, `approvals` | approve, reject, request changes, override; for a task or a sprint | a decision races the chain that asked for it | a gate moves its task from its own review only, and an approved task goes on |
| Dispatch chains (`services/dispatch_chain.py`, `api/routes/dispatch.py`, `embedded/server/routes/tasks.py`) | chain state in memory | start, step, follow up, stop at a cycle or at 100 steps | retries, failures inside failures | every chain ends, and only for a reason |
| Reservations (`services/dispatch_lock.py`) | two process-wide tables | reserve, release | released by whom, taken by whom | one agent per task, nothing left behind |
| Follow-up policy (`services/autonomous_orchestration.py`) | — (reads tasks of the feature, writes stalled sprints) | next task, provider-limit resumption, stall | a decision from rows other chains change | work that can go on does, and a stall is said |
| Recovery (`services/task_recovery.py`) | — | `POST /tasks/{id}/recover` | a decision from status, phase, text of the blocked reason, runs, gates and sprint | every stopped task has the right way back |
| Provider limits (`services/provider_limits.py`) | payload in `depends_on` | mark, parse reset, resume | time zones, resets already past | a limited task resumes where it stopped |
| Sprints (`orchestrator/sprint_lifecycle.py`, `services/sprint_execution.py`) | `sprints` row and its evidence | ship: merge, verify checkout, pull request | each of its steps may fail; its fields are read by different readers | a sprint is shipped only when its work is in main, and blocked only with a way out |
| Reconciliation (`services/run_reconciliation.py`) | — | four passes at server start | decides from evidence left by a dead process | a crash never costs or invents work |
| Workspaces (`orchestrator/workspace_integration.py`, `workspace/manager.py`, `sprint_maybe_ff_merge`) | git branches, work trees, one checkout | provision, commit, rebase, integrate, ship | every git command is awaited and nothing locks the checkout | no work is lost, what is reported as merged is merged, main waits for the sprint |
| Chat (`embedded/server/chat_state.py`, `routes/agent.py`) | run slots, futures of pending answers, subscribers, transcript rows | send, ask, answer, stream | late and double answers, callbacks in tasks of their own, the last stream leaving | one run per session, no answer lost, no turn out of reach |
| Onboarding (`onboarding.py`) | JSON state file, in-flight marker | start, retry, preflight, pipeline of phases | concurrent starts, a state saved over another, a file cut off | one pipeline, readiness earned, the operator's work kept |
| Voice operator (`services/voice_operator.py`) | pending confirmations | board dispatch, messages, answers to questions and approvals | acts beside the page on the same rows | as the chat and the routes it stands for |
| SDK session store (`db/session_store.py`) | transcript rows, write clock | append, load, list | concurrent appends | order and clock strictly increase |
| Supervisor (`runtime/supervisor.py`) | metadata of the server's port | start, stop, ensure port | pid reuse, foreign listeners | only the builder's own process is stopped |
| Tool permissions | JSON file of decisions | allow, expire | — | a decision is used until it expires |
| Streams, knowledge base, observability, gates, runtimes, realtime voice, CLI, frontend | — | — | adapters, reports, views | — |

How they interact: a route commits a decision and schedules a *chain* as a
background job. The chain loops: reserve the task, load it, check for a cycle, run
the *handler* of its status (`PHASE_DISPATCH`), choose a *follow-up*, commit,
publish, release. A handler that opens a review leaves an approval gate; the
gate's decision moves the task and schedules the next chain. A handler that ends
the build integrates the task's worktree into the sprint's branch, and the task of
a sprint that is done last ships the sprint. A task that stops off the path
(failed, blocked, capability limit) waits for *recovery*, which only rewrites its
row. Reconciliation runs before the server serves anything. A turn of the *chat*
plans sprints and starts chains; it asks questions that a page or a voice session
answers. *Onboarding* seeds the project's rows and must not do so again once the
operator works with them.

## Modules

| Module | What it models |
|---|---|
| `TaskStatus` | the vocabulary: statuses, phases, the sets and the table others consult, `PhaseAfter` = `set_task_status` |
| `TaskRecovery` | recovery as a pure decision: `RecoveryTarget(view)` for every status, phase, class of blocked reason, verifier run and sprint; the Board's predicate `TaskIsRecoverable` |
| `TaskProtocol` | what everybody may rely on of one task, whoever moves it and whatever fails: an abstract specification |
| `TaskLifecycle` | one task, its linked rows, its chain, and everybody around it: the core module; implements `TaskProtocol` |
| `DispatchChains` | several chains on the tasks of a feature at once: reservations, project slot, follow-ups and all routes that start chains |
| `SprintLifecycle` | one sprint with several tasks: shipment step by step, its evidence, stall, operators, the four reconcilers |
| `WorkLedger` | what the builder promises of the work done in a repository, without branches and commits: an abstract specification |
| `WorkspaceIntegration` | the git repository: worktrees and branches, integration of tasks, merge of sprints, one command at a time; implements `WorkLedger` |
| `TurnTaking` | what the hub of chat sessions promises of one session, without slots and callbacks: an abstract specification |
| `ChatRuns` | one chat session: the slot, turns and their callbacks, questions and answers, streams; implements `TurnTaking` |
| `Onboarding` | the onboarding of a repository: state file, marker, pipeline, database |
| `TaskLifecycleProofs`, `LifecycleHistoryProofs`, `DispatchProofs`, `SprintProofs`, `ChatRunsProofs`, `OnboardingProofs`, `WorkspaceProofs`, `WorkspaceTargetProofs` | theorems for all values of the constants |
| `MC...` | what TLC needs beside the above: state constraints and symmetry |

`TaskLifecycle` and `DispatchChains` both extend `TaskStatus`; the first also
extends `TaskRecovery`. `TaskLifecycle` instantiates `TaskProtocol`,
`WorkspaceIntegration` `WorkLedger` and `ChatRuns` `TurnTaking`, each under a
refinement mapping. The modules divide one system by what they take in full and what they
reduce to its outcome:

| | task | chain | sprint | git | operators |
|---|---|---|---|---|---|
| `TaskLifecycle` | every phase | one, in full | what tasks see of it | a choice | in full |
| `DispatchChains` | three statuses | many, in full | a flag, a gate | — | in full |
| `SprintLifecycle` | active, waiting, or how stopped | a step per task | in full | what main has | on the sprint, recovery |
| `WorkspaceIntegration` | rounds of work | the integration in it | its branch and its merge | in full | — |

### TaskLifecycle and the code

The variables `status`, `phase`, `retry_count`, `blocked_reason` are columns of
the task; `provider_limit` and `operator_decision` are the two payloads in its
`depends_on`; `pending`, `changesRequested` its approval gates; `verifier`,
`latestStale`, `scaffoldStale` what readers ask of its agent runs; `sprint` the
phase and the blocking evidence of its sprint. `chain`, `inflight`, `seen`,
`steps`, `attempt` are the chain in memory. `gated`, `reviewed` and `skipped` are
history variables; nothing in the program reads them.

A handler is one action up to its agent run (`PhasePlanning`, `PhaseDesign`,
`PhaseImplementation`, ...), because `run_agent_lifecycle` commits the handler's
writes together with a run row that says "running" (209-220) and only then waits.
What follows the agent is a second action (`PlannerEnds`, `DesignerEnds`, ...),
which ends the step: the final status, `choose_followup_after_dispatch`, the
commit, and either a queued next step or the end of the chain (`EndStepFrom`).
A handler without an agent is one action. Between the two, anything may happen:
approvals, a rejection, a restart, the passing of a reset time.

| Actions | Code |
|---|---|
| `PhasePlanning` .. `BuildVerifierEnds` | `Orchestrator._phase_*`, `_run_ui_preview`, `_run_workspace_scaffold_if_needed`, `run_phase_quality_gates`, `GateFeedbackHandler`, `run_feature_acceptance_gate`, `sprint_mark_shipped` |
| `HandlerRaises`, `DispatchFails`, `RetryLockedCommit` | `Orchestrator.dispatch`'s handler of exceptions; `_block_failed_dispatch`; the loop over a locked database |
| `DispatchCycle`, `ChainTooLong` | `mark_repeated_dispatch_state`, the limit of `run_dispatch_followup_chain` |
| `Dispatch`, `Approve`, `RequestPrChanges`, `Reject`, `Override`, `DecideSprintPr`, `Recover` | the routes and the outcome functions behind them |
| `LimitResets`, `SiblingResumes` | time; another task's chain in `_recover_ready_provider_limit_task` |
| `Restart` | the four reconcilers in the order of the start-up hook |

### DispatchChains and the code

`reserved` is `_RUNNING_DISPATCHES`, `slot` the project's entry of
`_PROJECT_ACTIVE_DISPATCHES`, and `job[c]` the background job of request `c`: where
it stands (`pc`), its task, the chains that wait in the same request (`todo`:
FastAPI runs the background tasks of a request one after the other), its chosen
follow-up and its `DispatchChainState`. Stages of a job are the awaits other code
can run in: *deciding* (an approval has committed and publishes), *waiting*,
*ready* (reserved, loads the task), *work* (the handler awaits), *tail*
(committed, publishes, still reserved). Both servers are modelled; only the
embedded one has the project slot, voice and chat.

### SprintLifecycle and the code

`phase`, `verification` and `evidence` are the sprint's `phase`,
`verification_status` and what any reader asks of its `verification_evidence`;
`step[t]` is how far the chain step on task `t` has come, `writer` the task whose
step holds SQLite's write lock. `main` and `proven` stand for the repository: whose
work main has, and whether its checkout was built after its last change.

| Actions | Code |
|---|---|
| `Begin`, `StepEnds`, `Integrate`, `ConcludeTask` | a step of a chain as the sprint sees it |
| `StepFails`, `ChainBlocks` | a failed step with `_maybe_mark_sprint_stalled`, and the ways to stop that do not call it |
| `BeginShipment`, `Merge`, `MergeFails`, `CheckoutBuilds`, `CheckoutFails`, `ShipWithoutRepo` | `sprint_mark_shipped` with a local repository, or with none |
| `BeginPullRequest`, `OpenPullRequest`, `PullRequestFails` | the same with a remote |
| `ShipmentRaises` | an exception: rollback, and the task fails |
| `DecidePullRequest`, `Resume`, `Recover`, `PlanAgain` | `apply_sprint_approval_outcome`, decisions on tasks, `recover_failed_task`, `_ensure_sprint_record` |
| `Restart` = `FailOrphaned`; `BlockUnintegrated`; `ClearStaleBlock`; `Reblock` | the four reconcilers, each a function from the rows it reads to the rows it writes |

### WorkspaceIntegration and the code

A commit is a record of what it changes and what it is based on, so that a rebase
makes another commit with the same change; a branch is the set of its commits.
`head` is the branch the project's one checkout is on, `tree[t]` and `dirty[t]` the
worktree of a task and its uncommitted rounds of work, `pc[t]` and `ship[s]` how far
`integrate_task_workspace` and `sprint_maybe_ff_merge` have come. Each action is one
awaited git command, or a run of commands that no other command can affect.
`made`, `claimed`, `shipped` and `mixed` are history: the work done, the work that
was reported as integrated, the sprints reported as merged, and whether
integrations with different target branches have overlapped.

| Actions | Code |
|---|---|
| `EnsureSprintBranch`, `CreateWorkspace`, `WorktreeGoes` | `WorkspaceManager`, provisioning of a phase |
| `BeginIntegration` .. `FastForward`, `Diverged` | `integrate_task_workspace`: check out, remove generated files, `commit_task_workspace_changes`, `git merge --ff-only` |
| `Rebase`, `RebaseStops`, `RebaseContinues`, `RebaseAborts` | `rebase_task_workspace_for_integration` and the conflict resolver |
| `FinishIntegration`, `IntegrationFails` | its returns |
| `BeginShipment` .. `FinishShipment`, `ShipmentFails` | `sprint_maybe_ff_merge` |
| `Restart` | the process ends between any two commands; a rebase is left as it is |

### ChatRuns and the code

The hub keeps its state per session, so one session is modelled. `held` and `run`
are the session's entry of `_run_tasks` (an entry that is `None` is a reservation),
`pending` and `future` its pending answers, `tabs` its subscribers. `turn` is the
coroutine of a turn, `asks` its question, `req` the requests that answer, each with
what it has read so far; `rows` are the question rows of the transcript. No method
of the hub awaits anything under its lock, and a free asyncio lock is taken without
a switch, so a method, or several in a row, is one action; every read or write of
the database is an action of its own.

| Actions | Code |
|---|---|
| `ReserveRun`, `StartFails`, `StartRun`, `DropRun` | `agent_chat` with `reserve_run`, `attach_run`, `attach_reserved_run`; the callback `_cleanup` of a run and the task `_drop` it starts |
| `Ask` .. `Cancelled`, `RuntimeDies`, `AskPermission`, `TurnEnds` | `_run_chat_turn`, `_authorize_chat_tool`, `handle_sprint_planning_turn`, the continuation after a delivery |
| `ReadRow`, `CheckPending`, `StoreAnswer`, `AnswerWaiter`, `ContinueWithAnswer`, `CannotContinue`, `ActOnScope` | `respond_to_chat_event`, and the voice operator's own version of it |
| `Register`, `ServeSnapshot`, `OpenFails`, `Leave`, `ReadHistory` | `chat_stream`, `get_chat_history` with its reconciliation of owners |

`TurnTaking` has the turns being taken and the claims to the next one. The mapping
takes the turns that are alive for the first and the callers that hold a
reservation for the second; slot, callbacks, questions and streams are hidden.

### Onboarding and the code

`file` is `onboarding-state.json`, which every request loads, changes in memory
(`copy`) and saves as a whole; `inflight` is `_pipeline_inflight`, `db` what the
project's tables hold. `StartForward`, `StartReverse`, `PreflightPasses` and
`PreflightFails` are `start_onboarding` cut at its only long await; `ResetPhases` is
the first half of `retry_onboarding`, whose second half is a start;
`BeginPipeline` .. `EndPipeline` are `_run_pipeline`, an action per phase.
`LoseFile` is a save cut off, or a file removed: it reads as a state in which
nothing has happened.

### Abstractions

* Text is a class: a blocked reason is one value per text the program writes, as
  recovery tells them apart by prefix or substring; a verifier's output is clean
  or not; sprint evidence is the stage it makes readers see.
* An agent's result, a gate's result, and outside `WorkspaceIntegration` git, the
  checkout and the workspace are nondeterministic choices over what the code
  distinguishes.
* `QUEUED` is left out: no code writes it and `dispatch()` remaps it.
* A reset time is none, unknown, future or due.
* `TaskLifecycle`: operators' calls interleave with agent runs, not with the short
  stretch between a step's read and its first commit; and one chain works on a
  task, other than in `DispatchChains`. Sprint tasks always skip planning and
  design, as sprint planning writes their orchestration policy
  (`services/sprint_execution.py:434-435`).
* `DispatchChains`: three statuses stand for the pipeline (pending,
  implementation, build_verify), a gate retry being part of implementation; the
  end of a step, from the handler's last write through the follow-up to the
  commit, is one action, and so are the reservations of one decision; the chains
  of one decision run in any order; a sprint covers one feature of one project;
  recovery goes to implementation, the exact target being `TaskRecovery`'s; the
  history variables are cleared by `Restart`.
* `SprintLifecycle`: the database is SQLite, whose single writer orders the steps
  that end tasks; under PostgreSQL's read committed two steps can each find the
  other's task not done, and the model does not cover that. The optimization
  agent after a shipment changes no row of tasks or sprints and is left out, as are
  directories that are no git repository at the moment of shipment.
* `WorkspaceIntegration`: a repository with a main branch, a first commit and no
  remote. Conflicts, and whether a command fails, are choices, with two commands
  never failing: `git branch` at provisioning, whose failure leaves nothing
  behind, and `git rebase --abort`. Files that git does not track (stashes, the
  snapshot of the runtime guidance) are left out; their commits, as other commits
  of the builder's own, are chores. Resolver attempts are not counted. A sprint's
  tasks do not work while it ships, since the task done last ships it. A shipment
  needs a round of work of each task.
* `ChatRuns`: `shutdown` (the flag `_closed`) and a crash are the same `Restart`. Identities
  of questions and answers are used once, those of turns again.
* `Onboarding`: the two phases of scanning and seeding work items are one, those
  of extracting and validating knowledge another, as nothing tells the two of a
  pair apart; a phase that is blocked counts as failed. The server is the embedded
  one, with one database.
* Finite-state bounds are constants and constraints: see [Bounds](#bounds).

## Runs

| Run | Asks | Result |
|---|---|---|
| `lifecycle_embedded` | Is one task's row consistent with its gates, runs, chain and history, through all failures? | holds, about 10,400 states |
| `lifecycle_api` | Does every chain come to rest, with retried commits and a limit in reach? | holds, about 151,000 states |
| `lifecycle_rejection` | Does a rejection of a sprint stand? | violated |
| `lifecycle_locked` | Is a step retried when the database was locked? | violated |
| `chains` | Are reservations returned, is a lone task guarded, does every job end? | holds, about 95,000 states |
| `chains_agents` | Does a task have one agent at a time? | violated |
| `chains_approval` | Is an approved task taken up? | violated |
| `sprint` | Is what is shipped delivered, what is stuck marked, what is blocked recoverable? | holds, about 300,000 states |
| `workspace` | Is work kept, merged when it is said to be, and in the right branch? | holds, about 1,030,000 states |
| `chat` | Does a session take its turns one by one, and do answers reach them? | holds, about 1,130,000 states |
| `chat_refusal` | Can a refused answer be given again? | violated |
| `onboarding` | Is there one pipeline, is readiness earned, is the operator's work kept? | holds, about 535,000 states |

What the passing properties say, by module.

`TaskLifecycle`:

* `RetriesBounded`: `retry_count` never exceeds `3 * max_retries`, although
  autofix counts without a budget. It is the cap in front of the gates that
  bounds it, and a remediator's last failure may not step over it.
* `PhaseTracksStatus`: the phase recovery resumes from is right, and still there
  when a task has left the path.
* `GateMatchesReview`: approvals move a task without looking at its status; that
  is sound because no gate outlives its review and no chain works beside it.
* `NoUnexpectedDeadEnd`: a task nobody works on can be dispatched, reviewed or
  recovered, except for the named kinds of block an operator must settle.
* `BoardOffersOnlyRecoverable`: the Board's list of reasons and recovery's agree.
* `HandoffIsCurrent`: a recorded question to the operator is dropped on every way
  out of blocked. Except one: changes requested of the sprint's pull request
  (`orchestrator/approval_outcomes.py:77-84`) put a task that waits for its operator
  to work and keep the record, which is cleared only where an agent's run succeeds
  (`orchestrator.py:569`). The property says so of tasks whose sprint was sent back.
* `ChainIsBounded`: the cycle guard bounds the chain.
* `DoneIsVerified`, `PrIsGated`: done needs a completed verifier run, a pull
  request needs gates passed after the last code-gen run.
* `ProtocolIsKept` (the refinement of `TaskProtocol`): a task leaves a review only by
  its reviewer's decision; it is stopped only by the chain at work, a rejection or a
  start of the server; it goes on from a stop only by an operator, a deadline that
  has passed or changes requested of its sprint; and it is done only with its code
  gated and reviewed, or with an operator's waiver. A waiver exists: a task that
  failed while its pull request was being made recovers to build_verify, past the
  review. No document forbids that, so the protocol names recovery as the one way.
* `ChainComesToRest`: every chain ends.

`DispatchChains`:

* `SoleTaskIsGuarded`: where chains have nothing else to follow up to and all
  routes reserve, the lock does what it says. The condition is finding 1
  turned around: `OneAgentPerTask` fails without it.
* `NothingLeaks`: reservations and the slot are returned, but on two failure
  paths, which the history variables `stranded` and `slotLost` name: an exception
  that escapes while blocking a task ends the other chains of its request, and a
  step that fails before it has loaded its task does not know its project.
* `JobsEnd`: background jobs end.

`SprintLifecycle`:

* `ShippedIsDelivered`: a local sprint that is shipped with all tasks done has
  every task's work in main and a checkout that was built since, through failures,
  recoveries and what starts of the server re-decide.
* `VerdictMatchesPhase`: `phase` and `verification_status` are written in ten places
  and read by different readers; for a local sprint they agree.
* `BlockedHasWayOut`: recovery takes a done task back by the *text* of the sprint's
  merge error and by its source; some task of a blocked sprint always qualifies,
  goes on, or was rejected by somebody.
* `StallIsMarked`: when nothing goes on and work is left, the sprint says blocked
  (the code's P23), unless tasks were stopped by one of the ways that look for no
  stall (a cycle, a rejection, a restart), which `unseen` names.
* `LastTaskDecides`: two tasks ending together do not leave a sprint in
  implementation with nothing to do; a crash, or a plan made again, can
  (`undecided`).

`WorkspaceIntegration`:

* `NothingIsLost`: no step takes a commit from main, or a change from any branch,
  whatever is checked out by then.
* `LedgerIsKept` (the refinement of `WorkLedger`): work can be lost with its worktree
  until it is committed; from then on it moves one way, into shared branches and
  into main, and it is reported as integrated only where it is merged.
* `ClaimedIsInTarget`: what is reported is in the branch it was meant for, unless
  integrations into different branches have overlapped.
* `ShippedIsInMain`: a sprint reported as merged has all its work in main.
* `MainWaitsForShipment`: main gets none of a sprint's work before all of it is
  claimed, where one sprint has the repository to itself.

`ChatRuns`:

* `OneTurn`, and `TurnsAreTaken` (the refinement of `TurnTaking`): whatever
  callbacks of earlier turns are outstanding, one turn, or one caller about to
  start one.
* `WaiterIsReachable`: a turn that waits can be woken, although entries are dropped
  by answers, leaving streams and dying runtimes.
* `AcceptedIsHeard`: an answer accepted for a live waiter reaches that turn, and no
  other answer does, unless the runtime died under the question.
* `LeftQuestionIsReleased`: a question that was seen does not pin its turn once the
  last stream has left (the code's IMP-040). A stream whose snapshot fails keeps
  its queue registered; the property counts it as there.
* `SessionIsFreed`: a reservation is used or given back, a slot is freed.

`Onboarding`:

* `OnePipeline`: starts and retries overlap, one of them through a preflight of
  seconds; one pipeline runs and the marker stands for it.
* `ReadyIsEarned`: ready means that every phase passed and the project exists.
* `WorkIsKept`: a pipeline in reverse mode clears the database; the operator's work
  is cleared only if the record of the finished onboarding was lost, with the file
  or under a start that had loaded the state before.
* `PipelineSettles`: a pipeline ends and gives the marker back.

Every property of a passing run is shown to depend on the code by a mutant: a
faulty variant of one operator (`..._NoCap`, `..._Forgetful`, ...), defined next
to the operator it replaces, under which TLC finds the property violated.

### Bounds

* `MaxRetries` 2, the shipped default; the violations need only 1.
* `MaxSteps` 100 (shipped) where the limit must be out of reach, 4 where it must
  be reached; a chain takes at most 12 steps in `lifecycle_embedded`.
* `LockAttempts`: 1 is the embedded server, which does not retry; 2 is enough for a
  first try and a retry (the API server has 5; every further retry repeats the
  second, which already blocks).
* Nothing bounds the number of operations: every variable of `TaskLifecycle`,
  `DispatchChains` and `Onboarding` is finite, and the runs explore the full state
  space of their constants.
* `chains`: `MaxTasks` 2 and two requests: two chains are the least that can
  race and two tasks the least that follow up. The constraint
  `OneJobInLargeFeatures` explores two jobs on features of one task and one job on
  features of two, which keeps liveness checking short; the two runs that find
  violations there do without it.
* `sprint`: two tasks, of which either can be the last; `TwoGates` bounds the
  pull requests that wait for a decision.
* `workspace`: two tasks, two sprints, two rounds of work and one chore: the least
  with two targets, a divergence and work after a claim. `ThreeChanges` bounds the
  commits; where the two tasks have different targets, to one round on each and no
  chore. The proofs have no such bound. Tasks, sprints and rounds are symmetric,
  and the run has no liveness property.
* `chat`: two turns, callers, questions, answers and one stream: an old turn's
  callback beside a new turn, and two answers racing. `ThreeOfQuestionsAndAnswers`
  explores two answers to one question or one answer while two are open.
* `onboarding`: two concurrent starts, one in its preflight while the other runs.

### Fairness

Weak fairness only, and only of what the event loop or a deadline guarantees:

* `HandlerStep` and `AgentStep` in `TaskLifecycle`, `ChainStep(c)` for each job in
  `DispatchChains`: the loop runs a ready coroutine, and an agent run ends because
  `run_agent_lifecycle` passes an inactivity deadline to the runtime
  (`orchestrator/agent_run_lifecycle.py:359-375`). An agent that keeps emitting
  output for ever is outside this assumption, and then its chain does not end.
* `CallerStep(c)` and `DropRun(t)` in `ChatRuns`: a caller that has reserved the
  session, and the callback of a turn that has ended. Not of turns: nothing
  promises that a question is answered.
* `Pipeline(s)` in `Onboarding`: the pipeline's task is scheduled again after each
  of its awaits.

No fairness is assumed of operators, faults, resets or restarts.
`SprintLifecycle` and `WorkspaceIntegration` make no liveness claim.

## What the runs found

1. **Two agents on one task** (`chains_agents`). The check at the head of a step,
   `not is_dispatch_reserved(id) and not reserve_dispatch(id)`, never refuses: if
   the task is reserved, by whomever, the step goes on. Chains started without a
   reservation (sprint planning, "continue" in the chat) and follow-ups then run
   beside the chain that holds it. `docs/quality-gate/approval.md` lists duplicate
   agents as a failure.
2. **An approval that starts nothing** (`chains_approval`). A gate can be approved
   once committed, while its chain still publishes and holds the reservation. The
   approval's `reserve_dispatch` is refused silently, and the task waits.
3. **A rejected sprint ships** (`lifecycle_rejection`). Its evidence still says
   "passed" and the rejection is not among the blocking keys, so the next start of
   the server marks it shipped.
4. **A locked commit blocks the task** (`lifecycle_locked`). The retry finds its
   own first try in the chain state and reports a cycle.
5. **A refused answer is a dead end** (`chat_refusal`). An answer to a question
   that no turn waits for is stored, and its row marked answered, before the turn
   that would continue with it is refused because another one runs. A test says
   that this case must not be a silent dead end; the retry is refused as well, as
   the question is no longer pending.

Observations that contradict no document, and so are conditions or exceptions of
properties instead of findings:

* Nothing locks the project's checkout. An integration merges into whatever is
  checked out when its merge runs; with two sprints at work the merge can land on
  the other's branch (`mixed`). A task without a sprint never checks out main.
* A sprint's branch forks from what is checked out. One that is forked while
  another sprint's branch is out ships that sprint's unshipped work with its own;
  `MainWaitsForShipment` is therefore conditioned on one target. The comment at
  `orchestrator.py:925-927` speaks of resetting a stale branch with `git branch -f`,
  while `WorkspaceManager` keeps it.
* A crash while the conflict resolver works leaves the worktree inside a rebase.
  Later integrations skip its commit and cannot check its branch out; the task
  stays so until its worktree goes.
* Some early returns of the integration and of the sprint's merge leave without
  restoring the snapshot of the runtime guidance, and stashes are never popped.
* The second of two answers to one question overwrites the first one's row, even
  if the turn has heard the first.

Smaller ones are hazards in `PROJECT.json` with a note.

## Proofs

TLC's runs show the properties on small instances; the theorems show them for every
value of the constants. All of them are proved by `tlapm` to the last leaf.

| Module | Theorems | What they say |
|---|---|---|
| `TaskLifecycleProofs` | `LifecycleInvariant` | the inductive invariant of a task and its chain |
| | `TypeCorrect`, `RetriesAreBounded`, `GatesMatchReviews`, `PullRequestsAreGated`, `ChainsAreBounded`, `BoardOffersAreHonoured` | the invariants of `lifecycle_embedded` of the same meaning |
| | `ChainsAdvance` | `Spec => ChainAdvances`: every step of a chain's work leaves fewer, at most `21 * (RetryCap + 1) + 2`, and nobody else gives it more |
| | `StepLimitUnreached` | if `MaxSteps > 7 * (RetryCap + 1)`, no chain of one task hits its limit; with the shipped 2 and 100, 49 < 100 |
| `LifecycleHistoryProofs` | `HistoryInvariant` | what the row remembers of the task's past |
| | `FinishedTasksAreVerified`, `PhasesTrackStatuses`, `HandoffsAreCurrent`, `NoDeadEnds` | the other invariants of that run |
| | `ProtocolIsImplemented` | `Spec => ProtocolIsKept`: `TaskLifecycle` implements `TaskProtocol` |
| | `PromiseIsKept` | what `TaskProtocol` promises of every state holds of the task's row and gates |
| `DispatchProofs` | `DispatchInvariant`, `TypeCorrect`, `SoleTasksAreGuarded`, `NothingIsLeaked` | the invariants of `chains`, for any number of tasks, requests and steps |
| | `JobsComeToAnEnd` | `Spec => JobsAdvance`: every step of a job leaves fewer, and none of anybody else gives it more |
| `SprintProofs` | `SprintInvariant`, `TypeCorrect`, `ShippedSprintsAreDelivered`, `VerdictsMatchPhases`, `FailuresAreNotSilent`, `LastTaskConcludes`, `BlockedSprintsHaveAWayOut` | the invariants of `sprint`, for any number of tasks |
| `ChatRunsProofs` | `ChatInvariant`, `TypeCorrect`, `OneTurnAtATime`, `WaitersAreReachable`, `AcceptedAnswersAreHeard`, `LeftQuestionsAreReleased` | the invariants of `chat`, for any turns, callers, questions, answers and streams |
| | `Implementation` | `Spec => TurnsAreTaken`: `ChatRuns` implements `TurnTaking` |
| | `BusySessionsHaveOwners` | `Spec => []SlotHasOwner`: a busy session without a turn has somebody about to free it or to start one |
| `OnboardingProofs` | `OnboardingInvariant`, `TypeCorrect`, `OnePipelineAtATime`, `ReadinessIsEarned`, `OperatorsWorkIsKept` | the invariants of `onboarding`, for any number of concurrent starts |
| | `PipelinesComeToAnEnd` | `Spec => PipelineAdvances`: every step of a pipeline leaves fewer, and the last gives the marker back |
| `WorkspaceProofs` | `WorkspaceInvariant`, `TypeCorrect`, `ClaimedWorkIsMerged`, `MainWaits`, `NoWorkIsLost` | the invariants and the action property of `workspace`, for any tasks, sprints and rounds of work |
| | `LedgerIsImplemented` | `Spec => LedgerIsKept`: `WorkspaceIntegration` implements `WorkLedger` |
| `WorkspaceTargetProofs` | `TargetInvariant`, `RebaseInvariant`, `ClaimedWorkIsInItsTarget`, `ShippedWorkIsInMain` | the two invariants of `workspace` that follow work to a branch |

### Assumptions

Those of the modules: `MaxRetries` is a natural number, `LockAttempts` and `MaxSteps`
are positive, `EmbeddedServer` is a Boolean, and values that stand for "nothing" or
for the main branch differ from the identities they are compared with. TLC evaluates
them in the runs. Sets of tasks, requests, turns or rounds need not be finite where
the modules do not say so.

### Arguments

None of the properties is inductive alone. Every module has an invariant made of
named parts, one lemma per action or group of actions that says the invariant is
kept, and a theorem that composes them. The invariants were checked with TLC on the
runs' instances before they were proved.

*Lifecycle.* *Gates match reviews* needs that a chain at work owns a task at work
(`ChainWorks`: the status is the one the agent was started in, unless changes
requested of the sprint have sent the task back under it), for otherwise a step could
move the task under a pending gate; that a task has at most one gate of its own
(`OneReview`); and that sprint tasks have none (`KindFits`). *Pull requests are gated*
must follow a task through the statuses from which it can come back to
`pr_creation`: a provider limit resumes from the phase, so no limit may be hit in the
integration phase (`LimitsBeforeReview`); a recovery uses the phase of a failed task;
a reconciler that takes a finished task back must leave its phase complete
(`TakenBackWasDone`), or recovery would lead it there. *Chains are bounded* needs the
retry bound, since the states seen are pairs of a status and a retry count:
`seen` lies in a set of `7 * (RetryCap + 1)` pairs, and the steps taken never exceed
its size, which is also the bound of `StepLimitUnreached`.

*History.* A second invariant, proved on top of the first, says for each status and
each reason of a block what the task has been through: the phase of a task that has
left the path still tells whether it was gated, reviewed and verified, so that what
recovery does with it can be accounted for.

*Dispatch.* Every reservation, and the project's slot, belongs to a job that stands
where it, or a chain waiting behind it, still gives it back, or to a failure the
history variables name (`ReservationsAreHeld`, `SlotIsOwed`). A lone task whose
routes all reserve has then one chain at most, and that chain holds the reservation
(`SoleChain`).

*Sprint.* A step that ends a task holds the database's write lock from its count of
unfinished tasks to its commit, so the other tasks stay done under it, and main with
them (`WriterIsLast`). Each reconciler is a function from rows to rows and keeps what
is known of a local sprint's row (`LocalOK`): shipped exactly if passed, blocked
exactly if its verification is, and with a cause for its being blocked.

*Chat.* The slot always stands for the live turn or for the caller that claims the
next one, and a callback frees only the slot of its own turn. The same facts give the
refinement: each step of the hub takes a turn, claims one, gives one back, or
stutters in `TurnTaking`.

*Onboarding.* The marker is set exactly while a pipeline or a start past its checks
exists, as no await lies between the check and the mark; the file is ready only if
the pipeline that wrote it had passed every phase.

*Workspaces.* Merges and rebases put work on a branch that was on another, and no
command takes any off one; what is claimed was on the branch that was merged. For the
target, `TInv` adds that while integrations have not overlapped (`~mixed`) the branch
checked out by an integration's first command is still out when it merges. A
worktree that a crash has left in a rebase may hold work that is not committed, and
its branch can be tried again without it; that this is never reported needs more. Such
a branch had diverged from its target, and `RInv` shows that it stays apart from it
until it is rebased, whatever is committed to the target, merged into it or rebased
onto main meanwhile (`StaysApart`). Two facts carry that. A task's branch shares with
others only what its target has (`Own`), so a target that is fast-forwarded to another
branch cannot overtake it. And all lines of commits fit each other (`Consistent`):
within one, every commit is based on all before it (`Linear`); between two, no works
stand in opposite orders (`SameOrder`), what was committed at once stays together
(`Together`), and a work is based on nothing that the other line or main is without
(`Grounded`). So a line that is rebased onto main without gaining work is the line it
was (`SameAsMain`, `RebasedOnPart`). A rebase onto main keeps all this, and one onto a
sprint's branch does because it moves only work that no other branch has.

*Refinements.* Under each mapping every step is a step of the abstract module or
leaves its variables alone. For the task the invariants of *Lifecycle* and *History*
say which place a status stands for, who can move it from there, and that the code
was gated and reviewed wherever the protocol wants it so. For the repository the
entries of the ledger are computed from the branches (`Entries`): what is committed is
what was done and is not only in a worktree, so that a merge or a rebase can change
nothing but what the shared branches have; the order of the entries (`InOrder`) gives
the upper bound of every step, and `BranchesKeep` the lower one.

*Progress.* A liveness property rests on a measure that only falls, and on fairness.
The first half is proved: `StepsLeft` counts the states a chain has not seen and the
agents at work, `StepsOfJob` the steps left to a job and the chains that wait in its
request, `Rank` the phases left to a pipeline, and `SlotHasOwner` names the one who is
about to free a session. The bounds hold under all interleavings with other chains,
operators, faults and restarts, for every value of the constants.

### Model-checked only

The four liveness properties themselves, `ChainComesToRest`, `JobsEnd`,
`SessionIsFreed` and `PipelineSettles`: that a chain, a job, a caller or a pipeline
that is not at its end can take a step is a fact about `ENABLED`, for which the
prover has no rules, and so none for fairness. Every other property of the passing
runs is stated by a theorem. No model needs induction over data or a recursive
operator, which would be out of its reach as well.

## Not modelled

Parts that keep state but are left out:

* The SDK session store: its docstring says that nothing uses it yet.
* The supervisor: its decisions are about processes and ports of the host.
* Tool permissions: a cache of decisions with an expiry, read and written by one
  request at a time.
* Voice confirmations and digests, which end in the dispatches and answers that
  `DispatchChains` and `ChatRuns` model.
* The on-demand scaffold route (`embedded/server/routes/tasks.py:171-215`), an agent
  run in a task's workspace beside any chain and without a reservation.

Details of modelled parts that are left out: the parsing of reset hints (date
arithmetic; what it yields is a choice), the contents of a sprint's plan, the save of
onboarding state by `builder init`, workspaces that are plain directories, a
repository without a commit, files git does not track, and PostgreSQL's isolation in
`SprintLifecycle`.

Parts without protocol state that the others depend on: dashboard streams, agent
runtimes, quality gate tools, knowledge base, observability, realtime voice, command
line and frontend. They are adapters, reports and views, whose results are choices in
the models where something depends on them. They make up most of the lines of the
repository, which is why the models translate a small share of these.

## Plan

1. `TaskProtocol` as the promise of every task of `DispatchChains` too.
2. The on-demand scaffold route and the use of the project's slot in
   `DispatchChains`, with several features of a project.
3. `SprintLifecycle` under read committed isolation.
4. Voice confirmations beside `ChatRuns`.
5. The supervisor's ownership of its port, and the session store once it is used.
