--------------------------- MODULE TaskLifecycle ----------------------------
(***************************************************************************)
(* One task driven through the phases of the orchestrator by dispatch      *)
(* chains, with the operator, the provider and the server around it.       *)
(*                                                                         *)
(* A dispatch opens a chain.  Each step of the chain reads the task, runs  *)
(* the handler of its status, commits, and asks for a follow-up.  A handler *)
(* that needs an agent commits the working status with the agent's run row *)
(* and then waits, possibly for minutes: that is the only place where the  *)
(* model lets other actors move between the parts of a step.  The rest of  *)
(* a handler is one action.                                                *)
(*                                                                         *)
(* The task is driven by one chain at a time here.  Several chains, the    *)
(* reservation of tasks and the project slot are in DispatchChains.        *)
(***************************************************************************)
EXTENDS TaskRecovery, Naturals, FiniteSets

CONSTANTS
    MaxRetries,      \* settings.gate.max_retries
    LockAttempts,    \* tries of a step whose commit finds the database locked
    MaxSteps,        \* MAX_DISPATCH_FOLLOWUP_STEPS
    EmbeddedServer   \* TRUE: embedded/server/app.py, FALSE: api/app.py

ASSUME MaxRetriesAssumption == MaxRetries \in Nat
ASSUME LockAttemptsAssumption == LockAttempts \in Nat \ {0}
ASSUME MaxStepsAssumption == MaxSteps \in Nat \ {0}
ASSUME EmbeddedServerAssumption == EmbeddedServer \in BOOLEAN

\* The gate retries after which a task is blocked for good.
RetryCap == 3 * MaxRetries

Agents == {"planner", "designer", "ui-prototyper", "scaffold", "code-gen",
           "gate-remediator", "pr-creator", "feature-verifier", "build-verifier"}

\* The gate a review status waits on.
ReviewStatus == [g \in {"planning", "ui_preview", "pr"} |->
                    IF g = "pr" THEN "review_pending" ELSE "design_review"]

GateTypes == DOMAIN ReviewStatus \cup {"sprint_pr"}

\* What the task sees of its sprint: phase and blocking evidence.  A shipped
\* sprint is unproven until its checkout was verified for it.
SprintStages == {"open", "pr_review", "shipped", "shipped_unproven", "rejected", "blocked",
                 "merge_blocked", "checkout_blocked"}

Shipped == {"shipped", "shipped_unproven"}

VARIABLES
    \* The task row.
    status, phase, retry_count, blocked_reason,
    provider_limit,      \* none, or when the recorded limit resets
    operator_decision,   \* depends_on holds an operator-decision handoff
    \* Rows that hang off the task.
    pending,             \* types of its pending approval gates
    changesRequested,    \* some pr gate was resolved with request_changes
    verifier,            \* the latest completed build-verifier run
    latestStale,         \* its latest run row says running and nothing runs
    scaffoldStale,       \* the same of some scaffold row
    sprint,              \* stage of its sprint, as the task sees it
    \* The dispatch chain in the server's memory.
    chain,               \* idle, queued (a step is due), running (agent waits)
    inflight,            \* the agent that runs
    seen, steps,         \* DispatchChainState, and the steps taken
    attempt,             \* failed tries of this step's commit
    \* What kind of task it is.
    kind,
    \* History, since the last code-gen run started: the gates passed, a review
    \* approved, and which of the two a recovery let the task go around.
    gated, reviewed, skipped

row == <<status, phase, retry_count, blocked_reason, provider_limit, operator_decision>>
linked == <<pending, changesRequested, verifier, latestStale, scaffoldStale, sprint>>
chainVars == <<chain, inflight, seen, steps, attempt>>
history == <<gated, reviewed, skipped>>
vars == <<row, linked, chainVars, kind, history>>

\* A sprint task skips planning and design and is reviewed with its sprint,
\* if the project has a remote.
Kinds == {"plain", "ui_preview", "sprint_local", "sprint_remote"}
InSprint == kind \in {"sprint_local", "sprint_remote"}

Init ==
    /\ status = "pending" /\ phase = "planning"
    /\ retry_count = 0 /\ blocked_reason = "none"
    /\ provider_limit = "none" /\ operator_decision = FALSE
    /\ pending = {} /\ changesRequested = FALSE /\ verifier = "none"
    /\ latestStale = FALSE /\ scaffoldStale = FALSE /\ sprint = "open"
    /\ chain = "idle" /\ inflight = "none"
    /\ seen = {} /\ steps = 0 /\ attempt = 0
    /\ kind \in Kinds
    /\ gated = FALSE /\ reviewed = FALSE /\ skipped = {}

-----------------------------------------------------------------------------
(* The frame of a chain step.                                              *)

OpenChain == chain' = "queued" /\ seen' = {} /\ steps' = 0 /\ attempt' = 0

StepKey == <<status, retry_count>>

\* A step is due and within the chain's limit, which a retry does not check.
StepDue == chain = "queued" /\ (steps < MaxSteps \/ attempt > 0)

\* The step finds the task in a state its chain has not seen.
FreshStep == StepDue /\ StepKey \notin seen

\* Faulty variant: the chain forgets where it has been.
Visited_Forgetful == seen

\* The chain's bookkeeping with the present step in it.  A step tried again
\* after a locked commit is not counted twice.
Visited == IF chain = "queued" THEN seen \cup {StepKey} ELSE seen
StepsTaken == IF chain = "queued" /\ attempt = 0 THEN steps + 1 ELSE steps

CloseChain == chain' = "idle" /\ inflight' = "none" /\ seen' = {} /\ steps' = 0 /\ attempt' = 0

\* The handler leaves status s and reason r in a row that is in phase p;
\* choose_followup_after_dispatch resumes a task whose provider limit has
\* already passed and goes on with a task that can go on; the step commits.
EndStepFrom(p, s, r, limit) ==
    LET before == PhaseAfter(s, p)
        resume == s = "capability_limit" /\ limit = "due"
        next == IF resume THEN ProviderLimitTarget[before] ELSE s
    IN  /\ status' = next
        /\ phase' = PhaseAfter(next, before)
        /\ blocked_reason' = IF resume THEN "none" ELSE r
        /\ provider_limit' = IF resume THEN "none" ELSE limit
        /\ \/ /\ next \in DISPATCHABLE_STATUSES
              /\ chain' = "queued" /\ inflight' = "none"
              /\ seen' = Visited /\ steps' = StepsTaken /\ attempt' = 0
           \/ next \notin DISPATCHABLE_STATUSES /\ CloseChain

EndStep(s, r) == EndStepFrom(phase, s, r, provider_limit)

\* The handler commits status s with the run row of agent a, and waits for it.
StartAgent(a, s) ==
    /\ status' = s /\ phase' = PhaseAfter(s, phase)
    /\ chain' = "running" /\ inflight' = a
    /\ seen' = Visited /\ steps' = StepsTaken
    /\ latestStale' = FALSE
    /\ UNCHANGED attempt

AgentEnds(a) == chain = "running" /\ inflight = a

\* How the handlers of planner, designer, ui-prototyper and code-gen treat an
\* agent that did not deliver.
AgentStops ==
    \/ EndStep("failed", "error") /\ UNCHANGED operator_decision
    \/ /\ \E r \in {"impl_decision", "other_decision"} : EndStep("blocked", r)
       /\ operator_decision' = TRUE
    \/ /\ \E limit \in {"unknown", "future", "due"} :
              EndStepFrom(phase, "capability_limit", "limit", limit)
       /\ UNCHANGED operator_decision

-----------------------------------------------------------------------------
(* Phase handlers.                                                         *)

PhasePlanning ==
    /\ FreshStep /\ status \in {"pending", "planning"}
    /\ \/ /\ InSprint
          /\ EndStep("implementation", blocked_reason)
          /\ UNCHANGED latestStale
       \/ /\ ~InSprint
          /\ StartAgent("planner", "planning")
          /\ UNCHANGED <<blocked_reason, provider_limit>>
    /\ UNCHANGED <<retry_count, operator_decision, pending, changesRequested, verifier,
                   scaffoldStale, sprint, kind, history>>

PlannerEnds ==
    /\ AgentEnds("planner")
    /\ \/ AgentStops /\ UNCHANGED pending
       \/ /\ EndStep("design_review", blocked_reason)
          /\ pending' = pending \cup {"planning"}
          /\ UNCHANGED operator_decision
    /\ UNCHANGED <<retry_count, changesRequested, verifier, latestStale, scaffoldStale,
                   sprint, kind, history>>

PhaseDesign ==
    /\ FreshStep /\ status = "design"
    /\ \/ /\ InSprint
          /\ EndStep("implementation", blocked_reason)
          /\ UNCHANGED latestStale
       \/ /\ ~InSprint
          /\ StartAgent("designer", "design")
          /\ UNCHANGED <<blocked_reason, provider_limit>>
    /\ UNCHANGED <<retry_count, operator_decision, pending, changesRequested, verifier,
                   scaffoldStale, sprint, kind, history>>

DesignerEnds ==
    /\ AgentEnds("designer")
    /\ \/ AgentStops /\ UNCHANGED latestStale
       \/ /\ kind = "ui_preview"
          /\ StartAgent("ui-prototyper", "design")
          /\ UNCHANGED <<blocked_reason, provider_limit, operator_decision>>
       \/ /\ kind # "ui_preview"
          /\ EndStep("implementation", blocked_reason)
          /\ UNCHANGED <<latestStale, operator_decision>>
    /\ UNCHANGED <<retry_count, pending, changesRequested, verifier, scaffoldStale,
                   sprint, kind, history>>

UiPrototyperEnds ==
    /\ AgentEnds("ui-prototyper")
    /\ \/ AgentStops /\ UNCHANGED pending
       \/ /\ EndStep("design_review", blocked_reason)
          /\ pending' = pending \cup {"ui_preview"}
          /\ UNCHANGED operator_decision
    /\ UNCHANGED <<retry_count, changesRequested, verifier, latestStale, scaffoldStale,
                   sprint, kind, history>>

\* From here on earlier gate results and reviews say nothing about the code.
StartCodeGen ==
    /\ StartAgent("code-gen", "implementation")
    /\ gated' = FALSE /\ reviewed' = FALSE /\ skipped' = {}

\* A missing workspace blocks the task; a workspace without a detectable
\* language, or a recovery that forces it, has the scaffold agent run first.
PhaseImplementation ==
    /\ FreshStep /\ status = "implementation"
    /\ operator_decision' = FALSE
    /\ \/ EndStep("blocked", "scaffold_failed") /\ UNCHANGED <<latestStale, history>>
       \/ /\ StartAgent("scaffold", "implementation")
          /\ UNCHANGED <<blocked_reason, provider_limit, history>>
       \/ StartCodeGen /\ UNCHANGED <<blocked_reason, provider_limit>>
    /\ UNCHANGED <<retry_count, pending, changesRequested, verifier, scaffoldStale, sprint,
                   kind>>

ScaffoldEnds ==
    /\ AgentEnds("scaffold")
    /\ \/ EndStep("blocked", "scaffold_failed") /\ UNCHANGED <<latestStale, history>>
       \/ StartCodeGen /\ UNCHANGED <<blocked_reason, provider_limit>>
    /\ UNCHANGED <<retry_count, operator_decision, pending, changesRequested, verifier,
                   scaffoldStale, sprint, kind>>

CodeGenEnds ==
    /\ AgentEnds("code-gen")
    /\ \/ AgentStops
       \/ EndStep("quality_gates", blocked_reason) /\ UNCHANGED operator_decision
    /\ UNCHANGED <<retry_count, linked, kind, history>>

\* A failing gate that deterministic means may cure: autofix counts a retry
\* whatever the count, a fresh environment only within the retry budget.
Remediate ==
    /\ retry_count' = retry_count + 1
    /\ EndStep("quality_gates", blocked_reason)

EscalateToCapabilityLimit == EndStep("capability_limit", "gate_feedback")

\* Faulty variant: a task out of retries goes on.
QualityGateCap_GoesOn ==
    /\ FreshStep /\ status = "quality_gates" /\ retry_count >= RetryCap
    /\ EndStep("pr_creation", "none")
    /\ UNCHANGED <<retry_count, operator_decision, linked, kind, history>>

QualityGateCap ==
    /\ FreshStep /\ status = "quality_gates" /\ retry_count >= RetryCap
    /\ EndStep("blocked", "gate_cap")
    /\ UNCHANGED <<retry_count, operator_decision, linked, kind, history>>

\* The gates pass, and so do the task's documents and the documentation gate.
QualityGatesPass ==
    /\ FreshStep /\ status = "quality_gates" /\ retry_count < RetryCap
    /\ EndStep("pr_creation", "none")
    /\ retry_count' = 0
    /\ gated' = TRUE
    /\ latestStale' \in {latestStale, FALSE}   \* a documentation run may be recorded
    /\ UNCHANGED <<operator_decision, pending, changesRequested, verifier, scaffoldStale,
                   sprint, kind, reviewed, skipped>>

QualityGatesBlock ==
    /\ FreshStep /\ status = "quality_gates" /\ retry_count < RetryCap
    /\ \E r \in {"workspace", "doc_requirements", "doc_gate", "gate_infra"} :
           EndStep("blocked", r)
    /\ latestStale' \in {latestStale, FALSE}
    /\ UNCHANGED <<retry_count, operator_decision, pending, changesRequested, verifier,
                   scaffoldStale, sprint, kind, history>>

\* Faulty variant: remediation does not look at the cap.
QualityGatesFail_NoCap ==
    /\ FreshStep /\ status = "quality_gates"
    /\ Remediate
    /\ UNCHANGED <<operator_decision, linked, kind, history>>

QualityGatesFail ==
    /\ FreshStep /\ status = "quality_gates" /\ retry_count < RetryCap
    /\ \/ Remediate /\ UNCHANGED latestStale
       \/ /\ retry_count >= MaxRetries
          /\ EscalateToCapabilityLimit
          /\ UNCHANGED <<retry_count, latestStale>>
       \/ /\ StartAgent("gate-remediator", "quality_gates")
          /\ UNCHANGED <<retry_count, blocked_reason, provider_limit>>
    /\ UNCHANGED <<operator_decision, pending, changesRequested, verifier, scaffoldStale,
                   sprint, kind, history>>

\* The remediator's verdict is read from an attribute its result does not
\* have, so no run of it counts as a fix.  An exception in it is swallowed
\* and may leave its row running.
GateRemediatorEnds ==
    /\ AgentEnds("gate-remediator")
    /\ latestStale' \in BOOLEAN
    /\ \/ /\ retry_count >= MaxRetries
          /\ EscalateToCapabilityLimit
          /\ UNCHANGED retry_count
       \/ /\ retry_count < MaxRetries
          /\ retry_count' = retry_count + 1
          /\ EndStep("implementation", "gate_feedback")
    /\ UNCHANGED <<operator_decision, pending, changesRequested, verifier, scaffoldStale,
                   sprint, kind, history>>

\* A sprint task records its evidence and moves on.  Any other task opens a
\* pull request, unless runtime guidance cannot be preserved.
PhasePrCreation ==
    /\ FreshStep /\ status = "pr_creation"
    /\ \/ /\ InSprint
          /\ EndStep("build_verify", blocked_reason)
          /\ latestStale' = FALSE
       \/ /\ ~InSprint
          /\ EndStep("failed", "error")
          /\ UNCHANGED latestStale
       \/ /\ ~InSprint
          /\ StartAgent("pr-creator", "pr_creation")
          /\ UNCHANGED <<blocked_reason, provider_limit>>
    /\ UNCHANGED <<retry_count, operator_decision, pending, changesRequested, verifier,
                   scaffoldStale, sprint, kind, history>>

PrCreatorEnds ==
    /\ AgentEnds("pr-creator")
    /\ \/ EndStep("failed", "error") /\ UNCHANGED pending
       \/ EndStep("review_pending", blocked_reason) /\ pending' = pending \cup {"pr"}
    /\ UNCHANGED <<retry_count, operator_decision, changesRequested, verifier, latestStale,
                   scaffoldStale, sprint, kind, history>>

\* The last task of a sprint ships it: nothing to do while others are open;
\* without a remote the sprint branch is merged, and the checkout verified;
\* with one, a sprint pull request waits for approval.
SprintOutcomes ==
    [open            |-> [status |-> "done", reason |-> "none", sprint |-> sprint],
     shipped         |-> [status |-> "done", reason |-> "none", sprint |-> "shipped"],
     merge_failed    |-> [status |-> "done", reason |-> "none", sprint |-> "merge_blocked"],
     checkout_failed |-> [status |-> "blocked", reason |-> "final_checkout",
                          sprint |-> "checkout_blocked"],
     pr_opened       |-> [status |-> "done", reason |-> "none", sprint |-> "pr_review"],
     pr_failed       |-> [status |-> "done", reason |-> "none", sprint |-> "blocked"],
     ship_raised     |-> [status |-> "failed", reason |-> "error", sprint |-> sprint]]

PossibleOutcomes ==
    {"open", "ship_raised"} \cup
    IF kind = "sprint_remote" THEN {"pr_opened", "pr_failed"}
    ELSE {"shipped", "merge_failed", "checkout_failed"}

\* The verified task of a sprint is integrated, is done, and may ship the sprint.
IntegrateSprintTask ==
    /\ verifier' = "pass"
    /\ \/ /\ EndStep("failed", "error")
          /\ latestStale' = FALSE
          /\ UNCHANGED <<operator_decision, pending, sprint>>
       \/ \E o \in PossibleOutcomes :
              LET out == SprintOutcomes[o]
              IN  /\ EndStepFrom("complete", out.status, out.reason, provider_limit)
                  /\ sprint' = out.sprint
                  /\ pending' = pending \cup (IF o = "pr_opened" THEN {"sprint_pr"} ELSE {})
                  /\ latestStale' = (o = "ship_raised")
                  /\ operator_decision' = FALSE

\* Feature acceptance or the deterministic verifier refuses.
RefuseSprintTask ==
    /\ EndStep("failed", "error")
    /\ latestStale' = FALSE
    /\ UNCHANGED <<operator_decision, pending, verifier, sprint>>

PhaseBuildVerify ==
    /\ FreshStep /\ status = "build_verify"
    /\ \/ InSprint /\ (RefuseSprintTask \/ IntegrateSprintTask)
       \/ /\ \/ InSprint /\ StartAgent("feature-verifier", "build_verify")
             \/ ~InSprint /\ StartAgent("build-verifier", "build_verify")
          /\ UNCHANGED <<blocked_reason, provider_limit, operator_decision, pending, verifier,
                         sprint>>
    /\ UNCHANGED <<retry_count, changesRequested, scaffoldStale, kind, history>>

FeatureVerifierEnds ==
    /\ AgentEnds("feature-verifier")
    /\ RefuseSprintTask \/ IntegrateSprintTask
    /\ UNCHANGED <<retry_count, changesRequested, scaffoldStale, kind, history>>

\* Faulty variant: a run that failed is good enough.
BuildVerifierEnds_AnyRun ==
    /\ AgentEnds("build-verifier")
    /\ EndStep("done", "none") /\ operator_decision' = FALSE
    /\ verifier' \in {verifier, "pass", "fail"}
    /\ UNCHANGED <<retry_count, pending, changesRequested, latestStale, scaffoldStale,
                   sprint, kind, history>>

\* A failed run is not completed; a completed run may report a failure that
\* refuses the task, or one the handler takes for advisory and recovery does not.
BuildVerifierEnds ==
    /\ AgentEnds("build-verifier")
    /\ \/ EndStep("failed", "error") /\ verifier' \in {verifier, "pass", "fail"}
          /\ UNCHANGED operator_decision
       \/ EndStep("done", "none") /\ verifier' \in {"pass", "fail"}
          /\ operator_decision' = FALSE
    /\ UNCHANGED <<retry_count, pending, changesRequested, latestStale, scaffoldStale,
                   sprint, kind, history>>

-----------------------------------------------------------------------------
(* Steps that do not end the way their handler means to.                   *)

\* dispatch() rolls back and fails the task.  The run row of the agent stays
\* as it is: left running if the exception came out of the run.
HandlerRaises ==
    /\ FreshStep \/ chain = "running"
    /\ EndStep("failed", "error")
    /\ IF chain = "running"
       THEN \E left \in BOOLEAN :
                /\ latestStale' = left
                /\ scaffoldStale' = (scaffoldStale \/ (left /\ inflight = "scaffold"))
       ELSE UNCHANGED <<latestStale, scaffoldStale>>
    /\ \/ UNCHANGED verifier
       \/ inflight = "build-verifier" /\ verifier' \in {"pass", "fail"}
    /\ UNCHANGED <<retry_count, operator_decision, pending, changesRequested, sprint, kind,
                   history>>

\* Anything after the handler, the commit included, fails: the work of the
\* step is rolled back to its last commit and the task is blocked.
DispatchFails ==
    /\ FreshStep \/ chain = "running"
    /\ status' = "blocked" /\ blocked_reason' = "dispatch_failed"
    /\ latestStale' = FALSE /\ scaffoldStale' = FALSE
    /\ \/ UNCHANGED verifier
       \/ inflight = "build-verifier" /\ verifier' \in {"pass", "fail"}
    /\ CloseChain
    /\ UNCHANGED <<phase, retry_count, provider_limit, operator_decision, pending,
                   changesRequested, sprint, kind, history>>

\* The commit finds the database locked and the step is tried again with the
\* same chain state.
RetryLockedCommit ==
    /\ FreshStep \/ chain = "running"
    /\ attempt + 1 < LockAttempts
    /\ attempt' = attempt + 1
    /\ chain' = "queued" /\ inflight' = "none"
    /\ seen' = Visited /\ steps' = StepsTaken
    /\ \/ UNCHANGED verifier
       \/ inflight = "build-verifier" /\ verifier' \in {"pass", "fail"}
    /\ UNCHANGED <<row, pending, changesRequested, latestStale, scaffoldStale, sprint, kind,
                   history>>

\* Faulty variant: the chain goes on with the task it has just blocked.
DispatchCycle_GoesOn ==
    /\ StepDue /\ StepKey \in seen
    /\ status' = "blocked" /\ blocked_reason' = "cycle"
    /\ UNCHANGED <<phase, retry_count, provider_limit, operator_decision, linked, chainVars,
                   kind, history>>

\* The chain finds the task in a state it has seen.
DispatchCycle ==
    /\ StepDue /\ StepKey \in seen
    /\ status' = "blocked" /\ blocked_reason' = "cycle"
    /\ CloseChain
    /\ UNCHANGED <<phase, retry_count, provider_limit, operator_decision, linked, kind,
                   history>>

ChainTooLong ==
    /\ chain = "queued" /\ ~StepDue
    /\ status' = "blocked" /\ blocked_reason' = "chain_limit"
    /\ latestStale' = FALSE /\ scaffoldStale' = FALSE
    /\ CloseChain
    /\ UNCHANGED <<phase, retry_count, provider_limit, operator_decision, pending,
                   changesRequested, verifier, sprint, kind, history>>

-----------------------------------------------------------------------------
(* Operators, approvers, time, and the server.                             *)

\* POST /dispatch.  The embedded server answers "scaffold pending" instead
\* while a scaffold row says running.
Dispatch ==
    /\ chain = "idle" /\ status \in DISPATCHABLE_STATUSES
    /\ ~(EmbeddedServer /\ scaffoldStale)
    /\ OpenChain
    /\ UNCHANGED <<row, linked, inflight, kind, history>>

\* The approval of gate g moves the task whatever its status is.
Approve(g) ==
    /\ g \in pending \cap DOMAIN ReviewStatus
    /\ pending' = pending \ {g}
    /\ LET s == CASE g = "planning" -> "design"
                  [] g = "ui_preview" -> "implementation"
                  [] g = "pr" -> "build_verify"
       IN  status' = s /\ phase' = PhaseAfter(s, phase)
    /\ blocked_reason' = "none"
    /\ reviewed' = (reviewed \/ g = "pr")
    /\ IF chain = "idle" THEN OpenChain /\ UNCHANGED inflight ELSE UNCHANGED chainVars
    /\ UNCHANGED <<retry_count, provider_limit, operator_decision, changesRequested, verifier,
                   latestStale, scaffoldStale, sprint, kind, gated, skipped>>

\* Faulty variant: the gate is not resolved.
RequestPrChanges_KeepsGate ==
    /\ "pr" \in pending
    /\ changesRequested' = TRUE
    /\ status' = "implementation" /\ phase' = "implementation"
    /\ blocked_reason' = "none"
    /\ IF chain = "idle" THEN OpenChain /\ UNCHANGED inflight ELSE UNCHANGED chainVars
    /\ UNCHANGED <<retry_count, provider_limit, operator_decision, pending, verifier,
                   latestStale, scaffoldStale, sprint, kind, history>>

RequestPrChanges ==
    /\ "pr" \in pending
    /\ pending' = pending \ {"pr"}
    /\ changesRequested' = TRUE
    /\ status' = "implementation" /\ phase' = "implementation"
    /\ blocked_reason' = "none"
    /\ IF chain = "idle" THEN OpenChain /\ UNCHANGED inflight ELSE UNCHANGED chainVars
    /\ UNCHANGED <<retry_count, provider_limit, operator_decision, verifier, latestStale,
                   scaffoldStale, sprint, kind, history>>

\* A rejection, or a request for changes to anything but a pull request.
Reject(g) ==
    /\ g \in pending \cap DOMAIN ReviewStatus
    /\ pending' = pending \ {g}
    /\ status' = "blocked" /\ blocked_reason' = "rejected"
    /\ UNCHANGED <<phase, retry_count, provider_limit, operator_decision, changesRequested,
                   verifier, latestStale, scaffoldStale, sprint, chainVars, kind, history>>

\* The decision "override" resolves the gate and leaves the task alone.
Override(g) ==
    /\ g \in pending \cap DOMAIN ReviewStatus
    /\ pending' = pending \ {g}
    /\ UNCHANGED <<row, changesRequested, verifier, latestStale, scaffoldStale, sprint,
                   chainVars, kind, history>>

\* The sprint's pull request is decided.  A request for changes sends every
\* task of the sprint back to implementation, whatever its status and whoever
\* works on it.
DecideSprintPr ==
    /\ "sprint_pr" \in pending
    /\ pending' = pending \ {"sprint_pr"}
    /\ \/ /\ sprint' \in {"shipped_unproven", "rejected", sprint}   \* the last: override
          /\ UNCHANGED <<row, chainVars>>
       \/ /\ sprint' = "open"
          /\ status' = "implementation" /\ phase' = "implementation"
          /\ blocked_reason' = "changes"
          /\ IF chain = "idle" THEN OpenChain /\ UNCHANGED inflight ELSE UNCHANGED chainVars
          /\ UNCHANGED <<retry_count, provider_limit, operator_decision>>
    /\ UNCHANGED <<changesRequested, verifier, latestStale, scaffoldStale, kind, history>>

View == [status |-> status, phase |-> phase, reason |-> blocked_reason,
         changesRequested |-> changesRequested, verifier |-> verifier,
         mergeError |-> sprint \in {"merge_blocked", "checkout_blocked"}]

\* Faulty variant: recovery leaves the operator's decision in the task.
Recover_KeepsHandoff ==
    /\ Recoverable(View)
    /\ status' = RecoveryTarget(View)
    /\ phase' = PhaseAfter(status', phase)
    /\ blocked_reason' = "none"
    /\ retry_count' = IF blocked_reason = "gate_cap" THEN 0 ELSE retry_count
    /\ provider_limit' = IF status = "capability_limit" THEN "none" ELSE provider_limit
    /\ skipped' = IF status' # "build_verify" THEN skipped
                  ELSE skipped \cup {"review"} \cup (IF status = "pending" THEN {"gates"} ELSE {})
    /\ UNCHANGED <<operator_decision, linked, chainVars, kind, gated, reviewed>>

\* POST /tasks/{id}/recover, which does not look at reservations.
Recover ==
    /\ Recoverable(View)
    /\ status' = RecoveryTarget(View)
    /\ phase' = PhaseAfter(status', phase)
    /\ blocked_reason' = "none"
    /\ IF status = "capability_limit"
       THEN provider_limit' = "none" /\ UNCHANGED <<retry_count, operator_decision>>
       ELSE /\ retry_count' = IF blocked_reason = "gate_cap" THEN 0 ELSE retry_count
            /\ operator_decision' = FALSE
            /\ UNCHANGED provider_limit
    /\ skipped' = IF status' # "build_verify" THEN skipped
                  ELSE skipped \cup {"review"} \cup (IF status = "pending" THEN {"gates"} ELSE {})
    /\ UNCHANGED <<linked, chainVars, kind, gated, reviewed>>

\* Faulty variant: the limit gets a state nobody else knows.
LimitResets_Unknown ==
    /\ provider_limit = "future" /\ provider_limit' = "reset"
    /\ UNCHANGED <<status, phase, retry_count, blocked_reason, operator_decision, linked,
                   chainVars, kind, history>>

\* The recorded reset time of a provider limit passes.
LimitResets ==
    /\ provider_limit = "future" /\ provider_limit' = "due"
    /\ UNCHANGED <<status, phase, retry_count, blocked_reason, operator_decision, linked,
                   chainVars, kind, history>>

\* The chain of another task of the feature resumes this one.
SiblingResumes ==
    /\ chain = "idle" /\ status = "capability_limit" /\ provider_limit = "due"
    /\ status' = ProviderLimitTarget[phase] /\ phase' = PhaseAfter(status', phase)
    /\ blocked_reason' = "none" /\ provider_limit' = "none"
    /\ OpenChain
    /\ UNCHANGED <<retry_count, operator_decision, linked, inflight, kind, history>>

\* What each of the four reconcilers of a starting server may make of the
\* task and its sprint.  The state of the workspace and of the checkout is
\* the environment's, so leaving them alone is always among the outcomes.

\* The latest run row says running: whoever worked on it is gone.
ReconcileOrphanedRun(t) ==
    IF (inflight # "none" \/ latestStale) /\ t.status \in ACTIVE_STATUSES
    THEN {[t EXCEPT !.status = "failed", !.reason = "error"]}
    ELSE {t}

\* Finished work whose workspace is dirty, or clean again.
ReconcileUnintegrated(t) ==
    LET takenBack == t.status = "failed" /\ t.reason = "unintegrated"
        dirty == [status |-> "failed", reason |-> "unintegrated",
                  sprint |-> IF t.sprint \in Shipped THEN "blocked" ELSE t.sprint]
        clean == [t EXCEPT !.status = "done", !.reason = "none"]
    IN  {t} \cup (IF t.status = "done" \/ takenBack THEN {dirty} ELSE {})
            \cup (IF takenBack THEN {clean} ELSE {})

\* A blocked sprint whose tasks are done is shipped if nothing in its evidence
\* is known to block it; a failed merge, if main has the sprint after all.
ReconcileBlockedSprint(t) ==
    LET ships == [t EXCEPT !.sprint = "shipped_unproven"]
    IN  IF t.status = "done" /\ t.sprint = "rejected" THEN {ships}
        ELSE IF t.status = "done" /\ t.sprint = "merge_blocked" THEN {t, ships}
        ELSE {t}

\* A shipped sprint without proof of its checkout is blocked if that fails.
ReconcileShippedSprint(t) ==
    {t} \cup (IF t.status = "done" /\ t.sprint = "shipped_unproven"
              THEN {[status |-> "blocked", reason |-> "final_checkout",
                     sprint |-> "checkout_blocked"]}
              ELSE {})

\* The server process ends and comes back: its chains are gone, the rows of
\* runs nobody works on fail, and the reconcilers run in this order.
Restart ==
    /\ \E t1 \in ReconcileOrphanedRun([status |-> status, reason |-> blocked_reason,
                                       sprint |-> sprint]) :
       \E t2 \in ReconcileUnintegrated(t1) :
       \E t3 \in ReconcileBlockedSprint(t2) :
       \E t4 \in ReconcileShippedSprint(t3) :
           status' = t4.status /\ blocked_reason' = t4.reason /\ sprint' = t4.sprint
    /\ latestStale' = FALSE /\ scaffoldStale' = FALSE
    /\ CloseChain
    /\ UNCHANGED <<phase, retry_count, provider_limit, operator_decision, pending,
                   changesRequested, verifier, kind, history>>

-----------------------------------------------------------------------------
HandlerStep ==
    \/ PhasePlanning \/ PhaseDesign \/ PhaseImplementation
    \/ QualityGateCap \/ QualityGatesPass \/ QualityGatesBlock \/ QualityGatesFail
    \/ PhasePrCreation \/ PhaseBuildVerify
    \/ DispatchCycle \/ ChainTooLong

AgentStep ==
    \/ PlannerEnds \/ DesignerEnds \/ UiPrototyperEnds
    \/ ScaffoldEnds \/ CodeGenEnds \/ GateRemediatorEnds
    \/ PrCreatorEnds \/ FeatureVerifierEnds \/ BuildVerifierEnds

FaultStep == HandlerRaises \/ DispatchFails \/ RetryLockedCommit

ReviewStep ==
    \/ \E g \in DOMAIN ReviewStatus : Approve(g) \/ Reject(g) \/ Override(g)
    \/ RequestPrChanges \/ DecideSprintPr

OutsideStep == Dispatch \/ ReviewStep \/ Recover \/ LimitResets \/ SiblingResumes \/ Restart

WorkStep == HandlerStep \/ AgentStep \/ FaultStep

Next == WorkStep \/ OutsideStep

Spec == Init /\ [][Next]_vars

\* The event loop runs a queued step, and an agent run ends: the runtime is
\* called with an inactivity deadline.
Fairness == WF_vars(HandlerStep) /\ WF_vars(AgentStep)

FairSpec == Spec /\ Fairness

-----------------------------------------------------------------------------
(* Properties.                                                             *)

TypeOK ==
    /\ status \in TaskStatuses /\ phase \in TaskPhases
    /\ retry_count \in Nat /\ blocked_reason \in BlockedReasons
    /\ provider_limit \in {"none", "unknown", "future", "due"}
    /\ operator_decision \in BOOLEAN
    /\ pending \in SUBSET GateTypes /\ changesRequested \in BOOLEAN
    /\ verifier \in VerifierRuns /\ latestStale \in BOOLEAN /\ scaffoldStale \in BOOLEAN
    /\ sprint \in SprintStages
    /\ chain \in {"idle", "queued", "running"} /\ inflight \in Agents \cup {"none"}
    /\ seen \in SUBSET (TaskStatuses \X Nat) /\ steps \in Nat /\ attempt \in Nat
    /\ kind \in Kinds
    /\ gated \in BOOLEAN /\ reviewed \in BOOLEAN /\ skipped \in SUBSET {"gates", "review"}

\* The retry loop of the quality gates is bounded although two of its ways
\* around count a retry without looking at the budget (orchestrator.py, P20).
RetriesBounded == retry_count <= RetryCap

\* The phase the Board shows is the phase of the status, and an off-path task
\* keeps the phase recovery and the provider limit resume from: an interrupted
\* agent's phase while a run row is stale, "complete" for a finished task that
\* a reconciler took back.
PhaseTracksStatus ==
    /\ status \notin OffPath => phase = PHASE_FOR_STATUS[status]
    /\ blocked_reason \in {"unintegrated", "final_checkout"} => phase = "complete"
    /\ blocked_reason \in {"gate_cap", "doc_gate", "gate_infra"} => phase = "verification"

\* A pending gate always belongs to the review the task waits in, so that its
\* approval, which moves the task without looking at it, moves it from there.
GateMatchesReview ==
    \A g \in pending \cap DOMAIN ReviewStatus : status = ReviewStatus[g] /\ chain = "idle"

\* A task that no chain works on can be dispatched, reviewed or recovered,
\* unless it is done or was stopped for one of the reasons an operator must
\* settle outside the task, or its review gate was overridden.
NoUnexpectedDeadEnd ==
    chain = "idle" =>
        \/ status \in DISPATCHABLE_STATUSES \cup {"done"}
        \/ Recoverable(View)
        \/ status = "blocked" /\ blocked_reason \in OperatorBlocks
        \/ status \in {"design_review", "review_pending"}

\* The Board offers Recover only where recovery will not refuse.
BoardOffersOnlyRecoverable == TaskIsRecoverable(View) => Recoverable(View)

\* The record of a question to the operator is gone once the task goes on,
\* except where changes requested of a sprint put a task that asks to work:
\* there it stays until the implementation begins, or has failed to.
HandoffIsCurrent ==
    operator_decision => \/ status = "blocked"
                         \/ InSprint /\ status \in {"implementation", "failed"}

\* The chain's guard against cycles: it takes no more steps than it has seen
\* states, and those are few enough that a chain on one task never reaches
\* its step limit.
ChainIsBounded ==
    /\ steps <= Cardinality(seen)
    /\ seen \subseteq DISPATCHABLE_STATUSES \X (0 .. RetryCap)

\* A finished task has a completed build-verifier run.
DoneIsVerified == status = "done" => verifier # "none"

\* No pull request is made or waits for review of
\* code that the gates did not check after its last code-gen run.
PrIsGated == status \in {"pr_creation", "review_pending"} => gated

\* Where a status puts the task, as TaskProtocol sees it, and the review that
\* the task waits for.
Place ==
    [s \in TaskStatuses |->
        CASE s \in DISPATCHABLE_STATUSES -> "open"
          [] s \in OffPath -> "stopped"
          [] s = "done" -> "done"
          [] OTHER -> "review"]

Asked ==
    IF "pr" \in pending THEN "code"
    ELSE IF pending \cap {"planning", "ui_preview"} # {} THEN "plan"
    ELSE "nothing"

\* The task is moved by those who may move it, and on the grounds they need:
\* out of a review by its reviewer, to a stop or to done by the chain at work,
\* on again by an operator or a deadline, to done with its code gated and
\* reviewed or an operator's waiver, however the chain was interrupted,
\* limited, blocked or retried.
Protocol == INSTANCE TaskProtocol WITH
    place <- Place[status], working <- chain # "idle", asked <- Asked, ownReview <- ~InSprint,
    cleared <- gated \/ "gates" \in skipped, approved <- reviewed \/ "review" \in skipped
ProtocolIsKept == Protocol!Spec

\* A sprint whose pull request was rejected is not shipped on the strength of
\* the work that was rejected.
RejectionStands == [][sprint = "rejected" => sprint' \notin Shipped]_vars

\* A step whose commit found the database locked is tried again, and not taken
\* for a cycle because its first try is already among the states seen.
LockedCommitIsRetried == [][DispatchCycle => attempt = 0]_vars

\* How many steps a chain at work can take yet: one, and two agents' ends, for
\* each state it has not seen, and the ends of the agents at work.
AgentsToEnd ==
    IF chain # "running" THEN 0 ELSE IF inflight \in {"ui-prototyper", "code-gen"} THEN 1 ELSE 2

StepsLeft == 3 * (7 * (RetryCap + 1) - Cardinality(seen)) + AgentsToEnd

\* Whatever the handlers and agents of a chain do, and whatever fails, brings it
\* nearer to its end, and nobody else moves it but by ending it: neither a
\* retry, nor a loop of the gates, nor a reviewer who sends back the task
\* under it lets it start over.
ChainAdvances ==
    [][/\ WorkStep => chain' = "idle" \/ StepsLeft' < StepsLeft
       /\ chain # "idle" /\ ~WorkStep => chain' = "idle" \/ UNCHANGED chainVars]_vars

\* Every chain comes to rest.
ChainComesToRest == (chain # "idle") ~> (chain = "idle")

-----------------------------------------------------------------------------
(* What GateMatchesReview, ChainIsBounded and PrIsGated need to be inductive. *)

WorkingStatus ==
    [a \in Agents |->
        CASE a = "planner" -> "planning"
          [] a \in {"designer", "ui-prototyper"} -> "design"
          [] a \in {"scaffold", "code-gen"} -> "implementation"
          [] a = "gate-remediator" -> "quality_gates"
          [] a = "pr-creator" -> "pr_creation"
          [] OTHER -> "build_verify"]

\* A chain at work owns a task at work, unless the sprint's reviewer has sent
\* the task back meanwhile.
ChainWorks ==
    /\ chain = "running" =>
           /\ inflight \in Agents
           /\ status = WorkingStatus[inflight] \/ (InSprint /\ status = "implementation")
    /\ chain # "running" => inflight = "none"
    /\ chain = "queued" => status \in DISPATCHABLE_STATUSES

\* A sprint task has no gates of its own, and no other task has the sprint's.
KindFits ==
    /\ InSprint => /\ pending \subseteq {"sprint_pr"}
                   /\ inflight \notin {"planner", "designer", "ui-prototyper", "pr-creator",
                                       "build-verifier"}
    /\ ~InSprint => "sprint_pr" \notin pending /\ inflight # "feature-verifier"

OneReview == \A g, h \in pending \cap DOMAIN ReviewStatus : g = h

\* A limit never stops a task after its gates, so none resumes there.
LimitsBeforeReview == status = "capability_limit" => phase # "integration"

\* What a reconciler took back was finished.
TakenBackWasDone == blocked_reason = "unintegrated" => status = "failed" /\ phase = "complete"

\* The inductive invariant of the proofs: a task in the hands of a chain is at
\* work on what its status says, and its gates are those of its kind and review.
LifecycleInv ==
    /\ TypeOK /\ RetriesBounded /\ ChainWorks /\ KindFits /\ OneReview /\ GateMatchesReview
    /\ ChainIsBounded
    /\ status \notin OffPath => phase = PHASE_FOR_STATUS[status]
    /\ LimitsBeforeReview /\ TakenBackWasDone /\ PrIsGated
=============================================================================
