--------------------------- MODULE SprintLifecycle ---------------------------
(***************************************************************************)
(* One sprint with several tasks: the tasks as far as the sprint looks at  *)
(* them, the shipment by the task that is done last (orchestrator/         *)
(* sprint_lifecycle.py), the stall check at the end of a failed step       *)
(* (services/autonomous_orchestration.py), the decision on the sprint's    *)
(* pull request, recovery, and the reconcilers that re-decide the sprint   *)
(* at every start of the server (services/run_reconciliation.py).          *)
(*                                                                         *)
(* TaskLifecycle has one task and all of its phases; here a task is active *)
(* from its dispatch to the end of its work, and what matters is the       *)
(* sprint's row, the evidence in it, and the main branch it speaks of.     *)
(* The database is SQLite, which has one writer: from the first write of a *)
(* step to its commit no other transaction writes (variable writer).       *)
(***************************************************************************)
EXTENDS Naturals, FiniteSets

CONSTANTS
    Tasks,     \* the sprint's generated_task_ids
    NoTask

ASSUME NoTaskAssumption == NoTask \notin Tasks

VARIABLES
    repo,          \* "none": the project has no repository
    \* The database.
    status,        \* of each task
    phase,         \* the sprint's phase,
    verification,  \* its verification_status,
    evidence,      \* and what the code reads of its verification_evidence
    gates,         \* pending approval gates of the sprint's pull requests
    \* The server.
    step,          \* of each task: how far the chain step at work on it is
    writer,        \* the task whose step holds the database's write lock
    \* The repository.
    main,          \* tasks whose integrated work the main branch has
    proven,        \* the checkout of main was built after its last change
    \* History.
    unseen,        \* tasks were stopped since, or otherwise than, by a failed step
    undecided      \* the sprint was put back since a task last concluded

row == <<phase, verification, evidence>>
vars == <<repo, status, row, gates, step, writer, main, proven, unseen, undecided>>

Repos == {"none", "local", "remote"}

\* waiting:      for an approval or a provider limit
\* unintegrated: failed, since its worktree has changes after it was done
\* checkout:     blocked, since the final checkout did not build
\* rejected:     blocked for a reason no recovery knows
Statuses == {"pending", "active", "waiting", "failed", "unintegrated", "blocked",
             "checkout", "rejected", "done"}
Stopped == Statuses \ {"active", "waiting"}

Phases == {"implementation", "verify", "pr_review", "shipped", "blocked"}

\* error: "merge", "dirty" and "checkout" are texts of sprint_merge_error,
\*        "pr" is sprint_pr_error
Evidence == [status : {"none", "passed", "blocked"},
             error : {"none", "merge", "dirty", "checkout", "pr"},
             workspace : BOOLEAN,
             materialized : {"none", "passed", "failed"},
             source : Tasks \cup {NoTask}]

NoEvidence == [status |-> "none", error |-> "none", workspace |-> FALSE,
               materialized |-> "none", source |-> NoTask]
Passed(t) == [NoEvidence EXCEPT !.status = "passed", !.source = t]

\* A sprint whose execution was planned and persisted.
Init ==
    /\ repo \in Repos
    /\ status = [t \in Tasks |-> "pending"]
    /\ phase = "implementation" /\ verification = "pending" /\ evidence = NoEvidence
    /\ gates = 0 /\ step = [t \in Tasks |-> "idle"] /\ writer = NoTask
    /\ main = {} /\ proven = FALSE /\ unseen = FALSE /\ undecided = FALSE

AllDone(s) == \A t \in Tasks : s[t] = "done"
Free == writer = NoTask

-----------------------------------------------------------------------------
(* A chain's steps on a task.                                              *)

To(t, from, to) == step[t] \in from /\ step' = [step EXCEPT ![t] = to]
Commit(t, s) == status' = [status EXCEPT ![t] = s]

Begin(t) ==
    /\ status[t] \in {"pending", "active"} /\ To(t, {"idle"}, "busy")
    /\ Free /\ Commit(t, "active")
    /\ UNCHANGED <<repo, row, gates, writer, main, proven, unseen, undecided>>

\* A phase leads to the next one or to a wait.
StepEnds(t, s) ==
    /\ To(t, {"busy"}, "idle") /\ Free /\ Commit(t, s)
    /\ UNCHANGED <<repo, row, gates, writer, main, proven, unseen, undecided>>

\* Faulty variant: a blocked task counts as one that will go on.
IsStall_FailedOnly(s) ==
    /\ \A t \in Tasks : s[t] \in {"failed", "unintegrated", "pending", "done"}
    /\ \E t \in Tasks : s[t] \in {"failed", "unintegrated"}
    /\ \E t \in Tasks : s[t] = "pending"

\* Every task is failed, blocked, done or pending, and not all of them are
\* pending or done.
IsStall(s) ==
    /\ \A t \in Tasks : s[t] \in Stopped
    /\ \E t \in Tasks : s[t] \in Stopped \ {"pending", "done"}
    /\ \E t \in Tasks : s[t] = "pending"

\* _maybe_mark_sprint_stalled, in the transaction of the step that failed.
MarkStalled ==
    IF phase = "implementation" /\ IsStall(status')
    THEN phase' = "blocked" /\ verification' = "blocked" /\ evidence' = NoEvidence
    ELSE UNCHANGED row

\* The handler fails or blocks its task.
StepFails(t) ==
    /\ To(t, {"busy", "integrated"}, "idle") /\ Free
    /\ \E s \in {"failed", "blocked"} : Commit(t, s)
    /\ MarkStalled /\ unseen' = FALSE
    /\ UNCHANGED <<repo, gates, writer, main, proven, undecided>>

\* The chain blocks the task: a cycle, its step limit, a step that raised.
\* Nothing is followed up and no stall looked for.
ChainBlocks(t) ==
    /\ To(t, {"busy", "integrated"}, "idle") /\ Free /\ Commit(t, "blocked")
    /\ unseen' = TRUE
    /\ UNCHANGED <<repo, row, gates, writer, main, proven, undecided>>

\* The task's workspace is merged into the sprint's branch.
Integrate(t) ==
    /\ To(t, {"busy"}, "integrated") /\ main' = main \ {t}
    /\ UNCHANGED <<repo, status, row, gates, writer, proven, unseen, undecided>>

-----------------------------------------------------------------------------
(* Shipment (sprint_mark_shipped), by the step that sets its task done.    *)

Ship == phase' = "shipped" /\ verification' = "passed"

\* Faulty variant: the task's own status is read before it is written.
ConcludeTask_ReadsFirst(t) ==
    /\ To(t, {"integrated"}, "idle") /\ Free /\ Commit(t, "done")
    /\ ~AllDone(status) /\ unseen' = (unseen \/ IsStall(status')) /\ undecided' = FALSE
    /\ UNCHANGED <<repo, row, gates, writer, main, proven>>

\* Others are not done: the task is, and the sprint goes on.  The chain goes
\* on in the task's feature; no stall is looked for.
ConcludeTask(t) ==
    /\ To(t, {"integrated"}, "idle") /\ Free /\ Commit(t, "done")
    /\ ~AllDone(status') /\ unseen' = (unseen \/ IsStall(status')) /\ undecided' = FALSE
    /\ UNCHANGED <<repo, row, gates, writer, main, proven>>

\* Without a repository the sprint has shipped.
ShipWithoutRepo(t) ==
    /\ repo = "none" /\ To(t, {"integrated"}, "idle") /\ Free /\ Commit(t, "done")
    /\ AllDone(status') /\ Ship /\ evidence' = Passed(t) /\ undecided' = FALSE
    /\ UNCHANGED <<repo, gates, writer, main, proven, unseen>>

\* The step holds what it has written until the shipment is through.
BeginShipment(t) ==
    /\ repo = "local" /\ To(t, {"integrated"}, "merging") /\ Free
    /\ AllDone([status EXCEPT ![t] = "done"])
    /\ writer' = t
    /\ UNCHANGED <<repo, status, row, gates, main, proven, unseen, undecided>>

\* main is fast-forwarded to the sprint's branch, which has the work of all.
Merge(t) ==
    /\ To(t, {"merging"}, "verifying")
    /\ main' = Tasks /\ proven' = (proven /\ main = Tasks)
    /\ UNCHANGED <<repo, status, row, gates, writer, unseen, undecided>>

BlockSprint(e) ==
    /\ phase' = "blocked" /\ verification' = "blocked" /\ evidence' = e

\* main cannot be fast-forwarded; or it is, and the checkout is left dirty.
MergeFails(t) ==
    /\ To(t, {"merging"}, "idle") /\ Commit(t, "done") /\ writer' = NoTask
    /\ \/ /\ BlockSprint([Passed(t) EXCEPT !.error = "merge"])
          /\ UNCHANGED <<main, proven>>
       \/ /\ BlockSprint([Passed(t) EXCEPT !.error = "dirty"])
          /\ main' = Tasks /\ proven' = (proven /\ main = Tasks)
    /\ undecided' = FALSE
    /\ UNCHANGED <<repo, gates, unseen>>

\* The checkout of main does not build: task and sprint are blocked.
CheckoutFails(t) ==
    /\ To(t, {"verifying"}, "idle") /\ Commit(t, "checkout") /\ writer' = NoTask
    /\ BlockSprint([Passed(t) EXCEPT !.error = "checkout", !.materialized = "failed"])
    /\ proven' = FALSE /\ undecided' = FALSE
    /\ UNCHANGED <<repo, gates, main, unseen>>

CheckoutBuilds(t) ==
    /\ To(t, {"verifying"}, "idle") /\ Commit(t, "done") /\ writer' = NoTask
    /\ Ship /\ evidence' = [Passed(t) EXCEPT !.materialized = "passed"]
    /\ proven' = TRUE /\ undecided' = FALSE
    /\ UNCHANGED <<repo, gates, main, unseen>>

\* With a remote, the pr-creator is run: what was written so far is committed.
BeginPullRequest(t) ==
    /\ repo = "remote" /\ To(t, {"integrated"}, "opening") /\ Free /\ Commit(t, "done")
    /\ AllDone(status') /\ verification' = "passed"
    /\ UNCHANGED <<repo, phase, evidence, gates, writer, main, proven, unseen, undecided>>

OpenPullRequest(t) ==
    /\ To(t, {"opening"}, "idle") /\ Free
    /\ phase' = "pr_review" /\ evidence' = Passed(t) /\ gates' = gates + 1
    /\ undecided' = FALSE
    /\ UNCHANGED <<repo, status, verification, writer, main, proven, unseen>>

PullRequestFails(t) ==
    /\ To(t, {"opening"}, "idle") /\ Free
    /\ BlockSprint([Passed(t) EXCEPT !.error = "pr"]) /\ undecided' = FALSE
    /\ UNCHANGED <<repo, status, gates, writer, main, proven, unseen>>

\* Faulty variant: the transaction is left open.
ShipmentRaises_KeepsLock(t) ==
    /\ To(t, {"merging", "verifying", "opening"}, "idle") /\ writer \in {t, NoTask}
    /\ Commit(t, "failed") /\ MarkStalled /\ unseen' = FALSE
    /\ UNCHANGED <<repo, gates, writer, main, proven, undecided>>

\* The shipment raises: the transaction is rolled back and the task fails.
ShipmentRaises(t) ==
    /\ To(t, {"merging", "verifying", "opening"}, "idle") /\ writer \in {t, NoTask}
    /\ Commit(t, "failed") /\ MarkStalled /\ writer' = NoTask /\ unseen' = FALSE
    /\ UNCHANGED <<repo, gates, main, proven, undecided>>

-----------------------------------------------------------------------------
(* Operators: reviews of tasks, the sprint's pull request, recovery, a new *)
(* plan.                                                                   *)

\* An approval or a provider's reset sends the task on, a rejection stops it.
Resume(t) ==
    /\ status[t] = "waiting" /\ Free
    /\ \/ Commit(t, "active") /\ UNCHANGED unseen
       \/ Commit(t, "rejected") /\ unseen' = TRUE
    /\ UNCHANGED <<repo, row, gates, step, writer, main, proven, undecided>>

\* apply_sprint_approval_outcome: whatever its tasks are doing, the sprint is
\* shipped, blocked, or all of it sent back; "override" resolves the gate only.
DecidePullRequest ==
    /\ gates > 0 /\ gates' = gates - 1 /\ Free
    /\ \/ phase' \in {"shipped", "blocked", phase} /\ UNCHANGED status
       \/ phase' = "verify" /\ status' = [t \in Tasks |-> "active"]
    /\ UNCHANGED <<repo, verification, evidence, step, writer, main, proven, unseen, undecided>>

\* Faulty variant: only a checkout that does not build counts.
HasMergeError_CheckoutOnly(t) ==
    /\ phase = "blocked" \/ verification = "blocked"
    /\ evidence.error = "checkout" /\ evidence.source \in {t, NoTask}

\* _blocked_sprint_merge_error: the shipment failed, and by this task.
HasMergeError(t) ==
    /\ phase = "blocked" \/ verification = "blocked"
    /\ evidence.error \in {"merge", "dirty", "checkout"}
    /\ evidence.source \in {t, NoTask}

Recoverable(t) ==
    \/ status[t] \in {"failed", "unintegrated", "blocked", "checkout"}
    \/ status[t] = "done" /\ HasMergeError(t)

\* recover_failed_task.  A failed task goes back to the start if it was in no
\* phase that can be resumed.  A task that is done can be recovered as well if
\* its verifier reported a failed check, which may have been an advisory one.
Recover(t) ==
    /\ Recoverable(t) \/ status[t] = "done"
    /\ Free
    /\ \/ Commit(t, "active")
       \/ status[t] \notin {"done", "checkout"} /\ Commit(t, "pending")
    /\ unseen' = (unseen \/ IsStall(status'))
    /\ UNCHANGED <<repo, row, gates, step, writer, main, proven, undecided>>

\* _ensure_sprint_record finds the sprint for the same features, unless it has
\* shipped, and persist_sprint_execution_artifacts starts it again.
PlanAgain ==
    /\ ~(phase = "shipped" /\ verification = "passed") /\ Free
    /\ phase' = "implementation" /\ verification' = "pending"
    /\ unseen' = TRUE /\ undecided' = TRUE
    /\ UNCHANGED <<repo, status, evidence, gates, step, writer, main, proven>>

-----------------------------------------------------------------------------
(* The start of the server: four reconcilers, one after the other, in one  *)
(* transaction.  A view is what one hands on to the next.                  *)

View == [status |-> status, phase |-> phase, verification |-> verification,
         evidence |-> evidence]

\* A step that ran an agent has left a running run behind it.
FailOrphaned(v, died) ==
    [v EXCEPT !.status = [t \in Tasks |-> IF t \in died THEN "failed" ELSE v.status[t]]]

\* Tasks that are done, and have changes in their worktree; and back.
BlockUnintegrated(v, changed) ==
    LET s == [t \in Tasks |-> IF v.status[t] \notin {"done", "unintegrated"} THEN v.status[t]
                              ELSE IF t \in changed THEN "unintegrated" ELSE "done"]
    IN  IF v.phase = "shipped" /\ \E t \in Tasks : s[t] = "unintegrated"
        THEN [v EXCEPT !.status = s, !.phase = "blocked", !.verification = "blocked",
                       !.evidence = [@ EXCEPT !.status = "blocked", !.workspace = TRUE]]
        ELSE [v EXCEPT !.status = s]

\* The evidence of a blocked sprint says that it passed, and nothing else.
StaleBlock(v) ==
    /\ v.evidence.status = "passed" /\ v.evidence.error = "none" /\ ~v.evidence.workspace
    /\ v.evidence.materialized # "failed" /\ AllDone(v.status)

\* The merge went through and left a checkout that can be cleaned up.
Materialized(v, restored) ==
    v.evidence.error = "dirty" /\ AllDone(v.status) /\ main = Tasks /\ restored

\* Faulty variant: the phase is put right, the verdict left.
ClearStaleBlock_PhaseOnly(v, restored) ==
    IF v.phase = "blocked" /\ (StaleBlock(v) \/ Materialized(v, restored))
    THEN [v EXCEPT !.phase = "shipped",
                   !.evidence = [@ EXCEPT !.status = "passed", !.error = "none"]]
    ELSE v

ClearStaleBlock(v, restored) ==
    IF v.phase = "blocked" /\ (StaleBlock(v) \/ Materialized(v, restored))
    THEN [v EXCEPT !.phase = "shipped", !.verification = "passed",
                   !.evidence = [@ EXCEPT !.status = "passed", !.error = "none"]]
    ELSE v

\* The checkout of a sprint that has shipped is built, if its evidence does
\* not have that already.  (Success is written into the evidence that was
\* read, which the ORM does not see as a change: it is not remembered.)
NeedsProof(v) ==
    v.phase = "shipped" /\ v.evidence.materialized # "passed" /\ AllDone(v.status)

\* Faulty variant: what an earlier start has re-decided is left alone.
Reblock_Unproven(v, builds, t) == v

Reblock(v, builds, t) ==
    IF NeedsProof(v) /\ ~builds
    THEN [v EXCEPT !.status[t] = "checkout", !.phase = "blocked", !.verification = "blocked",
                   !.evidence = [@ EXCEPT !.status = "blocked", !.materialized = "failed",
                                          !.error = "checkout"]]
    ELSE v

Restart ==
    \E died \in SUBSET {t \in Tasks : step[t] # "idle" /\ status[t] = "active"},
       changed \in SUBSET Tasks, restored, builds \in BOOLEAN,
       t \in IF evidence.source = NoTask THEN Tasks ELSE {evidence.source} :
       LET v == ClearStaleBlock(BlockUnintegrated(FailOrphaned(View, died), changed), restored)
           w == Reblock(v, builds, t)
       IN  /\ status' = w.status /\ phase' = w.phase /\ verification' = w.verification
           /\ evidence' = w.evidence
           /\ proven' = (IF NeedsProof(v) /\ repo # "none" THEN builds ELSE proven)
           /\ step' = [u \in Tasks |-> "idle"] /\ writer' = NoTask
           /\ unseen' = TRUE /\ undecided' = TRUE
           /\ UNCHANGED <<repo, gates, main>>

-----------------------------------------------------------------------------
ChainStep(t) ==
    \/ Begin(t) \/ Integrate(t) \/ StepFails(t) \/ ChainBlocks(t) \/ ConcludeTask(t)
    \/ \E s \in {"active", "waiting"} : StepEnds(t, s)

Shipment(t) ==
    \/ ShipWithoutRepo(t) \/ BeginShipment(t) \/ Merge(t) \/ MergeFails(t)
    \/ CheckoutFails(t) \/ CheckoutBuilds(t)
    \/ BeginPullRequest(t) \/ OpenPullRequest(t) \/ PullRequestFails(t)
    \/ ShipmentRaises(t)

Next ==
    \/ \E t \in Tasks : ChainStep(t) \/ Shipment(t) \/ Resume(t) \/ Recover(t)
    \/ DecidePullRequest \/ PlanAgain \/ Restart

Spec == Init /\ [][Next]_vars

-----------------------------------------------------------------------------
(* Properties.                                                             *)

TypeOK ==
    /\ repo \in Repos /\ status \in [Tasks -> Statuses]
    /\ phase \in Phases /\ verification \in {"pending", "passed", "blocked"}
    /\ evidence \in Evidence /\ gates \in Nat
    /\ step \in [Tasks -> {"idle", "busy", "integrated", "merging", "verifying", "opening"}]
    /\ writer \in Tasks \cup {NoTask}
    /\ \A t \in Tasks : step[t] \in {"merging", "verifying"} <=> writer = t
    /\ main \in SUBSET Tasks /\ proven \in BOOLEAN
    /\ unseen \in BOOLEAN /\ undecided \in BOOLEAN

\* A local sprint that is shipped with all of its tasks done is what it says:
\* the main branch has the work of every task, and its checkout was built
\* since, whatever failed, was recovered or was re-decided by a start.
ShippedIsDelivered ==
    repo = "local" /\ phase = "shipped" /\ AllDone(status) => main = Tasks /\ proven

\* Phase and verdict, which different readers go by, agree for a sprint that
\* has no review.
VerdictMatchesPhase ==
    repo = "local" =>
        /\ verification = "passed" <=> phase = "shipped"
        /\ verification = "blocked" <=> phase = "blocked"

\* A sprint blocked by its shipment can be shipped by an operator: one of its
\* tasks goes on, can be dispatched or recovered, or was rejected by somebody.
BlockedHasWayOut ==
    phase = "blocked" /\ evidence.error \in {"merge", "dirty", "checkout"} =>
        \E t \in Tasks : Recoverable(t) \/ status[t] \in {"pending", "active", "waiting", "rejected"}

\* A failure that leaves nothing going on, and work to do, is marked: the
\* sprint says that it is blocked instead of going silent (P23).
Silent ==
    /\ \A t \in Tasks : status[t] \notin {"active", "waiting"}
    /\ \E t \in Tasks : status[t] = "pending"
    /\ \E t \in Tasks : status[t] \notin {"pending", "done"}
StallIsMarked == phase = "implementation" /\ Silent => unseen

\* The task that is done last decides the sprint: it does not stay in
\* implementation with nothing left to do.
LastTaskDecides ==
    /\ AllDone(status) /\ \A t \in Tasks : step[t] = "idle"
    /\ phase \in {"implementation", "verify"}
    => undecided
=============================================================================
