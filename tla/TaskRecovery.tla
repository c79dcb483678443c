---------------------------- MODULE TaskRecovery ----------------------------
(***************************************************************************)
(* What POST /tasks/{id}/recover decides from a task row                   *)
(* (services/task_recovery.py, services/provider_limits.py).               *)
(*                                                                         *)
(* A blocked reason is text; the code tells reasons apart by a prefix or a *)
(* substring, and the model by a class with one value per text the program *)
(* writes.                                                                 *)
(***************************************************************************)
EXTENDS TaskStatus

\* Faulty variant: nobody gave scaffold failures a way back.
ImplementationBlocks_NoScaffold == {"impl_decision", "final_checkout", "gate_infra", "gate_cap"}

\* Reasons that send a blocked task back to implementation, and the others
\* recovery knows.
ImplementationBlocks ==
    {"impl_decision", "final_checkout", "scaffold_failed", "gate_infra", "gate_cap"}

RecoverableBlocks == ImplementationBlocks \cup {"doc_gate", "dispatch_failed", "cycle"}

\* Blocked reasons for which recovery has no rule: an approver's refusal, an
\* operator decision of a phase other than implementation, missing task
\* documents, a workspace that cannot be provisioned, and a chain stopped at
\* its step limit.
OperatorBlocks ==
    {"rejected", "other_decision", "doc_requirements", "workspace", "chain_limit"}

\* The classes of text that blocked_reason can hold.
BlockedReasons ==
    {"none", "error", "unintegrated", "gate_feedback", "limit", "changes"}
        \cup RecoverableBlocks \cup OperatorBlocks

\* The latest completed build-verifier run: none, one whose output recovery
\* reads as clean, one in which it reads a failed check.
VerifierRuns == {"none", "pass", "fail"}

\* What recovery reads of a task, its gates, its runs and its sprint.
TaskViews ==
    [status : TaskStatuses, phase : TaskPhases, reason : BlockedReasons,
     changesRequested : BOOLEAN, verifier : VerifierRuns, mergeError : BOOLEAN]

\* The Board's predicate for the Recover button.
TaskIsRecoverable(t) ==
    \/ t.status \in {"failed", "capability_limit"}
    \/ t.status = "blocked" /\ t.reason \in RecoverableBlocks

\* The status that a task stopped by a provider limit resumes in.
ProviderLimitTarget ==
    [p \in TaskPhases |->
        CASE p = "design" -> "design"
          [] p = "implementation" -> "implementation"
          [] p = "verification" -> "quality_gates"
          [] p = "integration" -> "pr_creation"
          [] OTHER -> "planning"]

FailedTarget(t) ==
    CASE t.phase = "integration" -> "build_verify"
      [] t.phase = "complete" /\ t.verifier # "none" -> "build_verify"
      [] t.phase = "implementation" -> "implementation"
      [] t.phase = "verification" -> "quality_gates"
      [] OTHER -> "pending"

DispatchFailedTarget ==
    [p \in TaskPhases |->
        CASE p = "integration" -> "build_verify"
          [] p = "verification" -> "quality_gates"
          [] p = "implementation" -> "implementation"
          [] p = "design" -> "design"
          [] OTHER -> "pending"]

\* Faulty variant: the rule for cycles is missing.
BlockedTarget_NoCycle(t) ==
    IF t.reason = "doc_gate" THEN "quality_gates"
    ELSE IF t.reason = "dispatch_failed" THEN DispatchFailedTarget[t.phase]
    ELSE IF t.changesRequested \/ t.reason \in ImplementationBlocks THEN "implementation"
    ELSE "refused"

\* Faulty variant: a task blocked at its documentation resumes past the gates.
BlockedTarget_PastGates(t) ==
    IF t.reason = "doc_gate" THEN "pr_creation" ELSE BlockedTarget_NoCycle(t)

\* The rules are tried in this order: a pr gate with change requests, which
\* stays in the database for good, outranks every rule below it.
BlockedTarget(t) ==
    IF t.reason = "doc_gate" THEN "quality_gates"
    ELSE IF t.reason = "dispatch_failed" THEN DispatchFailedTarget[t.phase]
    ELSE IF t.changesRequested \/ t.reason \in ImplementationBlocks THEN "implementation"
    ELSE IF t.reason = "cycle" THEN "pending"
    ELSE "refused"

\* The status recovery moves the task to, or "refused" (409).
RecoveryTarget(t) ==
    CASE t.status = "failed" -> FailedTarget(t)
      [] t.status = "blocked" -> BlockedTarget(t)
      [] t.status = "done" /\ (t.verifier = "fail" \/ t.mergeError) -> "build_verify"
      [] t.status = "pending" /\ t.verifier # "none" -> "build_verify"
      [] t.status = "capability_limit" -> ProviderLimitTarget[t.phase]
      [] OTHER -> "refused"

Recoverable(t) == RecoveryTarget(t) # "refused"
=============================================================================
