----------------------------- MODULE TaskStatus -----------------------------
(***************************************************************************)
(* The vocabulary of a task row: its statuses, its phases, and the tables  *)
(* of db/models.py, orchestrator.py, task_dispatch_policy.py and           *)
(* autonomous_orchestration.py that the rest of the program consults.      *)
(*                                                                         *)
(* QUEUED is left out: nothing in the program writes it, only rows of      *)
(* older databases hold it, and dispatch() remaps it before its first use. *)
(***************************************************************************)

OffPath == {"blocked", "capability_limit", "failed"}

\* Statuses a dispatch step can advance (autonomous_orchestration.py).
DISPATCHABLE_STATUSES ==
    {"pending", "planning", "design", "implementation", "quality_gates",
     "pr_creation", "build_verify"}

\* Statuses that wait for somebody (orchestrator.py and task_dispatch_policy.py
\* keep one copy each of this set).
BLOCKED_STATUSES == {"design_review", "review_pending", "done"} \cup OffPath

TaskStatuses == DISPATCHABLE_STATUSES \cup BLOCKED_STATUSES

TaskPhases ==
    {"planning", "design", "implementation", "verification", "integration", "complete"}

\* Off-path statuses keep the phase they were reached in, so the table is
\* read for the other statuses only.
PHASE_FOR_STATUS ==
    [s \in TaskStatuses |->
        CASE s \in {"design", "design_review"} -> "design"
          [] s = "implementation" -> "implementation"
          [] s = "quality_gates" -> "verification"
          [] s \in {"pr_creation", "review_pending", "build_verify"} -> "integration"
          [] s = "done" -> "complete"
          [] OTHER -> "planning"]

\* Faulty variant: an off-path status takes the phase of the table.
PhaseAfter_Forgetful(s, p) == PHASE_FOR_STATUS[s]

\* The phase that set_task_status(task, s) leaves in a row that was in phase p.
PhaseAfter(s, p) == IF s \in OffPath THEN p ELSE PHASE_FOR_STATUS[s]

\* Statuses a server that starts up takes for interrupted work.
ACTIVE_STATUSES == DISPATCHABLE_STATUSES \ {"pending"}

\* Statuses that make a task "open" for its feature.
WORK_IN_PROGRESS_STATUSES ==
    ACTIVE_STATUSES \cup {"blocked", "capability_limit", "design_review", "review_pending"}
=============================================================================
