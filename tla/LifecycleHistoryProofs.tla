----------------------- MODULE LifecycleHistoryProofs -----------------------
(***************************************************************************)
(* Further theorems about TaskLifecycle, for every retry budget, number of *)
(* tries and step limit: what the reason of a block, the history of the    *)
(* code, the verifier's run and a question to the operator mean.  They     *)
(* rest on LifecycleInv, and on a second inductive invariant relative to   *)
(* it: the phase remembers what an off-path task went through, so recovery *)
(* and the reconcilers, which go by the phase, resume it where its history *)
(* allows.  With both, TaskLifecycle is shown to implement TaskProtocol:   *)
(* every action of a chain, a reviewer, an operator or a starting server   *)
(* is an action of the abstract task, or leaves it as it is.               *)
(***************************************************************************)
EXTENDS TaskLifecycleProofs

\* Reasons that are written with one status and phase only, and go with it.
Marks == {"unintegrated", "final_checkout", "gate_cap", "doc_gate", "gate_infra"}

ReasonOK ==
    /\ status = "blocked" => blocked_reason \in RecoverableBlocks \cup OperatorBlocks
    /\ blocked_reason \in Marks \ {"unintegrated"} => status = "blocked"
    /\ blocked_reason \in {"unintegrated", "final_checkout"} => phase = "complete"
    /\ blocked_reason \in {"gate_cap", "doc_gate", "gate_infra"} => phase = "verification"

GatesSettled == gated \/ "gates" \in skipped
ReviewSettled == InSprint \/ reviewed \/ "review" \in skipped

Verifiers == {"feature-verifier", "build-verifier"}

HistoryOK ==
    /\ phase \in {"integration", "complete"} => GatesSettled
    /\ phase = "complete" \/ status = "build_verify" => ReviewSettled
    /\ inflight \in Verifiers => GatesSettled /\ ReviewSettled

VerifiedOK == status = "done" \/ blocked_reason = "unintegrated" => verifier # "none"

HandoffOK ==
    operator_decision =>
        \/ status = "blocked"
        \/ InSprint /\ status = "implementation" /\ chain # "running"
        \/ InSprint /\ status = "failed" /\ blocked_reason # "unintegrated"

More == ReasonOK /\ HistoryOK /\ VerifiedOK /\ HandoffOK

-----------------------------------------------------------------------------
(* What the parts say of a step.                                           *)

\* Of the statuses on the path, these belong to the last phases.
LEMMA PhaseTable ==
  ASSUME NEW s \in TaskStatuses
  PROVE  /\ PHASE_FOR_STATUS[s] = "integration" <=>
                s \in {"pr_creation", "review_pending", "build_verify"}
         /\ PHASE_FOR_STATUS[s] = "complete" <=> s = "done"
         /\ s = "quality_gates" => PHASE_FOR_STATUS[s] = "verification"
  BY DEF PHASE_FOR_STATUS, TaskStatuses, DISPATCHABLE_STATUSES, BLOCKED_STATUSES, OffPath

LEMMA PhaseNow ==
  ASSUME Parts, status \notin OffPath
  PROVE  /\ phase = "integration" <=> status \in {"pr_creation", "review_pending", "build_verify"}
         /\ phase = "complete" <=> status = "done"
         /\ status = "quality_gates" => phase = "verification"
  BY PhaseTable DEF Parts, RowOK

LEMMA PhaseNext ==
  ASSUME Parts', status' \notin OffPath
  PROVE  /\ phase' = "integration" <=> status' \in {"pr_creation", "review_pending", "build_verify"}
         /\ phase' = "complete" <=> status' = "done"
  BY PhaseTable DEF Parts, RowOK

\* A task at work bears no mark, and no question unless the sprint's reviewer
\* put it to work.
LEMMA Unmarked ==
  ASSUME Parts, More, chain # "idle"
  PROVE  /\ status \in DISPATCHABLE_STATUSES /\ status \notin OffPath
         /\ blocked_reason \notin Marks
         /\ operator_decision => InSprint /\ status = "implementation" /\ chain = "queued"
  <1>1. status \in DISPATCHABLE_STATUSES /\ blocked_reason # "unintegrated"
    BY AtWork DEF Parts
  <1>2. status \notin OffPath /\ status \notin {"blocked", "failed"}
    BY <1>1, DispatchableFacts DEF OffPath
  <1>3. blocked_reason \notin Marks
    BY <1>1, <1>2 DEF More, ReasonOK, Marks
  <1>4. operator_decision => InSprint /\ status = "implementation" /\ chain = "queued"
    BY <1>2 DEF More, HandoffOK, Parts, ChainOK
  <1> QED
    BY <1>1, <1>2, <1>3, <1>4

\* A step that leaves the history alone and does not go to verify a build.
LEMMA HistoryKept ==
  ASSUME Parts', HistoryOK, UNCHANGED <<history, kind>>, inflight' \notin Verifiers,
         status' \notin {"build_verify", "done"},
         status' \in OffPath => phase' = phase \/ phase' \notin {"integration", "complete"}
  PROVE  HistoryOK'
  <1>1. (GatesSettled <=> GatesSettled') /\ (ReviewSettled <=> ReviewSettled')
    BY DEF history, GatesSettled, ReviewSettled, InSprint
  <1>2. CASE status' \in OffPath
    BY <1>1, <1>2 DEF HistoryOK, OffPath
  <1>3. CASE status' \notin OffPath
    <2>1. phase' # "complete" /\ (phase' = "integration" => gated')
      BY <1>3, PhaseNext DEF Parts, PrIsGated
    <2> QED
      BY <1>1, <2>1 DEF HistoryOK, GatesSettled
  <1> QED
    BY <1>2, <1>3

\* How a step ends: with the status it means to, or a limit already past
\* resumes its task.
LEMMA EndOfStep ==
  ASSUME NEW p, NEW s, NEW r, NEW limit, EndStepFrom(p, s, r, limit)
  PROVE  /\ inflight' = "none" /\ chain' # "running"
         /\ \/ status' = s /\ phase' = PhaseAfter(s, p) /\ blocked_reason' = r
            \/ /\ s = "capability_limit" /\ status' = ProviderLimitTarget[PhaseAfter(s, p)]
               /\ blocked_reason' = "none"
  <1> DEFINE before == PhaseAfter(s, p)
             resume == s = "capability_limit" /\ limit = "due"
             next == IF resume THEN ProviderLimitTarget[before] ELSE s
  <1>1. /\ status' = next
        /\ phase' = PhaseAfter(next, before)
        /\ blocked_reason' = IF resume THEN "none" ELSE r
        /\ chain' \in {"queued", "idle"} /\ inflight' = "none"
    BY Zenon DEF EndStepFrom, CloseChain
  <1>2. PhaseAfter(s, PhaseAfter(s, p)) = PhaseAfter(s, p)
    BY DEF PhaseAfter
  <1>3. CASE resume
    BY <1>1, <1>3
  <1>4. CASE ~resume
    BY <1>1, <1>2, <1>4
  <1> QED
    BY <1>3, <1>4

LEMMA ResumeTarget ==
  ASSUME NEW p \in TaskPhases
  PROVE  ProviderLimitTarget[p] \in {"design", "implementation", "quality_gates",
                                     "pr_creation", "planning"}
  BY DEF ProviderLimitTarget, TaskPhases

\* The usual end of a step: nothing of the history changes, and what is
\* written goes with the status.
LEMMA StepEndsWell ==
  ASSUME Parts, Parts', More, chain # "idle", NEW s \in TaskStatuses, NEW r, NEW limit,
         EndStepFrom(phase, s, r, limit), UNCHANGED <<history, kind>>,
         verifier' = verifier \/ verifier' # "none",
         s \notin {"build_verify", "done"},
         s = "blocked" => r \in (RecoverableBlocks \cup OperatorBlocks) \ {"final_checkout"},
         s = "blocked" /\ r \in Marks => phase = "verification",
         s # "blocked" => r = blocked_reason \/ r \notin Marks,
         operator_decision' => s = "blocked" \/ (operator_decision /\ s = "failed")
  PROVE  More'
  <1>1. /\ blocked_reason \notin Marks /\ status \notin OffPath
        /\ operator_decision => InSprint
    BY Unmarked
  <1>2. inflight' = "none" /\ chain' # "running" /\ inflight' \notin Verifiers
    BY EndOfStep DEF Verifiers
  <1>3. PhaseAfter(s, phase) = IF s \in OffPath THEN phase ELSE PHASE_FOR_STATUS[s]
    BY DEF PhaseAfter
  <1>4. CASE status' = s /\ phase' = PhaseAfter(s, phase) /\ blocked_reason' = r
    <2>1. HistoryOK'
      BY <1>2, <1>3, <1>4, HistoryKept DEF More
    <2>2. s = "blocked" => phase' = phase
      BY <1>3, <1>4 DEF OffPath
    <2>3. r = "unintegrated" => FALSE
      BY <1>1 DEF Marks, RecoverableBlocks, ImplementationBlocks, OperatorBlocks
    <2>4. ReasonOK'
      BY <1>1, <1>4, <2>2, <2>3 DEF ReasonOK, Marks
    <2>5. VerifiedOK'
      BY <1>4, <2>3 DEF VerifiedOK
    <2>6. HandoffOK'
      BY <1>1, <1>4, <2>3 DEF HandoffOK, InSprint
    <2> QED
      BY <2>1, <2>4, <2>5, <2>6 DEF More
  <1>5. CASE /\ s = "capability_limit" /\ blocked_reason' = "none"
             /\ status' = ProviderLimitTarget[PhaseAfter(s, phase)]
    <2>1. status' \in {"design", "implementation", "quality_gates", "pr_creation", "planning"}
      BY <1>3, <1>5, ResumeTarget DEF OffPath, Parts, RowOK
    <2>2. HistoryOK'
      BY <1>2, <2>1, HistoryKept DEF More, OffPath
    <2>3. ReasonOK' /\ VerifiedOK' /\ HandoffOK'
      BY <1>5, <2>1 DEF ReasonOK, VerifiedOK, HandoffOK, Marks
    <2> QED
      BY <2>2, <2>3 DEF More
  <1> QED
    BY <1>4, <1>5, EndOfStep

\* The usual start of an agent, before the code is generated or after.
LEMMA AgentStartsWell ==
  ASSUME Parts, Parts', More, chain # "idle", NEW a \in Agents \ Verifiers, NEW s,
         StartAgent(a, s), UNCHANGED <<blocked_reason, verifier, kind>>,
         s \in {"planning", "design", "implementation", "quality_gates", "pr_creation"},
         UNCHANGED history \/ s = "implementation", ~operator_decision'
  PROVE  More'
  <1>1. blocked_reason \notin Marks
    BY Unmarked
  <1>2. status' = s /\ inflight' = a
    BY DEF StartAgent
  <1>3. HistoryOK'
    <2>1. CASE UNCHANGED history
      BY <1>2, <2>1, HistoryKept DEF More, OffPath
    <2>2. CASE s = "implementation"
      BY <1>2, <2>2, PhaseNext DEF HistoryOK, OffPath
    <2> QED
      BY <2>1, <2>2
  <1>4. ReasonOK' /\ VerifiedOK'
    BY <1>1, <1>2 DEF ReasonOK, VerifiedOK, Marks
  <1> QED
    BY <1>3, <1>4 DEF More, HandoffOK

-----------------------------------------------------------------------------
(* The handlers, in the order of a task's way.                             *)

\* The statuses and reasons that steps end with.
LEMMA Vocabulary ==
  /\ {"implementation", "quality_gates", "pr_creation", "build_verify", "design_review",
      "review_pending", "done", "failed", "blocked", "capability_limit"} \subseteq TaskStatuses
  /\ {"error", "limit", "none", "gate_feedback"} \cap Marks = {}
  /\ {"impl_decision", "other_decision", "scaffold_failed"} \subseteq
         (RecoverableBlocks \cup OperatorBlocks) \ (Marks \cup {"final_checkout"})
  /\ {"workspace", "doc_requirements", "doc_gate", "gate_infra", "gate_cap"} \subseteq
         (RecoverableBlocks \cup OperatorBlocks) \ {"final_checkout"}
  /\ {"rejected", "dispatch_failed", "cycle", "chain_limit"} \subseteq
         (RecoverableBlocks \cup OperatorBlocks) \ Marks
  BY DEF TaskStatuses, DISPATCHABLE_STATUSES, BLOCKED_STATUSES, OffPath, Marks,
         RecoverableBlocks, ImplementationBlocks, OperatorBlocks

\* An agent that did not deliver.
LEMMA AgentStopsWell ==
  ASSUME Parts, Parts', More, chain = "running", AgentStops,
         UNCHANGED <<history, kind, verifier>>
  PROVE  More'
  <1>1. ~operator_decision
    BY Unmarked
  <1>2. CASE EndStep("failed", "error") /\ UNCHANGED operator_decision
    BY <1>1, <1>2, StepEndsWell, Vocabulary DEF EndStep
  <1>3. ASSUME NEW r \in {"impl_decision", "other_decision"}, EndStep("blocked", r)
        PROVE  More'
    BY <1>3, StepEndsWell, Vocabulary DEF EndStep
  <1>4. ASSUME NEW limit, EndStepFrom(phase, "capability_limit", "limit", limit),
               UNCHANGED operator_decision
        PROVE  More'
    BY <1>1, <1>4, StepEndsWell, Vocabulary
  <1> QED
    BY <1>2, <1>3, <1>4 DEF AgentStops

LEMMA PlanningIsWell ==
  ASSUME Parts, Parts', More, PhasePlanning \/ PhaseDesign PROVE More'
  <1>1. /\ chain # "idle" /\ ~operator_decision' /\ UNCHANGED <<history, kind, verifier>>
    BY Unmarked DEF PhasePlanning, PhaseDesign, FreshStep, StepDue
  <1>2. CASE EndStep("implementation", blocked_reason)
    BY <1>1, <1>2, StepEndsWell, Vocabulary DEF EndStep
  <1>3. ASSUME NEW a \in {"planner", "designer"}, NEW s \in {"planning", "design"},
               StartAgent(a, s), UNCHANGED blocked_reason
        PROVE  More'
    BY <1>1, <1>3, AgentStartsWell DEF Agents, Verifiers
  <1> QED
    BY <1>2, <1>3 DEF PhasePlanning, PhaseDesign

LEMMA PlanIsWell ==
  ASSUME Parts, Parts', More, PlannerEnds \/ DesignerEnds \/ UiPrototyperEnds PROVE More'
  <1>1. /\ chain = "running" /\ ~operator_decision /\ UNCHANGED <<history, kind, verifier>>
    BY Unmarked DEF PlannerEnds, DesignerEnds, UiPrototyperEnds, AgentEnds
  <1>2. CASE AgentStops
    BY <1>1, <1>2, AgentStopsWell
  <1>3. ASSUME NEW s \in {"design_review", "implementation"}, EndStep(s, blocked_reason),
               UNCHANGED operator_decision
        PROVE  More'
    BY <1>1, <1>3, StepEndsWell, Vocabulary DEF EndStep
  <1>4. CASE /\ StartAgent("ui-prototyper", "design")
             /\ UNCHANGED <<blocked_reason, operator_decision>>
    BY <1>1, <1>4, AgentStartsWell DEF Agents, Verifiers
  <1> QED
    BY <1>2, <1>3, <1>4 DEF PlannerEnds, DesignerEnds, UiPrototyperEnds

LEMMA ImplementationIsWell ==
  ASSUME Parts, Parts', More, PhaseImplementation \/ ScaffoldEnds \/ CodeGenEnds PROVE More'
  <1>1. /\ chain # "idle" /\ UNCHANGED <<kind, verifier>>
        /\ PhaseImplementation \/ ScaffoldEnds => ~operator_decision'
        /\ CodeGenEnds => chain = "running" /\ ~operator_decision
    BY Unmarked DEF PhaseImplementation, ScaffoldEnds, CodeGenEnds, AgentEnds, FreshStep, StepDue,
                    linked
  <1>2. CASE PhaseImplementation \/ ScaffoldEnds
    <2>1. CASE EndStep("blocked", "scaffold_failed") /\ UNCHANGED history
      BY <1>1, <1>2, <2>1, StepEndsWell, Vocabulary DEF EndStep
    <2>2. CASE StartAgent("scaffold", "implementation") /\ UNCHANGED blocked_reason
      BY <1>1, <1>2, <2>2, AgentStartsWell DEF Agents, Verifiers
    <2>3. CASE StartCodeGen /\ UNCHANGED blocked_reason
      BY <1>1, <1>2, <2>3, AgentStartsWell DEF StartCodeGen, Agents, Verifiers
    <2> QED
      BY <1>2, <2>1, <2>2, <2>3 DEF PhaseImplementation, ScaffoldEnds
  <1>3. CASE CodeGenEnds
    <2>1. UNCHANGED history
      BY <1>3 DEF CodeGenEnds
    <2>2. CASE AgentStops
      BY <1>1, <1>3, <2>1, <2>2, AgentStopsWell
    <2>3. CASE EndStep("quality_gates", blocked_reason) /\ UNCHANGED operator_decision
      BY <1>1, <1>3, <2>1, <2>3, StepEndsWell, Vocabulary DEF EndStep
    <2> QED
      BY <1>3, <2>2, <2>3 DEF CodeGenEnds
  <1> QED
    BY <1>2, <1>3

\* The gates are in the verification phase, and so are the blocks they write.
LEMMA GatesAreWell ==
  ASSUME Parts, Parts', More,
         QualityGateCap \/ QualityGatesBlock \/ QualityGatesFail \/ GateRemediatorEnds
  PROVE  More'
  <1>1. /\ chain # "idle" /\ UNCHANGED <<history, kind, verifier, operator_decision>>
        /\ ~operator_decision
        /\ QualityGateCap \/ QualityGatesBlock => status = "quality_gates"
    BY Unmarked DEF QualityGateCap, QualityGatesBlock, QualityGatesFail, GateRemediatorEnds,
                    AgentEnds, FreshStep, StepDue, linked
  <1>2. CASE QualityGateCap \/ QualityGatesBlock
    <2>1. phase = "verification"
      BY <1>1, <1>2, PhaseNow, Unmarked
    <2>2. ASSUME NEW r \in {"workspace", "doc_requirements", "doc_gate", "gate_infra", "gate_cap"},
                 EndStep("blocked", r)
          PROVE  More'
      BY <1>1, <2>1, <2>2, StepEndsWell, Vocabulary DEF EndStep
    <2> QED
      BY <1>2, <2>2 DEF QualityGateCap, QualityGatesBlock
  <1>3. CASE QualityGatesFail \/ GateRemediatorEnds
    <2>1. CASE EndStep("quality_gates", blocked_reason)
      BY <1>1, <2>1, StepEndsWell, Vocabulary DEF EndStep
    <2>2. CASE EndStep("capability_limit", "gate_feedback")
      BY <1>1, <2>2, StepEndsWell, Vocabulary DEF EndStep
    <2>3. CASE EndStep("implementation", "gate_feedback")
      BY <1>1, <2>3, StepEndsWell, Vocabulary DEF EndStep
    <2>4. CASE StartAgent("gate-remediator", "quality_gates") /\ UNCHANGED blocked_reason
      BY <1>1, <2>4, AgentStartsWell DEF Agents, Verifiers
    <2> QED
      BY <1>3, <2>1, <2>2, <2>3, <2>4
      DEF QualityGatesFail, GateRemediatorEnds, Remediate, EscalateToCapabilityLimit
  <1> QED
    BY <1>2, <1>3

\* The gates pass: what comes next is of code they settled.
LEMMA GatesPassWell ==
  ASSUME Parts, Parts', More, QualityGatesPass
  PROVE  More'
  <1>1. /\ chain # "idle" /\ ~operator_decision' /\ gated' /\ UNCHANGED <<kind, verifier>>
    BY Unmarked DEF QualityGatesPass, FreshStep, StepDue
  <1>2. EndStepFrom(phase, "pr_creation", "none", provider_limit)
    BY DEF QualityGatesPass, EndStep
  <1>3. status' = "pr_creation" /\ blocked_reason' = "none" /\ inflight' = "none"
    BY <1>2, EndOfStep
  <1>4. phase' = "integration"
    BY <1>3, PhaseNext DEF OffPath
  <1> QED
    BY <1>1, <1>3, <1>4
    DEF More, ReasonOK, HistoryOK, VerifiedOK, HandoffOK, GatesSettled, Marks, Verifiers

\* A task to be integrated has settled gates, and a task to be verified also
\* its review.
LEMMA SettledNow ==
  ASSUME Parts, More
  PROVE  /\ status \in {"pr_creation", "review_pending", "build_verify", "done"} => GatesSettled
         /\ status \in {"build_verify", "done"} => ReviewSettled
  BY PhaseNow DEF More, HistoryOK, OffPath

LEMMA PullRequestIsWell ==
  ASSUME Parts, Parts', More, PhasePrCreation \/ PrCreatorEnds
  PROVE  More'
  <1>1. /\ chain # "idle" /\ ~operator_decision' /\ UNCHANGED <<history, kind, verifier>>
        /\ PhasePrCreation => status = "pr_creation"
    BY Unmarked DEF PhasePrCreation, PrCreatorEnds, AgentEnds, FreshStep, StepDue
  <1>2. CASE EndStep("failed", "error")
    BY <1>1, <1>2, StepEndsWell, Vocabulary DEF EndStep
  <1>3. CASE EndStep("review_pending", blocked_reason)
    BY <1>1, <1>3, StepEndsWell, Vocabulary DEF EndStep
  <1>4. CASE StartAgent("pr-creator", "pr_creation") /\ UNCHANGED blocked_reason
    BY <1>1, <1>4, AgentStartsWell DEF Agents, Verifiers
  <1>5. CASE PhasePrCreation /\ InSprint /\ EndStep("build_verify", blocked_reason)
    <2>1. EndStepFrom(phase, "build_verify", blocked_reason, provider_limit)
      BY <1>5 DEF EndStep
    <2>2. status' = "build_verify" /\ blocked_reason' = blocked_reason /\ inflight' = "none"
      BY <2>1, EndOfStep
    <2>3. GatesSettled' /\ ReviewSettled'
      BY <1>1, <1>5, SettledNow DEF GatesSettled, ReviewSettled, InSprint, history
    <2>4. blocked_reason \notin Marks
      BY <1>1, Unmarked
    <2> QED
      BY <1>1, <2>2, <2>3, <2>4
      DEF More, ReasonOK, HistoryOK, VerifiedOK, HandoffOK, Marks, Verifiers
  <1> QED
    BY <1>2, <1>3, <1>4, <1>5 DEF PhasePrCreation, PrCreatorEnds

\* A task that was verified ends complete, whatever becomes of its sprint.
LEMMA SprintTaskIsWell ==
  ASSUME Parts, Parts', More, InSprint, chain # "idle", GatesSettled,
         RefuseSprintTask \/ IntegrateSprintTask, UNCHANGED <<history, kind>>
  PROVE  More'
  <1>1. CASE EndStep("failed", "error") /\ UNCHANGED operator_decision
             /\ verifier' \in {verifier, "pass"}
    BY <1>1, StepEndsWell, Vocabulary DEF EndStep
  <1>2. ASSUME NEW o \in PossibleOutcomes,
               EndStepFrom("complete", SprintOutcomes[o].status, SprintOutcomes[o].reason,
                           provider_limit),
               operator_decision' = FALSE, verifier' = "pass"
        PROVE  More'
    <2>1. \/ SprintOutcomes[o].status = "done" /\ SprintOutcomes[o].reason = "none"
          \/ SprintOutcomes[o].status = "failed" /\ SprintOutcomes[o].reason = "error"
          \/ SprintOutcomes[o].status = "blocked" /\ SprintOutcomes[o].reason = "final_checkout"
      BY DEF PossibleOutcomes, SprintOutcomes
    <2>2. PICK st \in {"done", "failed", "blocked"}, r \in {"none", "error", "final_checkout"} :
             /\ EndStepFrom("complete", st, r, provider_limit)
             /\ \/ st \in {"done", "failed"} /\ r \in {"none", "error"}
                \/ st = "blocked" /\ r = "final_checkout"
      BY <1>2, <2>1
    <2>3. /\ status' = st /\ phase' = PhaseAfter(st, "complete") /\ blocked_reason' = r
          /\ inflight' = "none"
      BY <2>2, EndOfStep
    <2>4. phase' = "complete"
      BY <2>3 DEF PhaseAfter, PHASE_FOR_STATUS, OffPath, TaskStatuses, BLOCKED_STATUSES
    <2>5. GatesSettled' /\ ReviewSettled'
      BY DEF GatesSettled, ReviewSettled, InSprint, history
    <2>6. HistoryOK'
      BY <2>3, <2>5 DEF HistoryOK, Verifiers
    <2>7. ReasonOK'
      BY <2>2, <2>3, <2>4 DEF ReasonOK, Marks, RecoverableBlocks, ImplementationBlocks
    <2> QED
      BY <1>2, <2>6, <2>7 DEF More, VerifiedOK, HandoffOK
  <1> QED
    BY <1>1, <1>2 DEF RefuseSprintTask, IntegrateSprintTask

LEMMA BuildVerifyIsWell ==
  ASSUME Parts, Parts', More, PhaseBuildVerify \/ FeatureVerifierEnds \/ BuildVerifierEnds
  PROVE  More'
  <1>1. /\ chain # "idle" /\ UNCHANGED <<history, kind>>
        /\ PhaseBuildVerify => status = "build_verify"
        /\ FeatureVerifierEnds \/ BuildVerifierEnds => inflight \in Verifiers /\ chain = "running"
        /\ FeatureVerifierEnds => inflight = "feature-verifier"
    BY DEF PhaseBuildVerify, FeatureVerifierEnds, BuildVerifierEnds, AgentEnds, FreshStep, StepDue,
           Verifiers
  <1>2. GatesSettled /\ ReviewSettled
    BY <1>1, SettledNow DEF More, HistoryOK
  <1>3. ~operator_decision
    BY <1>1, Unmarked
  <1>4. GatesSettled' /\ ReviewSettled'
    BY <1>1, <1>2 DEF GatesSettled, ReviewSettled, InSprint, history
  <1>5. CASE ((PhaseBuildVerify /\ InSprint) \/ FeatureVerifierEnds)
             /\ (RefuseSprintTask \/ IntegrateSprintTask)
    <2>1. InSprint
      BY <1>1, <1>5 DEF Parts, GatesOK, KindFits
    <2> QED
      BY <1>1, <1>2, <1>5, <2>1, SprintTaskIsWell
  <1>6. ASSUME NEW a \in Verifiers, StartAgent(a, "build_verify"),
               UNCHANGED <<blocked_reason, operator_decision, verifier>>
        PROVE  More'
    <2>1. status' = "build_verify" /\ blocked_reason' \notin Marks
      BY <1>1, <1>6, Unmarked DEF StartAgent
    <2> QED
      BY <1>3, <1>4, <1>6, <2>1 DEF More, ReasonOK, HistoryOK, VerifiedOK, HandoffOK, Marks
  <1>7. CASE BuildVerifierEnds
    <2>1. CASE EndStep("failed", "error") /\ verifier' \in {verifier, "pass", "fail"}
               /\ UNCHANGED operator_decision
      BY <1>1, <1>3, <2>1, StepEndsWell, Vocabulary DEF EndStep
    <2>2. CASE EndStep("done", "none") /\ verifier' \in {"pass", "fail"}
               /\ operator_decision' = FALSE
      <3>1. EndStepFrom(phase, "done", "none", provider_limit)
        BY <2>2 DEF EndStep
      <3>2. status' = "done" /\ blocked_reason' = "none" /\ inflight' = "none"
        BY <3>1, EndOfStep
      <3> QED
        BY <1>4, <2>2, <3>2
        DEF More, ReasonOK, HistoryOK, VerifiedOK, HandoffOK, Marks, Verifiers
    <2> QED
      BY <1>7, <2>1, <2>2 DEF BuildVerifierEnds
  <1>8. CASE PhaseBuildVerify
    BY <1>5, <1>6, <1>8 DEF PhaseBuildVerify, Verifiers
  <1> QED
    BY <1>1, <1>5, <1>7, <1>8 DEF FeatureVerifierEnds

-----------------------------------------------------------------------------
(* Steps that do not end as meant, and the calls from outside.             *)

\* A status written from outside its handler, with the history left alone.
LEMMA StatusWrittenWell ==
  ASSUME Parts', More, UNCHANGED <<history, kind>>, verifier' = verifier \/ verifier' # "none",
         inflight' \notin Verifiers, status' \notin {"build_verify", "done"},
         status' \in OffPath => UNCHANGED phase,
         blocked_reason' \notin Marks,
         status' = "blocked" => blocked_reason' \in RecoverableBlocks \cup OperatorBlocks,
         operator_decision' => \/ status' = "blocked"
                               \/ InSprint /\ status' = "implementation" /\ chain' # "running"
  PROVE  More'
  <1>1. HistoryOK'
    BY HistoryKept DEF More
  <1>2. ReasonOK' /\ VerifiedOK'
    BY DEF ReasonOK, VerifiedOK, Marks
  <1>3. HandoffOK'
    BY DEF HandoffOK, InSprint
  <1> QED
    BY <1>1, <1>2, <1>3 DEF More

LEMMA FaultsAreWell ==
  ASSUME Parts, Parts', More, FaultStep \/ DispatchCycle \/ ChainTooLong
  PROVE  More'
  <1>1. /\ chain # "idle" /\ UNCHANGED <<history, kind, operator_decision>>
        /\ verifier' = verifier \/ verifier' # "none"
    BY DEF FaultStep, HandlerRaises, DispatchFails, RetryLockedCommit, DispatchCycle, ChainTooLong,
           FreshStep, StepDue, linked, row
  <1>2. CASE HandlerRaises
    BY <1>1, <1>2, StepEndsWell, Vocabulary DEF HandlerRaises, EndStep
  <1>3. CASE DispatchFails \/ DispatchCycle \/ ChainTooLong
    <2>1. /\ status' = "blocked" /\ UNCHANGED phase /\ inflight' = "none"
          /\ blocked_reason' \in {"dispatch_failed", "cycle", "chain_limit"}
      BY <1>3 DEF DispatchFails, DispatchCycle, ChainTooLong, CloseChain
    <2> QED
      BY <1>1, <2>1, StatusWrittenWell, Vocabulary DEF Verifiers
  <1>4. CASE RetryLockedCommit
    <2>1. UNCHANGED row /\ inflight' = "none" /\ chain' # "running"
      BY <1>4 DEF RetryLockedCommit
    <2>2. HistoryOK'
      BY <1>1, <2>1 DEF More, HistoryOK, GatesSettled, ReviewSettled, InSprint, history, row,
                        Verifiers
    <2>3. ReasonOK' /\ VerifiedOK' /\ HandoffOK'
      BY <1>1, <2>1 DEF More, ReasonOK, VerifiedOK, HandoffOK, InSprint, row
    <2> QED
      BY <2>2, <2>3 DEF More
  <1> QED
    BY <1>2, <1>3, <1>4 DEF FaultStep

\* No agent works on a task in review, and no operator was asked about it.
LEMMA InReview ==
  ASSUME Parts, More, NEW g \in pending \cap DOMAIN ReviewStatus
  PROVE  /\ chain = "idle" /\ inflight = "none" /\ status = ReviewStatus[g]
         /\ ReviewStatus[g] \in {"design_review", "review_pending"}
         /\ ~operator_decision /\ blocked_reason \notin Marks
  <1>1. /\ chain = "idle" /\ status = ReviewStatus[g]
        /\ ReviewStatus[g] \in {"design_review", "review_pending"}
    BY DEF Parts, GatesOK, GateMatchesReview, ReviewStatus
  <1>2. inflight = "none"
    BY <1>1 DEF Parts, ChainOK, ChainWorks
  <1>3. blocked_reason \notin Marks
    BY <1>1 DEF More, ReasonOK, Marks, Parts, RowOK, TakenBackWasDone
  <1> QED
    BY <1>1, <1>2, <1>3 DEF More, HandoffOK

LEMMA ReviewIsWell ==
  ASSUME Parts, Parts', More, NEW g \in DOMAIN ReviewStatus,
         Approve(g) \/ Reject(g) \/ Override(g) \/ (g = "pr" /\ RequestPrChanges)
  PROVE  More'
  <1>1. g \in pending \cap DOMAIN ReviewStatus
    BY DEF Approve, Reject, Override, RequestPrChanges
  <1>2. /\ ~operator_decision /\ blocked_reason \notin Marks /\ inflight = "none"
        /\ status = ReviewStatus[g]
    BY <1>1, InReview
  <1>3. UNCHANGED <<kind, verifier, operator_decision>> /\ inflight' = inflight
    BY DEF Approve, Reject, Override, RequestPrChanges, row, chainVars
  <1>4. CASE Approve(g)
    <2>1. CASE g = "pr"
      <3>1. status' = "build_verify" /\ blocked_reason' = "none" /\ reviewed' /\ UNCHANGED skipped
            /\ UNCHANGED gated
        BY <1>4, <2>1 DEF Approve
      <3>2. gated
        BY <1>2, <2>1 DEF Parts, PrIsGated, ReviewStatus
      <3> QED
        BY <1>2, <1>3, <3>1, <3>2
        DEF More, ReasonOK, HistoryOK, VerifiedOK, HandoffOK, GatesSettled, ReviewSettled, Marks,
            Verifiers
    <2>2. CASE g # "pr"
      <3>1. status' \in {"design", "implementation"} /\ blocked_reason' = "none"
        BY <1>4, <2>2 DEF Approve, ReviewStatus
      <3>2. UNCHANGED history
        BY <1>4, <2>2 DEF Approve, history, Parts, DataOK
      <3> QED
        BY <1>2, <1>3, <3>1, <3>2, StatusWrittenWell DEF OffPath, Marks, Verifiers
    <2> QED
      BY <2>1, <2>2
  <1>5. CASE Reject(g)
    BY <1>2, <1>3, <1>5, StatusWrittenWell, Vocabulary DEF Reject, Verifiers
  <1>6. CASE Override(g)
    BY <1>6 DEF Override, row, chainVars, history, More, ReasonOK, HistoryOK, VerifiedOK, HandoffOK,
                GatesSettled, ReviewSettled, InSprint
  <1>7. CASE RequestPrChanges
    BY <1>2, <1>3, <1>7, StatusWrittenWell DEF RequestPrChanges, OffPath, Marks, Verifiers
  <1> QED
    BY <1>4, <1>5, <1>6, <1>7

\* A verifier of a task that its sprint's reviewer sends back goes on, with
\* the history it started with.
LEMMA SprintDecisionIsWell ==
  ASSUME Parts, Parts', More, DecideSprintPr
  PROVE  More'
  <1>1. /\ InSprint /\ UNCHANGED <<history, kind, verifier, operator_decision, inflight>>
        /\ chain' = "running" => chain = "running"
    BY DEF DecideSprintPr, Parts, GatesOK, KindFits, row, chainVars, OpenChain
  <1>2. (GatesSettled <=> GatesSettled') /\ (ReviewSettled <=> ReviewSettled')
    BY <1>1 DEF history, GatesSettled, ReviewSettled, InSprint
  <1>3. CASE UNCHANGED <<row, chainVars>>
    <2>1. HistoryOK'
      BY <1>1, <1>2, <1>3 DEF More, HistoryOK, row
    <2>2. ReasonOK' /\ VerifiedOK' /\ HandoffOK'
      BY <1>1, <1>3 DEF More, ReasonOK, VerifiedOK, HandoffOK, InSprint, row, chainVars
    <2> QED
      BY <2>1, <2>2 DEF More
  <1>4. CASE status' = "implementation" /\ phase' = "implementation" /\ blocked_reason' = "changes"
    <2>1. HistoryOK'
      BY <1>1, <1>2, <1>4 DEF More, HistoryOK
    <2>2. chain = "running" => ~operator_decision
      BY Unmarked
    <2>3. ReasonOK' /\ VerifiedOK' /\ HandoffOK'
      BY <1>1, <1>4, <2>2 DEF ReasonOK, VerifiedOK, HandoffOK, InSprint, Marks
    <2> QED
      BY <2>1, <2>3 DEF More
  <1> QED
    BY <1>3, <1>4 DEF DecideSprintPr

\* Recovery goes to verify a build only from the last phases, or from pending.
LEMMA RecoveryToVerify ==
  ASSUME NEW t \in TaskViews, RecoveryTarget(t) = "build_verify"
  PROVE  \/ t.status \in {"failed", "blocked"} /\ t.phase \in {"integration", "complete"}
         \/ t.status \in {"done", "pending"}
  <1>1. t.phase \in TaskPhases
    BY DEF TaskViews
  <1>2. FailedTarget(t) = "build_verify" => t.phase \in {"integration", "complete"}
    BY DEF FailedTarget
  <1>3. DispatchFailedTarget[t.phase] = "build_verify" => t.phase = "integration"
    BY <1>1 DEF DispatchFailedTarget
  <1>4. BlockedTarget(t) = "build_verify" => t.phase = "integration"
    BY <1>3 DEF BlockedTarget
  <1>5. ProviderLimitTarget[t.phase] # "build_verify"
    BY <1>1, ResumeTarget
  <1> QED
    BY <1>2, <1>4, <1>5 DEF RecoveryTarget

\* Recovery adds to what was skipped what it skips.
LEMMA RecoverIsWell ==
  ASSUME Parts, Parts', More, Recover
  PROVE  More'
  <1>1. View \in TaskViews
    BY DEF View, TaskViews, Parts, RowOK, DataOK
  <1>2. /\ RecoveryTarget(View) \in DISPATCHABLE_STATUSES
        /\ status \in {"failed", "blocked", "capability_limit", "done", "pending"}
    BY <1>1, RecoveryTargetType DEF Recover, View
  <1>3. chain # "running" /\ inflight = "none"
    BY <1>2 DEF Parts, ChainOK, ChainWorks, WorkingStatus, Agents
  <1>4. /\ status' = RecoveryTarget(View) /\ blocked_reason' = "none"
        /\ UNCHANGED <<kind, verifier, chain, inflight, gated, reviewed>>
    BY DEF Recover, linked, chainVars
  <1>5. ~operator_decision'
    <2>1. CASE status = "capability_limit"
      BY <2>1 DEF Recover, More, HandoffOK
    <2>2. CASE status # "capability_limit"
      BY <2>2 DEF Recover
    <2> QED
      BY <2>1, <2>2
  <1>6. CASE status' = "build_verify"
    <2>1. skipped' = skipped \cup {"review"} \cup (IF status = "pending" THEN {"gates"} ELSE {})
      BY <1>6 DEF Recover
    <2>2. status # "pending" => GatesSettled
      <3>1. \/ status \in {"failed", "blocked"} /\ phase \in {"integration", "complete"}
            \/ status \in {"done", "pending"}
        BY <1>1, <1>4, <1>6, RecoveryToVerify DEF View
      <3> QED
        BY <3>1, SettledNow DEF More, HistoryOK
    <2>3. GatesSettled' /\ ReviewSettled'
      BY <1>4, <2>1, <2>2 DEF GatesSettled, ReviewSettled
    <2> QED
      BY <1>4, <1>5, <1>6, <2>3 DEF More, ReasonOK, HistoryOK, VerifiedOK, HandoffOK, Marks
  <1>7. CASE status' # "build_verify"
    <2>1. UNCHANGED history
      BY <1>4, <1>7 DEF Recover, history
    <2>2. status' \notin OffPath /\ status' # "done"
      BY <1>2, <1>4 DEF DISPATCHABLE_STATUSES, OffPath
    <2> QED
      BY <1>3, <1>4, <1>5, <1>7, <2>1, <2>2, StatusWrittenWell DEF OffPath, Marks, Verifiers
  <1> QED
    BY <1>6, <1>7

\* Dispatches and limits change no history.
LEMMA TimeIsWell ==
  ASSUME Parts, Parts', More, Dispatch \/ LimitResets \/ SiblingResumes
  PROVE  More'
  <1>1. CASE Dispatch \/ LimitResets
    <2>1. /\ UNCHANGED <<history, kind, verifier, status, phase, blocked_reason, operator_decision,
                         inflight>>
          /\ chain' = "running" => chain = "running"
      BY <1>1 DEF Dispatch, LimitResets, row, linked, chainVars, OpenChain
    <2>2. HistoryOK'
      BY <2>1 DEF More, HistoryOK, GatesSettled, ReviewSettled, InSprint, history
    <2>3. ReasonOK' /\ VerifiedOK' /\ HandoffOK'
      BY <2>1 DEF More, ReasonOK, VerifiedOK, HandoffOK, InSprint
    <2> QED
      BY <2>2, <2>3 DEF More
  <1>2. CASE SiblingResumes
    <2>1. status' \in {"design", "implementation", "quality_gates", "pr_creation", "planning"}
      BY <1>2, ResumeTarget DEF SiblingResumes, Parts, RowOK
    <2>2. /\ UNCHANGED <<history, kind, verifier, operator_decision>> /\ blocked_reason' = "none"
          /\ inflight' = "none" /\ ~operator_decision
      BY <1>2 DEF SiblingResumes, linked, More, HandoffOK, Parts, ChainOK, ChainWorks
    <2> QED
      BY <2>1, <2>2, StatusWrittenWell DEF OffPath, Marks, Verifiers
  <1> QED
    BY <1>1, <1>2

-----------------------------------------------------------------------------
(* The reconcilers of a starting server.                                   *)

\* What More says of a row t that a reconciler leaves in the present phase.
RowIsWell(t) ==
    /\ t.status = "blocked" => t.reason \in RecoverableBlocks \cup OperatorBlocks
    /\ t.reason \in Marks \ {"unintegrated"} => t.status = "blocked"
    /\ t.reason \in {"unintegrated", "final_checkout"} => phase = "complete"
    /\ t.reason \in {"gate_cap", "doc_gate", "gate_infra"} => phase = "verification"
    /\ t.status = "build_verify" => ReviewSettled
    /\ t.status = "done" \/ t.reason = "unintegrated" => verifier # "none"
    /\ operator_decision => \/ t.status = "blocked"
                            \/ InSprint /\ t.status = "implementation"
                            \/ InSprint /\ t.status = "failed" /\ t.reason # "unintegrated"

\* Work that a starting server finds unfinished fails.
LEMMA OrphanedRunIsWell ==
  ASSUME NEW t \in ReconcilerRows, RowIsWell(t), NEW u \in ReconcileOrphanedRun(t)
  PROVE  RowIsWell(u)
  <1>1. CASE u = t
    BY <1>1
  <1>2. CASE u # t
    <2>1. u = [t EXCEPT !.status = "failed", !.reason = "error"] /\ t.status \in ACTIVE_STATUSES
      BY <1>2 DEF ReconcileOrphanedRun
    <2>2. u.status = "failed" /\ u.reason = "error"
      BY <2>1 DEF ReconcilerRows
    <2>3. operator_decision => InSprint
      BY <2>1 DEF RowIsWell, ACTIVE_STATUSES, DISPATCHABLE_STATUSES
    <2> QED
      BY <2>2, <2>3 DEF RowIsWell, Marks
  <1> QED
    BY <1>1, <1>2

\* Finished work is taken back, and given back.
LEMMA UnintegratedIsWell ==
  ASSUME NEW t, Reconciled(t, phase), RowIsWell(t), NEW u \in ReconcileUnintegrated(t)
  PROVE  RowIsWell(u)
  <1>1. CASE u = t
    BY <1>1
  <1>2. CASE u # t
    <2>1. /\ phase = "complete" /\ verifier # "none" /\ ~operator_decision
          /\ t.status = "done" \/ (t.status = "failed" /\ t.reason = "unintegrated")
      BY <1>2 DEF ReconcileUnintegrated, Reconciled, RowIsWell, PHASE_FOR_STATUS, TaskStatuses,
                  BLOCKED_STATUSES, OffPath
    <2>2. PICK stage \in SprintStages \cup {t.sprint} :
             \/ u = [status |-> "failed", reason |-> "unintegrated", sprint |-> stage]
             \/ u = [t EXCEPT !.status = "done", !.reason = "none"]
      BY <1>2 DEF ReconcileUnintegrated, SprintStages
    <2>3. t \in ReconcilerRows
      BY DEF Reconciled
    <2>4. \/ u.status = "failed" /\ u.reason = "unintegrated"
          \/ u.status = "done" /\ u.reason = "none"
      <3>1. CASE u = [status |-> "failed", reason |-> "unintegrated", sprint |-> stage]
        BY <3>1
      <3>2. CASE u = [t EXCEPT !.status = "done", !.reason = "none"]
        BY <2>3, <3>2 DEF ReconcilerRows
      <3> QED
        BY <2>2, <3>1, <3>2
    <2> QED
      BY <2>1, <2>4 DEF RowIsWell, Marks
  <1> QED
    BY <1>1, <1>2

\* The sprint of finished work is shipped, or blocked with it.
LEMMA SprintReconcilersAreWell ==
  ASSUME NEW t, Reconciled(t, phase), RowIsWell(t),
         NEW u \in ReconcileBlockedSprint(t), NEW v \in ReconcileShippedSprint(u)
  PROVE  RowIsWell(v)
  <1>1. u.status = t.status /\ u.reason = t.reason
    BY DEF ReconcileBlockedSprint, Reconciled, ReconcilerRows
  <1>2. CASE v = u
    BY <1>1, <1>2 DEF RowIsWell
  <1>3. CASE v # u
    <2>1. /\ u.status = "done"
          /\ v = [status |-> "blocked", reason |-> "final_checkout", sprint |-> "checkout_blocked"]
      BY <1>3 DEF ReconcileShippedSprint
    <2>2. v.status = "blocked" /\ v.reason = "final_checkout"
      BY <2>1
    <2>3. phase = "complete"
      BY <1>1, <2>1 DEF Reconciled, PHASE_FOR_STATUS, TaskStatuses, BLOCKED_STATUSES, OffPath
    <2> QED
      BY <2>2, <2>3 DEF RowIsWell, Marks, RecoverableBlocks, ImplementationBlocks
  <1> QED
    BY <1>2, <1>3

LEMMA RestartIsWell ==
  ASSUME Parts, Parts', More, Restart
  PROVE  More'
  <1> DEFINE t0 == [status |-> status, reason |-> blocked_reason, sprint |-> sprint]
  <1>1. Reconciled(t0, phase)
    BY DEF Parts, Reconciled, ReconcilerRows, RowOK, DataOK, LimitsBeforeReview, TakenBackWasDone,
           PrIsGated, GatesOK, GateMatchesReview
  <1>2. RowIsWell(t0)
    BY DEF RowIsWell, More, ReasonOK, HistoryOK, VerifiedOK, HandoffOK
  <1>3. PICK t4 : RowIsWell(t4) /\ status' = t4.status /\ blocked_reason' = t4.reason
    <2>1. PICK t1 \in ReconcileOrphanedRun(t0) :
            \E t2 \in ReconcileUnintegrated(t1) : \E t3 \in ReconcileBlockedSprint(t2) :
            \E t4 \in ReconcileShippedSprint(t3) :
                status' = t4.status /\ blocked_reason' = t4.reason /\ sprint' = t4.sprint
      BY Zenon DEF Restart
    <2>2. PICK t2 \in ReconcileUnintegrated(t1) : \E t3 \in ReconcileBlockedSprint(t2) :
            \E t4 \in ReconcileShippedSprint(t3) :
                status' = t4.status /\ blocked_reason' = t4.reason /\ sprint' = t4.sprint
      BY <2>1
    <2>3. PICK t3 \in ReconcileBlockedSprint(t2) : \E t4 \in ReconcileShippedSprint(t3) :
            status' = t4.status /\ blocked_reason' = t4.reason /\ sprint' = t4.sprint
      BY <2>2
    <2>4. PICK t4 \in ReconcileShippedSprint(t3) :
            status' = t4.status /\ blocked_reason' = t4.reason /\ sprint' = t4.sprint
      BY <2>3
    <2>5. phase \in TaskPhases /\ t0 \in ReconcilerRows
      BY <1>1 DEF Parts, RowOK, Reconciled
    <2>6. Reconciled(t1, phase) /\ RowIsWell(t1)
      BY <1>1, <1>2, <2>5, OrphanedRunEffect, OrphanedRunIsWell
    <2>7. Reconciled(t2, phase) /\ RowIsWell(t2)
      BY <2>5, <2>6, UnintegratedEffect, UnintegratedIsWell
    <2>8. RowIsWell(t4)
      BY <2>7, SprintReconcilersAreWell
    <2> QED
      BY <2>4, <2>8
  <1>4. /\ UNCHANGED <<phase, operator_decision, verifier, kind, history>>
        /\ chain' = "idle" /\ inflight' = "none"
    BY DEF Restart, CloseChain
  <1>5. (GatesSettled <=> GatesSettled') /\ (ReviewSettled <=> ReviewSettled')
    BY <1>4 DEF history, GatesSettled, ReviewSettled, InSprint
  <1>6. ReasonOK'
    BY <1>3, <1>4 DEF RowIsWell, ReasonOK
  <1>7. HistoryOK'
    BY <1>3, <1>4, <1>5 DEF RowIsWell, More, HistoryOK, Verifiers
  <1>8. VerifiedOK' /\ HandoffOK'
    BY <1>3, <1>4 DEF RowIsWell, VerifiedOK, HandoffOK, InSprint
  <1> QED
    BY <1>6, <1>7, <1>8 DEF More

-----------------------------------------------------------------------------
(* The second invariant and what follows from it.                          *)

LEMMA InitIsWell == Init => More
  BY DEF Init, More, ReasonOK, HistoryOK, VerifiedOK, HandoffOK, Marks, Verifiers

LEMMA StutterIsWell ==
  ASSUME More, UNCHANGED vars
  PROVE  More'
  <1>1. UNCHANGED <<status, phase, blocked_reason, operator_decision, verifier, chain, inflight,
                    kind, gated, reviewed, skipped>>
    BY DEF vars, row, linked, chainVars, history
  <1> QED
    BY <1>1 DEF More, ReasonOK, HistoryOK, VerifiedOK, HandoffOK, GatesSettled, ReviewSettled,
                InSprint

LEMMA NextIsWell ==
  ASSUME Parts, Parts', More, Next
  PROVE  More'
  <1>1. CASE HandlerStep
    BY <1>1, PlanningIsWell, ImplementationIsWell, GatesAreWell, GatesPassWell, PullRequestIsWell,
       BuildVerifyIsWell, FaultsAreWell DEF HandlerStep
  <1>2. CASE AgentStep
    BY <1>2, PlanIsWell, ImplementationIsWell, GatesAreWell, PullRequestIsWell, BuildVerifyIsWell
       DEF AgentStep
  <1>3. CASE FaultStep
    BY <1>3, FaultsAreWell
  <1>4. CASE ReviewStep
    <2>1. "pr" \in DOMAIN ReviewStatus
      BY DEF ReviewStatus
    <2> QED
      BY <1>4, <2>1, ReviewIsWell, SprintDecisionIsWell DEF ReviewStep
  <1>5. CASE Dispatch \/ Recover \/ LimitResets \/ SiblingResumes \/ Restart
    BY <1>5, TimeIsWell, RecoverIsWell, RestartIsWell
  <1> QED
    BY <1>1, <1>2, <1>3, <1>4, <1>5 DEF Next, WorkStep, OutsideStep

\* In every reachable state the phase remembers what an off-path task went
\* through: the second inductive invariant, relative to the first.
THEOREM HistoryInvariant == Spec => [](LifecycleInv /\ More)
  <1>1. Init => LifecycleInv /\ More
    BY InitEstablishes, InitIsWell, PartsOfInv
  <1>2. LifecycleInv /\ More /\ [Next]_vars => LifecycleInv' /\ More'
    <2>1. ASSUME Parts, More, Next PROVE Parts' /\ More'
      BY <2>1, NextPreserves, NextIsWell
    <2>2. ASSUME Parts, More, UNCHANGED vars PROVE Parts' /\ More'
      BY <2>2, StutterPreserves, StutterIsWell
    <2> QED
      BY <2>1, <2>2, PartsOfInv
  <1> QED
    BY <1>1, <1>2, PTL DEF Spec

\* No way to done leaves out the build verifier's completed run: neither the
\* sprint's integration nor a reconciler that gives finished work back.
THEOREM FinishedTasksAreVerified == Spec => []DoneIsVerified
  <1>1. More => DoneIsVerified
    BY DEF More, VerifiedOK, DoneIsVerified
  <1> QED
    BY <1>1, HistoryInvariant, PTL

\* The phase on the Board, and the one recovery goes by, is right.
THEOREM PhasesTrackStatuses == Spec => []PhaseTracksStatus
  <1>1. LifecycleInv /\ More => PhaseTracksStatus
    BY DEF LifecycleInv, More, ReasonOK, PhaseTracksStatus
  <1> QED
    BY <1>1, HistoryInvariant, PTL

\* A question to the operator does not outlive the stop it explains, but for
\* the tasks that a sprint's reviewer puts to work.
THEOREM HandoffsAreCurrent == Spec => []HandoffIsCurrent
  <1>1. More => HandoffIsCurrent
    BY DEF More, HandoffOK, HandoffIsCurrent
  <1> QED
    BY <1>1, HistoryInvariant, PTL

\* Wherever its chain left it, the task can be taken up again by somebody.
THEOREM NoDeadEnds == Spec => []NoUnexpectedDeadEnd
  <1>1. LifecycleInv /\ More => NoUnexpectedDeadEnd
    <2> SUFFICES ASSUME LifecycleInv, More PROVE NoUnexpectedDeadEnd
      OBVIOUS
    <2>1. View \in TaskViews /\ status \in TaskStatuses
      BY DEF LifecycleInv, TypeOK, View, TaskViews
    <2>2. CASE status \in {"failed", "capability_limit"}
      BY <2>1, <2>2, OfferedIsRecoverable DEF NoUnexpectedDeadEnd, TaskIsRecoverable, View
    <2>3. CASE status = "blocked" /\ blocked_reason \in RecoverableBlocks
      BY <2>1, <2>3, OfferedIsRecoverable DEF NoUnexpectedDeadEnd, TaskIsRecoverable, View
    <2>4. CASE status = "blocked" /\ blocked_reason \in OperatorBlocks
      BY <2>4 DEF NoUnexpectedDeadEnd
    <2>5. status = "blocked" => blocked_reason \in RecoverableBlocks \cup OperatorBlocks
      BY DEF More, ReasonOK
    <2>6. CASE status \notin OffPath
      BY <2>1, <2>6 DEF NoUnexpectedDeadEnd, TaskStatuses, BLOCKED_STATUSES
    <2> QED
      BY <2>2, <2>3, <2>4, <2>5, <2>6 DEF OffPath
  <1> QED
    BY <1>1, HistoryInvariant, PTL

-----------------------------------------------------------------------------
(* The abstract task: what each part of a step is to it.                   *)

\* Where a status puts a task.
LEMMA Places ==
  ASSUME NEW s \in TaskStatuses
  PROVE  /\ s \in DISPATCHABLE_STATUSES <=> Place[s] = "open"
         /\ s \in {"design_review", "review_pending"} <=> Place[s] = "review"
         /\ s \in OffPath <=> Place[s] = "stopped"
         /\ s = "done" <=> Place[s] = "done"
         /\ Place[s] \in {"open", "review", "stopped", "done"}
  BY DEF Place, TaskStatuses, DISPATCHABLE_STATUSES, BLOCKED_STATUSES, OffPath

\* A question is asked of a task by a gate of its own.
LEMMA NothingAsked ==
  /\ pending \cap DOMAIN ReviewStatus = {} <=> Asked = "nothing"
  /\ "pr" \in pending <=> Asked = "code"
  /\ Asked \in {"nothing", "plan", "code"}
  BY DEF Asked, ReviewStatus

LEMMA NothingAskedNext ==
  /\ pending' \cap DOMAIN ReviewStatus = {} <=> Asked' = "nothing"
  /\ "pr" \in pending' <=> Asked' = "code"
  BY DEF Asked, ReviewStatus

\* A step of work that opens no gate and does not finish the task goes on, or
\* stops it.
LEMMA GoesOnOrStops ==
  ASSUME Parts, Parts', chain # "idle",
         chain' = "idle" <=> status' \notin DISPATCHABLE_STATUSES,
         status' \notin {"design_review", "review_pending", "done"},
         UNCHANGED <<Asked, kind, history>>
  PROVE  Protocol!Stop \/ UNCHANGED Protocol!vars
  <1>1. Place[status] = "open" /\ status \in TaskStatuses /\ status' \in TaskStatuses
    BY AtWork, Places DEF Parts, RowOK
  <1>2. UNCHANGED <<kind, gated, reviewed, skipped>>
    BY DEF history
  <1>3. CASE chain' = "idle"
    <2>1. Place[status'] = "stopped"
      BY <1>1, <1>3, Places DEF TaskStatuses, BLOCKED_STATUSES
    <2> QED
      BY <1>2, <1>3, <2>1 DEF Protocol!Stop, Protocol!code, InSprint
  <1>4. CASE chain' # "idle"
    <2>1. Place[status'] = Place[status]
      BY <1>1, <1>4, Places
    <2> QED
      BY <1>2, <1>4, <2>1 DEF Protocol!vars, Protocol!task, Protocol!code, InSprint
  <1> QED
    BY <1>3, <1>4

\* A step that stays at work on the task, and leaves its code alone.
LEMMA WorkGoesOn ==
  ASSUME Parts, chain # "idle", chain' # "idle", status' \in DISPATCHABLE_STATUSES,
         UNCHANGED <<pending, kind, history>>
  PROVE  UNCHANGED Protocol!vars
  <1>1. Place[status'] = Place[status]
    BY AtWork, Places, DispatchableFacts DEF Parts
  <1>2. UNCHANGED <<Asked, kind, gated, reviewed, skipped>>
    BY DEF Asked, history
  <1> QED
    BY <1>1, <1>2 DEF Protocol!vars, Protocol!task, Protocol!code, InSprint

\* A chain ends where no step can advance the task.
LEMMA EndOfChain ==
  ASSUME NEW p, NEW s, NEW r, NEW limit, EndStepFrom(p, s, r, limit)
  PROVE  chain' = "idle" <=> status' \notin DISPATCHABLE_STATUSES
  <1> DEFINE next == IF s = "capability_limit" /\ limit = "due"
                     THEN ProviderLimitTarget[PhaseAfter(s, p)] ELSE s
  <1>1. /\ status' = next
        /\ \/ next \in DISPATCHABLE_STATUSES /\ chain' = "queued"
           \/ next \notin DISPATCHABLE_STATUSES /\ chain' = "idle"
    BY Zenon DEF EndStepFrom, CloseChain
  <1> QED
    BY <1>1

\* The statuses that a step can leave without asking anything or finishing.
Onward == TaskStatuses \ {"design_review", "review_pending", "done"}

\* The usual end of a step.
LEMMA StepMaps ==
  ASSUME Parts, Parts', chain # "idle", NEW p \in TaskPhases, NEW s \in Onward, NEW r, NEW limit,
         EndStepFrom(p, s, r, limit), UNCHANGED <<pending, kind, history>>
  PROVE  Protocol!Stop \/ UNCHANGED Protocol!vars
  <1>1. \/ status' = s
        \/ status' = ProviderLimitTarget[PhaseAfter(s, p)]
    BY EndOfStep
  <1>2. PhaseAfter(s, p) \in TaskPhases
    BY PhaseAfterType DEF Onward
  <1>3. status' \notin {"design_review", "review_pending", "done"}
    BY <1>1, <1>2, ResumeTarget DEF Onward
  <1>4. UNCHANGED <<Asked, kind, history>>
    BY DEF Asked
  <1> QED
    BY <1>3, <1>4, EndOfChain, GoesOnOrStops

LEMMA OnwardStatuses ==
  /\ {"implementation", "quality_gates", "pr_creation", "build_verify", "failed", "blocked",
      "capability_limit"} \subseteq Onward
  /\ "complete" \in TaskPhases
  BY DEF Onward, TaskStatuses, DISPATCHABLE_STATUSES, BLOCKED_STATUSES, OffPath, TaskPhases

\* An agent that did not deliver.
LEMMA AgentStopsMaps ==
  ASSUME Parts, Parts', chain = "running", AgentStops, UNCHANGED <<pending, kind, history>>
  PROVE  Protocol!Stop \/ UNCHANGED Protocol!vars
  <1>1. phase \in TaskPhases
    BY DEF Parts, RowOK
  <1>2. PICK s \in {"failed", "blocked", "capability_limit"} : \E r, limit :
           EndStepFrom(phase, s, r, limit)
    BY DEF AgentStops, EndStep
  <1> QED
    BY <1>1, <1>2, StepMaps, OnwardStatuses

\* A step with a question for the reviewer leaves the task to him.
LEMMA QuestionMaps ==
  ASSUME Parts, Parts', chain = "running", NEW g \in DOMAIN ReviewStatus, ~InSprint,
         NEW r, NEW limit, EndStepFrom(phase, ReviewStatus[g], r, limit),
         g = "pr" => gated,
         pending' = pending \cup {g}, UNCHANGED <<kind, history>>
  PROVE  Protocol!Ask("plan") \/ Protocol!Ask("code")
  <1>1. status' = ReviewStatus[g]
    BY EndOfStep DEF ReviewStatus
  <1>2. chain' = "idle"
    BY <1>1, EndOfChain DEF ReviewStatus, DISPATCHABLE_STATUSES
  <1>3. Place[status'] = "review"
    BY <1>1, Places DEF ReviewStatus, Parts, RowOK
  <1>4. pending \cap DOMAIN ReviewStatus = {}
    BY NoGateAtWork DEF Parts
  <1>5. Asked' = IF g = "pr" THEN "code" ELSE "plan"
    BY <1>4 DEF Asked, ReviewStatus
  <1>6. UNCHANGED <<kind, gated, reviewed, skipped>>
    BY DEF history
  <1> QED
    BY <1>2, <1>3, <1>5, <1>6 DEF Protocol!Ask, Protocol!code, InSprint

\* A step that finishes the task finds its code settled.
LEMMA FinishMaps ==
  ASSUME Parts, Parts', chain # "idle", NEW p, NEW r, NEW limit,
         EndStepFrom(p, "done", r, limit), GatesSettled, ReviewSettled,
         UNCHANGED <<Asked, kind, history>>
  PROVE  Protocol!Finish
  <1>1. status' = "done"
    BY EndOfStep
  <1>2. chain' = "idle" /\ Place[status'] = "done"
    BY <1>1, EndOfChain, DispatchableFacts, Places DEF Parts, RowOK
  <1>3. UNCHANGED <<kind, gated, reviewed, skipped>>
    BY DEF history
  <1>4. Protocol!Settled
    BY DEF Protocol!Settled, GatesSettled, ReviewSettled
  <1> QED
    BY <1>2, <1>3, <1>4 DEF Protocol!Finish, Protocol!code, InSprint

-----------------------------------------------------------------------------
(* The steps of a chain.                                                   *)

\* What a step of work may be to the task.
Worked ==
    \/ Protocol!Rewrite \/ Protocol!Clear \/ Protocol!Ask("plan") \/ Protocol!Ask("code")
    \/ Protocol!Stop \/ Protocol!Finish \/ UNCHANGED Protocol!vars

\* An agent starts on code that it leaves alone.
LEMMA StartMaps ==
  ASSUME Parts, chain # "idle", NEW a, NEW s \in DISPATCHABLE_STATUSES, StartAgent(a, s),
         UNCHANGED <<pending, kind, history>>
  PROVE  Worked
  BY WorkGoesOn DEF StartAgent, Worked

\* The agent that rewrites the code starts.
LEMMA CodeGenMaps ==
  ASSUME Parts, chain # "idle", StartCodeGen, UNCHANGED <<pending, kind>>
  PROVE  Worked
  <1>1. /\ chain' = "running" /\ status' = "implementation"
        /\ gated' = FALSE /\ reviewed' = FALSE /\ skipped' = {}
    BY DEF StartCodeGen, StartAgent
  <1>2. Place[status] = "open" /\ Place[status'] = "open"
    BY <1>1, AtWork, Places, DispatchableFacts DEF Parts, DISPATCHABLE_STATUSES
  <1>3. UNCHANGED Asked
    BY DEF Asked
  <1> QED
    BY <1>1, <1>2, <1>3 DEF Worked, Protocol!Rewrite, Protocol!task, InSprint

LEMMA EndMaps ==
  ASSUME Parts, Parts', chain # "idle", NEW s \in Onward, NEW r, EndStep(s, r),
         UNCHANGED <<pending, kind, history>>
  PROVE  Worked
  <1>1. phase \in TaskPhases /\ EndStepFrom(phase, s, r, provider_limit)
    BY DEF Parts, RowOK, EndStep
  <1> QED
    BY <1>1, StepMaps DEF Worked

LEMMA PlanningMaps ==
  ASSUME Parts, Parts', PhasePlanning \/ PhaseDesign
  PROVE  Worked
  <1>1. chain # "idle" /\ UNCHANGED <<pending, kind, history>>
    BY DEF PhasePlanning, PhaseDesign, FreshStep, StepDue
  <1>2. CASE EndStep("implementation", blocked_reason)
    BY <1>1, <1>2, EndMaps, OnwardStatuses
  <1>3. CASE StartAgent("planner", "planning") \/ StartAgent("designer", "design")
    BY <1>1, <1>3, StartMaps DEF DISPATCHABLE_STATUSES
  <1> QED
    BY <1>2, <1>3 DEF PhasePlanning, PhaseDesign

LEMMA PlanMaps ==
  ASSUME Parts, Parts', PlannerEnds \/ DesignerEnds \/ UiPrototyperEnds
  PROVE  Worked
  <1>1. chain = "running" /\ UNCHANGED <<kind, history>>
    BY DEF PlannerEnds, DesignerEnds, UiPrototyperEnds, AgentEnds
  <1>2. CASE AgentStops /\ UNCHANGED pending
    BY <1>1, <1>2, AgentStopsMaps DEF Worked
  <1>3. ASSUME NEW g \in {"planning", "ui_preview"}, EndStep("design_review", blocked_reason),
               pending' = pending \cup {g}, ~InSprint
        PROVE  Worked
    <2>1. g \in DOMAIN ReviewStatus /\ g # "pr" /\ ReviewStatus[g] = "design_review"
      BY <1>3 DEF ReviewStatus
    <2>2. EndStepFrom(phase, ReviewStatus[g], blocked_reason, provider_limit)
      BY <1>3, <2>1 DEF EndStep
    <2> QED
      BY <1>1, <1>3, <2>1, <2>2, QuestionMaps DEF Worked
  <1>4. CASE UNCHANGED pending /\ StartAgent("ui-prototyper", "design")
    BY <1>1, <1>4, StartMaps DEF DISPATCHABLE_STATUSES
  <1>5. CASE UNCHANGED pending /\ EndStep("implementation", blocked_reason)
    BY <1>1, <1>5, EndMaps, OnwardStatuses
  <1>6. ~InSprint
    BY DEF PlannerEnds, DesignerEnds, UiPrototyperEnds, AgentEnds, Parts, GatesOK, KindFits
  <1> QED
    BY <1>2, <1>3, <1>4, <1>5, <1>6 DEF PlannerEnds, DesignerEnds, UiPrototyperEnds

LEMMA ImplementationMaps ==
  ASSUME Parts, Parts', PhaseImplementation \/ ScaffoldEnds \/ CodeGenEnds
  PROVE  Worked
  <1>1. chain # "idle" /\ UNCHANGED <<pending, kind>>
    BY DEF PhaseImplementation, ScaffoldEnds, CodeGenEnds, AgentEnds, FreshStep, StepDue, linked
  <1>2. CASE StartCodeGen
    BY <1>1, <1>2, CodeGenMaps
  <1>3. CASE UNCHANGED history /\ EndStep("blocked", "scaffold_failed")
    BY <1>1, <1>3, EndMaps, OnwardStatuses
  <1>4. CASE UNCHANGED history /\ StartAgent("scaffold", "implementation")
    BY <1>1, <1>4, StartMaps DEF DISPATCHABLE_STATUSES
  <1>5. CASE CodeGenEnds
    <2>1. chain = "running" /\ UNCHANGED history
      BY <1>5 DEF CodeGenEnds, AgentEnds
    <2>2. CASE AgentStops
      BY <1>1, <2>1, <2>2, AgentStopsMaps DEF Worked
    <2>3. CASE EndStep("quality_gates", blocked_reason)
      BY <1>1, <2>1, <2>3, EndMaps, OnwardStatuses
    <2> QED
      BY <1>5, <2>2, <2>3 DEF CodeGenEnds
  <1> QED
    BY <1>2, <1>3, <1>4, <1>5 DEF PhaseImplementation, ScaffoldEnds

LEMMA GatesMap ==
  ASSUME Parts, Parts',
         \/ QualityGateCap \/ QualityGatesPass \/ QualityGatesBlock \/ QualityGatesFail
         \/ GateRemediatorEnds
  PROVE  Worked
  <1>1. /\ chain # "idle" /\ UNCHANGED <<pending, kind>>
        /\ ~QualityGatesPass => UNCHANGED history
    BY DEF QualityGateCap, QualityGatesPass, QualityGatesBlock, QualityGatesFail,
           GateRemediatorEnds, AgentEnds, FreshStep, StepDue, linked
  <1>2. CASE QualityGatesPass
    <2>1. EndStepFrom(phase, "pr_creation", "none", provider_limit)
      BY <1>2 DEF QualityGatesPass, EndStep
    <2>2. status' = "pr_creation" /\ chain' # "idle"
      BY <2>1, EndOfStep, EndOfChain DEF DISPATCHABLE_STATUSES
    <2>3. Place[status] = "open" /\ Place[status'] = "open"
      BY <1>1, <2>2, AtWork, Places, DispatchableFacts DEF Parts, DISPATCHABLE_STATUSES
    <2>4. UNCHANGED Asked
      BY <1>1 DEF Asked
    <2>5. gated' /\ UNCHANGED <<kind, reviewed, skipped>>
      BY <1>2 DEF QualityGatesPass
    <2> QED
      BY <1>1, <2>2, <2>3, <2>4, <2>5 DEF Worked, Protocol!Clear, Protocol!task, InSprint
  <1>3. CASE ~QualityGatesPass
    <2>1. ASSUME NEW s \in {"blocked", "quality_gates", "capability_limit", "implementation"},
                 NEW r, EndStep(s, r)
          PROVE  Worked
      BY <1>1, <1>3, <2>1, EndMaps, OnwardStatuses
    <2>2. CASE StartAgent("gate-remediator", "quality_gates")
      BY <1>1, <1>3, <2>2, StartMaps DEF DISPATCHABLE_STATUSES
    <2> QED
      BY <1>3, <2>1, <2>2
      DEF QualityGateCap, QualityGatesBlock, QualityGatesFail, GateRemediatorEnds, Remediate,
          EscalateToCapabilityLimit
  <1> QED
    BY <1>2, <1>3

LEMMA PullRequestMaps ==
  ASSUME Parts, Parts', PhasePrCreation \/ PrCreatorEnds
  PROVE  Worked
  <1>1. chain # "idle" /\ UNCHANGED <<kind, history>>
    BY DEF PhasePrCreation, PrCreatorEnds, AgentEnds, FreshStep, StepDue
  <1>2. ASSUME NEW s \in {"build_verify", "failed"}, NEW r, EndStep(s, r), UNCHANGED pending
        PROVE  Worked
    BY <1>1, <1>2, EndMaps, OnwardStatuses
  <1>3. CASE StartAgent("pr-creator", "pr_creation") /\ UNCHANGED pending
    BY <1>1, <1>3, StartMaps DEF DISPATCHABLE_STATUSES
  <1>4. CASE PrCreatorEnds /\ EndStep("review_pending", blocked_reason)
             /\ pending' = pending \cup {"pr"}
    <2>1. chain = "running" /\ ~InSprint /\ status = "pr_creation"
      BY <1>4 DEF PrCreatorEnds, AgentEnds, Parts, GatesOK, KindFits, ChainOK, ChainWorks,
                  WorkingStatus, Agents
    <2>2. gated
      BY <2>1 DEF Parts, PrIsGated
    <2>3. "pr" \in DOMAIN ReviewStatus /\ ReviewStatus["pr"] = "review_pending"
      BY DEF ReviewStatus
    <2>4. EndStepFrom(phase, ReviewStatus["pr"], blocked_reason, provider_limit)
      BY <1>4, <2>3 DEF EndStep
    <2> QED
      BY <1>1, <1>4, <2>1, <2>2, <2>3, <2>4, QuestionMaps DEF Worked
  <1> QED
    BY <1>2, <1>3, <1>4 DEF PhasePrCreation, PrCreatorEnds

\* A task of a sprint that is integrated may leave its sprint with a question,
\* which is none of its own.
LEMMA SprintTaskMaps ==
  ASSUME Parts, Parts', InSprint, chain # "idle", GatesSettled, ReviewSettled,
         RefuseSprintTask \/ IntegrateSprintTask, UNCHANGED <<history, kind>>
  PROVE  Worked
  <1>1. CASE EndStep("failed", "error") /\ UNCHANGED pending
    BY <1>1, EndMaps, OnwardStatuses
  <1>2. ASSUME NEW o \in PossibleOutcomes,
               EndStepFrom("complete", SprintOutcomes[o].status, SprintOutcomes[o].reason,
                           provider_limit),
               pending' = pending \cup (IF o = "pr_opened" THEN {"sprint_pr"} ELSE {})
        PROVE  Worked
    <2>1. UNCHANGED Asked
      BY <1>2 DEF Asked
    <2>2. /\ SprintOutcomes[o].status \in {"done", "failed", "blocked"}
          /\ o = "pr_opened" => SprintOutcomes[o].status = "done"
      BY DEF PossibleOutcomes, SprintOutcomes
    <2>3. CASE SprintOutcomes[o].status = "done"
      BY <1>2, <2>1, <2>3, FinishMaps DEF Worked
    <2>4. CASE SprintOutcomes[o].status # "done"
      <3>1. UNCHANGED pending
        BY <1>2, <2>2, <2>4
      <3>2. SprintOutcomes[o].status \in Onward /\ "complete" \in TaskPhases
        BY <2>2, <2>4, OnwardStatuses
      <3> QED
        BY <1>2, <3>1, <3>2, StepMaps DEF Worked
    <2> QED
      BY <2>3, <2>4
  <1> QED
    BY <1>1, <1>2 DEF RefuseSprintTask, IntegrateSprintTask

LEMMA BuildVerifyMaps ==
  ASSUME Parts, Parts', More, PhaseBuildVerify \/ FeatureVerifierEnds \/ BuildVerifierEnds
  PROVE  Worked
  <1>1. /\ chain # "idle" /\ UNCHANGED <<history, kind>>
        /\ PhaseBuildVerify => status = "build_verify"
        /\ FeatureVerifierEnds \/ BuildVerifierEnds => inflight \in Verifiers
        /\ FeatureVerifierEnds => inflight = "feature-verifier"
    BY DEF PhaseBuildVerify, FeatureVerifierEnds, BuildVerifierEnds, AgentEnds, FreshStep, StepDue,
           Verifiers
  <1>2. GatesSettled /\ ReviewSettled
    BY <1>1, SettledNow DEF More, HistoryOK
  <1>3. CASE ((PhaseBuildVerify /\ InSprint) \/ FeatureVerifierEnds)
             /\ (RefuseSprintTask \/ IntegrateSprintTask)
    <2>1. InSprint
      BY <1>1, <1>3 DEF Parts, GatesOK, KindFits
    <2> QED
      BY <1>1, <1>2, <1>3, <2>1, SprintTaskMaps
  <1>4. ASSUME NEW a, StartAgent(a, "build_verify"), UNCHANGED pending
        PROVE  Worked
    BY <1>1, <1>4, StartMaps DEF DISPATCHABLE_STATUSES
  <1>5. CASE BuildVerifierEnds
    <2>1. UNCHANGED <<pending, Asked>>
      BY <1>5 DEF BuildVerifierEnds, Asked
    <2>2. CASE EndStep("failed", "error")
      BY <1>1, <2>1, <2>2, EndMaps, OnwardStatuses
    <2>3. CASE EndStep("done", "none")
      <3>1. EndStepFrom(phase, "done", "none", provider_limit)
        BY <2>3 DEF EndStep
      <3> QED
        BY <1>1, <1>2, <2>1, <3>1, FinishMaps DEF Worked
    <2> QED
      BY <1>5, <2>2, <2>3 DEF BuildVerifierEnds
  <1> QED
    BY <1>3, <1>4, <1>5 DEF PhaseBuildVerify, FeatureVerifierEnds

LEMMA FaultsMap ==
  ASSUME Parts, Parts', FaultStep \/ DispatchCycle \/ ChainTooLong
  PROVE  Worked
  <1>1. chain # "idle" /\ UNCHANGED <<pending, kind, history>>
    BY DEF FaultStep, HandlerRaises, DispatchFails, RetryLockedCommit, DispatchCycle, ChainTooLong,
           FreshStep, StepDue, linked
  <1>2. CASE HandlerRaises
    BY <1>1, <1>2, EndMaps, OnwardStatuses DEF HandlerRaises
  <1>3. CASE DispatchFails \/ DispatchCycle \/ ChainTooLong
    <2>1. status' = "blocked" /\ chain' = "idle"
      BY <1>3 DEF DispatchFails, DispatchCycle, ChainTooLong, CloseChain
    <2>2. UNCHANGED <<Asked, kind, history>> /\ status' \notin DISPATCHABLE_STATUSES
      BY <1>1, <2>1 DEF Asked, DISPATCHABLE_STATUSES
    <2> QED
      BY <1>1, <2>1, <2>2, GoesOnOrStops DEF Worked
  <1>4. CASE RetryLockedCommit
    <2>1. chain' # "idle" /\ status' = status
      BY <1>4 DEF RetryLockedCommit, row
    <2> QED
      BY <1>1, <2>1, WorkGoesOn, AtWork DEF Parts, Worked
  <1> QED
    BY <1>2, <1>3, <1>4 DEF FaultStep

-----------------------------------------------------------------------------
(* The calls from outside.                                                 *)

\* What an answer to a gate of its own finds of the task.
LEMMA QuestionsOfATask ==
  ASSUME Parts, More, NEW g \in pending \cap DOMAIN ReviewStatus
  PROVE  /\ chain = "idle" /\ Place[status] = "review"
         /\ Asked = IF g = "pr" THEN "code" ELSE "plan"
         /\ pending' = pending \ {g} => Asked' = "nothing"
  <1>1. /\ chain = "idle" /\ status = ReviewStatus[g]
        /\ ReviewStatus[g] \in {"design_review", "review_pending"}
    BY InReview
  <1>2. pending \cap DOMAIN ReviewStatus = {g}
    BY DEF Parts, GatesOK, OneReview
  <1>3. Place[status] = "review"
    BY <1>1, Places DEF Parts, RowOK
  <1>4. Asked = IF g = "pr" THEN "code" ELSE "plan"
    BY <1>2 DEF Asked, ReviewStatus
  <1>5. pending' = pending \ {g} => Asked' = "nothing"
    BY <1>2, NothingAskedNext
  <1> QED
    BY <1>1, <1>3, <1>4, <1>5

LEMMA AnswersMap ==
  ASSUME Parts, Parts', More, NEW g \in DOMAIN ReviewStatus,
         Approve(g) \/ Reject(g) \/ Override(g) \/ (g = "pr" /\ RequestPrChanges)
  PROVE  Protocol!Approve \/ Protocol!Reject \/ Protocol!Override \/ Protocol!RequestChanges
  <1>1. g \in pending \cap DOMAIN ReviewStatus /\ pending' = pending \ {g}
    BY DEF Approve, Reject, Override, RequestPrChanges
  <1>2. /\ chain = "idle" /\ Place[status] = "review"
        /\ Asked = IF g = "pr" THEN "code" ELSE "plan"
        /\ Asked' = "nothing"
    BY <1>1, QuestionsOfATask
  <1>3. status \in TaskStatuses /\ status' \in TaskStatuses
    BY DEF Parts, RowOK
  <1>4. CASE Approve(g)
    <2>1. chain' = "queued" /\ status' \in {"design", "implementation", "build_verify"}
      BY <1>2, <1>4 DEF Approve, OpenChain, ReviewStatus
    <2>2. Place[status'] = "open"
      BY <1>3, <2>1, Places DEF DISPATCHABLE_STATUSES
    <2>3. reviewed' = (reviewed \/ g = "pr") /\ UNCHANGED <<kind, gated, skipped>>
      BY <1>4 DEF Approve
    <2>4. Asked = "code" <=> g = "pr"
      BY <1>2
    <2> QED
      BY <1>2, <2>1, <2>2, <2>3, <2>4 DEF Protocol!Approve, InSprint
  <1>5. CASE Reject(g)
    <2>1. status' = "blocked" /\ chain' = "idle" /\ UNCHANGED <<kind, gated, reviewed, skipped>>
      BY <1>2, <1>5 DEF Reject, chainVars, history
    <2>2. Place[status'] = "stopped"
      BY <1>3, <2>1, Places DEF OffPath
    <2> QED
      BY <1>2, <2>1, <2>2 DEF Protocol!Reject, Protocol!code, InSprint
  <1>6. CASE Override(g)
    <2>1. UNCHANGED <<status, chain, kind, gated, reviewed, skipped>>
      BY <1>6 DEF Override, row, chainVars, history
    <2> QED
      BY <1>2, <2>1 DEF Protocol!Override, Protocol!code, InSprint
  <1>7. CASE g = "pr" /\ RequestPrChanges
    <2>1. /\ status' = "implementation" /\ chain' = "queued"
          /\ UNCHANGED <<kind, gated, reviewed, skipped>>
      BY <1>2, <1>7 DEF RequestPrChanges, OpenChain, history
    <2>2. Place[status'] = "open"
      BY <1>3, <2>1, Places DEF DISPATCHABLE_STATUSES
    <2> QED
      BY <1>2, <1>7, <2>1, <2>2 DEF Protocol!RequestChanges, Protocol!code, InSprint
  <1> QED
    BY <1>4, <1>5, <1>6, <1>7

LEMMA SprintDecisionMaps ==
  ASSUME Parts, Parts', DecideSprintPr
  PROVE  Protocol!RequestChanges \/ UNCHANGED Protocol!vars
  <1>1. InSprint /\ pending \cap DOMAIN ReviewStatus = {} /\ pending' = pending \ {"sprint_pr"}
    BY DEF DecideSprintPr, Parts, GatesOK, KindFits, ReviewStatus
  <1>2. Asked = "nothing" /\ Asked' = "nothing"
    BY <1>1, NothingAsked, NothingAskedNext
  <1>3. UNCHANGED <<kind, gated, reviewed, skipped>>
    BY DEF DecideSprintPr, history
  <1>4. CASE UNCHANGED <<row, chainVars>>
    BY <1>2, <1>3, <1>4 DEF Protocol!vars, Protocol!task, Protocol!code, InSprint, row, chainVars
  <1>5. CASE status' = "implementation" /\ chain' # "idle"
    <2>1. Place[status'] = "open"
      BY <1>5, Places DEF DISPATCHABLE_STATUSES, Parts, RowOK
    <2> QED
      BY <1>1, <1>2, <1>3, <1>5, <2>1 DEF Protocol!RequestChanges, Protocol!code, InSprint
  <1> QED
    BY <1>4, <1>5 DEF DecideSprintPr, OpenChain, chainVars

LEMMA RecoverMaps ==
  ASSUME Parts, Parts', More, Recover
  PROVE  Protocol!Recover
  <1>1. View \in TaskViews
    BY DEF View, TaskViews, Parts, RowOK, DataOK
  <1>2. /\ status' \in DISPATCHABLE_STATUSES
        /\ status \in {"failed", "blocked", "capability_limit", "done", "pending"}
    BY <1>1, RecoveryTargetType DEF Recover, View
  <1>3. Place[status'] = "open" /\ Place[status] # "review"
    BY <1>2, Places DEF Parts, RowOK
  <1>4. UNCHANGED <<Asked, chain, kind, gated, reviewed>>
    BY DEF Recover, Asked, linked, chainVars
  <1>5. CASE status' # "build_verify"
    <2>1. UNCHANGED skipped
      BY <1>5 DEF Recover
    <2> QED
      BY <1>3, <1>4, <2>1 DEF Protocol!Recover, Protocol!code, InSprint
  <1>6. CASE status' = "build_verify"
    <2>1. skipped' = skipped \cup {"review"} \cup (IF status = "pending" THEN {"gates"} ELSE {})
      BY <1>6 DEF Recover
    <2>2. "gates" \in skipped => "gates" \in skipped'
      BY <2>1
    <2>3. "gates" \in skipped' => "gates" \in skipped \/ status = "pending"
      BY <2>1
    <2>4. (reviewed \/ "review" \in skipped)' = TRUE
      BY <2>1
    <2>5. (gated \/ "gates" \in skipped)' \in {gated \/ "gates" \in skipped, TRUE}
      BY <1>4, <2>2
    <2> QED
      BY <1>3, <1>4, <2>4, <2>5 DEF Protocol!Recover, InSprint
  <1> QED
    BY <1>5, <1>6

LEMMA TimeMaps ==
  ASSUME Parts, Parts', Dispatch \/ LimitResets \/ SiblingResumes
  PROVE  Protocol!Begin \/ Protocol!Resume \/ UNCHANGED Protocol!vars
  <1>1. UNCHANGED <<Asked, kind, gated, reviewed, skipped>>
    BY DEF Dispatch, LimitResets, SiblingResumes, linked, history, Asked
  <1>2. CASE Dispatch
    <2>1. status' = status /\ Place[status] = "open" /\ chain = "idle" /\ chain' = "queued"
      BY <1>2, Places, DispatchableFacts DEF Dispatch, OpenChain, row
    <2> QED
      BY <1>1, <2>1 DEF Protocol!Begin, Protocol!code, InSprint
  <1>3. CASE LimitResets
    BY <1>1, <1>3 DEF LimitResets, chainVars, Protocol!vars, Protocol!task, Protocol!code, InSprint
  <1>4. CASE SiblingResumes
    <2>1. /\ status = "capability_limit" /\ chain' = "queued"
          /\ status' = ProviderLimitTarget[phase]
      BY <1>4 DEF SiblingResumes, OpenChain
    <2>2. Place[status] = "stopped" /\ Place[status'] = "open"
      BY <2>1, Places, ProviderLimitTargetType DEF OffPath, Parts, RowOK
    <2> QED
      BY <1>1, <2>1, <2>2 DEF Protocol!Resume, Protocol!code, InSprint
  <1> QED
    BY <1>2, <1>3, <1>4

\* What the reconcilers may make of the task's status.
LEMMA ReconciledStatus ==
  ASSUME Parts, Restart
  PROVE  \/ status' = status
         \/ status \notin {"design_review", "review_pending"} /\ status' \in OffPath
         \/ status = "failed" /\ phase = "complete" /\ status' = "done"
  <1> DEFINE t0 == [status |-> status, reason |-> blocked_reason, sprint |-> sprint]
  <1>1. PICK t1 \in ReconcileOrphanedRun(t0) :
            \E t2 \in ReconcileUnintegrated(t1) : \E t3 \in ReconcileBlockedSprint(t2) :
            \E t4 \in ReconcileShippedSprint(t3) : status' = t4.status
    BY Zenon DEF Restart
  <1>2. PICK t2 \in ReconcileUnintegrated(t1) : \E t3 \in ReconcileBlockedSprint(t2) :
            \E t4 \in ReconcileShippedSprint(t3) : status' = t4.status
    BY <1>1
  <1>3. PICK t3 \in ReconcileBlockedSprint(t2) :
            \E t4 \in ReconcileShippedSprint(t3) : status' = t4.status
    BY <1>2
  <1>4. PICK t4 \in ReconcileShippedSprint(t3) : status' = t4.status
    BY <1>3
  <1>5. \/ t1 = t0
        \/ /\ t1.status = "failed" /\ t1.reason = "error"
           /\ status \notin {"design_review", "review_pending"}
    <2>1. t0 \in [status : {status}, reason : {blocked_reason}, sprint : {sprint}]
      OBVIOUS
    <2> QED
      BY <1>1, <2>1 DEF ReconcileOrphanedRun, ACTIVE_STATUSES, DISPATCHABLE_STATUSES
  <1>6. t1 \in ReconcilerRows /\ t2 \in ReconcilerRows
    <2>1. Reconciled(t0, phase) /\ phase \in TaskPhases
      BY DEF Parts, Reconciled, ReconcilerRows, RowOK, DataOK, LimitsBeforeReview,
             TakenBackWasDone, PrIsGated, GatesOK, GateMatchesReview
    <2>2. Reconciled(t1, phase)
      BY <1>1, <2>1, OrphanedRunEffect
    <2>3. Reconciled(t2, phase)
      BY <1>2, <2>1, <2>2, UnintegratedEffect
    <2> QED
      BY <2>2, <2>3 DEF Reconciled
  <1>7. \/ t2 = t1
        \/ t1.status = "done" /\ t2.status = "failed"
        \/ t1.status = "failed" /\ t1.reason = "unintegrated" /\ t2.status \in {"failed", "done"}
    <2>1. CASE t1.status = "failed" /\ t1.reason = "unintegrated"
      <3>1. \/ t2 = t1 \/ t2.status = "failed"
            \/ t2 = [t1 EXCEPT !.status = "done", !.reason = "none"]
        BY <1>2, <2>1 DEF ReconcileUnintegrated
      <3> QED
        BY <1>6, <2>1, <3>1 DEF ReconcilerRows
    <2>2. CASE ~(t1.status = "failed" /\ t1.reason = "unintegrated")
      BY <1>2, <2>2 DEF ReconcileUnintegrated
    <2> QED
      BY <2>1, <2>2
  <1>8. t3.status = t2.status
    BY <1>3, <1>6 DEF ReconcileBlockedSprint, ReconcilerRows
  <1>9. t4.status = t3.status \/ (t3.status = "done" /\ t4.status = "blocked")
    BY <1>4 DEF ReconcileShippedSprint
  <1>10. blocked_reason = "unintegrated" => phase = "complete" /\ status = "failed"
    BY DEF Parts, RowOK, TakenBackWasDone
  <1>11. CASE t1 = t0
    <2>1. \/ t2.status = status
          \/ status \in {"done", "failed"} /\ t2.status = "failed"
          \/ status = "failed" /\ phase = "complete" /\ t2.status = "done"
      BY <1>7, <1>10, <1>11
    <2> QED
      BY <1>4, <1>8, <1>9, <2>1 DEF OffPath
  <1>12. CASE /\ t1.status = "failed" /\ t1.reason = "error"
              /\ status \notin {"design_review", "review_pending"}
    <2>1. t2.status = "failed"
      BY <1>7, <1>12
    <2> QED
      BY <1>4, <1>8, <1>9, <1>12, <2>1 DEF OffPath
  <1> QED
    BY <1>5, <1>11, <1>12

LEMMA RestartMaps ==
  ASSUME Parts, Parts', More, Restart
  PROVE  Protocol!Restart
  <1>1. chain' = "idle" /\ UNCHANGED <<phase, Asked, kind, gated, reviewed, skipped>>
    BY DEF Restart, CloseChain, Asked, history
  <1>2. status \in TaskStatuses /\ status' \in TaskStatuses
    BY DEF Parts, RowOK
  <1>3. CASE status' = status
    BY <1>1, <1>3 DEF Protocol!Restart, Protocol!code, InSprint
  <1>4. CASE status \notin {"design_review", "review_pending"} /\ status' \in OffPath
    <2>1. Place[status] # "review" /\ Place[status'] = "stopped"
      BY <1>2, <1>4, Places
    <2> QED
      BY <1>1, <2>1 DEF Protocol!Restart, Protocol!code, InSprint
  <1>5. CASE status = "failed" /\ phase = "complete" /\ status' = "done"
    <2>1. Place[status] = "stopped" /\ Place[status'] = "done"
      BY <1>2, <1>5, Places DEF OffPath
    <2>2. Protocol!Settled
      BY <1>5 DEF Protocol!Settled, More, HistoryOK, GatesSettled, ReviewSettled
    <2> QED
      BY <1>1, <2>1, <2>2 DEF Protocol!Restart, Protocol!code, InSprint
  <1> QED
    BY <1>3, <1>4, <1>5, ReconciledStatus

-----------------------------------------------------------------------------
(* TaskLifecycle implements TaskProtocol.                                  *)

LEMMA InitMaps == Init => Protocol!Init
  <1> SUFFICES ASSUME Init PROVE Protocol!Init
    OBVIOUS
  <1>1. Place[status] = "open" /\ Asked = "nothing"
    BY Places DEF Init, Asked, TaskStatuses, DISPATCHABLE_STATUSES
  <1> QED
    BY <1>1 DEF Init, Protocol!Init, InSprint

LEMMA StutterMaps == ASSUME UNCHANGED vars PROVE UNCHANGED Protocol!vars
  BY DEF vars, row, linked, chainVars, history, Asked, InSprint, Protocol!vars, Protocol!task,
         Protocol!code

LEMMA NextMaps ==
  ASSUME Parts, Parts', More, Next
  PROVE  [Protocol!Next]_(Protocol!vars)
  <1>1. CASE HandlerStep \/ AgentStep \/ FaultStep
    <2>1. Worked
      BY <1>1, PlanningMaps, PlanMaps, ImplementationMaps, GatesMap, PullRequestMaps,
         BuildVerifyMaps, FaultsMap
      DEF HandlerStep, AgentStep
    <2> QED
      BY <2>1 DEF Worked, Protocol!Next, Protocol!Work
  <1>2. CASE ReviewStep
    <2>1. "pr" \in DOMAIN ReviewStatus
      BY DEF ReviewStatus
    <2> QED
      BY <1>2, <2>1, AnswersMap, SprintDecisionMaps
      DEF ReviewStep, Protocol!Next, Protocol!Decision
  <1>3. CASE Recover
    BY <1>3, RecoverMaps DEF Protocol!Next, Protocol!Decision
  <1>4. CASE Dispatch \/ LimitResets \/ SiblingResumes
    BY <1>4, TimeMaps DEF Protocol!Next, Protocol!Work
  <1>5. CASE Restart
    BY <1>5, RestartMaps DEF Protocol!Next
  <1> QED
    BY <1>1, <1>2, <1>3, <1>4, <1>5 DEF Next, WorkStep, OutsideStep

\* The task is moved only by those who may move it, and on the grounds they
\* need, however its chain was interrupted, limited, blocked or retried.
THEOREM ProtocolIsImplemented == Spec => ProtocolIsKept
  <1>1. Init => Protocol!Init
    BY InitMaps
  <1>2. ASSUME LifecycleInv, LifecycleInv', More, [Next]_vars
        PROVE  [Protocol!Next]_(Protocol!vars)
    BY <1>2, PartsOfInv, NextMaps, StutterMaps
  <1> QED
    BY <1>1, <1>2, HistoryInvariant, PTL DEF Spec, ProtocolIsKept, Protocol!Spec

\* What the protocol promises in every state follows from the protocol alone.
LEMMA ProtocolPromises == Protocol!Spec => []Protocol!Promise
  <1>1. Protocol!Init => Protocol!Promise
    BY DEF Protocol!Init, Protocol!Promise
  <1>2. Protocol!Promise /\ [Protocol!Next]_(Protocol!vars) => Protocol!Promise'
    <2> SUFFICES ASSUME Protocol!Promise, [Protocol!Next]_(Protocol!vars)
                 PROVE  Protocol!Promise'
      OBVIOUS
    <2> USE DEF Protocol!Promise, Protocol!Settled, Protocol!task, Protocol!code
    <2>1. CASE Protocol!Begin \/ Protocol!Rewrite \/ Protocol!Clear
      BY <2>1 DEF Protocol!Begin, Protocol!Rewrite, Protocol!Clear
    <2>2. CASE Protocol!Ask("plan") \/ Protocol!Ask("code") \/ Protocol!Stop \/ Protocol!Finish
      BY <2>2 DEF Protocol!Ask, Protocol!Stop, Protocol!Finish
    <2>3. CASE Protocol!Approve \/ Protocol!Reject \/ Protocol!Override \/ Protocol!RequestChanges
      BY <2>3 DEF Protocol!Approve, Protocol!Reject, Protocol!Override, Protocol!RequestChanges
    <2>4. CASE Protocol!Recover \/ Protocol!Resume
      BY <2>4 DEF Protocol!Recover, Protocol!Resume
    <2>5. CASE Protocol!Restart
      BY <2>5 DEF Protocol!Restart
    <2>6. CASE UNCHANGED Protocol!vars
      BY <2>6 DEF Protocol!vars
    <2> QED
      BY <2>1, <2>2, <2>3, <2>4, <2>5, <2>6
      DEF Protocol!Next, Protocol!Work, Protocol!Decision
  <1> QED
    BY <1>1, <1>2, PTL DEF Protocol!Spec

\* A task is in hand only where work can go on, waits for a review only where
\* it has one, and is done only with its code cleared and reviewed, or with an
\* operator's waiver, however its chain was interrupted, limited or retried.
THEOREM PromiseIsKept == Spec => []Protocol!Promise
  BY ProtocolIsImplemented, ProtocolPromises, PTL DEF ProtocolIsKept
=============================================================================
