------------------------ MODULE TaskLifecycleProofs -------------------------
(***************************************************************************)
(* Proofs about TaskLifecycle for every retry budget, number of tries and  *)
(* step limit.  LifecycleInv is shown to be inductive.  Its parts that     *)
(* speak of the row and of the chain follow from how a step ends or starts *)
(* an agent, whatever the handler: that is EndStepEffect and               *)
(* StartAgentEffect.  What is left for each action is what it does to the  *)
(* gates, the retries and the history.  The last section shows that every  *)
(* step of a chain brings it nearer to its end.                            *)
(***************************************************************************)
EXTENDS TaskLifecycle, TLAPS, FiniteSetTheorems

Limits == {"none", "unknown", "future", "due"}

\* What the inductive invariant says of the row but for the retries ...
RowOK ==
    /\ status \in TaskStatuses /\ phase \in TaskPhases
    /\ blocked_reason \in BlockedReasons /\ provider_limit \in Limits
    /\ status \notin OffPath => phase = PHASE_FOR_STATUS[status]
    /\ LimitsBeforeReview /\ TakenBackWasDone

\* ... of the chain ...
ChainOK ==
    /\ chain \in {"idle", "queued", "running"} /\ inflight \in Agents \cup {"none"}
    /\ seen \in SUBSET (TaskStatuses \X Nat) /\ steps \in Nat /\ attempt \in Nat
    /\ ChainWorks /\ ChainIsBounded

\* ... of the gates ...
GatesOK ==
    /\ pending \in SUBSET GateTypes /\ kind \in Kinds
    /\ KindFits /\ OneReview /\ GateMatchesReview

\* ... and of the rest.
DataOK ==
    /\ retry_count \in Nat /\ retry_count <= RetryCap
    /\ operator_decision \in BOOLEAN /\ changesRequested \in BOOLEAN
    /\ verifier \in VerifierRuns /\ latestStale \in BOOLEAN /\ scaffoldStale \in BOOLEAN
    /\ sprint \in SprintStages
    /\ gated \in BOOLEAN /\ reviewed \in BOOLEAN /\ skipped \in SUBSET {"gates", "review"}

Parts == RowOK /\ ChainOK /\ GatesOK /\ DataOK /\ PrIsGated

\* Together they are the inductive invariant.
LEMMA PartsOfInv == (LifecycleInv <=> Parts) /\ (LifecycleInv' <=> Parts')
  BY DEF LifecycleInv, TypeOK, RetriesBounded, Parts, RowOK, ChainOK, GatesOK, DataOK, Limits

-----------------------------------------------------------------------------
(* The tables.                                                             *)

\* The phase that a status leaves in a row is a phase: the status's own, or
\* the old one off the path.
LEMMA PhaseAfterType ==
  ASSUME NEW s \in TaskStatuses, NEW p \in TaskPhases
  PROVE  /\ PHASE_FOR_STATUS[s] \in TaskPhases
         /\ PhaseAfter(s, p) \in TaskPhases
         /\ s \notin OffPath => PhaseAfter(s, p) = PHASE_FOR_STATUS[s]
         /\ s \in OffPath => PhaseAfter(s, p) = p
  <1>1. PHASE_FOR_STATUS[s] \in TaskPhases
    BY DEF PHASE_FOR_STATUS, TaskPhases
  <1> QED
    BY <1>1 DEF PhaseAfter

\* A lifted provider limit resumes a phase in a status a step can advance.
LEMMA ProviderLimitTargetType ==
  ASSUME NEW p \in TaskPhases
  PROVE  /\ ProviderLimitTarget[p] \in DISPATCHABLE_STATUSES
         /\ p # "integration" => ProviderLimitTarget[p] # "pr_creation"
  BY DEF ProviderLimitTarget, DISPATCHABLE_STATUSES, TaskPhases

\* A status that a step can advance is neither off the path nor a review nor
\* the end.
LEMMA DispatchableFacts ==
  /\ DISPATCHABLE_STATUSES \subseteq TaskStatuses
  /\ \A s \in DISPATCHABLE_STATUSES : s \notin OffPath /\ s \notin {"review_pending", "design_review", "done"}
  BY DEF DISPATCHABLE_STATUSES, TaskStatuses, OffPath

\* The cap of the gate retries is no lower than their budget.
LEMMA RetryCapType == RetryCap \in Nat /\ MaxRetries <= RetryCap
  BY MaxRetriesAssumption DEF RetryCap

\* There are seven statuses a step can advance.
LEMMA DispatchableCardinality ==
  IsFiniteSet(DISPATCHABLE_STATUSES) /\ Cardinality(DISPATCHABLE_STATUSES) = 7
  <1> DEFINE
        D1 == {"pending"}
        D2 == D1 \cup {"planning"}
        D3 == D2 \cup {"design"}
        D4 == D3 \cup {"implementation"}
        D5 == D4 \cup {"quality_gates"}
        D6 == D5 \cup {"pr_creation"}
        D7 == D6 \cup {"build_verify"}
  <1>1. IsFiniteSet(D1) /\ Cardinality(D1) = 1
    BY FS_Singleton
  <1>2. IsFiniteSet(D2) /\ Cardinality(D2) = 2
    BY <1>1, FS_AddElement
  <1>3. IsFiniteSet(D3) /\ Cardinality(D3) = 3
    BY <1>2, FS_AddElement
  <1>4. IsFiniteSet(D4) /\ Cardinality(D4) = 4
    BY <1>3, FS_AddElement
  <1>5. IsFiniteSet(D5) /\ Cardinality(D5) = 5
    BY <1>4, FS_AddElement
  <1>6. IsFiniteSet(D6) /\ Cardinality(D6) = 6
    BY <1>5, FS_AddElement
  <1>7. IsFiniteSet(D7) /\ Cardinality(D7) = 7
    BY <1>6, FS_AddElement
  <1>8. DISPATCHABLE_STATUSES = D7
    BY DEF DISPATCHABLE_STATUSES
  <1> QED
    BY <1>7, <1>8

\* The states a chain can see are finitely many: seven statuses for each retry
\* count.
LEMMA StatesOfAChain ==
  /\ IsFiniteSet(DISPATCHABLE_STATUSES \X (0 .. RetryCap))
  /\ Cardinality(DISPATCHABLE_STATUSES \X (0 .. RetryCap)) = 7 * (RetryCap + 1)
  <1>1. IsFiniteSet(0 .. RetryCap) /\ Cardinality(0 .. RetryCap) = RetryCap + 1
    BY RetryCapType, FS_Interval
  <1> QED
    BY <1>1, DispatchableCardinality, FS_Product

\* A chain counts its steps by the states it saw.
LEMMA VisitedBound ==
  ASSUME RowOK, ChainOK, DataOK, chain # "idle", chain = "queued" => StepKey \notin seen
  PROVE  /\ Visited \in SUBSET (TaskStatuses \X Nat)
         /\ Visited \subseteq DISPATCHABLE_STATUSES \X (0 .. RetryCap)
         /\ StepsTaken \in Nat
         /\ StepsTaken <= Cardinality(Visited)
  <1>1. CASE chain # "queued"
    BY <1>1 DEF ChainOK, ChainIsBounded, Visited, StepsTaken
  <1>2. CASE chain = "queued"
    <2>1. StepKey \in DISPATCHABLE_STATUSES \X (0 .. RetryCap)
      BY <1>2, RetryCapType DEF ChainOK, ChainWorks, DataOK, StepKey
    <2>2. IsFiniteSet(seen)
      BY StatesOfAChain, FS_Subset DEF ChainOK, ChainIsBounded
    <2>3. Cardinality(seen) \in Nat /\ Cardinality(seen \cup {StepKey}) = Cardinality(seen) + 1
      BY <1>2, <2>2, FS_CardinalityType, FS_AddElement
    <2>4. Visited = seen \cup {StepKey} /\ StepsTaken \in {steps, steps + 1}
      BY <1>2 DEF Visited, StepsTaken
    <2>5. Visited \subseteq DISPATCHABLE_STATUSES \X (0 .. RetryCap)
      BY <2>1, <2>4 DEF ChainOK, ChainIsBounded
    <2>6. DISPATCHABLE_STATUSES \X (0 .. RetryCap) \subseteq TaskStatuses \X Nat
      BY DispatchableFacts, RetryCapType
    <2> QED
      BY <2>3, <2>4, <2>5, <2>6 DEF ChainOK, ChainIsBounded
  <1> QED
    BY <1>1, <1>2

-----------------------------------------------------------------------------
(* How a step ends, and how it starts an agent.                            *)

\* A closed chain is well formed and holds no task.
LEMMA CloseChainEffect ==
  ASSUME CloseChain
  PROVE  ChainOK' /\ chain' = "idle"
  <1>1. Cardinality({}) = 0
    BY FS_EmptySet
  <1> QED
    BY <1>1 DEF CloseChain, ChainOK, ChainWorks, ChainIsBounded

\* A new chain on a task that can be dispatched is well formed.
LEMMA OpenChainEffect ==
  ASSUME OpenChain, inflight' = "none", status' \in DISPATCHABLE_STATUSES
  PROVE  ChainOK'
  <1>1. Cardinality({}) = 0
    BY FS_EmptySet
  <1> QED
    BY <1>1 DEF OpenChain, ChainOK, ChainWorks, ChainIsBounded

\* A task in the hands of a chain is at work.
LEMMA AtWork ==
  ASSUME RowOK, ChainOK, chain # "idle"
  PROVE  status \in DISPATCHABLE_STATUSES /\ blocked_reason # "unintegrated"
  <1>1. status \in DISPATCHABLE_STATUSES
    BY DEF ChainOK, ChainWorks, WorkingStatus, Agents, DISPATCHABLE_STATUSES
  <1> QED
    BY <1>1 DEF RowOK, TakenBackWasDone, DISPATCHABLE_STATUSES

\* A step that is at work ends in a legal row, and leaves a chain that is
\* queued on a task at work or closed.
LEMMA EndStepEffect ==
  ASSUME RowOK, ChainOK, DataOK, chain # "idle", chain = "queued" => StepKey \notin seen,
         NEW p \in TaskPhases, NEW s \in TaskStatuses, NEW r \in BlockedReasons,
         NEW limit \in Limits,
         s = "capability_limit" => p # "integration", r \in {blocked_reason} \/ r # "unintegrated",
         EndStepFrom(p, s, r, limit)
  PROVE  /\ RowOK' /\ ChainOK'
         /\ inflight' = "none" /\ (status' \notin DISPATCHABLE_STATUSES => chain' = "idle")
         /\ status' = s \/ status' \in DISPATCHABLE_STATUSES \ {"pr_creation"}
  <1> DEFINE before == PhaseAfter(s, p)
             resume == s = "capability_limit" /\ limit = "due"
             next == IF resume THEN ProviderLimitTarget[before] ELSE s
  <1>1. /\ status' = next
        /\ phase' = PhaseAfter(next, before)
        /\ blocked_reason' = IF resume THEN "none" ELSE r
        /\ provider_limit' = IF resume THEN "none" ELSE limit
        /\ \/ /\ next \in DISPATCHABLE_STATUSES
              /\ chain' = "queued" /\ inflight' = "none"
              /\ seen' = Visited /\ steps' = StepsTaken /\ attempt' = 0
           \/ next \notin DISPATCHABLE_STATUSES /\ CloseChain
    BY Zenon DEF EndStepFrom
  <1>2. before \in TaskPhases /\ (s \in OffPath => before = p)
    BY PhaseAfterType
  <1>3. /\ next \in TaskStatuses
        /\ resume => next \in DISPATCHABLE_STATUSES \ {"pr_creation"}
    BY <1>2, ProviderLimitTargetType, DispatchableFacts DEF OffPath
  <1>4. /\ PhaseAfter(next, before) \in TaskPhases
        /\ next \notin OffPath => PhaseAfter(next, before) = PHASE_FOR_STATUS[next]
        /\ next \in OffPath => PhaseAfter(next, before) = before
    BY <1>2, <1>3, PhaseAfterType
  <1>5. RowOK'
    <2>1. LimitsBeforeReview'
      <3>1. SUFFICES ASSUME next = "capability_limit"
                     PROVE  PhaseAfter(next, before) # "integration"
        BY <1>1 DEF LimitsBeforeReview
      <3>2. s = "capability_limit"
        BY <1>3, <3>1, DispatchableFacts DEF OffPath
      <3> QED
        BY <1>2, <1>4, <3>1, <3>2 DEF OffPath
    <2>2. TakenBackWasDone'
      BY <1>1, AtWork DEF TakenBackWasDone
    <2> QED
      BY <1>1, <1>3, <1>4, <2>1, <2>2 DEF RowOK, Limits, BlockedReasons
  <1>6. ChainOK'
    <2>1. CASE next \in DISPATCHABLE_STATUSES
      BY <1>1, <2>1, VisitedBound DEF ChainOK, ChainWorks, ChainIsBounded
    <2>2. CASE next \notin DISPATCHABLE_STATUSES
      BY <1>1, <2>2, CloseChainEffect
    <2> QED
      BY <2>1, <2>2
  <1> QED
    BY <1>1, <1>3, <1>5, <1>6 DEF CloseChain

\* A step at work that starts agent a with the status a works in leaves that
\* agent at work on the task.
LEMMA StartAgentEffect ==
  ASSUME RowOK, ChainOK, DataOK, chain # "idle", chain = "queued" => StepKey \notin seen,
         NEW a \in Agents, StartAgent(a, WorkingStatus[a]),
         UNCHANGED <<blocked_reason, provider_limit>>
  PROVE  /\ RowOK' /\ ChainOK'
         /\ chain' = "running" /\ inflight' = a /\ status' = WorkingStatus[a]
         /\ latestStale' = FALSE
  <1>1. WorkingStatus[a] \in DISPATCHABLE_STATUSES
    BY DEF WorkingStatus, DISPATCHABLE_STATUSES
  <1>2. /\ WorkingStatus[a] \in TaskStatuses /\ WorkingStatus[a] \notin OffPath
    BY <1>1, DispatchableFacts
  <1>3. RowOK'
    BY <1>2, PhaseAfterType, AtWork DEF StartAgent, RowOK, LimitsBeforeReview, TakenBackWasDone, OffPath
  <1>4. ChainOK'
    BY <1>1, VisitedBound DEF StartAgent, ChainOK, ChainWorks, ChainIsBounded
  <1> QED
    BY <1>3, <1>4 DEF StartAgent

\* A task in the hands of a chain waits for no review of its own.
LEMMA NoGateAtWork ==
  ASSUME GatesOK, chain # "idle"
  PROVE  pending \cap DOMAIN ReviewStatus = {}
  BY DEF GatesOK, GateMatchesReview

\* So a step that opens no gate keeps the gates right.
LEMMA GatesAtWork ==
  ASSUME GatesOK, chain # "idle", UNCHANGED <<pending, kind>>,
         \/ inflight' \in {"none", inflight, "scaffold", "code-gen", "gate-remediator"}
         \/ inflight' = "feature-verifier" /\ InSprint
         \/ /\ inflight' \in {"planner", "designer", "ui-prototyper", "pr-creator",
                              "build-verifier"}
            /\ ~InSprint
  PROVE  GatesOK'
  BY NoGateAtWork DEF GatesOK, KindFits, OneReview, GateMatchesReview, InSprint

\* A step that opens the gate of the review it ends in keeps them right.
LEMMA GateOpened ==
  ASSUME GatesOK, chain # "idle", ~InSprint, UNCHANGED kind,
         NEW g \in DOMAIN ReviewStatus, pending' = pending \cup {g},
         status' = ReviewStatus[g], chain' = "idle", inflight' = "none"
  PROVE  GatesOK'
  <1>1. g # "sprint_pr"
    BY DEF ReviewStatus
  <1>2. pending' \cap DOMAIN ReviewStatus = {g}
    BY NoGateAtWork
  <1>3. OneReview' /\ GateMatchesReview'
    BY <1>2 DEF OneReview, GateMatchesReview
  <1>4. KindFits'
    BY <1>1 DEF GatesOK, KindFits, InSprint
  <1> QED
    BY <1>3, <1>4 DEF GatesOK, GateTypes

\* EndStep as the handlers use it, with the task's own phase and limit.
LEMMA EndStepHere ==
  ASSUME RowOK, ChainOK, DataOK, chain # "idle", chain = "queued" => StepKey \notin seen,
         NEW s \in TaskStatuses, NEW r \in BlockedReasons,
         s = "capability_limit" => phase # "integration", r \in {blocked_reason} \/ r # "unintegrated",
         EndStep(s, r)
  PROVE  /\ RowOK' /\ ChainOK'
         /\ inflight' = "none" /\ (status' \notin DISPATCHABLE_STATUSES => chain' = "idle")
         /\ status' = s \/ status' \in DISPATCHABLE_STATUSES \ {"pr_creation"}
  BY EndStepEffect DEF EndStep, RowOK

\* An agent that did not deliver: the phase is not yet under review.
LEMMA AgentStopsEffect ==
  ASSUME RowOK, ChainOK, DataOK, chain = "running", phase # "integration", AgentStops
  PROVE  /\ RowOK' /\ ChainOK'
         /\ inflight' = "none"
         /\ status' \notin {"design_review", "review_pending", "pr_creation"}
         /\ operator_decision' \in BOOLEAN
  <1>1. CASE EndStep("failed", "error") /\ UNCHANGED operator_decision
    BY <1>1, EndStepHere, DispatchableFacts
       DEF TaskStatuses, BLOCKED_STATUSES, OffPath, BlockedReasons, DataOK
  <1>2. CASE /\ \E r \in {"impl_decision", "other_decision"} : EndStep("blocked", r)
             /\ operator_decision' = TRUE
    BY <1>2, EndStepHere, DispatchableFacts
       DEF TaskStatuses, BLOCKED_STATUSES, OffPath, BlockedReasons, RecoverableBlocks,
           ImplementationBlocks, OperatorBlocks
  <1>3. CASE /\ \E limit \in {"unknown", "future", "due"} :
                    EndStepFrom(phase, "capability_limit", "limit", limit)
             /\ UNCHANGED operator_decision
    BY <1>3, EndStepEffect, DispatchableFacts
       DEF TaskStatuses, BLOCKED_STATUSES, OffPath, BlockedReasons, Limits, RowOK, DataOK
  <1> QED
    BY <1>1, <1>2, <1>3 DEF AgentStops

-----------------------------------------------------------------------------
(* The handlers.                                                           *)

\* PhasePlanning skips a sprint task ahead or starts the planner.
LEMMA PlanningPreserves ==
  ASSUME Parts, PhasePlanning \/ PhaseDesign
  PROVE  Parts'
  <1> USE DEF FreshStep, StepDue, Parts
  <1>1. chain = "queued" /\ StepKey \notin seen /\ status \in {"pending", "planning", "design"}
    BY DEF PhasePlanning, PhaseDesign
  <1>2. /\ UNCHANGED <<retry_count, operator_decision, pending, changesRequested, verifier,
                       scaffoldStale, sprint, kind, gated, reviewed, skipped>>
        /\ latestStale' \in BOOLEAN
    BY DEF PhasePlanning, PhaseDesign, history, StartAgent, DataOK
  <1>3. DataOK'
    BY <1>2 DEF DataOK
  <1>4. CASE InSprint /\ EndStep("implementation", blocked_reason)
    <2>1. /\ RowOK' /\ ChainOK' /\ inflight' = "none"
          /\ status' \in DISPATCHABLE_STATUSES \ {"pr_creation"}
      BY <1>1, <1>4, EndStepHere DEF TaskStatuses, DISPATCHABLE_STATUSES, RowOK
    <2> QED
      BY <1>1, <1>2, <1>3, <2>1, GatesAtWork, DispatchableFacts DEF PrIsGated
  <1>5. CASE ~InSprint
    <2>1. PICK a \in {"planner", "designer"} :
             StartAgent(a, WorkingStatus[a]) /\ UNCHANGED <<blocked_reason, provider_limit>>
      BY <1>5 DEF PhasePlanning, PhaseDesign, WorkingStatus, Agents
    <2>2. RowOK' /\ ChainOK' /\ inflight' = a /\ status' = WorkingStatus[a]
      BY <1>1, <2>1, StartAgentEffect DEF Agents
    <2>3. status' \in {"planning", "design"}
      BY <2>2 DEF WorkingStatus, Agents
    <2> QED
      BY <1>1, <1>2, <1>3, <1>5, <2>2, <2>3, GatesAtWork DEF PrIsGated
  <1> QED
    BY <1>4, <1>5 DEF PhasePlanning, PhaseDesign

\* A plan opens the planning gate of the review its task goes into.
LEMMA PlannerEndsPreserves ==
  ASSUME Parts, PlannerEnds \/ UiPrototyperEnds
  PROVE  Parts'
  <1> USE DEF AgentEnds, Parts
  <1>1. /\ chain = "running" /\ inflight \in {"planner", "ui-prototyper"} /\ ~InSprint
        /\ phase # "integration"
    BY PhaseAfterType
       DEF PlannerEnds, UiPrototyperEnds, GatesOK, KindFits, ChainOK, ChainWorks, RowOK,
           WorkingStatus, Agents, PHASE_FOR_STATUS, TaskStatuses, BLOCKED_STATUSES, DISPATCHABLE_STATUSES, OffPath
  <1>2. UNCHANGED <<retry_count, changesRequested, verifier, latestStale, scaffoldStale,
                    sprint, kind, gated, reviewed, skipped>>
    BY DEF PlannerEnds, UiPrototyperEnds, history
  <1>3. CASE AgentStops /\ UNCHANGED pending
    <2>1. /\ RowOK' /\ ChainOK' /\ inflight' = "none" /\ operator_decision' \in BOOLEAN
          /\ status' \notin {"review_pending", "pr_creation"}
      BY <1>1, <1>3, AgentStopsEffect
    <2> QED
      BY <1>1, <1>2, <1>3, <2>1, GatesAtWork DEF DataOK, PrIsGated
  <1>4. CASE \E g \in {"planning", "ui_preview"} :
               /\ EndStep("design_review", blocked_reason)
               /\ pending' = pending \cup {g}
               /\ UNCHANGED operator_decision
    <2>1. PICK g \in {"planning", "ui_preview"} : pending' = pending \cup {g}
      BY <1>4
    <2>2. /\ RowOK' /\ ChainOK' /\ inflight' = "none"
          /\ status' = "design_review" \/ status' \in DISPATCHABLE_STATUSES
      BY <1>1, <1>4, EndStepHere DEF RowOK, TaskStatuses, BLOCKED_STATUSES, DISPATCHABLE_STATUSES, OffPath
    <2>3. status' = "design_review" /\ chain' = "idle"
      BY <1>4, CloseChainEffect DEF EndStep, EndStepFrom, DISPATCHABLE_STATUSES
    <2>4. g \in DOMAIN ReviewStatus /\ ReviewStatus[g] = "design_review"
      BY DEF ReviewStatus
    <2> QED
      BY <1>1, <1>2, <1>4, <2>1, <2>2, <2>3, <2>4, GateOpened DEF DataOK, PrIsGated
  <1> QED
    BY <1>3, <1>4 DEF PlannerEnds, UiPrototyperEnds

\* A design, or a prototype of its screens, opens at most the ui_preview gate.
LEMMA DesignerEndsPreserves ==
  ASSUME Parts, DesignerEnds
  PROVE  Parts'
  <1> USE DEF AgentEnds, Parts
  <1>1. /\ chain = "running" /\ ~InSprint /\ phase # "integration"
    BY PhaseAfterType
       DEF DesignerEnds, GatesOK, KindFits, ChainOK, ChainWorks, RowOK,
           WorkingStatus, Agents, PHASE_FOR_STATUS, TaskStatuses, BLOCKED_STATUSES, DISPATCHABLE_STATUSES, OffPath
  <1>2. UNCHANGED <<retry_count, pending, changesRequested, verifier, scaffoldStale,
                    sprint, kind, gated, reviewed, skipped>>
    BY DEF DesignerEnds, history
  <1>3. CASE AgentStops /\ UNCHANGED latestStale
    <2>1. /\ RowOK' /\ ChainOK' /\ inflight' = "none" /\ operator_decision' \in BOOLEAN
          /\ status' \notin {"review_pending", "pr_creation"}
      BY <1>1, <1>3, AgentStopsEffect
    <2> QED
      BY <1>1, <1>2, <1>3, <2>1, GatesAtWork DEF DataOK, PrIsGated
  <1>4. CASE /\ StartAgent("ui-prototyper", "design")
             /\ UNCHANGED <<blocked_reason, provider_limit, operator_decision>>
    <2>1. "ui-prototyper" \in Agents /\ WorkingStatus["ui-prototyper"] = "design"
      BY DEF Agents, WorkingStatus
    <2>2. /\ RowOK' /\ ChainOK' /\ inflight' = "ui-prototyper" /\ status' = "design"
          /\ latestStale' = FALSE
      BY <1>1, <1>4, <2>1, StartAgentEffect
    <2> QED
      BY <1>1, <1>2, <1>4, <2>2, GatesAtWork DEF DataOK, PrIsGated
  <1>5. CASE EndStep("implementation", blocked_reason) /\ UNCHANGED <<latestStale, operator_decision>>
    <2>1. /\ RowOK' /\ ChainOK' /\ inflight' = "none"
          /\ status' \in DISPATCHABLE_STATUSES \ {"pr_creation"}
      BY <1>1, <1>5, EndStepHere DEF RowOK, TaskStatuses, BLOCKED_STATUSES, DISPATCHABLE_STATUSES, OffPath
    <2> QED
      BY <1>1, <1>2, <1>5, <2>1, GatesAtWork, DispatchableFacts DEF DataOK, PrIsGated
  <1> QED
    BY <1>3, <1>4, <1>5 DEF DesignerEnds

\* A code-gen run starts the history of the gates over, away from any pull
\* request.
LEMMA StartCodeGenEffect ==
  ASSUME Parts, chain # "idle", chain = "queued" => StepKey \notin seen,
         StartCodeGen, UNCHANGED <<blocked_reason, provider_limit, pending, kind>>
  PROVE  /\ RowOK' /\ ChainOK' /\ GatesOK' /\ PrIsGated'
         /\ latestStale' = FALSE /\ gated' \in BOOLEAN /\ reviewed' \in BOOLEAN
         /\ skipped' \in SUBSET {"gates", "review"}
  <1>1. "code-gen" \in Agents /\ WorkingStatus["code-gen"] = "implementation"
    BY DEF Agents, WorkingStatus
  <1>2. /\ RowOK' /\ ChainOK' /\ inflight' = "code-gen" /\ status' = "implementation"
        /\ latestStale' = FALSE
    BY <1>1, StartAgentEffect DEF StartCodeGen, Parts
  <1> QED
    BY <1>2, GatesAtWork DEF StartCodeGen, Parts, PrIsGated

\* PhaseImplementation and its scaffold block the task or start code-gen.
LEMMA ImplementationPreserves ==
  ASSUME Parts, PhaseImplementation \/ ScaffoldEnds
  PROVE  Parts'
  <1> USE DEF Parts
  <1>1. chain # "idle" /\ (chain = "queued" => StepKey \notin seen)
    BY DEF PhaseImplementation, ScaffoldEnds, FreshStep, StepDue, AgentEnds
  <1>2. /\ UNCHANGED <<retry_count, pending, changesRequested, verifier, scaffoldStale,
                       sprint, kind>>
        /\ operator_decision' \in BOOLEAN
    BY DEF PhaseImplementation, ScaffoldEnds, DataOK
  <1>3. CASE EndStep("blocked", "scaffold_failed") /\ UNCHANGED <<latestStale, history>>
    <2>1. /\ RowOK' /\ ChainOK' /\ inflight' = "none"
          /\ status' = "blocked" \/ status' \in DISPATCHABLE_STATUSES \ {"pr_creation"}
      BY <1>1, <1>3, EndStepHere
         DEF BlockedReasons, RecoverableBlocks, ImplementationBlocks, TaskStatuses, BLOCKED_STATUSES, DISPATCHABLE_STATUSES, OffPath
    <2> QED
      BY <1>1, <1>2, <1>3, <2>1, GatesAtWork, DispatchableFacts DEF DataOK, PrIsGated, history
  <1>4. CASE /\ StartAgent("scaffold", "implementation")
             /\ UNCHANGED <<blocked_reason, provider_limit, history>>
    <2>1. "scaffold" \in Agents /\ WorkingStatus["scaffold"] = "implementation"
      BY DEF Agents, WorkingStatus
    <2>2. /\ RowOK' /\ ChainOK' /\ inflight' = "scaffold" /\ status' = "implementation"
          /\ latestStale' = FALSE
      BY <1>1, <1>4, <2>1, StartAgentEffect
    <2> QED
      BY <1>1, <1>2, <1>4, <2>2, GatesAtWork DEF DataOK, PrIsGated, history
  <1>5. CASE StartCodeGen /\ UNCHANGED <<blocked_reason, provider_limit>>
    BY <1>1, <1>2, <1>5, StartCodeGenEffect DEF DataOK
  <1> QED
    BY <1>3, <1>4, <1>5 DEF PhaseImplementation, ScaffoldEnds

\* A code-gen run ends off the path or before the gates.
LEMMA CodeGenEndsPreserves ==
  ASSUME Parts, CodeGenEnds
  PROVE  Parts'
  <1> USE DEF AgentEnds, Parts
  <1>1. chain = "running" /\ phase # "integration"
    BY PhaseAfterType
       DEF CodeGenEnds, ChainOK, ChainWorks, RowOK, WorkingStatus, Agents, PHASE_FOR_STATUS, TaskStatuses, BLOCKED_STATUSES, DISPATCHABLE_STATUSES, OffPath
  <1>2. UNCHANGED <<retry_count, pending, changesRequested, verifier, latestStale, scaffoldStale,
                    sprint, kind, gated, reviewed, skipped>>
    BY DEF CodeGenEnds, linked, history
  <1>3. /\ RowOK' /\ ChainOK' /\ inflight' = "none" /\ operator_decision' \in BOOLEAN
        /\ status' \notin {"review_pending", "pr_creation"}
    <2>1. CASE AgentStops
      BY <1>1, <2>1, AgentStopsEffect
    <2>2. CASE EndStep("quality_gates", blocked_reason) /\ UNCHANGED operator_decision
      BY <1>1, <2>2, EndStepHere, DispatchableFacts DEF RowOK, DataOK, TaskStatuses, BLOCKED_STATUSES, DISPATCHABLE_STATUSES, OffPath
    <2> QED
      BY <2>1, <2>2 DEF CodeGenEnds
  <1> QED
    BY <1>1, <1>2, <1>3, GatesAtWork DEF DataOK, PrIsGated

\* Gates that pass let the task on to its pull request; those that block do
\* not.
LEMMA QualityGatesPreserve ==
  ASSUME Parts, QualityGateCap \/ QualityGatesPass \/ QualityGatesBlock
  PROVE  Parts'
  <1> USE DEF Parts, FreshStep, StepDue
  <1>1. chain = "queued" /\ StepKey \notin seen
    BY DEF QualityGateCap, QualityGatesPass, QualityGatesBlock
  <1>2. /\ UNCHANGED <<operator_decision, pending, changesRequested, verifier, scaffoldStale,
                       sprint, kind, reviewed, skipped>>
        /\ latestStale' \in BOOLEAN
    BY DEF QualityGateCap, QualityGatesPass, QualityGatesBlock, linked, history, DataOK
  <1>3. CASE QualityGatesPass
    <2>1. EndStep("pr_creation", "none") /\ retry_count' = 0 /\ gated' = TRUE
      BY <1>3 DEF QualityGatesPass
    <2>2. RowOK' /\ ChainOK' /\ inflight' = "none"
      BY <1>1, <2>1, EndStepHere DEF BlockedReasons, RecoverableBlocks, ImplementationBlocks, OperatorBlocks, TaskStatuses, BLOCKED_STATUSES, DISPATCHABLE_STATUSES, OffPath
    <2> QED
      BY <1>1, <1>2, <2>1, <2>2, GatesAtWork, RetryCapType DEF DataOK, PrIsGated
  <1>4. CASE QualityGateCap \/ QualityGatesBlock
    <2>1. PICK r \in BlockedReasons \ {"unintegrated"} : EndStep("blocked", r)
      BY <1>4 DEF QualityGateCap, QualityGatesBlock, BlockedReasons, RecoverableBlocks, ImplementationBlocks, OperatorBlocks
    <2>2. /\ RowOK' /\ ChainOK' /\ inflight' = "none"
          /\ status' = "blocked" \/ status' \in DISPATCHABLE_STATUSES \ {"pr_creation"}
      BY <1>1, <2>1, EndStepHere DEF TaskStatuses, BLOCKED_STATUSES, DISPATCHABLE_STATUSES, OffPath
    <2>3. UNCHANGED <<retry_count, gated>>
      BY <1>4 DEF QualityGateCap, QualityGatesBlock, history
    <2> QED
      BY <1>1, <1>2, <2>2, <2>3, GatesAtWork, DispatchableFacts DEF DataOK, PrIsGated
  <1> QED
    BY <1>3, <1>4

\* A remediation counts a retry below the cap; an escalation stops at it.
LEMMA GateFailurePreserves ==
  ASSUME Parts, QualityGatesFail \/ GateRemediatorEnds
  PROVE  Parts'
  <1> USE DEF Parts
  <1>1. /\ chain # "idle" /\ (chain = "queued" => StepKey \notin seen)
        /\ phase # "integration"
    BY PhaseAfterType
       DEF QualityGatesFail, GateRemediatorEnds, FreshStep, StepDue, AgentEnds, ChainOK,
           ChainWorks, RowOK, WorkingStatus, Agents, PHASE_FOR_STATUS, TaskStatuses, BLOCKED_STATUSES, DISPATCHABLE_STATUSES, OffPath
  <1>2. /\ UNCHANGED <<operator_decision, pending, changesRequested, verifier, scaffoldStale,
                       sprint, kind, gated, reviewed, skipped>>
        /\ latestStale' \in BOOLEAN
    BY DEF QualityGatesFail, GateRemediatorEnds, StartAgent, history, DataOK
  <1>3. CASE EscalateToCapabilityLimit /\ UNCHANGED retry_count
    <2>1. /\ RowOK' /\ ChainOK' /\ inflight' = "none"
          /\ status' = "capability_limit" \/ status' \in DISPATCHABLE_STATUSES \ {"pr_creation"}
      BY <1>1, <1>3, EndStepHere DEF EscalateToCapabilityLimit, BlockedReasons, TaskStatuses, BLOCKED_STATUSES, DISPATCHABLE_STATUSES, OffPath
    <2> QED
      BY <1>1, <1>2, <1>3, <2>1, GatesAtWork, DispatchableFacts DEF DataOK, PrIsGated
  <1>4. CASE /\ retry_count < RetryCap /\ retry_count' = retry_count + 1
             /\ \/ EndStep("quality_gates", blocked_reason)
                \/ EndStep("implementation", "gate_feedback")
    <2>1. /\ RowOK' /\ ChainOK' /\ inflight' = "none"
          /\ status' \in DISPATCHABLE_STATUSES \ {"pr_creation"}
      BY <1>1, <1>4, EndStepHere DEF RowOK, BlockedReasons, TaskStatuses, BLOCKED_STATUSES, DISPATCHABLE_STATUSES, OffPath
    <2>2. retry_count' \in Nat /\ retry_count' <= RetryCap
      BY <1>4, RetryCapType DEF DataOK
    <2> QED
      BY <1>1, <1>2, <2>1, <2>2, GatesAtWork, DispatchableFacts DEF DataOK, PrIsGated
  <1>5. CASE /\ StartAgent("gate-remediator", "quality_gates")
             /\ UNCHANGED <<retry_count, blocked_reason, provider_limit>>
    <2>1. "gate-remediator" \in Agents /\ WorkingStatus["gate-remediator"] = "quality_gates"
      BY DEF Agents, WorkingStatus
    <2>2. /\ RowOK' /\ ChainOK' /\ inflight' = "gate-remediator" /\ status' = "quality_gates"
      BY <1>1, <1>5, <2>1, StartAgentEffect
    <2> QED
      BY <1>1, <1>2, <1>5, <2>2, GatesAtWork DEF DataOK, PrIsGated
  <1>6. CASE QualityGatesFail
    BY <1>3, <1>4, <1>5, <1>6 DEF QualityGatesFail, Remediate
  <1>7. CASE GateRemediatorEnds
    <2>1. CASE retry_count < MaxRetries
      BY <1>4, <1>7, <2>1, RetryCapType, MaxRetriesAssumption DEF GateRemediatorEnds, DataOK
    <2>2. CASE ~(retry_count < MaxRetries)
      BY <1>3, <1>7, <2>2 DEF GateRemediatorEnds
    <2> QED
      BY <2>1, <2>2
  <1> QED
    BY <1>6, <1>7

\* PhasePrCreation leaves the pull request to a gated task's agent, or skips
\* it.
LEMMA PrCreationPreserves ==
  ASSUME Parts, PhasePrCreation
  PROVE  Parts'
  <1> USE DEF Parts, FreshStep, StepDue
  <1>1. chain = "queued" /\ StepKey \notin seen /\ gated
    BY DEF PhasePrCreation, PrIsGated
  <1>2. /\ UNCHANGED <<retry_count, operator_decision, pending, changesRequested, verifier,
                       scaffoldStale, sprint, kind, gated, reviewed, skipped>>
        /\ latestStale' \in BOOLEAN
    BY DEF PhasePrCreation, StartAgent, history, DataOK
  <1>3. PrIsGated' /\ DataOK'
    BY <1>1, <1>2 DEF PrIsGated, DataOK
  <1>4. CASE EndStep("build_verify", blocked_reason) \/ EndStep("failed", "error")
    <2>1. /\ RowOK' /\ ChainOK' /\ inflight' = "none"
      BY <1>1, <1>4, EndStepHere DEF RowOK, BlockedReasons, TaskStatuses, BLOCKED_STATUSES, DISPATCHABLE_STATUSES, OffPath
    <2> QED
      BY <1>1, <1>2, <1>3, <2>1, GatesAtWork
  <1>5. CASE /\ ~InSprint /\ StartAgent("pr-creator", "pr_creation")
             /\ UNCHANGED <<blocked_reason, provider_limit>>
    <2>1. "pr-creator" \in Agents /\ WorkingStatus["pr-creator"] = "pr_creation"
      BY DEF Agents, WorkingStatus
    <2>2. RowOK' /\ ChainOK' /\ inflight' = "pr-creator"
      BY <1>1, <1>5, <2>1, StartAgentEffect
    <2> QED
      BY <1>1, <1>2, <1>3, <1>5, <2>2, GatesAtWork
  <1> QED
    BY <1>4, <1>5 DEF PhasePrCreation

\* A pull request opens the pr gate of the review its task goes into.
LEMMA PrCreatorEndsPreserves ==
  ASSUME Parts, PrCreatorEnds
  PROVE  Parts'
  <1> USE DEF Parts, AgentEnds
  <1>1. chain = "running" /\ ~InSprint /\ gated
    BY DEF PrCreatorEnds, GatesOK, KindFits, ChainOK, ChainWorks, WorkingStatus, Agents, PrIsGated
  <1>2. UNCHANGED <<retry_count, operator_decision, changesRequested, verifier, latestStale,
                    scaffoldStale, sprint, kind, gated, reviewed, skipped>>
    BY DEF PrCreatorEnds, history
  <1>3. PrIsGated' /\ DataOK'
    BY <1>1, <1>2 DEF PrIsGated, DataOK
  <1>4. CASE EndStep("failed", "error") /\ UNCHANGED pending
    <2>1. RowOK' /\ ChainOK' /\ inflight' = "none"
      BY <1>1, <1>4, EndStepHere DEF BlockedReasons, TaskStatuses, BLOCKED_STATUSES, DISPATCHABLE_STATUSES, OffPath
    <2> QED
      BY <1>1, <1>2, <1>3, <1>4, <2>1, GatesAtWork
  <1>5. CASE EndStep("review_pending", blocked_reason) /\ pending' = pending \cup {"pr"}
    <2>1. RowOK' /\ ChainOK' /\ inflight' = "none"
      BY <1>1, <1>5, EndStepHere DEF RowOK, TaskStatuses, BLOCKED_STATUSES, DISPATCHABLE_STATUSES, OffPath
    <2>2. status' = "review_pending" /\ chain' = "idle"
      BY <1>5, CloseChainEffect DEF EndStep, EndStepFrom, DISPATCHABLE_STATUSES
    <2>3. "pr" \in DOMAIN ReviewStatus /\ ReviewStatus["pr"] = "review_pending"
      BY DEF ReviewStatus
    <2> QED
      BY <1>1, <1>2, <1>3, <1>5, <2>1, <2>2, <2>3, GateOpened
  <1> QED
    BY <1>4, <1>5 DEF PrCreatorEnds

\* Integration opens at most the gate of the sprint.
LEMMA SprintTaskEffect ==
  ASSUME Parts, InSprint, chain # "idle", chain = "queued" => StepKey \notin seen,
         RefuseSprintTask \/ IntegrateSprintTask,
         UNCHANGED <<retry_count, changesRequested, scaffoldStale, kind, history>>
  PROVE  Parts'
  <1> USE DEF Parts
  <1>1. /\ RowOK' /\ ChainOK' /\ inflight' = "none"
        /\ status' \notin {"review_pending", "design_review", "pr_creation"}
        /\ pending' \in {pending, pending \cup {"sprint_pr"}}
        /\ operator_decision' \in BOOLEAN /\ verifier' \in VerifierRuns
        /\ latestStale' \in BOOLEAN /\ sprint' \in SprintStages
    <2>1. CASE /\ EndStep("failed", "error") /\ latestStale' = FALSE
               /\ UNCHANGED <<operator_decision, pending, sprint>> /\ verifier' \in {verifier, "pass"}
      <3>1. /\ RowOK' /\ ChainOK' /\ inflight' = "none"
            /\ status' = "failed" \/ status' \in DISPATCHABLE_STATUSES \ {"pr_creation"}
        BY <2>1, EndStepHere DEF BlockedReasons, TaskStatuses, BLOCKED_STATUSES, DISPATCHABLE_STATUSES, OffPath
      <3> QED
        BY <2>1, <3>1, DispatchableFacts DEF DataOK, VerifierRuns
    <2>2. CASE \E o \in PossibleOutcomes :
                 LET out == SprintOutcomes[o]
                 IN  /\ EndStepFrom("complete", out.status, out.reason, provider_limit)
                     /\ sprint' = out.sprint
                     /\ pending' = pending \cup (IF o = "pr_opened" THEN {"sprint_pr"} ELSE {})
                     /\ latestStale' = (o = "ship_raised")
                     /\ operator_decision' = FALSE /\ verifier' = "pass"
      <3>1. PICK o \in PossibleOutcomes :
                 /\ EndStepFrom("complete", SprintOutcomes[o].status, SprintOutcomes[o].reason,
                                provider_limit)
                 /\ sprint' = SprintOutcomes[o].sprint
                 /\ pending' = pending \cup (IF o = "pr_opened" THEN {"sprint_pr"} ELSE {})
                 /\ latestStale' = (o = "ship_raised")
                 /\ operator_decision' = FALSE /\ verifier' = "pass"
        BY <2>2
      <3>2. /\ SprintOutcomes[o].status \in {"done", "blocked", "failed"}
            /\ SprintOutcomes[o].reason \in {"none", "final_checkout", "error"}
            /\ SprintOutcomes[o].sprint \in SprintStages
        BY DEF PossibleOutcomes, SprintOutcomes, SprintStages, DataOK
      <3>3. PICK st \in {"done", "blocked", "failed"}, r \in {"none", "final_checkout", "error"} :
                 EndStepFrom("complete", st, r, provider_limit)
        BY <3>1, <3>2
      <3>4. /\ st \in TaskStatuses /\ r \in BlockedReasons /\ "complete" \in TaskPhases
            /\ provider_limit \in Limits
        BY DEF BlockedReasons, RecoverableBlocks, ImplementationBlocks, OperatorBlocks, TaskPhases, RowOK, TaskStatuses, BLOCKED_STATUSES, DISPATCHABLE_STATUSES, OffPath
      <3>5. /\ RowOK' /\ ChainOK' /\ inflight' = "none"
            /\ status' = st \/ status' \in DISPATCHABLE_STATUSES \ {"pr_creation"}
        BY <3>3, <3>4, EndStepEffect
      <3> QED
        BY <3>1, <3>2, <3>5, DispatchableFacts DEF VerifierRuns
    <2> QED
      BY <2>1, <2>2 DEF RefuseSprintTask, IntegrateSprintTask
  <1>2. DataOK' /\ PrIsGated'
    BY <1>1 DEF DataOK, PrIsGated, history
  <1>3. pending \cap DOMAIN ReviewStatus = {} /\ "sprint_pr" \notin DOMAIN ReviewStatus
    BY NoGateAtWork DEF ReviewStatus
  <1>4. GatesOK'
    BY <1>1, <1>3 DEF GatesOK, KindFits, OneReview, GateMatchesReview, InSprint, GateTypes
  <1> QED
    BY <1>1, <1>2, <1>4

\* PhaseBuildVerify and its feature verifier open at most the sprint's gate.
LEMMA BuildVerifyPreserves ==
  ASSUME Parts, PhaseBuildVerify \/ FeatureVerifierEnds
  PROVE  Parts'
  <1> USE DEF Parts
  <1>1. /\ chain # "idle" /\ (chain = "queued" => StepKey \notin seen)
        /\ UNCHANGED <<retry_count, changesRequested, scaffoldStale, kind, history>>
    BY DEF PhaseBuildVerify, FeatureVerifierEnds, FreshStep, StepDue, AgentEnds
  <1>2. CASE InSprint /\ (RefuseSprintTask \/ IntegrateSprintTask)
    BY <1>1, <1>2, SprintTaskEffect
  <1>3. CASE /\ \/ InSprint /\ StartAgent("feature-verifier", "build_verify")
                \/ ~InSprint /\ StartAgent("build-verifier", "build_verify")
             /\ UNCHANGED <<blocked_reason, provider_limit, operator_decision, pending, verifier,
                            sprint>>
    <2>1. PICK a \in {"feature-verifier", "build-verifier"} :
             StartAgent(a, WorkingStatus[a]) /\ (a = "feature-verifier" <=> InSprint)
      BY <1>3 DEF WorkingStatus, Agents
    <2>2. a \in Agents /\ WorkingStatus[a] = "build_verify"
      BY DEF WorkingStatus, Agents
    <2>3. /\ RowOK' /\ ChainOK' /\ inflight' = a /\ status' = "build_verify"
          /\ latestStale' = FALSE
      BY <1>1, <1>3, <2>1, <2>2, StartAgentEffect
    <2> QED
      BY <1>1, <1>3, <2>1, <2>3, GatesAtWork DEF DataOK, PrIsGated, history
  <1>4. CASE FeatureVerifierEnds
    <2>1. InSprint
      BY <1>4 DEF FeatureVerifierEnds, AgentEnds, GatesOK, KindFits
    <2> QED
      BY <1>2, <1>4, <2>1 DEF FeatureVerifierEnds
  <1> QED
    BY <1>2, <1>3, <1>4 DEF PhaseBuildVerify

\* The build verifier finishes or fails its task and opens no gate.
LEMMA BuildVerifierEndsPreserves ==
  ASSUME Parts, BuildVerifierEnds
  PROVE  Parts'
  <1> USE DEF Parts, AgentEnds
  <1>1. chain = "running"
    BY DEF BuildVerifierEnds
  <1>2. /\ UNCHANGED <<retry_count, pending, changesRequested, latestStale, scaffoldStale,
                       sprint, kind, gated, reviewed, skipped>>
        /\ operator_decision' \in BOOLEAN /\ verifier' \in VerifierRuns
    BY DEF BuildVerifierEnds, history, DataOK, VerifierRuns
  <1>3. EndStep("failed", "error") \/ EndStep("done", "none")
    BY DEF BuildVerifierEnds
  <1>4. /\ RowOK' /\ ChainOK' /\ inflight' = "none"
        /\ status' \notin {"review_pending", "pr_creation"}
    BY <1>1, <1>3, EndStepHere, DispatchableFacts DEF BlockedReasons, TaskStatuses, BLOCKED_STATUSES, DISPATCHABLE_STATUSES, OffPath
  <1> QED
    BY <1>1, <1>2, <1>4, GatesAtWork DEF DataOK, PrIsGated

-----------------------------------------------------------------------------
(* Faults and the guards of the chain.                                     *)

\* A row whose status is set aside keeps its phase.
LEMMA SetAside ==
  ASSUME RowOK, status' \in {"blocked", "failed"}, blocked_reason' \in BlockedReasons \ {"unintegrated"},
         UNCHANGED <<phase, provider_limit>>
  PROVE  RowOK'
  BY DEF RowOK, LimitsBeforeReview, TakenBackWasDone, TaskStatuses, BLOCKED_STATUSES, DISPATCHABLE_STATUSES, OffPath

\* An exception fails the task of the step and disturbs no gate.
LEMMA HandlerRaisesPreserves ==
  ASSUME Parts, HandlerRaises
  PROVE  Parts'
  <1> USE DEF Parts
  <1>1. /\ chain # "idle" /\ (chain = "queued" => StepKey \notin seen)
        /\ EndStep("failed", "error")
    BY DEF HandlerRaises, FreshStep, StepDue
  <1>2. /\ UNCHANGED <<retry_count, operator_decision, pending, changesRequested, sprint, kind,
                       gated, reviewed, skipped>>
        /\ latestStale' \in BOOLEAN /\ scaffoldStale' \in BOOLEAN /\ verifier' \in VerifierRuns
    BY DEF HandlerRaises, history, DataOK, VerifierRuns
  <1>3. /\ RowOK' /\ ChainOK' /\ inflight' = "none"
        /\ status' \notin {"review_pending", "pr_creation"}
    BY <1>1, EndStepHere, DispatchableFacts DEF BlockedReasons, TaskStatuses, BLOCKED_STATUSES, DISPATCHABLE_STATUSES, OffPath
  <1> QED
    BY <1>1, <1>2, <1>3, GatesAtWork DEF DataOK, PrIsGated

\* The three ways to block a chain's task set its status aside.
LEMMA ChainStopsPreserves ==
  ASSUME Parts, DispatchFails \/ DispatchCycle \/ ChainTooLong
  PROVE  Parts'
  <1> USE DEF Parts
  <1>1. chain # "idle" /\ CloseChain
    BY DEF DispatchFails, DispatchCycle, ChainTooLong, FreshStep, StepDue
  <1>2. /\ UNCHANGED <<retry_count, operator_decision, pending, changesRequested, sprint, kind,
                       gated, reviewed, skipped, phase, provider_limit>>
        /\ latestStale' \in BOOLEAN /\ scaffoldStale' \in BOOLEAN /\ verifier' \in VerifierRuns
        /\ status' = "blocked"
        /\ blocked_reason' \in {"dispatch_failed", "cycle", "chain_limit"}
    BY DEF DispatchFails, DispatchCycle, ChainTooLong, linked, history, DataOK, VerifierRuns
  <1>3. RowOK' /\ ChainOK' /\ inflight' = "none"
    BY <1>1, <1>2, SetAside, CloseChainEffect DEF CloseChain, BlockedReasons, RecoverableBlocks, ImplementationBlocks, OperatorBlocks
  <1> QED
    BY <1>1, <1>2, <1>3, GatesAtWork DEF DataOK, PrIsGated

\* A step tried again counts once.
LEMMA RetryLockedCommitPreserves ==
  ASSUME Parts, RetryLockedCommit
  PROVE  Parts'
  <1> USE DEF Parts
  <1>1. /\ chain # "idle" /\ (chain = "queued" => StepKey \notin seen)
        /\ status \in DISPATCHABLE_STATUSES
    BY DEF RetryLockedCommit, FreshStep, StepDue, ChainOK, ChainWorks, WorkingStatus, Agents,
           DISPATCHABLE_STATUSES
  <1>2. /\ UNCHANGED <<status, phase, retry_count, blocked_reason, provider_limit,
                       operator_decision, pending, changesRequested, latestStale, scaffoldStale,
                       sprint, kind, gated, reviewed, skipped>>
        /\ attempt' \in Nat /\ verifier' \in VerifierRuns
        /\ chain' = "queued" /\ inflight' = "none" /\ seen' = Visited /\ steps' = StepsTaken
    BY DEF RetryLockedCommit, row, history, DataOK, ChainOK, VerifierRuns
  <1>3. RowOK'
    BY <1>2 DEF RowOK, LimitsBeforeReview, TakenBackWasDone
  <1>4. ChainOK'
    BY <1>1, <1>2, VisitedBound DEF ChainOK, ChainWorks, ChainIsBounded
  <1> QED
    BY <1>1, <1>2, <1>3, <1>4, GatesAtWork DEF DataOK, PrIsGated

-----------------------------------------------------------------------------
(* Operators, approvers, time, and the server.                             *)

\* A call that puts the task to work in status s and opens a chain for it, if
\* none is open.
LEMMA PutToWork ==
  ASSUME RowOK, ChainOK, NEW s \in DISPATCHABLE_STATUSES,
         status' = s, phase' = PhaseAfter(s, phase),
         blocked_reason' \in BlockedReasons \ {"unintegrated"}, provider_limit' \in Limits,
         \/ chain = "idle" /\ OpenChain /\ UNCHANGED inflight
         \/ chain # "running" /\ UNCHANGED chainVars
  PROVE  /\ RowOK' /\ ChainOK' /\ inflight' = "none"
  <1>1. RowOK'
    BY DispatchableFacts, PhaseAfterType DEF RowOK, LimitsBeforeReview, TakenBackWasDone, OffPath
  <1>2. inflight' = "none"
    BY DEF ChainOK, ChainWorks, chainVars
  <1>3. CASE chain = "idle" /\ OpenChain /\ UNCHANGED inflight
    BY <1>1, <1>2, <1>3, OpenChainEffect
  <1>4. CASE chain # "running" /\ UNCHANGED chainVars
    BY <1>1, <1>2, <1>4 DEF ChainOK, ChainWorks, ChainIsBounded, chainVars
  <1> QED
    BY <1>1, <1>2, <1>3, <1>4

\* A dispatch opens a chain on a task that waits for no review.
LEMMA DispatchPreserves ==
  ASSUME Parts, Dispatch
  PROVE  Parts'
  <1> USE DEF Parts
  <1>1. /\ status \in DISPATCHABLE_STATUSES /\ inflight' = "none" /\ OpenChain
        /\ UNCHANGED <<status, phase, blocked_reason, provider_limit, inflight>>
        /\ UNCHANGED <<retry_count, operator_decision, pending, changesRequested, verifier,
                       latestStale, scaffoldStale, sprint, kind, gated, reviewed, skipped>>
    BY DEF Dispatch, row, linked, history, ChainOK, ChainWorks
  <1>2. RowOK' /\ ChainOK'
    BY <1>1, OpenChainEffect DEF RowOK, LimitsBeforeReview, TakenBackWasDone
  <1>3. pending \cap DOMAIN ReviewStatus = {}
    BY <1>1, DispatchableFacts DEF GatesOK, GateMatchesReview, ReviewStatus
  <1> QED
    BY <1>1, <1>2, <1>3
       DEF DataOK, PrIsGated, GatesOK, KindFits, OneReview, GateMatchesReview, InSprint

\* Deciding a task's own gate: it was the only one, and its chain is idle.
LEMMA DecidedGate ==
  ASSUME GatesOK, NEW g \in pending \cap DOMAIN ReviewStatus,
         pending' = pending \ {g}, UNCHANGED kind, inflight' \in {"none", inflight}
  PROVE  GatesOK' /\ chain = "idle" /\ status = ReviewStatus[g]
  <1>1. pending' \cap DOMAIN ReviewStatus = {}
    BY DEF GatesOK, OneReview
  <1>2. OneReview' /\ GateMatchesReview'
    BY <1>1 DEF OneReview, GateMatchesReview
  <1>3. KindFits'
    BY DEF GatesOK, KindFits, InSprint
  <1> QED
    BY <1>2, <1>3 DEF GatesOK, GateMatchesReview

\* An approval takes its gate and puts the task to work.
LEMMA ApprovePreserves ==
  ASSUME Parts, NEW g \in DOMAIN ReviewStatus, Approve(g)
  PROVE  Parts'
  <1> USE DEF Parts
  <1>1. /\ g \in pending \cap DOMAIN ReviewStatus /\ pending' = pending \ {g} /\ UNCHANGED kind
        /\ inflight' = inflight
    BY DEF Approve, chainVars
  <1>2. GatesOK' /\ chain = "idle"
    BY <1>1, DecidedGate
  <1>3. PICK s \in {"design", "implementation", "build_verify"} :
          status' = s /\ phase' = PhaseAfter(s, phase)
    BY DEF Approve, ReviewStatus
  <1>4. s \in DISPATCHABLE_STATUSES \ {"pr_creation"}
    BY DEF DISPATCHABLE_STATUSES
  <1>5. RowOK' /\ ChainOK'
    BY <1>2, <1>3, <1>4, PutToWork DEF Approve, RowOK, BlockedReasons
  <1>6. DataOK'
    BY DEF Approve, DataOK
  <1> QED
    BY <1>2, <1>3, <1>5, <1>6 DEF PrIsGated

\* A request for changes takes its gate and puts the task to work.
LEMMA RequestPrChangesPreserves ==
  ASSUME Parts, RequestPrChanges
  PROVE  Parts'
  <1> USE DEF Parts
  <1>1. /\ "pr" \in pending \cap DOMAIN ReviewStatus /\ pending' = pending \ {"pr"}
        /\ UNCHANGED kind /\ inflight' = inflight
    BY DEF RequestPrChanges, chainVars, ReviewStatus
  <1>2. GatesOK' /\ chain = "idle"
    BY <1>1, DecidedGate
  <1>3. /\ "implementation" \in DISPATCHABLE_STATUSES
        /\ PhaseAfter("implementation", phase) = "implementation"
    BY DEF DISPATCHABLE_STATUSES, PhaseAfter, OffPath, PHASE_FOR_STATUS, TaskStatuses
  <1>4. RowOK' /\ ChainOK'
    BY <1>2, <1>3, PutToWork DEF RequestPrChanges, RowOK, BlockedReasons
  <1> QED
    BY <1>2, <1>4 DEF RequestPrChanges, DataOK, PrIsGated, history

\* A rejection or an override takes its gate and leaves no other.
LEMMA RejectPreserves ==
  ASSUME Parts, NEW g \in DOMAIN ReviewStatus, Reject(g) \/ Override(g)
  PROVE  Parts'
  <1> USE DEF Parts
  <1>1. /\ g \in pending \cap DOMAIN ReviewStatus /\ pending' = pending \ {g} /\ UNCHANGED kind
        /\ UNCHANGED chainVars
    BY DEF Reject, Override
  <1>2. GatesOK' /\ chain = "idle"
    BY <1>1, DecidedGate DEF chainVars
  <1>3. ChainOK'
    BY <1>1, <1>2 DEF ChainOK, ChainWorks, ChainIsBounded, chainVars
  <1>4. CASE Reject(g)
    <2>1. RowOK'
      BY <1>4, SetAside DEF Reject, BlockedReasons, RecoverableBlocks, ImplementationBlocks, OperatorBlocks
    <2> QED
      BY <1>2, <1>3, <1>4, <2>1 DEF Reject, DataOK, PrIsGated, history
  <1>5. CASE Override(g)
    <2>1. RowOK'
      BY <1>5 DEF Override, row, RowOK, LimitsBeforeReview, TakenBackWasDone
    <2> QED
      BY <1>2, <1>3, <1>5, <2>1 DEF Override, row, DataOK, PrIsGated, history
  <1> QED
    BY <1>4, <1>5

\* Deciding the sprint's pull request touches no gate of a task.
LEMMA DecideSprintPrPreserves ==
  ASSUME Parts, DecideSprintPr
  PROVE  Parts'
  <1> USE DEF Parts
  <1>1. /\ InSprint /\ pending' = {} /\ UNCHANGED kind
        /\ UNCHANGED <<changesRequested, verifier, latestStale, scaffoldStale, gated, reviewed,
                       skipped, retry_count, provider_limit, operator_decision>>
        /\ sprint' \in SprintStages
    BY DEF DecideSprintPr, GatesOK, KindFits, ChainOK, ChainWorks, Agents, DataOK, SprintStages,
           history, row
  <1>2. DataOK'
    BY <1>1 DEF DataOK
  <1>3. CASE UNCHANGED <<row, chainVars>>
    BY <1>1, <1>2, <1>3
       DEF RowOK, LimitsBeforeReview, TakenBackWasDone, ChainOK, ChainWorks, ChainIsBounded,
           GatesOK, KindFits, OneReview, GateMatchesReview, PrIsGated, InSprint, row, chainVars
  <1>4. CASE /\ status' = "implementation" /\ phase' = "implementation"
             /\ blocked_reason' = "changes"
             /\ IF chain = "idle" THEN OpenChain /\ UNCHANGED inflight ELSE UNCHANGED chainVars
    <2>1. /\ "implementation" \in DISPATCHABLE_STATUSES
          /\ PhaseAfter("implementation", phase) = "implementation"
      BY DEF DISPATCHABLE_STATUSES, PhaseAfter, OffPath, PHASE_FOR_STATUS, TaskStatuses
    <2>2. RowOK' /\ ChainOK' /\ inflight' = inflight
      <3>1. CASE chain # "running"
        BY <1>1, <1>4, <2>1, <3>1, PutToWork DEF RowOK, BlockedReasons, ChainOK, ChainWorks,
           chainVars
      <3>2. CASE chain = "running"
        <4>1. RowOK'
          BY <1>1, <1>4, <2>1, PhaseAfterType
             DEF RowOK, BlockedReasons, LimitsBeforeReview, TakenBackWasDone, OffPath,
                 TaskStatuses, TaskPhases, PhaseAfter
        <4>2. ChainOK'
          BY <1>1, <1>4, <3>2 DEF ChainOK, ChainWorks, ChainIsBounded, chainVars, InSprint
        <4> QED
          BY <1>4, <3>2, <4>1, <4>2 DEF chainVars
      <3> QED
        BY <3>1, <3>2
    <2> QED
      BY <1>1, <1>2, <1>4, <2>2
         DEF GatesOK, KindFits, OneReview, GateMatchesReview, PrIsGated, InSprint
  <1> QED
    BY <1>3, <1>4 DEF DecideSprintPr

\* Recovery puts a task to work, and past its gates only from a limit there.
LEMMA RecoveryTargetType ==
  ASSUME NEW t \in TaskViews, Recoverable(t)
  PROVE  /\ RecoveryTarget(t) \in DISPATCHABLE_STATUSES
         /\ t.status \in {"failed", "blocked", "capability_limit", "done", "pending"}
         /\ RecoveryTarget(t) = "pr_creation" =>
                t.status = "capability_limit" /\ t.phase = "integration"
  <1>1. t.phase \in TaskPhases
    BY DEF TaskViews
  <1>2. FailedTarget(t) \in DISPATCHABLE_STATUSES \ {"pr_creation"}
    BY DEF FailedTarget, DISPATCHABLE_STATUSES
  <1>3. BlockedTarget(t) \in (DISPATCHABLE_STATUSES \ {"pr_creation"}) \cup {"refused"}
    BY <1>1 DEF BlockedTarget, DispatchFailedTarget, DISPATCHABLE_STATUSES
  <1>4. /\ ProviderLimitTarget[t.phase] \in DISPATCHABLE_STATUSES
        /\ t.phase # "integration" => ProviderLimitTarget[t.phase] # "pr_creation"
    BY <1>1, ProviderLimitTargetType
  <1>5. CASE t.status = "failed"
    BY <1>2, <1>5 DEF RecoveryTarget
  <1>6. CASE t.status = "blocked"
    BY <1>3, <1>6 DEF RecoveryTarget, Recoverable
  <1>7. CASE t.status = "capability_limit"
    BY <1>4, <1>7 DEF RecoveryTarget
  <1>8. CASE t.status \notin {"failed", "blocked", "capability_limit"}
    <2>1. RecoveryTarget(t) = "build_verify" /\ t.status \in {"done", "pending"}
      BY <1>8 DEF RecoveryTarget, Recoverable
    <2> QED
      BY <2>1 DEF DISPATCHABLE_STATUSES
  <1> QED
    BY <1>5, <1>6, <1>7, <1>8

\* A recovered task waits for no review, and no agent works on it.
LEMMA RecoverPreserves ==
  ASSUME Parts, Recover
  PROVE  Parts'
  <1> USE DEF Parts
  <1>1. View \in TaskViews
    BY DEF View, TaskViews, RowOK, DataOK
  <1>2. /\ RecoveryTarget(View) \in DISPATCHABLE_STATUSES
        /\ status \in {"failed", "blocked", "capability_limit", "done", "pending"}
        /\ RecoveryTarget(View) # "pr_creation"
    BY <1>1, RecoveryTargetType DEF Recover, View, RowOK, LimitsBeforeReview
  <1>0. chain # "running"
    BY <1>2 DEF ChainOK, ChainWorks, WorkingStatus, Agents
  <1>3. /\ status' = RecoveryTarget(View) /\ phase' = PhaseAfter(status', phase)
        /\ blocked_reason' = "none" /\ provider_limit' \in Limits
        /\ chain # "running" /\ UNCHANGED chainVars
        /\ UNCHANGED <<pending, changesRequested, verifier, latestStale, scaffoldStale, sprint,
                       kind, gated, reviewed>>
    BY <1>0 DEF Recover, linked, RowOK, Limits
  <1>4. DataOK'
    <2>1. retry_count' \in {0, retry_count}
      BY DEF Recover
    <2>2. operator_decision' \in BOOLEAN
      BY DEF Recover, DataOK
    <2>3. skipped' \in SUBSET {"gates", "review"}
      <3>1. CASE status' # "build_verify"
        BY <3>1 DEF Recover, DataOK
      <3>2. CASE status' = "build_verify"
        BY <3>2 DEF Recover, DataOK
      <3> QED
        BY <3>1, <3>2
    <2> QED
      BY <1>3, <2>1, <2>2, <2>3, RetryCapType DEF DataOK
  <1>5. RowOK' /\ ChainOK' /\ inflight' = "none"
    BY <1>2, <1>3, PutToWork DEF BlockedReasons
  <1>6. pending \cap DOMAIN ReviewStatus = {}
    BY <1>2 DEF GatesOK, GateMatchesReview, ReviewStatus
  <1>7. GatesOK'
    BY <1>3, <1>5, <1>6 DEF GatesOK, KindFits, OneReview, GateMatchesReview, InSprint
  <1> QED
    BY <1>2, <1>3, <1>4, <1>5, <1>7, DispatchableFacts DEF PrIsGated

\* Time changes nothing but the limit.
LEMMA LimitResetsPreserves ==
  ASSUME Parts, LimitResets
  PROVE  Parts'
  BY DEF Parts, LimitResets, linked, chainVars, history, RowOK, Limits, LimitsBeforeReview,
         TakenBackWasDone, ChainOK, ChainWorks, ChainIsBounded, GatesOK, KindFits, OneReview,
         GateMatchesReview, InSprint, DataOK, PrIsGated

\* A task resumed by a sibling's chain is at work in a chain of its own.
LEMMA SiblingResumesPreserves ==
  ASSUME Parts, SiblingResumes
  PROVE  Parts'
  <1> USE DEF Parts
  <1>1. /\ ProviderLimitTarget[phase] \in DISPATCHABLE_STATUSES
        /\ ProviderLimitTarget[phase] # "pr_creation"
    BY ProviderLimitTargetType DEF SiblingResumes, RowOK, LimitsBeforeReview
  <1>2. RowOK' /\ ChainOK' /\ inflight' = "none"
    BY <1>1, PutToWork DEF SiblingResumes, BlockedReasons, Limits
  <1>3. pending \cap DOMAIN ReviewStatus = {}
    BY DEF SiblingResumes, GatesOK, GateMatchesReview, ReviewStatus
  <1>4. UNCHANGED <<retry_count, operator_decision, pending, changesRequested, verifier,
                    latestStale, scaffoldStale, sprint, kind, gated, reviewed, skipped>>
    BY DEF SiblingResumes, linked, history
  <1>5. GatesOK' /\ DataOK'
    BY <1>2, <1>3, <1>4 DEF GatesOK, KindFits, OneReview, GateMatchesReview, InSprint, DataOK
  <1> QED
    BY <1>1, <1>2, <1>5, DispatchableFacts DEF SiblingResumes, PrIsGated

\* What the reconcilers may make of the task's row, in phase p, and its sprint.
ReconcilerRows == [status : TaskStatuses, reason : BlockedReasons, sprint : SprintStages]

Reconciled(t, p) ==
    /\ t \in ReconcilerRows
    /\ t.status \notin OffPath => p = PHASE_FOR_STATUS[t.status]
    /\ t.reason = "unintegrated" => t.status = "failed" /\ p = "complete"
    /\ t.status = "capability_limit" => p # "integration"
    /\ t.status \in {"pr_creation", "review_pending"} => gated
    /\ \A g \in pending \cap DOMAIN ReviewStatus : t.status = ReviewStatus[g]

\* A row set aside by a reconciler is as good as it was.
LEMMA SetAsideByReconciler ==
  ASSUME NEW t, NEW p \in TaskPhases, Reconciled(t, p),
         t.status \notin {"design_review", "review_pending"},
         NEW u \in ReconcilerRows,
         \/ u.status \in {"failed", "blocked"} /\ u.reason # "unintegrated"
         \/ u.status = "failed" /\ p = "complete"
         \/ u.status = "done" /\ p = "complete" /\ u.reason # "unintegrated"
  PROVE  Reconciled(u, p)
  <1>1. u.status \in OffPath \cup {"done"} /\ PHASE_FOR_STATUS["done"] = "complete"
    BY DEF OffPath, PHASE_FOR_STATUS, TaskStatuses, BLOCKED_STATUSES
  <1>2. pending \cap DOMAIN ReviewStatus = {}
    BY DEF Reconciled, ReviewStatus
  <1> QED
    BY <1>1, <1>2 DEF Reconciled, OffPath

\* The first reconciler leaves a task alone or fails it.
LEMMA OrphanedRunEffect ==
  ASSUME NEW t, NEW p \in TaskPhases, Reconciled(t, p), NEW u \in ReconcileOrphanedRun(t)
  PROVE  Reconciled(u, p)
  <1>1. CASE u = t
    BY <1>1
  <1>2. CASE u # t
    <2>1. u = [t EXCEPT !.status = "failed", !.reason = "error"] /\ t.status \in ACTIVE_STATUSES
      BY <1>2 DEF ReconcileOrphanedRun
    <2>2. u \in ReconcilerRows /\ u.status = "failed" /\ u.reason = "error"
      BY <2>1 DEF Reconciled, ReconcilerRows, TaskStatuses, BLOCKED_STATUSES, OffPath, BlockedReasons
    <2> QED
      BY <2>1, <2>2, SetAsideByReconciler DEF ACTIVE_STATUSES, DISPATCHABLE_STATUSES
  <1> QED
    BY <1>1, <1>2

\* The second takes back finished work, and gives back only what it took.
LEMMA UnintegratedEffect ==
  ASSUME NEW t, NEW p \in TaskPhases, Reconciled(t, p), NEW u \in ReconcileUnintegrated(t)
  PROVE  Reconciled(u, p)
  <1>1. CASE u = t
    BY <1>1
  <1>2. CASE u # t
    <2>1. /\ p = "complete" /\ t.status \in {"done", "failed"}
          /\ \/ u = [status |-> "failed", reason |-> "unintegrated",
                     sprint |-> IF t.sprint \in Shipped THEN "blocked" ELSE t.sprint]
             \/ u = [t EXCEPT !.status = "done", !.reason = "none"]
      BY <1>2 DEF ReconcileUnintegrated, Reconciled, PHASE_FOR_STATUS, TaskStatuses,
                  BLOCKED_STATUSES, OffPath
    <2>2. /\ {"failed", "done"} \subseteq TaskStatuses
          /\ {"unintegrated", "none"} \subseteq BlockedReasons
          /\ "blocked" \in SprintStages
          /\ t \in ReconcilerRows
      BY DEF Reconciled, TaskStatuses, BLOCKED_STATUSES, OffPath, BlockedReasons, SprintStages
    <2>3. /\ u \in ReconcilerRows
          /\ u.status = "failed" \/ (u.status = "done" /\ u.reason = "none")
      <3>1. PICK stage \in SprintStages :
              stage = IF t.sprint \in Shipped THEN "blocked" ELSE t.sprint
        BY <2>2 DEF ReconcilerRows
      <3>2. CASE u = [status |-> "failed", reason |-> "unintegrated", sprint |-> stage]
        BY <2>2, <3>2 DEF ReconcilerRows
      <3>3. CASE u = [t EXCEPT !.status = "done", !.reason = "none"]
        BY <2>2, <3>3 DEF ReconcilerRows
      <3> QED
        BY <2>1, <3>1, <3>2, <3>3
    <2> QED
      BY <2>1, <2>3, SetAsideByReconciler
  <1> QED
    BY <1>1, <1>2

\* The third and the fourth change a task only to take it back as finished
\* work.
LEMMA SprintReconcilersEffect ==
  ASSUME NEW t, NEW p \in TaskPhases, Reconciled(t, p),
         NEW u \in ReconcileBlockedSprint(t), NEW v \in ReconcileShippedSprint(u)
  PROVE  Reconciled(v, p)
  <1>1. Reconciled(u, p)
    <2>1. \/ u = t
          \/ u = [t EXCEPT !.sprint = "shipped_unproven"]
      BY DEF ReconcileBlockedSprint
    <2>2. u \in ReconcilerRows /\ u.status = t.status /\ u.reason = t.reason
      BY <2>1 DEF Reconciled, ReconcilerRows, SprintStages
    <2> QED
      BY <2>2 DEF Reconciled
  <1>2. CASE v = u
    BY <1>1, <1>2
  <1>3. CASE v # u
    <2>1. /\ u.status = "done"
          /\ v = [status |-> "blocked", reason |-> "final_checkout", sprint |-> "checkout_blocked"]
      BY <1>3 DEF ReconcileShippedSprint
    <2>2. v \in ReconcilerRows /\ v.status = "blocked" /\ v.reason = "final_checkout"
      BY <2>1 DEF ReconcilerRows, TaskStatuses, BLOCKED_STATUSES, OffPath, SprintStages,
                  BlockedReasons, RecoverableBlocks, ImplementationBlocks
    <2> QED
      BY <1>1, <2>1, <2>2, SetAsideByReconciler
  <1> QED
    BY <1>2, <1>3

\* A restart leaves no chain, and only changes of status that keep the phase
\* true.
LEMMA RestartPreserves ==
  ASSUME Parts, Restart
  PROVE  Parts'
  <1> USE DEF Parts
  <1> DEFINE t0 == [status |-> status, reason |-> blocked_reason, sprint |-> sprint]
  <1>1. Reconciled(t0, phase)
    BY DEF Reconciled, ReconcilerRows, RowOK, DataOK, LimitsBeforeReview, TakenBackWasDone,
           PrIsGated, GatesOK, GateMatchesReview
  <1>2. PICK t4 : /\ Reconciled(t4, phase)
                  /\ status' = t4.status /\ blocked_reason' = t4.reason /\ sprint' = t4.sprint
    <2>1. PICK t1 \in ReconcileOrphanedRun(t0) :
            \E t2 \in ReconcileUnintegrated(t1) : \E t3 \in ReconcileBlockedSprint(t2) :
            \E t4 \in ReconcileShippedSprint(t3) :
                status' = t4.status /\ blocked_reason' = t4.reason /\ sprint' = t4.sprint
      BY Zenon DEF Restart
    <2>2. PICK t2 \in ReconcileUnintegrated(t1) : \E t3 \in ReconcileBlockedSprint(t2) :
            \E t4 \in ReconcileShippedSprint(t3) :
                status' = t4.status /\ blocked_reason' = t4.reason /\ sprint' = t4.sprint
      BY <2>1
    <2>3. PICK t3 \in ReconcileBlockedSprint(t2) : \E t4 \in ReconcileShippedSprint(t3) :
            status' = t4.status /\ blocked_reason' = t4.reason /\ sprint' = t4.sprint
      BY <2>2
    <2>4. PICK t4 \in ReconcileShippedSprint(t3) :
            status' = t4.status /\ blocked_reason' = t4.reason /\ sprint' = t4.sprint
      BY <2>3
    <2>5. phase \in TaskPhases
      BY DEF RowOK
    <2>6. Reconciled(t1, phase)
      BY <1>1, <2>5, OrphanedRunEffect
    <2>7. Reconciled(t2, phase)
      BY <2>5, <2>6, UnintegratedEffect
    <2>8. Reconciled(t4, phase)
      BY <2>5, <2>7, SprintReconcilersEffect
    <2> QED
      BY <2>4, <2>8
  <1>3. /\ UNCHANGED <<phase, retry_count, provider_limit, operator_decision, pending,
                       changesRequested, verifier, kind, gated, reviewed, skipped>>
        /\ latestStale' = FALSE /\ scaffoldStale' = FALSE /\ CloseChain
    BY DEF Restart, history
  <1>4. status' \in TaskStatuses /\ blocked_reason' \in BlockedReasons /\ sprint' \in SprintStages
    BY <1>2 DEF Reconciled, ReconcilerRows
  <1>5. RowOK'
    BY <1>2, <1>3, <1>4 DEF Reconciled, RowOK, LimitsBeforeReview, TakenBackWasDone
  <1>6. ChainOK' /\ chain' = "idle" /\ inflight' = "none"
    BY <1>3, CloseChainEffect DEF CloseChain
  <1>7. GatesOK'
    BY <1>2, <1>3, <1>6 DEF Reconciled, GatesOK, KindFits, OneReview, GateMatchesReview, InSprint
  <1>8. DataOK' /\ PrIsGated'
    BY <1>2, <1>3, <1>4 DEF Reconciled, DataOK, PrIsGated
  <1> QED
    BY <1>5, <1>6, <1>7, <1>8

-----------------------------------------------------------------------------
(* The invariant and what follows from it.                                 *)

\* The invariant holds of a new task.
LEMMA InitEstablishes ==
  ASSUME Init
  PROVE  Parts
  <1>1. Cardinality({}) = 0
    BY FS_EmptySet
  <1>2. RowOK
    BY DEF Init, RowOK, LimitsBeforeReview, TakenBackWasDone, TaskStatuses, DISPATCHABLE_STATUSES,
           TaskPhases, BlockedReasons, Limits, PHASE_FOR_STATUS
  <1>3. ChainOK
    BY <1>1 DEF Init, ChainOK, ChainWorks, ChainIsBounded
  <1>4. GatesOK
    BY DEF Init, GatesOK, KindFits, OneReview, GateMatchesReview
  <1>5. DataOK
    <2>1. retry_count \in Nat /\ retry_count <= RetryCap
      BY RetryCapType DEF Init
    <2>2. verifier \in VerifierRuns /\ sprint \in SprintStages /\ skipped \in SUBSET {"gates", "review"}
      BY DEF Init, VerifierRuns, SprintStages
    <2>3. /\ operator_decision = FALSE /\ changesRequested = FALSE /\ latestStale = FALSE
          /\ scaffoldStale = FALSE /\ gated = FALSE /\ reviewed = FALSE
      BY Zenon DEF Init
    <2> QED
      BY <2>1, <2>2, <2>3 DEF DataOK
  <1> QED
    BY <1>2, <1>3, <1>4, <1>5 DEF Init, Parts, PrIsGated

\* The invariant depends on the variables alone.
LEMMA StutterPreserves ==
  ASSUME Parts, UNCHANGED vars
  PROVE  Parts'
  BY DEF Parts, vars, row, linked, chainVars, history, RowOK, LimitsBeforeReview,
         TakenBackWasDone, ChainOK, ChainWorks, ChainIsBounded, GatesOK, KindFits, OneReview,
         GateMatchesReview, InSprint, DataOK, PrIsGated

\* Every action preserves the invariant.
LEMMA NextPreserves ==
  ASSUME Parts, Next
  PROVE  Parts'
  <1>1. CASE HandlerStep
    BY <1>1, PlanningPreserves, ImplementationPreserves, QualityGatesPreserve,
       GateFailurePreserves, PrCreationPreserves, BuildVerifyPreserves, ChainStopsPreserves
       DEF HandlerStep
  <1>2. CASE AgentStep
    BY <1>2, PlannerEndsPreserves, DesignerEndsPreserves, ImplementationPreserves,
       CodeGenEndsPreserves, GateFailurePreserves, PrCreatorEndsPreserves, BuildVerifyPreserves,
       BuildVerifierEndsPreserves
       DEF AgentStep
  <1>3. CASE FaultStep
    BY <1>3, HandlerRaisesPreserves, ChainStopsPreserves, RetryLockedCommitPreserves DEF FaultStep
  <1>4. CASE ReviewStep
    BY <1>4, ApprovePreserves, RejectPreserves, RequestPrChangesPreserves, DecideSprintPrPreserves
       DEF ReviewStep
  <1>5. CASE Dispatch \/ Recover \/ LimitResets \/ SiblingResumes \/ Restart
    BY <1>5, DispatchPreserves, RecoverPreserves, LimitResetsPreserves, SiblingResumesPreserves,
       RestartPreserves
  <1> QED
    BY <1>1, <1>2, <1>3, <1>4, <1>5 DEF Next, WorkStep, OutsideStep

\* Every reachable state of a task and its chain satisfies the inductive
\* invariant, for every retry budget, number of tries and step limit.
THEOREM LifecycleInvariant == Spec => []LifecycleInv
  <1>1. Init => LifecycleInv
    BY InitEstablishes, PartsOfInv
  <1>2. LifecycleInv /\ [Next]_vars => LifecycleInv'
    BY NextPreserves, StutterPreserves, PartsOfInv
  <1> QED
    BY <1>1, <1>2, PTL DEF Spec

\* Every value the orchestrator, the routes and the reconcilers put into a
\* task's row is of its type.
THEOREM TypeCorrect == Spec => []TypeOK
  <1>1. LifecycleInv => TypeOK
    BY DEF LifecycleInv
  <1> QED
    BY <1>1, LifecycleInvariant, PTL

\* No mixture of autofix, environment retries, remediation, recovery and
\* restarts takes the gate's retry count past three budgets.
THEOREM RetriesAreBounded == Spec => []RetriesBounded
  <1>1. LifecycleInv => RetriesBounded
    BY DEF LifecycleInv
  <1> QED
    BY <1>1, LifecycleInvariant, PTL

\* The approval routes, which do not look at the task's status, move it only
\* from the review the approved gate was opened for.
THEOREM GatesMatchReviews == Spec => []GateMatchesReview
  <1>1. LifecycleInv => GateMatchesReview
    BY DEF LifecycleInv
  <1> QED
    BY <1>1, LifecycleInvariant, PTL

\* No task is in or before the review of its pull request with code that the
\* gates did not check.
THEOREM PullRequestsAreGated == Spec => []PrIsGated
  <1>1. LifecycleInv => PrIsGated
    BY DEF LifecycleInv
  <1> QED
    BY <1>1, LifecycleInvariant, PTL

\* A chain never takes more steps than it saw states, which are among the
\* dispatchable statuses paired with the retry counts.
THEOREM ChainsAreBounded == Spec => []ChainIsBounded
  <1>1. LifecycleInv => ChainIsBounded
    BY DEF LifecycleInv
  <1> QED
    BY <1>1, LifecycleInvariant, PTL

\* The Board offers Recover for failed, limited and some blocked tasks; recovery
\* has a rule for each of them, whatever else the task's rows say.
LEMMA OfferedIsRecoverable ==
  ASSUME NEW t \in TaskViews, TaskIsRecoverable(t)
  PROVE  Recoverable(t)
  <1>1. t.phase \in TaskPhases
    BY DEF TaskViews
  <1>2. CASE t.status = "failed"
    <2>1. FailedTarget(t) # "refused"
      BY DEF FailedTarget
    <2> QED
      BY <1>2, <2>1 DEF Recoverable, RecoveryTarget
  <1>3. CASE t.status = "capability_limit"
    <2>1. ProviderLimitTarget[t.phase] # "refused"
      BY <1>1, ProviderLimitTargetType DEF DISPATCHABLE_STATUSES
    <2> QED
      BY <1>3, <2>1 DEF Recoverable, RecoveryTarget
  <1>4. CASE t.status = "blocked" /\ t.reason \in RecoverableBlocks
    <2>1. DispatchFailedTarget[t.phase] # "refused"
      BY <1>1 DEF DispatchFailedTarget
    <2>2. BlockedTarget(t) # "refused"
      BY <1>4, <2>1 DEF BlockedTarget, RecoverableBlocks, ImplementationBlocks
    <2> QED
      BY <1>4, <2>2 DEF Recoverable, RecoveryTarget
  <1> QED
    BY <1>2, <1>3, <1>4 DEF TaskIsRecoverable

\* The Recover button never leads to a refusal.
THEOREM BoardOffersAreHonoured == Spec => []BoardOffersOnlyRecoverable
  <1>1. LifecycleInv => View \in TaskViews
    BY DEF LifecycleInv, TypeOK, View, TaskViews
  <1>2. LifecycleInv => BoardOffersOnlyRecoverable
    BY <1>1, OfferedIsRecoverable DEF BoardOffersOnlyRecoverable
  <1> QED
    BY <1>2, LifecycleInvariant, PTL

\* With the step limit the program has (100) and its retry budget (2), the
\* limit is never what stops a chain that works on one task: the guard
\* against cycles stops it first.
THEOREM StepLimitUnreached ==
  ASSUME MaxSteps > 7 * (RetryCap + 1)
  PROVE  Spec => [][~ChainTooLong]_vars
  <1>1. LifecycleInv => ~ChainTooLong
    <2> SUFFICES ASSUME LifecycleInv, ChainTooLong
                 PROVE  FALSE
      OBVIOUS
    <2>1. /\ steps \in Nat /\ steps <= Cardinality(seen)
          /\ seen \subseteq DISPATCHABLE_STATUSES \X (0 .. RetryCap)
      BY DEF LifecycleInv, TypeOK, ChainIsBounded
    <2>2. Cardinality(seen) <= 7 * (RetryCap + 1) /\ Cardinality(seen) \in Nat
      BY <2>1, StatesOfAChain, FS_Subset, FS_CardinalityType
    <2>3. steps >= MaxSteps
      BY <2>1, MaxStepsAssumption DEF ChainTooLong, StepDue
    <2> QED
      BY <2>1, <2>2, <2>3, RetryCapType, MaxStepsAssumption
  <1>2. LifecycleInv /\ [Next]_vars => [~ChainTooLong]_vars
    BY <1>1
  <1>3. Spec => [][Next]_vars
    BY PTL DEF Spec
  <1> QED
    BY <1>2, <1>3, LifecycleInvariant, PTL

-----------------------------------------------------------------------------
(* A chain comes nearer to its end.                                        *)

\* A chain sees no more states than there are.
LEMMA SeenBound ==
  ASSUME ChainIsBounded
  PROVE  /\ IsFiniteSet(seen) /\ Cardinality(seen) \in Nat
         /\ Cardinality(seen) <= 7 * (RetryCap + 1)
  BY StatesOfAChain, FS_Subset, FS_CardinalityType DEF ChainIsBounded

\* The measure is a natural number.
LEMMA StepsLeftType ==
  ASSUME ChainIsBounded
  PROVE  /\ StepsLeft \in Nat /\ AgentsToEnd \in 0 .. 2
         /\ StepsLeft = 3 * (7 * (RetryCap + 1) - Cardinality(seen)) + AgentsToEnd
  BY SeenBound, RetryCapType DEF StepsLeft, AgentsToEnd

LEMMA StepsLeftTypeNext ==
  ASSUME ChainIsBounded'
  PROVE  /\ StepsLeft' \in Nat /\ AgentsToEnd' \in 0 .. 2
         /\ Cardinality(seen') \in Nat
         /\ StepsLeft' = 3 * (7 * (RetryCap + 1) - Cardinality(seen')) + AgentsToEnd'
  <1>1. Cardinality(seen') \in Nat /\ Cardinality(seen') <= 7 * (RetryCap + 1)
    BY StatesOfAChain, FS_Subset, FS_CardinalityType DEF ChainIsBounded
  <1> QED
    BY <1>1, RetryCapType DEF StepsLeft, AgentsToEnd

\* What a step of a chain at work comes to.
Advanced == chain' = "idle" \/ StepsLeft' < StepsLeft

\* A step that the chain takes at a state it has not seen.
LEMMA FreshStepAdvances ==
  ASSUME Parts, Parts', FreshStep, chain' = "idle" \/ seen' = Visited
  PROVE  Advanced
  <1>1. CASE chain' = "idle"
    BY <1>1 DEF Advanced
  <1>2. CASE seen' = Visited
    <2>1. /\ Cardinality(seen) \in Nat /\ Cardinality(seen') = Cardinality(seen) + 1
      BY <1>2, SeenBound, FS_AddElement DEF FreshStep, StepDue, Visited, Parts, ChainOK
    <2>2. AgentsToEnd = 0
      BY DEF FreshStep, StepDue, AgentsToEnd
    <2> QED
      BY <2>1, <2>2, StepsLeftType, StepsLeftTypeNext, RetryCapType DEF Advanced, Parts, ChainOK
  <1> QED
    BY <1>1, <1>2

\* A step that goes on after its agent has ended.
LEMMA AgentEndAdvances ==
  ASSUME Parts, Parts', chain = "running",
         \/ chain' = "idle"
         \/ seen' = Visited /\ chain' = "queued"
         \/ /\ seen' = Visited /\ chain' = "running"
            /\ inflight \notin {"ui-prototyper", "code-gen"}
            /\ inflight' \in {"ui-prototyper", "code-gen"}
  PROVE  Advanced
  <1>1. CASE chain' = "idle"
    BY <1>1 DEF Advanced
  <1>2. CASE chain' # "idle"
    <2>1. seen' = seen
      BY <1>2 DEF Visited
    <2>2. AgentsToEnd' < AgentsToEnd
      BY <1>2 DEF AgentsToEnd
    <2> QED
      BY <2>1, <2>2, StepsLeftType, StepsLeftTypeNext, SeenBound, RetryCapType
      DEF Advanced, Parts, ChainOK
  <1> QED
    BY <1>1, <1>2

\* The end of a step closes the chain or queues it for its next.
LEMMA EndOfStepCounts ==
  ASSUME NEW p, NEW s, NEW r, NEW limit, EndStepFrom(p, s, r, limit)
  PROVE  chain' = "idle" \/ (seen' = Visited /\ chain' = "queued")
  BY Zenon DEF EndStepFrom, CloseChain

\* How an action of a handler or an agent leaves the chain.
Ended == chain' = "idle" \/ (seen' = Visited /\ chain' = "queued")
Started(a) == seen' = Visited /\ chain' = "running" /\ inflight' = a

LEMMA EndStepEnds == ASSUME NEW s, NEW r, EndStep(s, r) PROVE Ended
  BY EndOfStepCounts DEF EndStep, Ended

LEMMA StartAgentStarts == ASSUME NEW a, NEW s, StartAgent(a, s) PROVE Started(a)
  BY DEF StartAgent, Started

LEMMA AgentStopsEnds == ASSUME AgentStops PROVE Ended
  BY EndStepEnds, EndOfStepCounts DEF AgentStops, Ended

LEMMA SprintTaskEnds == ASSUME RefuseSprintTask \/ IntegrateSprintTask PROVE Ended
  <1>1. CASE EndStep("failed", "error")
    BY <1>1, EndStepEnds
  <1>2. ASSUME NEW o \in PossibleOutcomes,
               EndStepFrom("complete", SprintOutcomes[o].status, SprintOutcomes[o].reason,
                           provider_limit)
        PROVE  Ended
    BY <1>2, EndOfStepCounts DEF Ended
  <1> QED
    BY <1>1, <1>2 DEF RefuseSprintTask, IntegrateSprintTask

LEMMA HandlersAdvance ==
  ASSUME Parts, Parts', HandlerStep
  PROVE  Advanced
  <1>1. CASE DispatchCycle \/ ChainTooLong
    BY <1>1 DEF DispatchCycle, ChainTooLong, CloseChain, Advanced
  <1>2. CASE ~(DispatchCycle \/ ChainTooLong)
    <2>1. FreshStep
      BY <1>2 DEF HandlerStep, PhasePlanning, PhaseDesign, PhaseImplementation, QualityGateCap,
                  QualityGatesPass, QualityGatesBlock, QualityGatesFail, PhasePrCreation,
                  PhaseBuildVerify
    <2>2. Ended \/ \E a : Started(a)
      <3>1. CASE PhasePlanning \/ PhaseDesign \/ PhaseImplementation
        BY <3>1, EndStepEnds, StartAgentStarts
        DEF PhasePlanning, PhaseDesign, PhaseImplementation, StartCodeGen
      <3>2. CASE QualityGateCap \/ QualityGatesPass \/ QualityGatesBlock \/ QualityGatesFail
        BY <3>2, EndStepEnds, StartAgentStarts
        DEF QualityGateCap, QualityGatesPass, QualityGatesBlock, QualityGatesFail, Remediate,
            EscalateToCapabilityLimit
      <3>3. CASE PhasePrCreation \/ PhaseBuildVerify
        BY <3>3, EndStepEnds, StartAgentStarts, SprintTaskEnds
        DEF PhasePrCreation, PhaseBuildVerify
      <3> QED
        BY <1>2, <3>1, <3>2, <3>3 DEF HandlerStep
    <2> QED
      BY <2>1, <2>2, FreshStepAdvances DEF Ended, Started
  <1> QED
    BY <1>1, <1>2

LEMMA AgentsAdvance ==
  ASSUME Parts, Parts', AgentStep
  PROVE  Advanced
  <1>1. chain = "running"
    BY DEF AgentStep, PlannerEnds, DesignerEnds, UiPrototyperEnds, ScaffoldEnds, CodeGenEnds,
           GateRemediatorEnds, PrCreatorEnds, FeatureVerifierEnds, BuildVerifierEnds, AgentEnds
  <1>2. \/ Ended
        \/ /\ inflight \notin {"ui-prototyper", "code-gen"}
           /\ Started("ui-prototyper") \/ Started("code-gen")
    <2>1. CASE PlannerEnds \/ DesignerEnds \/ UiPrototyperEnds
      BY <2>1, EndStepEnds, AgentStopsEnds, StartAgentStarts
      DEF PlannerEnds, DesignerEnds, UiPrototyperEnds, AgentEnds
    <2>2. CASE ScaffoldEnds \/ CodeGenEnds
      BY <2>2, EndStepEnds, AgentStopsEnds, StartAgentStarts
      DEF ScaffoldEnds, CodeGenEnds, StartCodeGen, AgentEnds
    <2>3. CASE GateRemediatorEnds \/ PrCreatorEnds \/ FeatureVerifierEnds \/ BuildVerifierEnds
      BY <2>3, EndStepEnds, SprintTaskEnds
      DEF GateRemediatorEnds, PrCreatorEnds, FeatureVerifierEnds, BuildVerifierEnds,
          EscalateToCapabilityLimit
    <2> QED
      BY <2>1, <2>2, <2>3 DEF AgentStep
  <1> QED
    BY <1>1, <1>2, AgentEndAdvances DEF Ended, Started

LEMMA FaultsAdvance ==
  ASSUME Parts, Parts', FaultStep
  PROVE  Advanced
  <1>1. Ended
    BY EndStepEnds
    DEF FaultStep, HandlerRaises, DispatchFails, RetryLockedCommit, CloseChain, Ended
  <1>2. FreshStep \/ chain = "running"
    BY DEF FaultStep, HandlerRaises, DispatchFails, RetryLockedCommit
  <1> QED
    BY <1>1, <1>2, FreshStepAdvances, AgentEndAdvances DEF Ended

\* The others leave a chain at work as it is, or end it with the server.
LEMMA OthersLeaveTheChain ==
  ASSUME Parts, chain # "idle", OutsideStep
  PROVE  chain' = "idle" \/ UNCHANGED chainVars
  <1>1. CASE ReviewStep
    BY <1>1, NoGateAtWork
    DEF ReviewStep, Approve, Reject, Override, RequestPrChanges, DecideSprintPr, Parts, ReviewStatus
  <1>2. CASE Dispatch \/ Recover \/ LimitResets \/ SiblingResumes \/ Restart
    BY <1>2 DEF Dispatch, Recover, LimitResets, SiblingResumes, Restart, CloseChain
  <1> QED
    BY <1>1, <1>2 DEF OutsideStep

\* A chain at work ends after at most 21 * (RetryCap + 1) + 2 steps of its own,
\* whatever everybody else does meanwhile.
THEOREM ChainsAdvance == Spec => [](StepsLeft \in 0 .. 21 * (RetryCap + 1) + 2) /\ ChainAdvances
  <1>1. LifecycleInv => StepsLeft \in 0 .. 21 * (RetryCap + 1) + 2
    BY PartsOfInv, StepsLeftType, SeenBound, RetryCapType DEF Parts, ChainOK
  <1>2. ASSUME LifecycleInv, LifecycleInv', [Next]_vars
        PROVE  [/\ WorkStep => chain' = "idle" \/ StepsLeft' < StepsLeft
                /\ chain # "idle" /\ ~WorkStep => chain' = "idle" \/ UNCHANGED chainVars]_vars
    <2>1. WorkStep => Advanced
      BY <1>2, PartsOfInv, HandlersAdvance, AgentsAdvance, FaultsAdvance DEF WorkStep
    <2>2. Next /\ chain # "idle" /\ ~WorkStep => chain' = "idle" \/ UNCHANGED chainVars
      BY <1>2, PartsOfInv, OthersLeaveTheChain DEF Next
    <2> QED
      BY <1>2, <2>1, <2>2 DEF Advanced
  <1> QED
    BY <1>1, <1>2, LifecycleInvariant, PTL DEF Spec, ChainAdvances
=============================================================================
