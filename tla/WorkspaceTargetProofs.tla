------------------------ MODULE WorkspaceTargetProofs ------------------------
(***************************************************************************)
(* Proofs about WorkspaceIntegration: into which branch work is merged, as *)
(* long as integrations into different branches do not overlap.  Then one  *)
(* branch is checked out from the first command of an integration to its   *)
(* merge (TInv).  A worktree that a crash has left in a rebase may have    *)
(* work that is not committed; that it is not reported as merged takes     *)
(* more: branches keep their works in one order, whatever is rebased and   *)
(* when, so one that has diverged stays so until it is rebased (RInv).     *)
(* Either invariant is relative to those before, from WorkspaceProofs on.  *)
(***************************************************************************)
EXTENDS WorkspaceProofs

\* Whatever is under way has one target.
OneTarget ==
    ~mixed =>
        /\ \A t, u \in Tasks : pc[t] # "idle" /\ pc[u] # "idle" => Target(t) = Target(u)
        /\ \A t \in Tasks, s \in Sprints : pc[t] # "idle" /\ ship[s] # "idle" => Target(t) = s
        /\ \A s, r \in Sprints : ship[s] # "idle" /\ ship[r] # "idle" => s = r

NoSprints == \A t \in Tasks : sprintOf[t] = NoSprint

\* What is checked out is what is to be merged into.
HeadIsTarget ==
    /\ NoSprints => head = Main
    /\ ~mixed =>
        /\ \A t \in Tasks :
               sprintOf[t] \in Sprints /\ pc[t] \notin {"idle", "begun"} => head = sprintOf[t]
        /\ \A s \in Sprints : ship[s] \in {"onMain", "again"} => head = Main

\* A task without a sprint has its target checked out only if all are like it.
Placed(t) == sprintOf[t] = NoSprint => NoSprints

MergedIsInTarget ==
    ~mixed => \A t \in Tasks :
        Placed(t) /\ pc[t] = "merged" => WorksOf(tip[t]) \subseteq WorksOf(tip[Target(t)])

\* Work that is claimed, and not waiting in a worktree, is in its target.
SettledClaimIsInTarget ==
    ~mixed => \A t \in Tasks : Placed(t) =>
        \A n \in claimed[t] \ dirty[t] : <<t, n>> \in WorksOf(tip[Target(t)])

\* A sprint that was merged has no work that is not claimed,
ShippedIsClaimed ==
    \A s \in shipped : \A t \in TasksOf(s) : claimed[t] = made[t]

\* and what of it does not wait in a worktree is in main.
SettledShipmentIsInMain ==
    ~mixed => \A s \in Sprints : ship[s] = "merged" \/ s \in shipped =>
        \A t \in TasksOf(s) : \A n \in made[t] \ dirty[t] : <<t, n>> \in WorksOf(tip[Main])

TInv ==
    /\ OneTarget /\ HeadIsTarget /\ MergedIsInTarget /\ SettledClaimIsInTarget
    /\ ShippedIsClaimed /\ SettledShipmentIsInMain
-----------------------------------------------------------------------------
(* What is under way, and what is checked out.                             *)

\* Only a beginning makes something busy, or targets mixed.
LEMMA BusyStep ==
  ASSUME IInv, [Next]_vars
  PROVE  \/ \E t \in Tasks : BeginIntegration(t)
         \/ \E s \in Sprints : BeginShipment(s)
         \/ /\ mixed' = mixed
            /\ \A t \in Tasks : pc'[t] # "idle" => pc[t] # "idle"
            /\ \A s \in Sprints : ship'[s] # "idle" => ship[s] # "idle"
  <1> DEFINE NoBusier == /\ mixed' = mixed
                         /\ \A t \in Tasks : pc'[t] # "idle" => pc[t] # "idle"
                         /\ \A s \in Sprints : ship'[s] # "idle" => ship[s] # "idle"
  <1> USE DEF IInv, TypeOK, At, ShipAt
  <1>1. ASSUME NEW t \in Tasks, \/ EnsureSprintBranch(t) \/ CreateWorkspace(t)
                                \/ Work(t) \/ WorktreeGoes(t)
        PROVE  NoBusier
    BY <1>1 DEF EnsureSprintBranch, CreateWorkspace, Work, WorktreeGoes, coroutines, history
  <1>2. ASSUME NEW t \in Tasks, IntegrationStep(t)
        PROVE  NoBusier
    BY <1>2 DEF IntegrationStep, CheckOutSprint, RemoveGeneratedArtifacts, CommitWorkspace,
       FastForward, Diverged, Rebase, RebaseStops, RebaseContinues, RebaseAborts,
       FinishIntegration, IntegrationFails, history
  <1>3. ASSUME NEW s \in Sprints, ShipmentStep(s)
        PROVE  NoBusier
    BY <1>3 DEF ShipmentStep, CheckOutMain, ShipFastForward, ShipDiverged, CheckOutBranch,
       ShipRebase, FinishShipment, ShipmentFails, history
  <1>4. Restart \/ UNCHANGED vars => NoBusier
    BY DEF Restart, vars, coroutines, history
  <1> QED
    BY <1>1, <1>2, <1>3, <1>4 DEF Next

LEMMA MixedStays ==
  ASSUME IInv, [Next]_vars
  PROVE  mixed => mixed'
  BY BusyStep DEF BeginIntegration, BeginShipment

LEMMA OneTargetStep ==
  ASSUME IInv, OneTarget, [Next]_vars
  PROVE  OneTarget'
  <1> SUFFICES ASSUME ~mixed, ~mixed' PROVE OneTarget'
    BY MixedStays DEF OneTarget
  <1>0. /\ sprintOf' = sprintOf /\ \A t : Target(t)' = Target(t)
        /\ pc \in [Tasks -> TaskPcs] /\ ship \in [Sprints -> ShipPcs]
    BY WorkStep DEF Target, IInv, TypeOK
  <1>1. ASSUME NEW t \in Tasks, BeginIntegration(t)
        PROVE  OneTarget'
    <2>1. ~OtherTargetBusy(Target(t)) /\ ship' = ship
          /\ \A u \in Tasks \ {t} : pc'[u] = pc[u]
      BY <1>0, <1>1 DEF BeginIntegration, At
    <2>2. \A u \in Tasks : pc'[u] # "idle" => Target(u) = Target(t)
      BY <2>1 DEF OtherTargetBusy
    <2> QED
      BY <1>0, <2>1, <2>2 DEF OneTarget, OtherTargetBusy
  <1>2. ASSUME NEW s \in Sprints, BeginShipment(s)
        PROVE  OneTarget'
    <2>1. ~OtherTargetBusy(s) /\ pc' = pc
          /\ \A r \in Sprints \ {s} : ship'[r] = ship[r]
      BY <1>0, <1>2 DEF BeginShipment, ShipAt
    <2>2. \A r \in Sprints : ship'[r] # "idle" => r = s
      BY <2>1 DEF OtherTargetBusy
    <2> QED
      BY <1>0, <2>1, <2>2 DEF OneTarget, OtherTargetBusy
  <1>3. CASE /\ \A t \in Tasks : pc'[t] # "idle" => pc[t] # "idle"
             /\ \A s \in Sprints : ship'[s] # "idle" => ship[s] # "idle"
    BY <1>0, <1>3 DEF OneTarget
  <1> QED
    BY <1>1, <1>2, <1>3, BusyStep

\* A sprint that is being merged has a task; and while it is merged, nothing
\* is integrated.
LEMMA ShippingExcludes ==
  ASSUME IInv, OneTarget, NEW s \in Sprints, ship[s] # "idle"
  PROVE  ~NoSprints /\ (~mixed => \A t \in Tasks : pc[t] = "idle")
  <1>0. /\ TasksOf(s) # {} /\ s # Main /\ s # NoSprint
        /\ \A t \in TasksOf(s) : pc[t] = "idle"
    BY BranchAssumption DEF IInv, ShippingIsAlone
  <1>1. ~NoSprints
    BY <1>0 DEF NoSprints, TasksOf
  <1>2. ASSUME ~mixed, NEW t \in Tasks, pc[t] # "idle" PROVE FALSE
    <2>1. Target(t) = s
      BY <1>2 DEF OneTarget
    <2> QED
      BY <1>0, <1>2, <2>1 DEF Target, TasksOf
  <1> QED
    BY <1>1, <1>2

LEMMA HeadStep ==
  ASSUME IInv, OneTarget, HeadIsTarget, [Next]_vars
  PROVE  HeadIsTarget'
  <1>0. /\ sprintOf' = sprintOf /\ (NoSprints' <=> NoSprints)
        /\ pc \in [Tasks -> TaskPcs] /\ ship \in [Sprints -> ShipPcs] /\ UsedIsBorn
        /\ (mixed => mixed')
    BY WorkStep, MixedStays DEF NoSprints, IInv, TypeOK
  <1> USE <1>0 DEF HeadIsTarget, At, ShipAt
  <1>1. ASSUME NEW t \in Tasks, \/ EnsureSprintBranch(t) \/ CreateWorkspace(t) \/ Work(t)
                                \/ WorktreeGoes(t)
        PROVE  HeadIsTarget'
    BY <1>1 DEF EnsureSprintBranch, CreateWorkspace, Work, WorktreeGoes, git, coroutines, history
  <1>2. ASSUME NEW t \in Tasks, BeginIntegration(t)
        PROVE  HeadIsTarget'
    BY <1>2, BranchAssumption DEF BeginIntegration, git
  <1>3. ASSUME NEW t \in Tasks, CheckOutSprint(t)
        PROVE  HeadIsTarget'
    <2>1. /\ sprintOf[t] \in Sprints /\ pc[t] # "idle" /\ head' = sprintOf[t]
          /\ ship' = ship /\ mixed' = mixed /\ \A u \in Tasks \ {t} : pc'[u] = pc[u]
      BY <1>3 DEF CheckOutSprint, UsedIsBorn, history
    <2>2. ~NoSprints
      BY <2>1, BranchAssumption DEF NoSprints
    <2>3. ~mixed => \A s \in Sprints : ship[s] = "idle"
      BY <2>1, ShippingExcludes
    <2>4. ~mixed => \A u \in Tasks : sprintOf[u] \in Sprints /\ pc[u] # "idle" =>
                                       sprintOf[u] = sprintOf[t]
      BY <2>1, BranchAssumption DEF OneTarget, Target
    <2> QED
      BY <2>1, <2>2, <2>3, <2>4
  <1>4. ASSUME NEW t \in Tasks, IntegrationStep(t), ~CheckOutSprint(t)
        PROVE  HeadIsTarget'
    <2>1. /\ head' = head /\ ship' = ship /\ mixed' = mixed
          /\ \A u \in Tasks : pc[u] \in {"idle", "begun"} => pc'[u] \in {"idle", "begun"}
      BY <1>4 DEF IntegrationStep, RemoveGeneratedArtifacts, CommitWorkspace,
         FastForward, Diverged, Rebase, RebaseStops, RebaseContinues, RebaseAborts,
         FinishIntegration, IntegrationFails, git, history
    <2> QED
      BY <2>1
  <1>5. ASSUME NEW s \in Sprints, CheckOutMain(s) \/ CheckOutBranch(s)
        PROVE  HeadIsTarget'
    <2>1. /\ ship[s] # "idle" /\ pc' = pc /\ mixed' = mixed
          /\ \A r \in Sprints \ {s} : ship'[r] = ship[r]
          /\ \/ head' = Main
             \/ ship'[s] = "onBranch"
      BY <1>5 DEF CheckOutMain, CheckOutBranch, history
    <2>2. ~NoSprints /\ (~mixed => \A t \in Tasks : pc[t] = "idle")
      BY <2>1, ShippingExcludes
    <2>3. ~mixed => \A r \in Sprints \ {s} : ship[r] = "idle"
      BY <2>1 DEF OneTarget
    <2> QED
      BY <2>1, <2>2, <2>3
  <1>6. ASSUME NEW s \in Sprints, BeginShipment(s) \/ ShipmentStep(s),
               ~CheckOutMain(s), ~CheckOutBranch(s)
        PROVE  HeadIsTarget'
    <2>1. /\ head' = head /\ pc' = pc
          /\ \A r \in Sprints : ship'[r] \in {"onMain", "again"} => ship[r] \in {"onMain", "again"}
      BY <1>6 DEF BeginShipment, ShipmentStep, ShipFastForward, ShipDiverged,
         ShipRebase, FinishShipment, ShipmentFails, git
    <2> QED
      BY <2>1
  <1>7. Restart \/ UNCHANGED vars => HeadIsTarget'
    BY DEF Restart, vars, git, coroutines, history
  <1> QED
    BY <1>1, <1>2, <1>3, <1>4, <1>5, <1>6, <1>7 DEF Next
-----------------------------------------------------------------------------
(* Where work is merged.                                                   *)

\* A merge goes into the task's target.
LEMMA MergesIntoTarget ==
  ASSUME IInv, HeadIsTarget, ~mixed, NEW t \in Tasks, Placed(t), FastForward(t)
  PROVE  WorksOf(tip'[t]) \subseteq WorksOf(tip'[Target(t)])
  <1>0. /\ tip \in [Branches -> SUBSET Commits] /\ sprintOf[t] \in Sprints \cup {NoSprint}
        /\ t \in Branches /\ Target(t) \in Branches /\ Target(t) # t
    BY BranchFacts, BranchAssumption DEF IInv, TypeOK, Target
  <1>1. head = Target(t)
    BY <1>0 DEF HeadIsTarget, Placed, Target, FastForward, At
  <1>2. tip'[t] = tip[t] /\ tip'[Target(t)] = tip[Target(t)] \cup tip[t]
    BY <1>0, <1>1 DEF FastForward, Merge
  <1> QED
    BY <1>2, SubsetWorks

LEMMA PlacedStays ==
  ASSUME IInv, [Next]_vars, NEW t \in Tasks
  PROVE  (Placed(t)' <=> Placed(t)) /\ Target(t)' = Target(t) /\ Target(t) \in Branches
  BY WorkStep, BranchFacts DEF Placed, NoSprints, Target

LEMMA MergedStep ==
  ASSUME IInv, HeadIsTarget, MergedIsInTarget, [Next]_vars
  PROVE  MergedIsInTarget'
  <1> SUFFICES ASSUME ~mixed, NEW t \in Tasks, Placed(t), pc'[t] = "merged"
               PROVE  WorksOf(tip'[t]) \subseteq WorksOf(tip'[Target(t)])
    <2>1. \A u \in Tasks : /\ WorksOf(tip[u])' = WorksOf(tip'[u])
                          /\ WorksOf(tip[Target(u)])' = WorksOf(tip'[Target(u)])
      BY PlacedStays DEF WorksOf
    <2> QED
      BY <2>1, MixedStays, PlacedStays DEF MergedIsInTarget
  <1>1. CASE FastForward(t)
    BY <1>1, MergesIntoTarget
  <1>2. CASE pc[t] = "merged"
    <2>1. WorksOf(tip[t]) \subseteq WorksOf(tip[Target(t)]) /\ tip'[t] = tip[t]
      BY <1>2, MergedBranchStays DEF MergedIsInTarget
    <2>2. WorksOf(tip[Target(t)]) \subseteq WorksOf(tip'[Target(t)])
      BY BranchesKeep, PlacedStays
    <2> QED
      BY <2>1, <2>2
  <1> QED
    BY <1>1, <1>2, ClaimStep

LEMMA SettledClaimStep ==
  ASSUME IInv, MergedIsInTarget, SettledClaimIsInTarget, [Next]_vars
  PROVE  SettledClaimIsInTarget'
  <1> SUFFICES ASSUME ~mixed, NEW t \in Tasks, Placed(t), NEW n \in claimed'[t] \ dirty'[t]
               PROVE  <<t, n>> \in WorksOf(tip'[Target(t)])
    <2>1. \A u \in Tasks : WorksOf(tip[Target(u)])' = WorksOf(tip'[Target(u)])
      BY PlacedStays DEF WorksOf
    <2> QED
      BY <2>1, MixedStays, PlacedStays DEF SettledClaimIsInTarget
  <1>1. WorksOf(tip[Target(t)]) \subseteq WorksOf(tip'[Target(t)])
    BY BranchesKeep, PlacedStays
  <1>2. CASE n \in claimed[t] \ dirty[t]
    BY <1>1, <1>2 DEF SettledClaimIsInTarget
  <1>3. CASE pc[t] = "merged" /\ n \in made[t] \ dirty[t]
    <2>1. <<t, n>> \in WorksOf(tip[t])
      BY <1>3 DEF IInv, MadeIsCommitted
    <2> QED
      BY <1>1, <1>3, <2>1 DEF MergedIsInTarget
  <1> QED
    BY <1>2, <1>3, ClaimStep

\* Work leaves a worktree for a branch by a commit only.
LEMMA Settles ==
  ASSUME IInv, [Next]_vars, NEW t \in Tasks
  PROVE  \/ made'[t] \ dirty'[t] \subseteq made[t] \ dirty[t]
         \/ (tree[t] = "ready" /\ pc[t] # "idle")
  <1> DEFINE Same == made'[t] \ dirty'[t] \subseteq made[t] \ dirty[t]
  <1> USE DEF IInv, TypeOK, At
  <1>1. ASSUME NEW u \in Tasks, \/ EnsureSprintBranch(u) \/ CreateWorkspace(u) \/ Work(u)
                                \/ WorktreeGoes(u) \/ BeginIntegration(u)
        PROVE  Same
    BY <1>1 DEF EnsureSprintBranch, CreateWorkspace, Work, WorktreeGoes, BeginIntegration,
       worktrees, history
  <1>2. ASSUME NEW u \in Tasks, CommitWorkspace(u)
        PROVE  Same \/ (tree[t] = "ready" /\ pc[t] # "idle")
    <2>1. /\ made' = made /\ pc[u] = "onTarget"
          /\ dirty' \in {dirty, [dirty EXCEPT ![u] = {}]}
          /\ tree[u] # "ready" => dirty' = dirty
      BY <1>2 DEF CommitWorkspace, history
    <2>2. CASE dirty'[t] = dirty[t]
      BY <2>1, <2>2
    <2>3. CASE dirty'[t] # dirty[t]
      <3>1. u = t
        BY <2>1, <2>3
      <3> QED
        BY <2>1, <2>3, <3>1
    <2> QED
      BY <2>2, <2>3
  <1>3. ASSUME NEW u \in Tasks, IntegrationStep(u), ~CommitWorkspace(u)
        PROVE  made' = made /\ dirty' = dirty
    BY <1>3 DEF IntegrationStep, CheckOutSprint, RemoveGeneratedArtifacts, FastForward, Diverged,
       Rebase, RebaseStops, RebaseContinues, RebaseAborts, EndRebase, FinishIntegration,
       IntegrationFails, worktrees, history
  <1>4. ASSUME NEW s \in Sprints, BeginShipment(s) \/ ShipmentStep(s)
        PROVE  made' = made /\ dirty' = dirty
    BY <1>4 DEF BeginShipment, ShipmentStep, CheckOutMain, ShipFastForward, ShipDiverged,
       CheckOutBranch, ShipRebase, FinishShipment, ShipmentFails, worktrees, history
  <1>5. Restart \/ UNCHANGED vars => made' = made /\ dirty' = dirty
    BY DEF Restart, vars, worktrees, history
  <1> QED
    BY <1>1, <1>2, <1>3, <1>4, <1>5 DEF Next
LEMMA ShippedClaimStep ==
  ASSUME IInv, ShippedIsClaimed, [Next]_vars
  PROVE  ShippedIsClaimed'
  <1> USE DEF IInv, TypeOK, ShippedIsClaimed, TasksOf
  <1>1. ASSUME NEW t \in Tasks, EnsureSprintBranch(t) \/ CreateWorkspace(t) \/ BeginIntegration(t)
        PROVE  ShippedIsClaimed'
    BY <1>1 DEF EnsureSprintBranch, CreateWorkspace, BeginIntegration, history
  <1>2. ASSUME NEW t \in Tasks, Work(t)
        PROVE  ShippedIsClaimed'
    <2>1. /\ sprintOf' = sprintOf /\ claimed' = claimed /\ shipped' = shipped \ {sprintOf[t]}
          /\ \A u \in Tasks \ {t} : made'[u] = made[u]
      BY <1>2 DEF Work
    <2> QED
      BY <2>1
  <1>3. ASSUME NEW t \in Tasks, WorktreeGoes(t)
        PROVE  ShippedIsClaimed'
    <2>1. /\ sprintOf' = sprintOf /\ shipped' = shipped
          /\ \A u \in Tasks : claimed[u] = made[u] => claimed'[u] = made'[u]
      BY <1>3 DEF WorktreeGoes
    <2> QED
      BY <2>1
  <1>4. ASSUME NEW t \in Tasks, IntegrationStep(t)
        PROVE  ShippedIsClaimed'
    <2>1. /\ sprintOf' = sprintOf /\ shipped' = shipped /\ made' = made
          /\ \A u \in Tasks : claimed'[u] \in {claimed[u], made[u]}
      BY <1>4 DEF IntegrationStep, CheckOutSprint, RemoveGeneratedArtifacts, CommitWorkspace,
         FastForward, Diverged, Rebase, RebaseStops, RebaseContinues, RebaseAborts,
         FinishIntegration, IntegrationFails, history
    <2> QED
      BY <2>1
  <1>5. ASSUME NEW s \in Sprints, FinishShipment(s)
        PROVE  ShippedIsClaimed'
    BY <1>5 DEF FinishShipment, ShipAt, ShippingIsAlone
  <1>6. ASSUME NEW s \in Sprints, BeginShipment(s) \/ ShipmentStep(s), ~FinishShipment(s)
        PROVE  UNCHANGED <<sprintOf, shipped, made, claimed>>
    BY <1>6 DEF BeginShipment, ShipmentStep, CheckOutMain, ShipFastForward, ShipDiverged,
       CheckOutBranch, ShipRebase, ShipmentFails, history
  <1>7. Restart \/ UNCHANGED vars => ShippedIsClaimed'
    BY DEF Restart, vars, history
  <1> QED
    BY <1>1, <1>2, <1>3, <1>4, <1>5, <1>6, <1>7 DEF Next

\* A sprint is merged by a fast-forward of main, and reported after that.
LEMMA ShipStep ==
  ASSUME IInv, [Next]_vars, NEW s \in Sprints
  PROVE  /\ ship'[s] = "merged" => ship[s] = "merged" \/ ShipFastForward(s)
         /\ s \in shipped' => s \in shipped \/ ship[s] = "merged"
  <1> DEFINE Merges == /\ ship'[s] = "merged" => ship[s] = "merged" \/ ShipFastForward(s)
                       /\ s \in shipped' => s \in shipped \/ ship[s] = "merged"
  <1> USE DEF IInv, TypeOK, ShipAt
  <1>1. ASSUME NEW t \in Tasks, \/ EnsureSprintBranch(t) \/ CreateWorkspace(t) \/ Work(t)
                                \/ WorktreeGoes(t) \/ BeginIntegration(t)
        PROVE  Merges
    BY <1>1 DEF EnsureSprintBranch, CreateWorkspace, Work, WorktreeGoes, BeginIntegration,
       coroutines, history
  <1>2. ASSUME NEW t \in Tasks, IntegrationStep(t)
        PROVE  ship' = ship /\ shipped' = shipped
    BY <1>2 DEF IntegrationStep, CheckOutSprint, RemoveGeneratedArtifacts, CommitWorkspace,
       FastForward, Diverged, Rebase, RebaseStops, RebaseContinues, RebaseAborts,
       FinishIntegration, IntegrationFails, history
  <1>3. ASSUME NEW r \in Sprints, BeginShipment(r)
        PROVE  Merges
    BY <1>3 DEF BeginShipment
  <1>4. ASSUME NEW r \in Sprints, ShipmentStep(r)
        PROVE  Merges
    BY <1>4 DEF ShipmentStep, CheckOutMain, ShipFastForward, ShipDiverged, CheckOutBranch,
       ShipRebase, FinishShipment, ShipmentFails, history
  <1>5. Restart \/ UNCHANGED vars => Merges
    BY DEF Restart, vars, coroutines, history
  <1> QED
    BY <1>1, <1>2, <1>3, <1>4, <1>5 DEF Next

LEMMA SettledShipmentStep ==
  ASSUME IInv, HeadIsTarget, SettledClaimIsInTarget, ShippedIsClaimed, SettledShipmentIsInMain,
         [Next]_vars
  PROVE  SettledShipmentIsInMain'
  <1>0. /\ sprintOf' = sprintOf /\ TypeOK /\ DirtyIsMade /\ WorktreeIsClean /\ ShippingIsAlone
        /\ Main \in Branches /\ WorksOf(tip[Main]) \subseteq WorksOf(tip'[Main])
    BY WorkStep, BranchFacts, BranchesKeep DEF IInv
  <1> SUFFICES ASSUME ~mixed, NEW s \in Sprints, ship'[s] = "merged" \/ s \in shipped',
                      NEW t \in Tasks, sprintOf[t] = s, NEW n \in made'[t] \ dirty'[t]
               PROVE  <<t, n>> \in WorksOf(tip'[Main])
    <2>1. WorksOf(tip[Main])' = WorksOf(tip'[Main])
      BY DEF WorksOf
    <2> QED
      BY <1>0, <2>1, MixedStays DEF SettledShipmentIsInMain, TasksOf
  <1>1. CASE ship[s] = "merged" \/ s \in shipped
    <2>1. n \in made[t] \ dirty[t]
      <3>1. CASE made'[t] \ dirty'[t] \subseteq made[t] \ dirty[t]
        BY <3>1
      <3>2. CASE tree[t] = "ready" /\ pc[t] # "idle"
        <4>1. s \in shipped /\ claimed[t] = made[t]
          BY <1>0, <1>1, <3>2 DEF ShippingIsAlone, ShippedIsClaimed, TasksOf
        <4>2. dirty[t] = {}
          BY <1>0, <3>2, <4>1 DEF WorktreeIsClean, DirtyIsMade
        <4> QED
          BY <4>2, WorkStep
      <3> QED
        BY <3>1, <3>2, Settles
    <2> QED
      BY <1>0, <1>1, <2>1 DEF SettledShipmentIsInMain, TasksOf
  <1>2. CASE ShipFastForward(s)
    <2>1. /\ ship[s] # "idle" /\ head = Main /\ made' = made /\ dirty' = dirty
          /\ tip'[Main] = tip[Main] \cup tip[s]
      BY <1>0, <1>2 DEF ShipFastForward, ShipAt, HeadIsTarget, Merge, TypeOK, worktrees, history
    <2>2. n \in claimed[t] \ dirty[t]
      BY <1>0, <2>1 DEF ShippingIsAlone, TasksOf
    <2>3. Placed(t) /\ Target(t) = s
      BY BranchAssumption DEF Placed, Target
    <2>4. <<t, n>> \in WorksOf(tip[s])
      BY <2>2, <2>3 DEF SettledClaimIsInTarget
    <2> QED
      BY <2>1, <2>4, SubsetWorks
  <1> QED
    BY <1>1, <1>2, ShipStep

LEMMA InitTInv ==
  Init => TInv
  <1> SUFFICES ASSUME Init PROVE TInv
    OBVIOUS
  <1>1. OneTarget /\ HeadIsTarget /\ MergedIsInTarget /\ ShippedIsClaimed
    BY DEF Init, OneTarget, HeadIsTarget, MergedIsInTarget, ShippedIsClaimed
  <1>2. SettledClaimIsInTarget /\ SettledShipmentIsInMain
    BY DEF Init, SettledClaimIsInTarget, SettledShipmentIsInMain, TasksOf
  <1> QED
    BY <1>1, <1>2 DEF TInv

LEMMA KeepsTInv ==
  IInv /\ TInv /\ [Next]_vars => TInv'
  <1> SUFFICES ASSUME IInv, TInv, [Next]_vars PROVE TInv'
    OBVIOUS
  <1> QED
    BY OneTargetStep, HeadStep, MergedStep, SettledClaimStep, ShippedClaimStep,
       SettledShipmentStep
    DEF TInv

\* While targets do not overlap, the branch of the work that is under way is
\* checked out when work is merged, and what is reported has been merged there.
THEOREM TargetInvariant ==
  Spec => [](IInv /\ TInv)
  BY InitIInv, InitTInv, KeepsIInv, KeepsTInv, PTL DEF Spec

-----------------------------------------------------------------------------
(* Lines of commits, and what commits and rebases make of them.            *)

\* A branch is a line of commits: each is based on the work of all before it,
\* and works committed at once are based on the same.
Linear(h) ==
    /\ \A c \in h : c.upon \subseteq WorksOf(h) /\ c.what \notin c.upon
    /\ \A c, d \in h :
           /\ c.what = d.what => c = d
           /\ c.what \in d.upon => c.upon \subseteq d.upon
           /\ c.what \in d.upon \/ d.what \in c.upon \/ c.upon = d.upon

\* g and h never have two works in opposite orders,
SameOrder(g, h) == \A c \in g, d \in h : ~(c.what \in d.upon /\ d.what \in c.upon)

\* h has what was committed at once in g all together,
Together(g, h) ==
    \A c, d \in g, e \in h : c.upon = d.upon /\ e.what = c.what =>
        \E f \in h : f.what = d.what /\ f.upon = e.upon

\* and what a work that both have is based on in g is in h too, or in main.
Grounded(g, h, main) ==
    \A c \in g, d \in h : c.what = d.what => c.upon \subseteq WorksOf(h) \cup main

Fits(g, h, main) == SameOrder(g, h) /\ Together(g, h) /\ Grounded(g, h, main)

LEMMA WorksHave ==
  ASSUME NEW h
  PROVE  \A w : w \in WorksOf(h) <=> \E c \in h : c.what = w
  BY DEF WorksOf

LEMMA SelfFits ==
  ASSUME NEW h, NEW main, Linear(h)
  PROVE  Fits(h, h, main)
  <1>1. SameOrder(h, h)
    BY DEF Linear, SameOrder
  <1>2. Together(h, h)
    BY DEF Linear, Together
  <1>3. Grounded(h, h, main)
    BY DEF Linear, Grounded
  <1> QED
    BY <1>1, <1>2, <1>3 DEF Fits

\* The same work on the same base is the same commit.
LEMMA SameBase ==
  ASSUME NEW g, NEW h, Linear(g), Linear(h), SameOrder(g, h), Together(h, g),
         NEW c \in g, NEW d \in h, c.what = d.what, c.upon \subseteq WorksOf(h)
  PROVE  c.upon \subseteq d.upon
  <1> SUFFICES ASSUME NEW x \in c.upon PROVE x \in d.upon
    OBVIOUS
  <1>1. PICK e \in h : e.what = x
    BY WorksHave
  <1>2. CASE d.what \in e.upon
    BY <1>1, <1>2 DEF SameOrder
  <1>3. CASE e.upon = d.upon
    <2>1. PICK f \in g : f.what = x /\ f.upon = c.upon
      BY <1>1, <1>3 DEF Together
    <2> QED
      BY <2>1 DEF Linear
  <1> QED
    BY <1>1, <1>2, <1>3 DEF Linear

\* Lines that have a commit in common, and of which one goes on, have all
\* before in common.
LEMMA PrefixIsBefore ==
  ASSUME NEW g, NEW h, Linear(h), g \subseteq h, Linear(g), Together(h, g),
         NEW c \in g, NEW d \in h \ g
  PROVE  c.what \in d.upon
  <1>1. CASE d.what \in c.upon
    <2>1. PICK e \in g : e.what = d.what
      BY <1>1, WorksHave DEF Linear
    <2> QED
      BY <2>1 DEF Linear
  <1>2. CASE d.upon = c.upon
    <2>1. PICK e \in g : e.what = d.what
      BY <1>2 DEF Together
    <2> QED
      BY <2>1 DEF Linear
  <1> QED
    BY <1>1, <1>2 DEF Linear

\* New work on top of a line.
LEMMA CommittedParts ==
  ASSUME NEW h, NEW works
  PROVE  /\ h \subseteq Committed(h, works)
         /\ \A c \in Committed(h, works) \ h : c.what \in works /\ c.upon = WorksOf(h)
         /\ WorksOf(Committed(h, works)) = WorksOf(h) \cup works
         /\ \A c, d \in Committed(h, works) \ h : c.what = d.what => c = d
  <1> DEFINE commit(w) == [what |-> w, upon |-> WorksOf(h)]
  <1>1. \A w : commit(w).what = w /\ commit(w).upon = WorksOf(h)
    OBVIOUS
  <1> HIDE DEF commit
  <1>2. Committed(h, works) = h \cup {commit(w) : w \in works}
    BY DEF Committed, commit
  <1>3. WorksOf({commit(w) : w \in works}) = works
    BY <1>1 DEF WorksOf
  <1>4. WorksOf(Committed(h, works)) = WorksOf(h) \cup works
    BY <1>2, <1>3, UnionWorks
  <1>5. \A c \in Committed(h, works) \ h : \E w \in works : c = commit(w)
    BY <1>2
  <1> QED
    BY <1>1, <1>2, <1>4, <1>5

LEMMA CommittedIsLinear ==
  ASSUME NEW h, NEW works, Linear(h), WorksOf(h) \cap works = {}
  PROVE  Linear(Committed(h, works))
  <1> DEFINE x == Committed(h, works)
  <1>1. /\ h \subseteq x /\ WorksOf(x) = WorksOf(h) \cup works
        /\ \A c \in x \ h : c.what \in works /\ c.upon = WorksOf(h)
        /\ \A c, d \in x \ h : c.what = d.what => c = d
    BY CommittedParts
  <1>2. \A c \in h : c.what \in WorksOf(h)
    BY WorksHave
  <1> HIDE DEF x
  <1>3. \A c \in x : c.upon \subseteq WorksOf(x) /\ c.what \notin c.upon
    BY <1>1 DEF Linear
  <1>4. ASSUME NEW c \in x, NEW d \in x
        PROVE  /\ c.what = d.what => c = d
               /\ c.what \in d.upon => c.upon \subseteq d.upon
               /\ c.what \in d.upon \/ d.what \in c.upon \/ c.upon = d.upon
    <2>1. CASE c \in h /\ d \in h
      BY <2>1 DEF Linear
    <2>2. CASE c \in h /\ d \notin h
      BY <2>2, <1>1, <1>2 DEF Linear
    <2>3. CASE c \notin h /\ d \in h
      BY <2>3, <1>1, <1>2 DEF Linear
    <2>4. CASE c \notin h /\ d \notin h
      BY <2>4, <1>1
    <2> QED
      BY <2>1, <2>2, <2>3, <2>4
  <1> QED
    BY <1>3, <1>4 DEF Linear, x

LEMMA CommittedFits ==
  ASSUME NEW h, NEW works, NEW g, NEW main, Linear(h), Linear(g),
         WorksOf(h) \cap works = {}, WorksOf(g) \cap works = {},
         Fits(h, g, main), Fits(g, h, main)
  PROVE  Fits(Committed(h, works), g, main) /\ Fits(g, Committed(h, works), main)
  <1> DEFINE x == Committed(h, works)
  <1>1. /\ h \subseteq x /\ WorksOf(x) = WorksOf(h) \cup works
        /\ \A c \in x \ h : c.what \in works /\ c.upon = WorksOf(h)
    BY CommittedParts
  <1>2. /\ \A c \in h : c.what \in WorksOf(h)
        /\ \A c \in g : c.what \in WorksOf(g) /\ c.what \notin works /\ c.upon \cap works = {}
    BY WorksHave DEF Linear
  <1> HIDE DEF x
  <1>3. SameOrder(x, g) /\ SameOrder(g, x)
    BY <1>1, <1>2 DEF SameOrder, Fits
  <1>4. Together(x, g)
    <2> SUFFICES ASSUME NEW c \in x, NEW d \in x, NEW e \in g, c.upon = d.upon, e.what = c.what
                 PROVE  \E f \in g : f.what = d.what /\ f.upon = e.upon
      BY DEF Together
    <2>1. c \in h
      BY <1>1, <1>2
    <2>2. d \in h
      BY <2>1, <1>1, <1>2 DEF Linear
    <2> QED
      BY <2>1, <2>2 DEF Fits, Together
  <1>5. Together(g, x)
    <2> SUFFICES ASSUME NEW c \in g, NEW d \in g, NEW e \in x, c.upon = d.upon, e.what = c.what
                 PROVE  \E f \in x : f.what = d.what /\ f.upon = e.upon
      BY DEF Together
    <2>1. e \in h
      BY <1>1, <1>2
    <2> QED
      BY <1>1, <2>1 DEF Fits, Together
  <1>6. Grounded(x, g, main) /\ Grounded(g, x, main)
    BY <1>1, <1>2 DEF Grounded, Fits
  <1> QED
    BY <1>3, <1>4, <1>5, <1>6 DEF Fits, x

\* The commits that a rebase makes anew.
Moved(b, u) == {c \in b \ u : c.what \notin WorksOf(u)}

LEMMA RebasedParts ==
  ASSUME NEW b, NEW u
  PROVE  \E again :
           /\ u \subseteq Rebased(b, u)
           /\ \A c \in Rebased(b, u) \ u : \E d \in Moved(b, u) : c = again[d]
           /\ \A d \in Moved(b, u) :
                 /\ d \in b /\ d.what \notin WorksOf(u)
                 /\ again[d] \in Rebased(b, u) /\ again[d].what = d.what
                 /\ again[d].upon = WorksOf(u) \cup (d.upon \cap WorksOf(Moved(b, u)))
           /\ WorksOf(Moved(b, u)) = WorksOf(b) \ WorksOf(u)
           /\ WorksOf(Rebased(b, u)) = WorksOf(b) \cup WorksOf(u)
  <1> DEFINE own == Moved(b, u)
             rec(d) == [what |-> d.what, upon |-> WorksOf(u) \cup (d.upon \cap WorksOf(own))]
             again == [d \in own |-> rec(d)]
  <1>1. \A d \in own : d \in b /\ d.what \notin WorksOf(u)
    BY DEF Moved
  <1>2. WorksOf(own) = WorksOf(b) \ WorksOf(u)
    BY DEF Moved, WorksOf
  <1>3. Rebased(b, u) = u \cup {rec(d) : d \in own}
    BY DEF Rebased, Moved
  <1>4. \A d : rec(d).what = d.what /\ rec(d).upon = WorksOf(u) \cup (d.upon \cap WorksOf(own))
    OBVIOUS
  <1> HIDE DEF own, rec
  <1>5. WorksOf({rec(d) : d \in own}) = WorksOf(own)
    BY <1>4 DEF WorksOf
  <1>6. WorksOf(Rebased(b, u)) = WorksOf(b) \cup WorksOf(u)
    <2> DEFINE new == {rec(d) : d \in own}
    <2> HIDE DEF new
    <2>1. WorksOf(u \cup new) = WorksOf(u) \cup WorksOf(new)
      BY UnionWorks
    <2>2. Rebased(b, u) = u \cup new /\ WorksOf(new) = WorksOf(own)
      BY <1>3, <1>5 DEF new
    <2> QED
      BY <1>2, <2>1, <2>2
  <1>7. \A d \in own : again[d] = rec(d)
    OBVIOUS
  <1> HIDE DEF again
  <1>8. /\ u \subseteq Rebased(b, u)
        /\ \A c \in Rebased(b, u) \ u : \E d \in own : c = again[d]
        /\ \A d \in own : again[d] \in Rebased(b, u)
    BY <1>3, <1>7
  <1> QED
    BY <1>1, <1>2, <1>4, <1>6, <1>7, <1>8 DEF own

LEMMA RebasedIsLinear ==
  ASSUME NEW b, NEW u, Linear(b), Linear(u)
  PROVE  Linear(Rebased(b, u))
  <1> DEFINE x == Rebased(b, u)
             own == Moved(b, u)
  <1>0. PICK again :
           /\ u \subseteq x
           /\ \A c \in x \ u : \E d \in own : c = again[d]
           /\ \A d \in own :
                 /\ d \in b /\ d.what \notin WorksOf(u)
                 /\ again[d] \in x /\ again[d].what = d.what
                 /\ again[d].upon = WorksOf(u) \cup (d.upon \cap WorksOf(own))
           /\ WorksOf(own) = WorksOf(b) \ WorksOf(u)
           /\ WorksOf(x) = WorksOf(b) \cup WorksOf(u)
    BY RebasedParts
  <1>1. \A c \in u : c.what \in WorksOf(u)
    BY WorksHave
  <1>2. \A d \in own : d.what \in WorksOf(own)
    BY WorksHave
  <1> HIDE DEF x, own
  <1>3. ASSUME NEW c \in x PROVE c.upon \subseteq WorksOf(x) /\ c.what \notin c.upon
    <2>1. CASE c \in u
      BY <1>0, <2>1 DEF Linear
    <2>2. CASE c \notin u
      <3>1. PICK d \in own : c = again[d]
        BY <1>0, <2>2
      <3> QED
        BY <1>0, <3>1 DEF Linear
    <2> QED
      BY <2>1, <2>2
  <1>4. ASSUME NEW c \in x, NEW d \in x
        PROVE  /\ c.what = d.what => c = d
               /\ c.what \in d.upon => c.upon \subseteq d.upon
               /\ c.what \in d.upon \/ d.what \in c.upon \/ c.upon = d.upon
    <2>1. CASE c \in u /\ d \in u
      BY <2>1 DEF Linear
    <2>2. CASE c \in u /\ d \notin u
      <3>1. PICK e \in own : d = again[e]
        BY <1>0, <2>2
      <3>2. /\ d.what = e.what /\ d.what \notin WorksOf(u)
            /\ d.upon = WorksOf(u) \cup (e.upon \cap WorksOf(own))
        BY <1>0, <3>1
      <3> QED
        BY <1>1, <2>2, <3>2 DEF Linear
    <2>3. CASE c \notin u /\ d \in u
      <3>1. PICK e \in own : c = again[e]
        BY <1>0, <2>3
      <3>2. /\ c.what = e.what /\ c.what \notin WorksOf(u)
            /\ c.upon = WorksOf(u) \cup (e.upon \cap WorksOf(own))
        BY <1>0, <3>1
      <3> QED
        BY <1>1, <2>3, <3>2 DEF Linear
    <2>4. CASE c \notin u /\ d \notin u
      <3>1. PICK e \in own, f \in own : c = again[e] /\ d = again[f]
        BY <1>0, <2>4
      <3>2. /\ c.what = e.what /\ c.upon = WorksOf(u) \cup (e.upon \cap WorksOf(own))
            /\ d.what = f.what /\ d.upon = WorksOf(u) \cup (f.upon \cap WorksOf(own))
            /\ e.what \notin WorksOf(u) /\ f.what \notin WorksOf(u) /\ e \in b /\ f \in b
            /\ e.what \in WorksOf(own) /\ f.what \in WorksOf(own)
        BY <1>0, <1>2, <3>1
      <3>3. /\ e.what = f.what => e = f
            /\ e.what \in f.upon => e.upon \subseteq f.upon
            /\ e.what \in f.upon \/ f.what \in e.upon \/ e.upon = f.upon
        BY <3>2 DEF Linear
      <3> QED
        BY <3>1, <3>2, <3>3
    <2> QED
      BY <2>1, <2>2, <2>3, <2>4
  <1> QED
    BY <1>3, <1>4 DEF Linear, x

\* Of no line does a work that u has come after one that the rebase moves.
OrderFree(b, u, g) ==
    \A d \in g : d.what \in WorksOf(u) => d.upon \cap (WorksOf(b) \ WorksOf(u)) = {}

LEMMA RebasedFits ==
  ASSUME NEW b, NEW u, NEW g, NEW main, Linear(b), Linear(u), Linear(g),
         Fits(b, g, main), Fits(u, g, main), OrderFree(b, u, g),
         WorksOf(u) \subseteq main \/ (WorksOf(b) \ WorksOf(u)) \cap WorksOf(g) = {}
  PROVE  Fits(Rebased(b, u), g, main)
  <1> DEFINE x == Rebased(b, u)
             own == Moved(b, u)
  <1>0. PICK again :
           /\ u \subseteq x
           /\ \A c \in x \ u : \E d \in own : c = again[d]
           /\ \A d \in own :
                 /\ d \in b /\ d.what \notin WorksOf(u)
                 /\ again[d] \in x /\ again[d].what = d.what
                 /\ again[d].upon = WorksOf(u) \cup (d.upon \cap WorksOf(own))
           /\ WorksOf(own) = WorksOf(b) \ WorksOf(u)
           /\ WorksOf(x) = WorksOf(b) \cup WorksOf(u)
    BY RebasedParts
  <1>1. Linear(x)
    BY RebasedIsLinear
  <1>2. \A c \in u : c.what \in WorksOf(u)
    BY WorksHave
  <1>3. \A d \in own : d.what \in WorksOf(own)
    BY WorksHave
  <1>4. \A c \in g : c.what \in WorksOf(g)
    BY WorksHave
  <1> HIDE DEF x, own
  <1>5. ASSUME NEW c \in x, NEW d \in g PROVE ~(c.what \in d.upon /\ d.what \in c.upon)
    <2>1. CASE c \in u
      BY <2>1 DEF Fits, SameOrder
    <2>2. CASE c \notin u
      <3>1. PICK e \in own : c = again[e]
        BY <1>0, <2>2
      <3>2. /\ c.what = e.what /\ c.upon = WorksOf(u) \cup (e.upon \cap WorksOf(own))
            /\ e \in b /\ e.what \in WorksOf(b) \ WorksOf(u)
        BY <1>0, <1>3, <3>1
      <3>3. ~(e.what \in d.upon /\ d.what \in e.upon)
        BY <3>2 DEF Fits, SameOrder
      <3> QED
        BY <3>2, <3>3 DEF OrderFree
    <2> QED
      BY <2>1, <2>2
  <1>6. ASSUME NEW c \in x, NEW d \in x, NEW e \in g, c.upon = d.upon, e.what = c.what
        PROVE  \E f \in g : f.what = d.what /\ f.upon = e.upon
    <2>1. CASE c \in u /\ d \in u
      BY <1>6, <2>1 DEF Fits, Together
    <2>2. CASE c \in u /\ d \notin u
      <3>1. WorksOf(u) \subseteq d.upon
        BY <1>0, <2>2
      <3> QED
        BY <1>1, <1>2, <1>6, <2>2, <3>1 DEF Linear
    <2>3. CASE c \notin u /\ d \in u
      <3>1. WorksOf(u) \subseteq c.upon
        BY <1>0, <2>3
      <3> QED
        BY <1>1, <1>2, <1>6, <2>3, <3>1 DEF Linear
    <2>4. CASE c \notin u /\ d \notin u
      <3>1. PICK i \in own, j \in own : c = again[i] /\ d = again[j]
        BY <1>0, <2>4
      <3>2. /\ c.what = i.what /\ c.upon = WorksOf(u) \cup (i.upon \cap WorksOf(own))
            /\ d.what = j.what /\ d.upon = WorksOf(u) \cup (j.upon \cap WorksOf(own))
            /\ i \in b /\ j \in b /\ i.what \in WorksOf(own) /\ j.what \in WorksOf(own)
        BY <1>0, <1>3, <3>1
      <3>3. i.upon = j.upon
        <4>1. c.what \notin c.upon /\ d.what \notin d.upon
          BY <1>1 DEF Linear
        <4>2. i.what \notin j.upon /\ j.what \notin i.upon
          BY <1>6, <3>2, <4>1
        <4> QED
          BY <3>2, <4>2 DEF Linear
      <3> QED
        BY <1>6, <3>2, <3>3 DEF Fits, Together
    <2> QED
      BY <2>1, <2>2, <2>3, <2>4
  <1>7. ASSUME NEW c \in x, NEW d \in g, c.what = d.what
        PROVE  c.upon \subseteq WorksOf(g) \cup main
    <2>1. CASE c \in u
      BY <1>7, <2>1 DEF Fits, Grounded
    <2>2. CASE c \notin u
      <3>1. PICK e \in own : c = again[e]
        BY <1>0, <2>2
      <3>2. /\ c.what = e.what /\ c.upon = WorksOf(u) \cup (e.upon \cap WorksOf(own))
            /\ e \in b /\ e.what \in WorksOf(b) \ WorksOf(u)
        BY <1>0, <1>3, <3>1
      <3>3. e.upon \subseteq WorksOf(g) \cup main
        BY <1>7, <3>2 DEF Fits, Grounded
      <3> QED
        BY <1>4, <1>7, <3>2, <3>3
    <2> QED
      BY <2>1, <2>2
  <1> QED
    BY <1>5, <1>6, <1>7 DEF Fits, SameOrder, Together, Grounded, x

LEMMA FitsRebased ==
  ASSUME NEW b, NEW u, NEW g, NEW main, Linear(b), Linear(u), Linear(g),
         Fits(g, b, main), Fits(g, u, main), Together(b, u), OrderFree(b, u, g)
  PROVE  Fits(g, Rebased(b, u), main)
  <1> DEFINE x == Rebased(b, u)
             own == Moved(b, u)
  <1>0. PICK again :
           /\ u \subseteq x
           /\ \A c \in x \ u : \E d \in own : c = again[d]
           /\ \A d \in own :
                 /\ d \in b /\ d.what \notin WorksOf(u)
                 /\ again[d] \in x /\ again[d].what = d.what
                 /\ again[d].upon = WorksOf(u) \cup (d.upon \cap WorksOf(own))
           /\ WorksOf(own) = WorksOf(b) \ WorksOf(u)
           /\ WorksOf(x) = WorksOf(b) \cup WorksOf(u)
    BY RebasedParts
  <1>3. \A d \in own : d.what \in WorksOf(own)
    BY WorksHave
  <1>4. \A f \in b : f.what \notin WorksOf(u) => f \in own
    BY WorksHave DEF Moved
  <1> HIDE DEF x, own
  <1>5. ASSUME NEW c \in g, NEW d \in x PROVE ~(c.what \in d.upon /\ d.what \in c.upon)
    <2>1. CASE d \in u
      BY <2>1 DEF Fits, SameOrder
    <2>2. CASE d \notin u
      <3>1. PICK e \in own : d = again[e]
        BY <1>0, <2>2
      <3>2. /\ d.what = e.what /\ d.upon = WorksOf(u) \cup (e.upon \cap WorksOf(own))
            /\ e \in b /\ e.what \in WorksOf(b) \ WorksOf(u)
        BY <1>0, <1>3, <3>1
      <3>3. ~(c.what \in e.upon /\ e.what \in c.upon)
        BY <3>2 DEF Fits, SameOrder
      <3> QED
        BY <3>2, <3>3 DEF OrderFree
    <2> QED
      BY <2>1, <2>2
  <1>6. ASSUME NEW c \in g, NEW d \in g, NEW e \in x, c.upon = d.upon, e.what = c.what
        PROVE  \E f \in x : f.what = d.what /\ f.upon = e.upon
    <2>1. CASE e \in u
      BY <1>0, <1>6, <2>1 DEF Fits, Together
    <2>2. CASE e \notin u
      <3>1. PICK i \in own : e = again[i]
        BY <1>0, <2>2
      <3>2. /\ e.what = i.what /\ e.upon = WorksOf(u) \cup (i.upon \cap WorksOf(own))
            /\ i \in b /\ i.what \notin WorksOf(u)
        BY <1>0, <3>1
      <3>3. PICK f \in b : f.what = d.what /\ f.upon = i.upon
        <4>1. Together(g, b) /\ i \in b /\ i.what = c.what
          BY <1>6, <3>2 DEF Fits
        <4> QED
          BY <1>6, <4>1 DEF Together
      <3>4. f.what \notin WorksOf(u)
        <4> SUFFICES ASSUME f.what \in WorksOf(u) PROVE FALSE
          OBVIOUS
        <4>1. PICK j \in u : j.what = f.what
          BY WorksHave
        <4>2. PICK k \in u : k.what = i.what
          BY <3>2, <3>3, <4>1 DEF Together
        <4> QED
          BY <3>2, <4>2, WorksHave
      <3>5. /\ again[f] \in x /\ again[f].what = f.what
            /\ again[f].upon = WorksOf(u) \cup (f.upon \cap WorksOf(own))
        BY <1>0, <1>4, <3>4
      <3> QED
        BY <3>2, <3>3, <3>5
    <2> QED
      BY <2>1, <2>2
  <1>7. ASSUME NEW c \in g, NEW d \in x, c.what = d.what
        PROVE  c.upon \subseteq WorksOf(x) \cup main
    <2>1. CASE d \in u
      BY <1>0, <1>7, <2>1 DEF Fits, Grounded
    <2>2. CASE d \notin u
      <3>1. PICK e \in own : d = again[e]
        BY <1>0, <2>2
      <3>2. d.what = e.what /\ e \in b
        BY <1>0, <3>1
      <3> QED
        BY <1>0, <1>7, <3>2 DEF Fits, Grounded
    <2> QED
      BY <2>1, <2>2
  <1> QED
    BY <1>5, <1>6, <1>7 DEF Fits, SameOrder, Together, Grounded, x

\* What is rebased onto a part of itself stays as it is.
LEMMA RebasedOnPart ==
  ASSUME NEW b \in SUBSET Commits, NEW u, Linear(b), Linear(u), Together(b, u), u \subseteq b
  PROVE  Rebased(b, u) = b
  <1> DEFINE x == Rebased(b, u)
             own == Moved(b, u)
             rec(d) == [what |-> d.what, upon |-> WorksOf(u) \cup (d.upon \cap WorksOf(own))]
  <1>1. own = b \ u
    <2>1. ASSUME NEW d \in b \ u, d.what \in WorksOf(u) PROVE FALSE
      <3>1. PICK c \in u : c.what = d.what
        BY <2>1, WorksHave
      <3> QED
        BY <3>1 DEF Linear
    <2> QED
      BY <2>1 DEF Moved
  <1>2. ASSUME NEW d \in own PROVE rec(d) = d
    <2>1. WorksOf(u) \subseteq d.upon
      BY <1>1, PrefixIsBefore, WorksHave
    <2>2. WorksOf(own) = WorksOf(b) \ WorksOf(u)
      BY DEF Moved, WorksOf
    <2>3. d.upon \subseteq WorksOf(b)
      BY <1>1 DEF Linear
    <2>4. d.upon = WorksOf(u) \cup (d.upon \cap WorksOf(own))
      BY <2>1, <2>2, <2>3
    <2> HIDE DEF own
    <2>5. d \in Commits
      BY <1>1
    <2> QED
      BY <2>4, <2>5 DEF Commits
  <1>3. x = u \cup {rec(d) : d \in own}
    BY DEF Rebased, Moved
  <1> HIDE DEF rec, own
  <1>4. {rec(d) : d \in own} = own
    BY <1>2
  <1> QED
    BY <1>1, <1>3, <1>4

\* A rebase onto main, or what was main, moves no work past one that follows
\* it elsewhere,
LEMMA OrderFreeOnMain ==
  ASSUME NEW b, NEW u, NEW m, NEW g, Linear(u), Linear(m), u \subseteq m, Together(m, u),
         SameOrder(g, m), Grounded(g, u, WorksOf(m))
  PROVE  OrderFree(b, u, g)
  <1> SUFFICES ASSUME NEW d \in g, d.what \in WorksOf(u), NEW y \in d.upon, y \notin WorksOf(u)
               PROVE  FALSE
    BY DEF OrderFree
  <1>1. PICK c \in u : c.what = d.what
    BY WorksHave
  <1>2. PICK e \in m : e.what = y
    BY <1>1, WorksHave DEF Grounded
  <1>3. c.what \in e.upon
    <2>1. e \notin u
      BY <1>2, WorksHave
    <2> QED
      BY <2>1, PrefixIsBefore
  <1> QED
    BY <1>1, <1>2, <1>3 DEF SameOrder

\* and neither does the rebase of work that nothing else has.
LEMMA OrderFreeAlone ==
  ASSUME NEW b, NEW u, NEW g, NEW main, Grounded(g, u, main),
         (WorksOf(b) \ WorksOf(u)) \cap main = {}
  PROVE  OrderFree(b, u, g)
  <1> SUFFICES ASSUME NEW d \in g, d.what \in WorksOf(u), NEW y \in d.upon,
                      y \in WorksOf(b) \ WorksOf(u)
               PROVE  FALSE
    BY DEF OrderFree
  <1>1. PICK c \in u : c.what = d.what
    BY WorksHave
  <1> QED
    BY <1>1 DEF Grounded

\* Lines of commits that fit each other.
Consistent(H, main) == \A g \in H : Linear(g) /\ \A h \in H : Fits(g, h, main)

LEMMA OneMore ==
  ASSUME NEW H, NEW K \in SUBSET H, NEW x, NEW H2, H2 \subseteq K \cup {x},
         NEW main, NEW main2, main \subseteq main2, Consistent(H, main), Linear(x),
         \A g \in K : Fits(x, g, main) /\ Fits(g, x, main)
  PROVE  Consistent(H2, main2)
  <1>1. \A g, h : Fits(g, h, main) => Fits(g, h, main2)
    BY DEF Fits, Grounded
  <1>2. \A g \in K : Linear(g) /\ \A h \in K : Fits(g, h, main)
    BY DEF Consistent
  <1>3. Fits(x, x, main)
    BY SelfFits
  <1> QED
    BY <1>1, <1>2, <1>3 DEF Consistent

LEMMA Fewer ==
  ASSUME NEW H, NEW H2 \in SUBSET H, NEW main, NEW main2, main \subseteq main2,
         Consistent(H, main)
  PROVE  Consistent(H2, main2)
  <1>1. \A g, h : Fits(g, h, main) => Fits(g, h, main2)
    BY DEF Fits, Grounded
  <1> QED
    BY <1>1 DEF Consistent

\* Work that no line has is committed,
LEMMA CommittedMore ==
  ASSUME NEW H, NEW h \in H, NEW works, NEW H2, H2 \subseteq H \cup {Committed(h, works)},
         NEW main, NEW main2, main \subseteq main2, Consistent(H, main),
         \A g \in H : WorksOf(g) \cap works = {}
  PROVE  Consistent(H2, main2)
  <1>1. Linear(Committed(h, works))
    BY CommittedIsLinear DEF Consistent
  <1>2. \A g \in H : Fits(Committed(h, works), g, main) /\ Fits(g, Committed(h, works), main)
    BY CommittedFits DEF Consistent
  <1> QED
    BY <1>1, <1>2, OneMore

\* a line is rebased onto main,
LEMMA OnMainMore ==
  ASSUME NEW H, NEW b \in H, NEW u \in H, NEW m \in H, u \subseteq m,
         NEW H2, H2 \subseteq H \cup {Rebased(b, u)},
         NEW main2, WorksOf(m) \subseteq main2, Consistent(H, WorksOf(m))
  PROVE  Consistent(H2, main2)
  <1> DEFINE main == WorksOf(m)
             x == Rebased(b, u)
  <1>1. Linear(x)
    BY RebasedIsLinear DEF Consistent
  <1>2. ASSUME NEW g \in H PROVE Fits(x, g, main) /\ Fits(g, x, main)
    <2>1. /\ Linear(b) /\ Linear(u) /\ Linear(g) /\ Linear(m)
          /\ Fits(b, g, main) /\ Fits(u, g, main) /\ Fits(g, b, main) /\ Fits(g, u, main)
          /\ Fits(m, u, main) /\ Fits(g, m, main) /\ Fits(b, u, main)
      BY DEF Consistent
    <2>2. Together(m, u) /\ SameOrder(g, m) /\ Grounded(g, u, main) /\ Together(b, u)
      BY <2>1 DEF Fits
    <2>3. OrderFree(b, u, g)
      BY <2>1, <2>2, OrderFreeOnMain
    <2>4. WorksOf(u) \subseteq main
      BY SubsetWorks
    <2>5. Fits(x, g, main)
      BY <2>1, <2>3, <2>4, RebasedFits
    <2>6. Fits(g, x, main)
      BY <2>1, <2>2, <2>3, FitsRebased
    <2> QED
      BY <2>5, <2>6
  <1> HIDE DEF x, main
  <1>3. H2 \subseteq H \cup {x} /\ main \subseteq main2 /\ Consistent(H, main)
    BY DEF x, main
  <1> QED
    BY <1>1, <1>2, <1>3, OneMore

\* or work is rebased that no other line has.
LEMMA AloneMore ==
  ASSUME NEW H, NEW b \in H, NEW u \in H, NEW H2, NEW main, NEW main2, main \subseteq main2,
         Consistent(H, main), (WorksOf(b) \ WorksOf(u)) \cap main = {},
         \A g \in H2 :
             g = Rebased(b, u) \/ (g \in H /\ (WorksOf(b) \ WorksOf(u)) \cap WorksOf(g) = {})
  PROVE  Consistent(H2, main2)
  <1> DEFINE x == Rebased(b, u)
             K == {g \in H : (WorksOf(b) \ WorksOf(u)) \cap WorksOf(g) = {}}
  <1>1. Linear(x)
    BY RebasedIsLinear DEF Consistent
  <1>2. ASSUME NEW g \in K PROVE Fits(x, g, main) /\ Fits(g, x, main)
    <2>1. /\ Linear(b) /\ Linear(u) /\ Linear(g)
          /\ Fits(b, g, main) /\ Fits(u, g, main) /\ Fits(g, b, main) /\ Fits(g, u, main)
          /\ Fits(b, u, main)
      BY DEF Consistent
    <2>2. Grounded(g, u, main) /\ Together(b, u)
      BY <2>1 DEF Fits
    <2>3. OrderFree(b, u, g)
      BY <2>2, OrderFreeAlone
    <2>5. Fits(x, g, main)
      BY <2>1, <2>3, RebasedFits
    <2>6. Fits(g, x, main)
      BY <2>1, <2>2, <2>3, FitsRebased
    <2> QED
      BY <2>5, <2>6
  <1>3. H2 \subseteq K \cup {x} /\ K \in SUBSET H
    OBVIOUS
  <1> HIDE DEF x, K
  <1> QED
    BY <1>1, <1>2, <1>3, OneMore

\* What two lines have in common is the same in both, where one of them is main.
LEMMA SameAsMain ==
  ASSUME NEW b \in SUBSET Commits, NEW m \in SUBSET Commits, Linear(b), Linear(m),
         Fits(b, m, WorksOf(m)), Fits(m, b, WorksOf(m)),
         NEW c \in m, c.upon \subseteq WorksOf(b), c.what \in WorksOf(b)
  PROVE  c \in b
  <1>1. PICK d \in b : d.what = c.what
    BY WorksHave
  <1>2. c.upon \subseteq d.upon
    BY <1>1, SameBase DEF Fits
  <1>3. d.upon \subseteq WorksOf(m)
    BY <1>1 DEF Fits, Grounded
  <1>4. d.upon \subseteq c.upon
    BY <1>1, <1>3, SameBase DEF Fits
  <1>5. c = d
    <2>1. c \in Commits /\ d \in Commits
      OBVIOUS
    <2> QED
      BY <1>1, <1>2, <1>4, <2>1 DEF Commits
  <1> QED
    BY <1>5

-----------------------------------------------------------------------------
(* What rebases keep.  The invariant is relative to the two before.        *)

\* All lines of commits there are: those of the branches, and where rebases
\* have started from.
Histories == {{}} \cup {tip[b] : b \in Branches} \cup {onto[t] : t \in Tasks}

Coherent == ~mixed => Consistent(Histories, WorksOf(tip[Main]))

\* What a task's branch shares with another is in its target.
Own ==
    ~mixed => \A t \in Tasks : Placed(t) =>
        \A b \in Branches \ {t} :
            WorksOf(tip[t]) \cap WorksOf(tip[b]) \subseteq WorksOf(tip[Target(t)])

\* A rebase under way goes onto all that the branch has in common with its target.
OntoIsWhole ==
    ~mixed => \A t \in Tasks : Placed(t) /\ pc[t] = "resolving" =>
        WorksOf(tip[t]) \cap WorksOf(tip[Target(t)]) \subseteq WorksOf(onto[t])

OntoIsMain == \A t \in Tasks : sprintOf[t] = NoSprint => onto[t] \subseteq tip[Main]

Apart(a, b) == ~(a \subseteq b) /\ ~(b \subseteq a)

\* A branch that could not be merged cannot be until it is rebased.
StaysApart ==
    ~mixed => \A t \in Tasks :
        Placed(t) /\ (tree[t] = "rebasing" \/ pc[t] = "diverged") =>
            Apart(tip[t], tip[Target(t)])

\* Nothing is merged or claimed that waits in a worktree.
ClaimIsClean ==
    ~mixed => \A t \in Tasks : Placed(t) =>
        /\ pc[t] = "merged" => tree[t] # "rebasing"
        /\ claimed[t] \cap dirty[t] = {}

RInv == Coherent /\ Own /\ OntoIsWhole /\ OntoIsMain /\ StaysApart /\ ClaimIsClean

\* The steps that change a branch.
Chore(c) == tip' = [tip EXCEPT ![head] = Committed(@, {c})]
Merged(a) == CanMerge(tip[a]) /\ Merge(tip[a]) /\ (a \in Tasks => FastForward(a))
TipMove ==
    \/ tip' = tip
    \/ \E c \in NewChores : Chore(c)
    \/ \E t \in Tasks : CommitWorkspace(t) /\ tree[t] = "ready"
    \/ \E a \in Branches : Merged(a)
    \/ \E t \in Tasks : Rebase(t) \/ RebaseContinues(t) \/ EnsureSprintBranch(t)
    \/ \E s \in Sprints : ShipRebase(s)
    \/ \E t \in Tasks \ born : CreateWorkspace(t)

LEMMA EveryTipMove ==
  ASSUME IInv, [Next]_vars
  PROVE  TipMove /\ \A t \in Tasks : onto'[t] \in {onto[t], {}} \/ RebaseStops(t)
  <1> USE DEF IInv, TypeOK
  <1>1. ASSUME NEW t \in Tasks, EnsureSprintBranch(t) PROVE TipMove /\ onto' = onto
    BY <1>1 DEF EnsureSprintBranch, TipMove, coroutines
  <1>2. ASSUME NEW t \in Tasks, CreateWorkspace(t) PROVE TipMove /\ onto' = onto
    BY <1>2 DEF CreateWorkspace, TipMove, coroutines
  <1>3. ASSUME NEW t \in Tasks, RemoveGeneratedArtifacts(t) \/ FinishIntegration(t)
        PROVE  TipMove /\ onto' = onto
    BY <1>3 DEF RemoveGeneratedArtifacts, FinishIntegration, MayCommitChore, TipMove, Chore
  <1>4. ASSUME NEW t \in Tasks, CommitWorkspace(t) PROVE TipMove /\ onto' = onto
    BY <1>4 DEF CommitWorkspace, TipMove
  <1>5. ASSUME NEW t \in Tasks, FastForward(t) PROVE TipMove /\ onto' = onto
    BY <1>5, BranchFacts DEF FastForward, TipMove, Merged
  <1>6. ASSUME NEW t \in Tasks, Rebase(t) PROVE TipMove /\ onto' = onto
    BY <1>6 DEF Rebase, TipMove
  <1>7. ASSUME NEW t \in Tasks, RebaseContinues(t)
        PROVE  TipMove /\ \A u \in Tasks : onto'[u] \in {onto[u], {}}
    BY <1>7 DEF RebaseContinues, EndRebase, TipMove
  <1>8. ASSUME NEW s \in Sprints, ShipFastForward(s) PROVE TipMove /\ onto' = onto
    BY <1>8, BranchFacts, BranchAssumption DEF ShipFastForward, TipMove, Merged
  <1>9. ASSUME NEW s \in Sprints, ShipRebase(s) PROVE TipMove /\ onto' = onto
    BY <1>9 DEF ShipRebase, TipMove
  <1>10. ASSUME NEW s \in Sprints, FinishShipment(s) PROVE TipMove /\ onto' = onto
    BY <1>10 DEF FinishShipment, MayCommitChore, TipMove, Chore
  <1>11. ASSUME NEW t \in Tasks,
                \/ Work(t) \/ WorktreeGoes(t) \/ BeginIntegration(t) \/ CheckOutSprint(t)
                \/ Diverged(t) \/ IntegrationFails(t)
         PROVE  TipMove /\ onto' = onto
    BY <1>11 DEF Work, WorktreeGoes, BeginIntegration, CheckOutSprint, Diverged,
                 IntegrationFails, git, coroutines, TipMove
  <1>12. ASSUME NEW t \in Tasks, RebaseStops(t)
         PROVE  TipMove /\ \A u \in Tasks \ {t} : onto'[u] = onto[u]
    BY <1>12 DEF RebaseStops, git, TipMove
  <1>13. ASSUME NEW t \in Tasks, RebaseAborts(t)
         PROVE  TipMove /\ \A u \in Tasks : onto'[u] \in {onto[u], {}}
    BY <1>13 DEF RebaseAborts, EndRebase, git, TipMove
  <1>14. ASSUME NEW s \in Sprints,
                \/ BeginShipment(s) \/ CheckOutMain(s) \/ ShipDiverged(s) \/ CheckOutBranch(s)
                \/ ShipmentFails(s)
         PROVE  TipMove /\ onto' = onto
    BY <1>14 DEF BeginShipment, CheckOutMain, ShipDiverged, CheckOutBranch, ShipmentFails, git,
                 TipMove
  <1>15. Restart \/ UNCHANGED vars => TipMove /\ \A u \in Tasks : onto'[u] \in {onto[u], {}}
    BY DEF Restart, vars, git, coroutines, TipMove
  <1> QED
    BY <1>1, <1>2, <1>3, <1>4, <1>5, <1>6, <1>7, <1>8, <1>9, <1>10, <1>11, <1>12, <1>13, <1>14,
       <1>15
    DEF Next, IntegrationStep, ShipmentStep

-----------------------------------------------------------------------------
(* Where a branch takes work from, and how an integration gets on.         *)

\* Branch x takes work from branch a, or work that no branch has.
Takes(x, a, new) ==
    /\ \A b \in Branches \ {x} : tip'[b] = tip[b]
    /\ WorksOf(tip'[x]) \subseteq WorksOf(tip[x]) \cup WorksOf(tip[a]) \cup new
    /\ \A b \in Branches : new \cap WorksOf(tip[b]) = {}
    /\ x \in Tasks =>
           /\ tree'[x] = "ready" /\ pc'[x] # "diverged"
           /\ Placed(x) => a = x \/ WorksOf(tip[a]) \subseteq WorksOf(tip[Target(x)])
    /\ a \in Tasks /\ a # x => FastForward(a) /\ (Placed(a) => x = Target(a))

LEMMA ChoreTakes ==
  ASSUME IInv, NEW c \in NewChores, Chore(c)
  PROVE  Takes(head, head, {c})
  <1>1. WorksOf(tip'[head]) \subseteq WorksOf(tip[head]) \cup {c}
    <2>1. c \in Works
      BY DEF NewChores, Works
    <2>2. WorksOf(Committed(tip[head], {c})) = WorksOf(tip[head]) \cup {c}
      BY <2>1, CommittedFacts, BranchFacts
    <2> QED
      BY <2>2, BranchFacts DEF Chore, IInv, TypeOK
  <1>2. head \notin Tasks
    BY BranchAssumption DEF IInv, TypeOK, Shared
  <1> QED
    BY <1>1, <1>2 DEF Takes, Chore, NewChores, IInv, TypeOK

LEMMA CommitTakes ==
  ASSUME IInv, NEW t \in Tasks, CommitWorkspace(t), tree[t] = "ready"
  PROVE  Takes(t, t, {t} \X dirty[t])
  <1>1. /\ WorksOf(tip'[t]) = WorksOf(tip[t]) \cup ({t} \X dirty[t])
        /\ \A b \in Branches \ {t} : tip'[b] = tip[b]
    BY CommitTip DEF Grows, IInv, TypeOK
  <1>2. \A b \in Branches : ({t} \X dirty[t]) \cap WorksOf(tip[b]) = {}
    BY DEF IInv, CommittedIsMade, TypeOK
  <1>3. tree'[t] = "ready" /\ pc'[t] # "diverged"
    BY DEF CommitWorkspace, At, IInv, TypeOK
  <1> QED
    BY <1>1, <1>2, <1>3 DEF Takes

LEMMA MergeTakes ==
  ASSUME IInv, HeadIsTarget, ~mixed, NEW a \in Branches, Merged(a)
  PROVE  Takes(head, a, {})
  <1>1. /\ tip'[head] = tip[head] \cup tip[a]
        /\ \A b \in Branches \ {head} : tip'[b] = tip[b]
    BY BranchFacts DEF Merged, Merge, IInv, TypeOK
  <1>2. head \notin Tasks
    BY BranchAssumption DEF IInv, TypeOK, Shared
  <1>3. ASSUME a \in Tasks, Placed(a) PROVE head = Target(a)
    <2>1. pc[a] \notin {"idle", "begun"} /\ sprintOf[a] \in Sprints \cup {NoSprint}
      BY <1>3 DEF Merged, FastForward, At, IInv, TypeOK
    <2> QED
      BY <1>3, <2>1 DEF HeadIsTarget, Placed, Target
  <1> QED
    BY <1>1, <1>2, <1>3, UnionWorks DEF Takes, Merged

LEMMA RebaseTakes ==
  ASSUME IInv, NEW t \in Tasks, Rebase(t) \/ RebaseContinues(t)
  PROVE  Takes(t, Target(t), {})
  <1>0. t \in Branches /\ Target(t) \in Branches /\ Target(t) \notin Tasks
    BY BranchFacts, BranchAssumption DEF IInv, TypeOK, Target
  <1>1. PICK u \in SUBSET Commits : /\ tip' = [tip EXCEPT ![t] = Rebased(@, u)]
                                    /\ WorksOf(u) \subseteq WorksOf(tip[Target(t)])
    <2>1. CASE Rebase(t)
      BY <1>0, <2>1, BranchFacts DEF Rebase
    <2>2. CASE RebaseContinues(t)
      BY <2>2 DEF RebaseContinues, IInv, TypeOK, OntoIsTargets
    <2> QED
      BY <2>1, <2>2
  <1>2. /\ WorksOf(tip'[t]) = WorksOf(tip[t]) \cup WorksOf(u)
        /\ \A b \in Branches \ {t} : tip'[b] = tip[b]
    BY <1>0, <1>1, RebasedFacts, BranchFacts DEF IInv, TypeOK
  <1>3. tree'[t] = "ready" /\ pc'[t] # "diverged"
    BY DEF Rebase, RebaseContinues, EndRebase, worktrees, At, IInv, TypeOK
  <1> QED
    BY <1>0, <1>1, <1>2, <1>3 DEF Takes

LEMMA ShipRebaseTakes ==
  ASSUME IInv, NEW s \in Sprints, ShipRebase(s)
  PROVE  Takes(head, Main, {})
  <1>1. head \notin Tasks /\ Main \notin Tasks
    BY BranchAssumption DEF IInv, TypeOK, Shared
  <1>2. /\ WorksOf(tip'[head]) = WorksOf(tip[head]) \cup WorksOf(tip[Main])
        /\ \A b \in Branches \ {head} : tip'[b] = tip[b]
    BY RebasedFacts, BranchFacts DEF ShipRebase, IInv, TypeOK
  <1> QED
    BY <1>1, <1>2 DEF Takes

LEMMA EnsureTakes ==
  ASSUME IInv, NEW t \in Tasks, EnsureSprintBranch(t)
  PROVE  Takes(sprintOf[t], head, {})
  <1>1. head \notin Tasks /\ sprintOf[t] \in Branches \ Tasks
    BY BranchAssumption, BranchFacts DEF EnsureSprintBranch, IInv, TypeOK, Shared
  <1>2. tip'[sprintOf[t]] = tip[head] /\ \A b \in Branches \ {sprintOf[t]} : tip'[b] = tip[b]
    BY <1>1 DEF EnsureSprintBranch, IInv, TypeOK
  <1> QED
    BY <1>1, <1>2 DEF Takes

LEMMA CreateTakes ==
  ASSUME IInv, HeadIsTarget, NEW t \in Tasks \ born, CreateWorkspace(t)
  PROVE  \E a \in Branches : Takes(t, a, {})
  <1> DEFINE a == IF sprintOf[t] = NoSprint THEN head ELSE sprintOf[t]
  <1>1. /\ a \in Branches \ Tasks /\ t \in Branches
        /\ tip' = [tip EXCEPT ![t] = tip[a]]
    BY BranchAssumption, BranchFacts DEF CreateWorkspace, IInv, TypeOK, Shared
  <1>2. Placed(t) => a = Target(t)
    BY DEF Placed, Target, HeadIsTarget
  <1>3. tip'[t] = tip[a] /\ \A b \in Branches \ {t} : tip'[b] = tip[b]
    BY <1>1 DEF IInv, TypeOK
  <1>4. tree'[t] = "ready" /\ pc'[t] # "diverged"
    BY DEF CreateWorkspace, coroutines, IInv, TypeOK
  <1> HIDE DEF a
  <1>5. Takes(t, a, {})
    BY <1>1, <1>2, <1>3, <1>4 DEF Takes
  <1> QED
    BY <1>1, <1>5

LEMMA EveryTake ==
  ASSUME IInv, HeadIsTarget, ~mixed, [Next]_vars
  PROVE  tip' = tip \/ \E x, a \in Branches : \E new : Takes(x, a, new)
  <1> DEFINE Some == \E x, a \in Branches : \E new : Takes(x, a, new)
  <1>0. head \in Branches /\ Main \in Branches /\ Tasks \subseteq Branches
        /\ Sprints \subseteq Branches /\ \A t \in Tasks : Target(t) \in Branches
    BY BranchFacts
  <1>1. ASSUME NEW c \in NewChores, Chore(c) PROVE Some
    BY <1>0, <1>1, ChoreTakes
  <1>2. ASSUME NEW t \in Tasks, CommitWorkspace(t), tree[t] = "ready" PROVE Some
    BY <1>0, <1>2, CommitTakes
  <1>3. ASSUME NEW a \in Branches, Merged(a) PROVE Some
    BY <1>0, <1>3, MergeTakes
  <1>4. ASSUME NEW t \in Tasks, Rebase(t) \/ RebaseContinues(t) PROVE Some
    BY <1>0, <1>4, RebaseTakes
  <1>5. ASSUME NEW t \in Tasks, EnsureSprintBranch(t) PROVE Some
    <2>1. sprintOf[t] \in Branches
      BY <1>0, <1>5 DEF EnsureSprintBranch
    <2> QED
      BY <1>0, <1>5, <2>1, EnsureTakes
  <1>6. ASSUME NEW s \in Sprints, ShipRebase(s) PROVE Some
    BY <1>0, <1>6, ShipRebaseTakes
  <1>7. ASSUME NEW t \in Tasks \ born, CreateWorkspace(t) PROVE Some
    BY <1>0, <1>7, CreateTakes
  <1> QED
    BY <1>1, <1>2, <1>3, <1>4, <1>5, <1>6, <1>7, EveryTipMove DEF TipMove

LEMMA OwnStep ==
  ASSUME IInv, HeadIsTarget, Own, [Next]_vars
  PROVE  Own'
  <1> SUFFICES ASSUME ~mixed, NEW t \in Tasks, Placed(t), NEW b \in Branches \ {t},
                      NEW w \in WorksOf(tip'[t]), w \in WorksOf(tip'[b])
               PROVE  w \in WorksOf(tip'[Target(t)])
    <2>1. \A c \in Branches : WorksOf(tip[c])' = WorksOf(tip'[c])
      BY DEF WorksOf
    <2>2. \A u \in Tasks : WorksOf(tip[Target(u)])' = WorksOf(tip'[Target(u)])
      BY PlacedStays DEF WorksOf
    <2> QED
      BY <2>1, <2>2, MixedStays, PlacedStays, BranchFacts DEF Own
  <1>0. /\ WorksOf(tip[Target(t)]) \subseteq WorksOf(tip'[Target(t)])
        /\ t \in Branches /\ Target(t) \in Branches \ {t}
        /\ \A c \in Branches \ {t} :
              WorksOf(tip[t]) \cap WorksOf(tip[c]) \subseteq WorksOf(tip[Target(t)])
    BY BranchesKeep, BranchFacts, BranchAssumption DEF Own, Target, IInv, TypeOK
  <1>1. CASE tip' = tip
    BY <1>0, <1>1
  <1>2. ASSUME NEW x \in Branches, NEW a \in Branches, NEW new, Takes(x, a, new)
        PROVE  w \in WorksOf(tip'[Target(t)])
    <2>1. CASE x \notin {t, b}
      BY <1>0, <1>2, <2>1 DEF Takes
    <2>2. CASE x = t
      <3>1. w \in WorksOf(tip[b])
        BY <1>2, <2>2 DEF Takes
      <3>2. w \in WorksOf(tip[t]) \cup WorksOf(tip[Target(t)])
        BY <1>2, <2>2, <3>1 DEF Takes
      <3> QED
        BY <1>0, <3>1, <3>2
    <2>3. CASE x = b
      <3>1. w \in WorksOf(tip[t])
        BY <1>0, <1>2, <2>3 DEF Takes
      <3>2. w \in WorksOf(tip[b]) \cup WorksOf(tip[a])
        BY <1>0, <1>2, <2>3, <3>1 DEF Takes
      <3>3. CASE a = t
        BY <1>2, <2>3, <3>3 DEF Takes
      <3> QED
        BY <1>0, <3>1, <3>2, <3>3
    <2> QED
      BY <2>1, <2>2, <2>3
  <1> QED
    BY <1>1, <1>2, EveryTake

\* How a rebase, a divergence and a merge come about.
LEMMA StageStep ==
  ASSUME IInv, [Next]_vars, NEW t \in Tasks
  PROVE  /\ pc'[t] = "resolving" =>
               RebaseStops(t) \/ (pc[t] = "resolving" /\ onto'[t] = onto[t])
         /\ tree'[t] = "rebasing" \/ pc'[t] = "diverged" =>
               Diverged(t) \/ tree[t] = "rebasing" \/ pc[t] = "diverged"
         /\ pc'[t] = "merged" =>
               FastForward(t) \/ (pc[t] = "merged" /\ tree'[t] = tree[t])
  <1> DEFINE Stages ==
         /\ pc'[t] = "resolving" =>
               RebaseStops(t) \/ (pc[t] = "resolving" /\ onto'[t] = onto[t])
         /\ tree'[t] = "rebasing" \/ pc'[t] = "diverged" =>
               Diverged(t) \/ tree[t] = "rebasing" \/ pc[t] = "diverged"
         /\ pc'[t] = "merged" =>
               FastForward(t) \/ (pc[t] = "merged" /\ tree'[t] = tree[t])
  <1> USE DEF IInv, TypeOK, At
  <1>1. ASSUME NEW u \in Tasks, \/ EnsureSprintBranch(u) \/ CreateWorkspace(u) \/ Work(u)
                                \/ WorktreeGoes(u)
        PROVE  Stages
    BY <1>1 DEF EnsureSprintBranch, CreateWorkspace, Work, WorktreeGoes, worktrees, coroutines
  <1>2. ASSUME NEW u \in Tasks, \/ BeginIntegration(u) \/ CheckOutSprint(u)
                                \/ RemoveGeneratedArtifacts(u) \/ CommitWorkspace(u)
                                \/ FinishIntegration(u) \/ IntegrationFails(u)
        PROVE  Stages
    BY <1>2 DEF BeginIntegration, CheckOutSprint, RemoveGeneratedArtifacts, CommitWorkspace,
       FinishIntegration, IntegrationFails, worktrees
  <1>3. ASSUME NEW u \in Tasks, FastForward(u) \/ Diverged(u) \/ Rebase(u)
        PROVE  Stages
    <2>1. CASE u = t
      BY <1>3, <2>1 DEF FastForward, Diverged, Rebase, worktrees
    <2>2. CASE u # t
      BY <1>3, <2>2 DEF FastForward, Diverged, Rebase, worktrees
    <2> QED
      BY <2>1, <2>2
  <1>4. ASSUME NEW u \in Tasks, RebaseStops(u) \/ RebaseContinues(u) \/ RebaseAborts(u)
        PROVE  Stages
    <2>1. CASE u = t
      BY <1>4, <2>1 DEF RebaseStops, RebaseContinues, RebaseAborts, EndRebase
    <2>2. CASE u # t
      BY <1>4, <2>2 DEF RebaseStops, RebaseContinues, RebaseAborts, EndRebase
    <2> QED
      BY <2>1, <2>2
  <1>5. ASSUME NEW s \in Sprints, BeginShipment(s) \/ ShipmentStep(s)
        PROVE  Stages
    BY <1>5 DEF BeginShipment, ShipmentStep, CheckOutMain, ShipFastForward, ShipDiverged,
       CheckOutBranch, ShipRebase, FinishShipment, ShipmentFails, worktrees
  <1>6. Restart \/ UNCHANGED vars => Stages
    BY DEF Restart, vars, worktrees, coroutines
  <1> QED
    BY <1>1, <1>2, <1>3, <1>4, <1>5, <1>6 DEF Next, IntegrationStep

LEMMA OntoWholeStep ==
  ASSUME IInv, HeadIsTarget, Own, OntoIsWhole, [Next]_vars
  PROVE  OntoIsWhole'
  <1> SUFFICES ASSUME ~mixed, NEW t \in Tasks, Placed(t), pc'[t] = "resolving",
                      NEW w \in WorksOf(tip'[t]), w \in WorksOf(tip'[Target(t)])
               PROVE  w \in WorksOf(onto'[t])
    <2>1. \A u \in Tasks : /\ WorksOf(tip[u])' = WorksOf(tip'[u])
                          /\ WorksOf(onto[u])' = WorksOf(onto'[u])
                          /\ WorksOf(tip[Target(u)])' = WorksOf(tip'[Target(u)])
      BY PlacedStays DEF WorksOf
    <2> QED
      BY <2>1, MixedStays, PlacedStays DEF OntoIsWhole
  <1>0. /\ t \in Branches /\ Target(t) \in Branches \ {t}
        /\ \A c \in Branches \ {t} :
              WorksOf(tip[t]) \cap WorksOf(tip[c]) \subseteq WorksOf(tip[Target(t)])
    BY BranchFacts, BranchAssumption DEF Own, Target, IInv, TypeOK
  <1>1. CASE RebaseStops(t)
    BY <1>1 DEF RebaseStops, git, IInv, TypeOK
  <1>2. CASE pc[t] = "resolving" /\ onto'[t] = onto[t]
    <2>0. WorksOf(tip[t]) \cap WorksOf(tip[Target(t)]) \subseteq WorksOf(onto[t])
      BY <1>2 DEF OntoIsWhole
    <2>1. CASE tip' = tip
      BY <1>2, <2>0, <2>1
    <2>2. ASSUME NEW x \in Branches, NEW a \in Branches, NEW new, Takes(x, a, new)
          PROVE  w \in WorksOf(onto'[t])
      <3>1. x # t
        BY <2>2, TypeStep DEF Takes, TypeOK
      <3>2. w \in WorksOf(tip[t])
        BY <1>0, <2>2, <3>1 DEF Takes
      <3>3. a # t
        BY <1>2, <2>2, <3>1 DEF Takes, FastForward, At
      <3>4. w \in WorksOf(tip[Target(t)]) \cup WorksOf(tip[a])
        BY <1>0, <2>2, <3>2 DEF Takes
      <3> QED
        BY <1>0, <1>2, <2>0, <3>2, <3>3, <3>4
    <2> QED
      BY <2>1, <2>2, EveryTake
  <1>3. RebaseStops(t) \/ (pc[t] = "resolving" /\ onto'[t] = onto[t])
    BY StageStep
  <1> QED
    BY <1>1, <1>2, <1>3

-----------------------------------------------------------------------------
(* All lines of commits fit each other.                                    *)

LEMMA OntoMainStep ==
  ASSUME IInv, OntoIsMain, [Next]_vars
  PROVE  OntoIsMain'
  <1> SUFFICES ASSUME NEW t \in Tasks, sprintOf[t] = NoSprint
               PROVE  onto'[t] \subseteq tip'[Main]
    BY WorkStep DEF OntoIsMain
  <1>1. tip[Main] \subseteq tip'[Main] /\ onto[t] \subseteq tip[Main]
    BY BranchesKeep DEF OntoIsMain
  <1>2. CASE onto'[t] \in {onto[t], {}}
    BY <1>1, <1>2
  <1>3. CASE RebaseStops(t)
    <2>1. onto'[t] = tip[Main]
      BY <1>3 DEF RebaseStops, Target, IInv, TypeOK
    <2> QED
      BY <1>1, <2>1
  <1> QED
    BY <1>2, <1>3, EveryTipMove

LEMMA HistoryFacts ==
  ASSUME IInv
  PROVE  /\ {} \in Histories /\ \A b \in Branches : tip[b] \in Histories
         /\ \A t \in Tasks : onto[t] \in Histories
         /\ \A g \in Histories : g = {} \/ \E b \in Branches : WorksOf(g) \subseteq WorksOf(tip[b])
  <1>1. ASSUME NEW t \in Tasks
        PROVE  \E b \in Branches : WorksOf(onto[t]) \subseteq WorksOf(tip[b])
    BY BranchFacts DEF IInv, OntoIsTargets
  <1> QED
    BY <1>1 DEF Histories

\* A rebase starts from what its target has.
LEMMA OntoIsOld ==
  ASSUME IInv, [Next]_vars, NEW t \in Tasks
  PROVE  onto'[t] \in Histories
  <1>1. CASE onto'[t] \in {onto[t], {}}
    BY <1>1, HistoryFacts
  <1>2. CASE RebaseStops(t)
    <2>1. onto'[t] = tip[Target(t)]
      BY <1>2 DEF RebaseStops, IInv, TypeOK
    <2> QED
      BY <2>1, HistoryFacts, BranchFacts
  <1> QED
    BY <1>1, <1>2, EveryTipMove

\* One branch at most gets a new line of commits.
LEMMA HistoryStep ==
  ASSUME IInv, [Next]_vars, NEW x \in Branches, NEW new, tip' = [tip EXCEPT ![x] = new]
  PROVE  Histories' \subseteq Histories \cup {new}
  <1>1. ASSUME NEW b \in Branches PROVE tip'[b] \in Histories \cup {new}
    BY HistoryFacts DEF IInv, TypeOK
  <1>2. \A t \in Tasks : onto'[t] \in Histories
    BY OntoIsOld
  <1> QED
    BY <1>1, <1>2, HistoryFacts DEF Histories

LEMMA OldHistories ==
  ASSUME IInv, [Next]_vars, \A b \in Branches : tip'[b] \in Histories
  PROVE  Histories' \subseteq Histories
  BY OntoIsOld, HistoryFacts DEF Histories

\* The branch of a task in a sprint is rebased with work that nothing else has.
LEMMA RebaseAlone ==
  ASSUME IInv, [Next]_vars, ~mixed, Own, OntoIsWhole, Consistent(Histories, WorksOf(tip[Main])),
         NEW t \in Tasks, sprintOf[t] # NoSprint, Rebase(t) \/ RebaseContinues(t)
  PROVE  Consistent(Histories', WorksOf(tip'[Main]))
  <1>0. /\ t \in Branches \ {Main} /\ Target(t) \in Branches \ {t} /\ Main \in Branches
        /\ \A c \in Branches \ {t} :
              WorksOf(tip[t]) \cap WorksOf(tip[c]) \subseteq WorksOf(tip[Target(t)])
        /\ WorksOf(tip[Main]) \subseteq WorksOf(tip'[Main])
        /\ Placed(t)
    BY BranchFacts, BranchAssumption, BranchesKeep DEF Own, Target, Placed, IInv, TypeOK
  <1>1. PICK u \in Histories :
           /\ tip' = [tip EXCEPT ![t] = Rebased(tip[t], u)]
           /\ WorksOf(tip[t]) \cap WorksOf(tip[Target(t)]) \subseteq WorksOf(u)
           /\ \A v \in Tasks : onto'[v] \in {onto[v], {}}
    <2>1. CASE Rebase(t)
      BY <1>0, <2>1, HistoryFacts DEF Rebase
    <2>2. CASE RebaseContinues(t)
      BY <1>0, <2>2, HistoryFacts DEF RebaseContinues, EndRebase, OntoIsWhole, At, IInv, TypeOK
    <2> QED
      BY <2>1, <2>2
  <1> DEFINE moved == WorksOf(tip[t]) \ WorksOf(u)
  <1>2. ASSUME NEW c \in Branches \ {t} PROVE moved \cap WorksOf(tip[c]) = {}
    BY <1>0, <1>1
  <1>3. ASSUME NEW v \in Tasks PROVE moved \cap WorksOf(onto[v]) = {}
    <2>1. WorksOf(onto[v]) \subseteq WorksOf(tip[Target(v)])
      BY DEF IInv, OntoIsTargets
    <2>2. Target(v) \in Branches \ {t}
      BY BranchFacts, BranchAssumption DEF Target, IInv, TypeOK
    <2> QED
      BY <1>2, <2>1, <2>2
  <1>4. ASSUME NEW g \in Histories'
        PROVE  g = Rebased(tip[t], u) \/ (g \in Histories /\ moved \cap WorksOf(g) = {})
    <2>1. CASE g = {}
      BY <2>1, HistoryFacts DEF WorksOf
    <2>2. ASSUME NEW c \in Branches, g = tip'[c]
          PROVE  g = Rebased(tip[t], u) \/ (g \in Histories /\ moved \cap WorksOf(g) = {})
      BY <1>1, <1>2, <2>2, HistoryFacts DEF IInv, TypeOK
    <2>3. ASSUME NEW v \in Tasks, g = onto'[v]
          PROVE  g = Rebased(tip[t], u) \/ (g \in Histories /\ moved \cap WorksOf(g) = {})
      BY <1>1, <1>3, <2>1, <2>3, HistoryFacts
    <2> QED
      BY <2>1, <2>2, <2>3 DEF Histories
  <1> QED
    BY <1>0, <1>2, <1>4, HistoryFacts, AloneMore

LEMMA CoherentStep ==
  ASSUME IInv, Coherent, Own, OntoIsWhole, OntoIsMain, [Next]_vars
  PROVE  Coherent'
  <1> SUFFICES ASSUME ~mixed, Consistent(Histories, WorksOf(tip[Main]))
               PROVE  Consistent(Histories', WorksOf(tip'[Main]))
    <2>1. Consistent(Histories, WorksOf(tip[Main]))' <=> Consistent(Histories', WorksOf(tip'[Main]))
      BY DEF Consistent, Linear, Fits, SameOrder, Together, Grounded, WorksOf
    <2> QED
      BY <2>1, MixedStays DEF Coherent
  <1>0. /\ WorksOf(tip[Main]) \subseteq WorksOf(tip'[Main])
        /\ head \in Branches /\ Main \in Branches /\ Tasks \subseteq Branches
        /\ tip \in [Branches -> SUBSET Commits]
    BY BranchesKeep, BranchFacts DEF IInv, TypeOK
  <1>1. CASE \A b \in Branches : tip'[b] \in Histories
    BY <1>0, <1>1, OldHistories, Fewer
  <1>2. ASSUME NEW b \in Branches, NEW works, tip' = [tip EXCEPT ![b] = Committed(tip[b], works)],
               \A a \in Branches : WorksOf(tip[a]) \cap works = {}
        PROVE  Consistent(Histories', WorksOf(tip'[Main]))
    <2>1. \A g \in Histories : WorksOf(g) \cap works = {}
      <3> TAKE g \in Histories
      <3>1. CASE g = {}
        BY <3>1 DEF WorksOf
      <3> QED
        BY <1>2, <3>1, HistoryFacts
    <2>2. Histories' \subseteq Histories \cup {Committed(tip[b], works)}
      BY <1>2, HistoryStep
    <2>3. tip[b] \in Histories
      BY HistoryFacts
    <2> QED
      BY <1>0, <2>1, <2>2, <2>3, CommittedMore
  <1>3. ASSUME NEW b \in Branches, NEW u \in Histories, u \subseteq tip[Main],
               tip' = [tip EXCEPT ![b] = Rebased(tip[b], u)]
        PROVE  Consistent(Histories', WorksOf(tip'[Main]))
    <2>1. Histories' \subseteq Histories \cup {Rebased(tip[b], u)}
      BY <1>3, HistoryStep
    <2>2. tip[b] \in Histories /\ tip[Main] \in Histories
      BY <1>0, HistoryFacts
    <2> QED
      BY <1>0, <1>3, <2>1, <2>2, OnMainMore
  <1>4. CASE tip' = tip
    BY <1>1, <1>4, HistoryFacts
  <1>5. ASSUME NEW c \in NewChores, Chore(c)
        PROVE  Consistent(Histories', WorksOf(tip'[Main]))
    <2>1. tip' = [tip EXCEPT ![head] = Committed(tip[head], {c})]
      BY <1>5 DEF Chore
    <2>2. \A a \in Branches : WorksOf(tip[a]) \cap {c} = {}
      BY DEF NewChores
    <2> QED
      BY <1>0, <1>2, <2>1, <2>2
  <1>6. ASSUME NEW t \in Tasks, CommitWorkspace(t), tree[t] = "ready"
        PROVE  Consistent(Histories', WorksOf(tip'[Main]))
    <2>1. tip' = [tip EXCEPT ![t] = Committed(tip[t], {t} \X dirty[t])]
      BY <1>6 DEF CommitWorkspace
    <2>2. \A a \in Branches : WorksOf(tip[a]) \cap ({t} \X dirty[t]) = {}
      BY DEF IInv, CommittedIsMade, TypeOK
    <2> QED
      BY <1>0, <1>2, <2>1, <2>2
  <1>7. ASSUME NEW a \in Branches, Merged(a)
        PROVE  Consistent(Histories', WorksOf(tip'[Main]))
    <2>1. tip[head] \cup tip[a] \in {tip[head], tip[a]}
      BY <1>7 DEF Merged, CanMerge
    <2>2. \A b \in Branches : tip'[b] \in {tip[b], tip[a]}
      BY <1>0, <1>7, <2>1 DEF Merged, Merge
    <2> QED
      BY <1>1, <2>2, HistoryFacts
  <1>8. ASSUME NEW t \in Tasks, Rebase(t) \/ RebaseContinues(t)
        PROVE  Consistent(Histories', WorksOf(tip'[Main]))
    <2>1. CASE sprintOf[t] # NoSprint
      BY <1>8, <2>1, RebaseAlone
    <2>2. CASE sprintOf[t] = NoSprint
      <3>1. CASE Rebase(t)
        <4>1. tip' = [tip EXCEPT ![t] = Rebased(tip[t], tip[Main])]
          BY <2>2, <3>1 DEF Rebase, Target
        <4> QED
          BY <1>0, <1>3, <4>1, HistoryFacts
      <3>2. CASE RebaseContinues(t)
        <4>1. tip' = [tip EXCEPT ![t] = Rebased(tip[t], onto[t])] /\ onto[t] \subseteq tip[Main]
          BY <2>2, <3>2 DEF RebaseContinues, OntoIsMain
        <4> QED
          BY <1>0, <1>3, <4>1, HistoryFacts
      <3> QED
        BY <1>8, <3>1, <3>2
    <2> QED
      BY <2>1, <2>2
  <1>9. ASSUME NEW s \in Sprints, ShipRebase(s)
        PROVE  Consistent(Histories', WorksOf(tip'[Main]))
    <2>1. tip' = [tip EXCEPT ![head] = Rebased(tip[head], tip[Main])]
      BY <1>9 DEF ShipRebase
    <2> QED
      BY <1>0, <1>3, <2>1, HistoryFacts
  <1>10. ASSUME NEW t \in Tasks, EnsureSprintBranch(t)
         PROVE  Consistent(Histories', WorksOf(tip'[Main]))
    <2>1. \A b \in Branches : tip'[b] \in {tip[b], tip[head]}
      BY <1>0, <1>10 DEF EnsureSprintBranch
    <2> QED
      BY <1>0, <1>1, <2>1, HistoryFacts
  <1>11. ASSUME NEW t \in Tasks \ born, CreateWorkspace(t)
         PROVE  Consistent(Histories', WorksOf(tip'[Main]))
    <2>1. PICK a \in Branches : tip' = [tip EXCEPT ![t] = tip[a]]
      BY <1>0, <1>11, BranchFacts DEF CreateWorkspace, IInv, TypeOK
    <2>2. \A b \in Branches : tip'[b] \in {tip[b], tip[a]}
      BY <1>0, <2>1
    <2> QED
      BY <1>1, <2>2, HistoryFacts
  <1> QED
    BY <1>4, <1>5, <1>6, <1>7, <1>8, <1>9, <1>10, <1>11, EveryTipMove DEF TipMove

-----------------------------------------------------------------------------
(* What could not be merged stays so until it is rebased.                  *)

\* The task's branch a stays apart from its target b while b is merged into,
LEMMA ApartFromMerge ==
  ASSUME NEW a, NEW b, NEW c, Apart(a, b), Linear(c), b \cup c \in {b, c},
         WorksOf(a) \cap WorksOf(c) \subseteq WorksOf(b)
  PROVE  Apart(a, b \cup c)
  <1>1. CASE b \cup c = b
    BY <1>1
  <1>2. CASE b \cup c = c /\ a \subseteq c
    <2>1. ASSUME NEW d \in a PROVE d \in b
      <3>1. d.what \in WorksOf(b)
        BY <1>2, WorksHave
      <3>2. PICK e \in b : e.what = d.what
        BY <3>1, WorksHave
      <3> QED
        BY <1>2, <3>2 DEF Linear
    <2> QED
      BY <2>1 DEF Apart
  <1>3. CASE ~(a \subseteq c) /\ b \cup c = c
    BY <1>3 DEF Apart
  <1> QED
    BY <1>1, <1>2, <1>3

\* while new work is committed to b,
LEMMA ApartFromCommit ==
  ASSUME NEW a, NEW b, NEW works, Apart(a, b), WorksOf(a) \cap works = {}
  PROVE  Apart(a, Committed(b, works))
  <1>1. /\ b \subseteq Committed(b, works)
        /\ \A c \in Committed(b, works) \ b : c.what \in works
    BY CommittedParts
  <1>2. \A c \in a : c.what \in WorksOf(a)
    BY WorksHave
  <1> QED
    BY <1>1, <1>2 DEF Apart

\* and while b is rebased onto main.
LEMMA ApartFromRebase ==
  ASSUME NEW H, NEW a \in H, NEW b \in H, NEW m \in H, H \subseteq SUBSET Commits,
         Consistent(H, WorksOf(m)), Apart(a, b), WorksOf(a) \cap WorksOf(m) \subseteq WorksOf(b)
  PROVE  Apart(a, Rebased(b, m))
  <1> DEFINE x == Rebased(b, m)
  <1>0. /\ Linear(a) /\ Linear(b) /\ Linear(m) /\ Together(b, m)
        /\ Fits(b, m, WorksOf(m)) /\ Fits(m, b, WorksOf(m))
        /\ b \in SUBSET Commits /\ m \in SUBSET Commits
    BY DEF Consistent, Fits
  <1>1. m \subseteq b => x = b
    BY <1>0, RebasedOnPart
  <1>2. ASSUME WorksOf(m) \subseteq WorksOf(b) PROVE m \subseteq b
    <2>1. \A c \in m : c.upon \subseteq WorksOf(b) /\ c.what \in WorksOf(b)
      BY <1>0, <1>2, WorksHave DEF Linear
    <2> QED
      BY <1>0, <2>1, SameAsMain
  <1>3. PICK again :
           /\ m \subseteq x
           /\ \A c \in x \ m : \E d \in Moved(b, m) : c = again[d]
           /\ \A d \in Moved(b, m) :
                 /\ d \in b /\ d.what \notin WorksOf(m)
                 /\ again[d] \in x /\ again[d].what = d.what
                 /\ again[d].upon = WorksOf(m) \cup (d.upon \cap WorksOf(Moved(b, m)))
           /\ WorksOf(x) = WorksOf(b) \cup WorksOf(m)
    BY RebasedParts
  <1> HIDE DEF x
  <1>4. ASSUME x \subseteq a PROVE FALSE
    <2>1. WorksOf(m) \subseteq WorksOf(a)
      BY <1>3, <1>4, SubsetWorks
    <2>2. m \subseteq b
      BY <1>2, <2>1
    <2> QED
      BY <1>1, <1>4, <2>2 DEF Apart
  <1>5. ASSUME a \subseteq x PROVE FALSE
    <2>1. WorksOf(a) \subseteq WorksOf(b)
      BY <1>3, <1>5, SubsetWorks
    <2>2. PICK c \in a : c \notin b
      BY DEF Apart
    <2>3. c.upon \subseteq WorksOf(b) /\ c.what \in WorksOf(b)
      BY <1>0, <2>1, WorksHave DEF Linear
    <2>4. CASE c \in m
      BY <1>0, <2>2, <2>3, <2>4, SameAsMain
    <2>5. CASE c \notin m
      <3>1. WorksOf(m) \subseteq c.upon
        BY <1>3, <1>5, <2>5
      <3>2. x = b
        BY <1>1, <1>2, <2>3, <3>1
      <3> QED
        BY <1>5, <2>2, <3>2
    <2> QED
      BY <2>4, <2>5
  <1> QED
    BY <1>4, <1>5 DEF Apart, x

LEMMA StaysApartStep ==
  ASSUME IInv, OneTarget, HeadIsTarget, Coherent, Own, StaysApart, [Next]_vars
  PROVE  StaysApart'
  <1> SUFFICES ASSUME ~mixed, NEW t \in Tasks, Placed(t),
                      tree'[t] = "rebasing" \/ pc'[t] = "diverged"
               PROVE  Apart(tip'[t], tip'[Target(t)])
    <2>1. \A u \in Tasks : Apart(tip[u], tip[Target(u)])' <=> Apart(tip'[u], tip'[Target(u)])
      BY PlacedStays DEF Apart
    <2> QED
      BY <2>1, MixedStays, PlacedStays DEF StaysApart
  <1> DEFINE a == tip[t]
             b == tip[Target(t)]
  <1>0. /\ t \in Branches /\ Target(t) \in Branches \ {t} /\ Main \in Branches \ {t}
        /\ tip \in [Branches -> SUBSET Commits]
        /\ \A c \in Branches \ {t} : WorksOf(a) \cap WorksOf(tip[c]) \subseteq WorksOf(b)
        /\ \A g \in Histories : Linear(g)
        /\ \A c \in Branches : tip[c] \in Histories
    BY BranchFacts, BranchAssumption, HistoryFacts
       DEF Own, Target, IInv, TypeOK, Coherent, Consistent
  <1>1. CASE Diverged(t)
    <2>1. head = Target(t)
      BY <1>0, <1>1 DEF Diverged, At, HeadIsTarget, Placed, Target, IInv, TypeOK
    <2>2. tip' = tip /\ ~CanMerge(tip[t])
      BY <1>1 DEF Diverged, git
    <2> QED
      BY <2>1, <2>2 DEF CanMerge, Apart
  <1>2. CASE tree[t] = "rebasing" \/ pc[t] = "diverged"
    <2>0. Apart(a, b)
      BY <1>2 DEF StaysApart
    <2>1. tip'[t] = a
      BY <1>0, EveryTake DEF Takes
    <2> SUFFICES Apart(a, tip'[Target(t)])
      BY <2>1
    <2>2. CASE tip'[Target(t)] = b
      BY <2>0, <2>2
    <2>3. ASSUME NEW c \in NewChores, Chore(c), head = Target(t)
          PROVE  Apart(a, tip'[Target(t)])
      <3>1. tip'[Target(t)] = Committed(b, {c})
        BY <1>0, <2>3 DEF Chore
      <3>2. WorksOf(a) \cap {c} = {}
        BY <1>0 DEF NewChores
      <3> QED
        BY <2>0, <3>1, <3>2, ApartFromCommit
    <2>4. ASSUME NEW c \in Branches, Merged(c), head = Target(t)
          PROVE  Apart(a, tip'[Target(t)])
      <3>1. tip'[Target(t)] = b \cup tip[c] /\ b \cup tip[c] \in {b, tip[c]}
        BY <1>0, <2>4 DEF Merged, Merge, CanMerge
      <3>2. c # t
        BY <2>0, <2>4 DEF Merged, CanMerge, Apart
      <3>3. Linear(tip[c]) /\ WorksOf(a) \cap WorksOf(tip[c]) \subseteq WorksOf(b)
        BY <1>0, <3>2
      <3> HIDE DEF a, b
      <3> QED
        BY <2>0, <3>1, <3>3, ApartFromMerge
    <2>5. ASSUME NEW s \in Sprints, ShipRebase(s), head = Target(t)
          PROVE  Apart(a, tip'[Target(t)])
      <3>1. tip'[Target(t)] = Rebased(b, tip[Main])
        BY <1>0, <2>5 DEF ShipRebase
      <3>2. Histories \subseteq SUBSET Commits
        BY <1>0 DEF Histories, IInv, TypeOK
      <3>3. Consistent(Histories, WorksOf(tip[Main]))
        BY DEF Coherent
      <3> QED
        BY <1>0, <2>0, <3>1, <3>2, <3>3, ApartFromRebase
    <2>6. ASSUME NEW u \in Tasks, EnsureSprintBranch(u)
          PROVE  tip'[Target(t)] = b
      <3>1. sprintOf[u] \in Sprints \ born /\ tip' = [tip EXCEPT ![sprintOf[u]] = tip[head]]
        BY <2>6 DEF EnsureSprintBranch
      <3>2. tree[t] # "none"
        BY <1>2 DEF IInv, UsedIsBorn
      <3>3. Target(t) # sprintOf[u]
        BY <3>1, <3>2, BranchAssumption DEF IInv, UsedIsBorn, Target
      <3> QED
        BY <1>0, <3>1, <3>3
    <2>7. ASSUME NEW u \in Tasks, CommitWorkspace(u) \/ Rebase(u) \/ RebaseContinues(u)
                                    \/ CreateWorkspace(u)
          PROVE  tip'[Target(t)] = b
      <3>1. Target(t) # u
        BY BranchAssumption DEF Target, IInv, TypeOK
      <3> QED
        BY <1>0, <2>7, <3>1 DEF CommitWorkspace, Rebase, RebaseContinues, CreateWorkspace
    <2>8. CASE head # Target(t) /\ \/ \E c \in NewChores : Chore(c)
                                   \/ \E c \in Branches : Merged(c)
                                   \/ \E s \in Sprints : ShipRebase(s)
      <3>1. tip'[Target(t)] = b
        BY <1>0, <2>8 DEF Chore, Merged, Merge, ShipRebase
      <3> QED
        BY <2>2, <3>1
    <2> QED
      BY <2>2, <2>3, <2>4, <2>5, <2>6, <2>7, <2>8, EveryTipMove DEF TipMove
  <1> QED
    BY <1>1, <1>2, StageStep

LEMMA ClaimCleanStep ==
  ASSUME IInv, HeadIsTarget, StaysApart, ClaimIsClean, [Next]_vars
  PROVE  ClaimIsClean'
  <1> SUFFICES ASSUME ~mixed, NEW t \in Tasks, Placed(t)
               PROVE  /\ pc'[t] = "merged" => tree'[t] # "rebasing"
                      /\ claimed'[t] \cap dirty'[t] = {}
    BY MixedStays, PlacedStays DEF ClaimIsClean
  <1>0. TypeOK /\ UsedIsBorn /\ WorktreeIsClean /\ ClaimedIsMade
    BY DEF IInv
  <1>1. ASSUME pc'[t] = "merged", tree'[t] = "rebasing" PROVE FALSE
    <2>1. CASE FastForward(t)
      <3>1. tree[t] = "rebasing" /\ CanMerge(tip[t]) /\ pc[t] \notin {"idle", "begun"}
        BY <1>1, <2>1, <1>0 DEF FastForward, At, worktrees
      <3>2. head = Target(t)
        BY <1>0, <3>1 DEF HeadIsTarget, Placed, Target, TypeOK
      <3> QED
        BY <3>1, <3>2 DEF StaysApart, Apart, CanMerge
    <2>2. CASE pc[t] = "merged" /\ tree'[t] = tree[t]
      BY <1>1, <2>2 DEF ClaimIsClean
    <2> QED
      BY <1>1, <2>1, <2>2, StageStep
  <1>2. claimed'[t] \cap dirty'[t] = {}
    <2>0. claimed[t] \cap dirty[t] = {}
      BY DEF ClaimIsClean
    <2> USE <1>0, <2>0 DEF TypeOK, At
    <2>1. ASSUME NEW u \in Tasks, FinishIntegration(u)
          PROVE  claimed'[t] \cap dirty'[t] = {}
      <3>1. dirty'[t] = dirty[t]
        BY <2>1 DEF FinishIntegration, worktrees
      <3>2. CASE u = t
        <4>1. pc[t] = "merged" /\ tree[t] # "none"
          BY <2>1, <3>2 DEF FinishIntegration, UsedIsBorn
        <4>2. tree[t] = "ready"
          BY <4>1 DEF ClaimIsClean
        <4>3. dirty[t] = {}
          BY <4>1, <4>2 DEF WorktreeIsClean
        <4> QED
          BY <3>1, <4>3
      <3>3. CASE u # t
        BY <2>1, <3>1, <3>3 DEF FinishIntegration
      <3> QED
        BY <3>2, <3>3
    <2>2. ASSUME NEW u \in Tasks, Work(u)
          PROVE  claimed'[t] \cap dirty'[t] = {}
      <3>1. /\ claimed' = claimed
            /\ \E n \in Rounds \ made[u] : dirty' = [dirty EXCEPT ![u] = @ \cup {n}]
        BY <2>2 DEF Work
      <3> QED
        BY <3>1 DEF ClaimedIsMade
    <2>3. ASSUME NEW u \in Tasks, WorktreeGoes(u)
          PROVE  claimed'[t] \cap dirty'[t] = {}
      BY <2>3 DEF WorktreeGoes
    <2>4. ASSUME NEW u \in Tasks, CommitWorkspace(u)
          PROVE  claimed'[t] \cap dirty'[t] = {}
      <3>1. claimed' = claimed /\ dirty'[t] \subseteq dirty[t]
        BY <2>4 DEF CommitWorkspace, history
      <3> QED
        BY <3>1
    <2>5. ASSUME NEW u \in Tasks, \/ EnsureSprintBranch(u) \/ CreateWorkspace(u)
                                  \/ BeginIntegration(u)
                                  \/ IntegrationStep(u) /\ ~FinishIntegration(u)
                                                        /\ ~CommitWorkspace(u)
          PROVE  claimed' = claimed /\ dirty' = dirty
      BY <2>5 DEF EnsureSprintBranch, CreateWorkspace, BeginIntegration, IntegrationStep,
         CheckOutSprint, RemoveGeneratedArtifacts, FastForward, Diverged, Rebase, RebaseStops,
         RebaseContinues, RebaseAborts, IntegrationFails, EndRebase, worktrees, history
    <2>6. ASSUME NEW s \in Sprints, BeginShipment(s) \/ ShipmentStep(s)
          PROVE  claimed' = claimed /\ dirty' = dirty
      BY <2>6 DEF BeginShipment, ShipmentStep, CheckOutMain, ShipFastForward, ShipDiverged,
         CheckOutBranch, ShipRebase, FinishShipment, ShipmentFails, worktrees, history
    <2>7. Restart \/ UNCHANGED vars => claimed' = claimed /\ dirty' = dirty
      BY DEF Restart, vars, worktrees, history
    <2> QED
      BY <2>1, <2>2, <2>3, <2>4, <2>5, <2>6, <2>7 DEF Next
  <1> QED
    BY <1>1, <1>2

LEMMA InitRInv ==
  Init => RInv
  <1> SUFFICES ASSUME Init PROVE RInv
    OBVIOUS
  <1>1. \A b \in Branches : tip[b] = {}
    BY DEF Init
  <1>2. \A t \in Tasks : /\ onto[t] = {} /\ tree[t] = "none" /\ pc[t] = "idle"
                        /\ claimed[t] = {}
    BY DEF Init
  <1>3. \A g \in Histories : g = {}
    BY <1>1, <1>2 DEF Histories
  <1>4. Coherent
    <2>1. Linear({}) /\ \A m : Fits({}, {}, m)
      BY DEF Linear, Fits, SameOrder, Together, Grounded
    <2> QED
      BY <1>3, <2>1 DEF Coherent, Consistent
  <1>5. Own /\ OntoIsWhole
    BY <1>1, <1>2 DEF Own, OntoIsWhole, WorksOf
  <1>6. OntoIsMain /\ StaysApart /\ ClaimIsClean
    BY <1>2 DEF OntoIsMain, StaysApart, ClaimIsClean
  <1> QED
    BY <1>4, <1>5, <1>6 DEF RInv

LEMMA KeepsRInv ==
  IInv /\ TInv /\ RInv /\ [Next]_vars => RInv'
  <1> SUFFICES ASSUME IInv, TInv, RInv, [Next]_vars PROVE RInv'
    OBVIOUS
  <1> QED
    BY CoherentStep, OwnStep, OntoWholeStep, OntoMainStep, StaysApartStep, ClaimCleanStep
    DEF RInv, TInv

-----------------------------------------------------------------------------
(* Theorems.                                                               *)

\* While targets do not overlap, a task's branch shares no work with other
\* branches but what its target has, the works that branches share stand in the
\* same order, and a branch that had diverged from its target cannot be
\* fast-forwarded before it is rebased: a worktree that a crash has left in a
\* rebase is never reported as merged.
THEOREM RebaseInvariant ==
  Spec => [](IInv /\ TInv /\ RInv)
  BY InitIInv, InitTInv, InitRInv, KeepsIInv, KeepsTInv, KeepsRInv, PTL DEF Spec

\* Work reported as integrated (integrate_task_workspace) is in the branch it
\* was meant for, if integrations into different branches have not overlapped
\* and, for a task without a sprint, if no task has one; wherever a crash has
\* left worktrees.
THEOREM ClaimedWorkIsInItsTarget ==
  Spec => []ClaimedIsInTarget
  <1>1. IInv /\ TInv /\ RInv => ClaimedIsInTarget
    <2> SUFFICES ASSUME IInv, TInv, RInv, ~mixed, NEW t \in Tasks, Placed(t)
                 PROVE  {t} \X claimed[t] \subseteq WorksOf(tip[Target(t)])
      BY DEF ClaimedIsInTarget, In, Placed, NoSprints
    <2>1. claimed[t] \cap dirty[t] = {}
      BY DEF RInv, ClaimIsClean
    <2>2. \A n \in claimed[t] : <<t, n>> \in WorksOf(tip[Target(t)])
      BY <2>1 DEF TInv, SettledClaimIsInTarget
    <2> QED
      BY <2>2
  <1> QED
    BY <1>1, RebaseInvariant, PTL

\* A sprint that is reported as merged (sprint_maybe_ff_merge) has all of its
\* work in main, under the same condition.
THEOREM ShippedWorkIsInMain ==
  Spec => []ShippedIsInMain
  <1>1. IInv /\ TInv /\ RInv => ShippedIsInMain
    <2> SUFFICES ASSUME IInv, TInv, RInv, ~mixed, NEW s \in shipped, NEW t \in TasksOf(s)
                 PROVE  {t} \X made[t] \subseteq WorksOf(tip[Main])
      BY DEF ShippedIsInMain, In
    <2>0. s \in Sprints /\ t \in Tasks /\ claimed[t] = made[t] /\ Placed(t)
      BY BranchAssumption DEF IInv, TInv, TypeOK, ShippedIsClaimed, TasksOf, Placed
    <2>1. made[t] \cap dirty[t] = {}
      BY <2>0 DEF RInv, ClaimIsClean
    <2>2. \A n \in made[t] : <<t, n>> \in WorksOf(tip[Main])
      BY <2>0, <2>1 DEF TInv, SettledShipmentIsInMain
    <2> QED
      BY <2>2
  <1> QED
    BY <1>1, RebaseInvariant, PTL
=============================================================================
