--------------------------- MODULE WorkspaceProofs ---------------------------
(***************************************************************************)
(* Proofs about WorkspaceIntegration for any tasks, sprints and amount of  *)
(* work.  Merges and rebases only ever add work to a branch, and what they *)
(* add was on another branch before; from these two facts follows what     *)
(* becomes of the work that is done, committed and claimed.                *)
(***************************************************************************)
EXTENDS WorkspaceIntegration, TLAPS

\* A branch that does not exist has no commits.
Unborn == \A b \in Branches \ born : tip[b] = {}

\* Branches exist before they are used.
UsedIsBorn ==
    /\ \A t \in Tasks :
           /\ tree[t] # "none" => t \in born
           /\ tree[t] # "none" \/ made[t] # {} => sprintOf[t] \in born \cup {NoSprint}
           /\ pc[t] # "idle" => tree[t] # "none"
           /\ pc[t] \in {"begun", "checkedOut"} => sprintOf[t] \in Sprints
    /\ \A s \in Sprints : ship[s] # "idle" => s \in born

DirtyIsMade == \A t \in Tasks : dirty[t] \subseteq made[t]

\* Work on a branch has been done and is not waiting in the worktree as well.
CommittedIsMade ==
    \A b \in Branches, t \in Tasks, n \in Rounds :
        <<t, n>> \in WorksOf(tip[b]) => n \in made[t] \ dirty[t]

\* Work that is not waiting in the worktree is on the task's branch.
MadeIsCommitted ==
    \A t \in Tasks : \A n \in made[t] \ dirty[t] : <<t, n>> \in WorksOf(tip[t])

\* A rebase under way goes onto what its target has.
OntoIsTargets == \A t \in Tasks : WorksOf(onto[t]) \subseteq WorksOf(tip[Target(t)])

MergedIsShared ==
    \A t \in Tasks : pc[t] = "merged" =>
        \E b \in Shared : WorksOf(tip[t]) \subseteq WorksOf(tip[b])

ClaimedIsMade == \A t \in Tasks : claimed[t] \subseteq made[t]

\* What is committed does not wait in the worktree, and neither does what is
\* claimed, unless a crash has left the worktree in a rebase.
WorktreeIsClean ==
    \A t \in Tasks :
        /\ tree[t] = "ready" => claimed[t] \cap dirty[t] = {}
        /\ tree[t] = "none" \/ pc[t] = "resolving" => dirty[t] = {}
        /\ tree[t] = "ready" /\ pc[t] \in {"committed", "diverged", "rebased", "merged"} =>
              dirty[t] = {}

\* A sprint is merged while nobody works on its tasks.
ShippingIsAlone ==
    \A s \in Sprints : ship[s] # "idle" =>
        /\ TasksOf(s) # {}
        /\ \A t \in TasksOf(s) : pc[t] = "idle" /\ claimed[t] = made[t]

OneSprint == \A t, u \in Tasks : sprintOf[t] = sprintOf[u]

\* With one sprint its branch stays checked out during an integration.
TargetIsCheckedOut ==
    OneSprint => \A t \in Tasks :
        sprintOf[t] \in Sprints /\ pc[t] \notin {"idle", "begun"} => head = sprintOf[t]

IInv ==
    /\ TypeOK /\ Unborn /\ UsedIsBorn /\ DirtyIsMade /\ CommittedIsMade
    /\ MadeIsCommitted /\ OntoIsTargets /\ MergedIsShared /\ ClaimedIsMerged /\ ClaimedIsMade
    /\ WorktreeIsClean /\ ShippingIsAlone /\ TargetIsCheckedOut /\ MainWaitsForShipment

-----------------------------------------------------------------------------
(* What git does.                                                          *)

LEMMA UnionWorks ==
  ASSUME NEW a, NEW b
  PROVE  WorksOf(a \cup b) = WorksOf(a) \cup WorksOf(b)
  BY DEF WorksOf

LEMMA SubsetWorks ==
  ASSUME NEW a, NEW b, a \subseteq b
  PROVE  WorksOf(a) \subseteq WorksOf(b)
  BY DEF WorksOf

LEMMA WorksType ==
  ASSUME NEW b \in SUBSET Commits
  PROVE  WorksOf(b) \subseteq Works
  BY DEF WorksOf, Commits

\* A commit adds its works and nothing else.
LEMMA CommittedFacts ==
  ASSUME NEW b \in SUBSET Commits, NEW works \in SUBSET Works
  PROVE  /\ Committed(b, works) \in SUBSET Commits /\ b \subseteq Committed(b, works)
         /\ WorksOf(Committed(b, works)) = WorksOf(b) \cup works
  <1> DEFINE commit(w) == [what |-> w, upon |-> WorksOf(b)]
  <1>1. \A w : commit(w).what = w
    OBVIOUS
  <1>2. \A w \in works : commit(w) \in Commits
    BY WorksType DEF Commits
  <1> HIDE DEF commit
  <1>3. WorksOf({commit(w) : w \in works}) = works
    BY <1>1 DEF WorksOf
  <1>4. Committed(b, works) = b \cup {commit(w) : w \in works}
    BY DEF Committed, commit
  <1> QED
    BY <1>2, <1>3, <1>4, UnionWorks

\* A rebase brings the work of both branches together on top of one of them.
LEMMA RebasedFacts ==
  ASSUME NEW b \in SUBSET Commits, NEW u \in SUBSET Commits
  PROVE  /\ Rebased(b, u) \in SUBSET Commits /\ u \subseteq Rebased(b, u)
         /\ WorksOf(Rebased(b, u)) = WorksOf(b) \cup WorksOf(u)
         /\ Rebased(b, b) = b
  <1> DEFINE own == {c \in b \ u : c.what \notin WorksOf(u)}
             again(c) == [what |-> c.what, upon |-> WorksOf(u) \cup (c.upon \cap WorksOf(own))]
  <1>1. \A c : again(c).what = c.what
    OBVIOUS
  <1>2. WorksOf(own) \subseteq Works /\ WorksOf(u) \subseteq Works
    BY WorksType
  <1>3. \A c \in own : again(c) \in Commits
    <2> TAKE c \in own
    <2>1. c.what \in Works
      BY DEF Commits
    <2> QED
      BY <1>2, <2>1 DEF Commits
  <1>4. Rebased(b, u) = u \cup {again(c) : c \in own}
    BY DEF Rebased
  <1>5. WorksOf(own) \cup WorksOf(u) = WorksOf(b) \cup WorksOf(u)
    BY DEF WorksOf
  <1>6. Rebased(b, b) = b
    BY DEF Rebased
  <1> HIDE DEF again, own
  <1>7. WorksOf({again(c) : c \in own}) = WorksOf(own)
    BY <1>1 DEF WorksOf
  <1> QED
    BY <1>3, <1>4, <1>5, <1>6, <1>7, UnionWorks
-----------------------------------------------------------------------------
(* What a step does to the branches.                                       *)

\* Work that a step takes from a worktree to a branch.
Settling == {w \in Tasks \X Rounds : w[2] \in dirty[w[1]] /\ w[2] \notin dirty'[w[1]]
                                                        /\ made' = made}

Sources == UNION {WorksOf(tip[a]) : a \in Branches}

\* A branch gets new commits: it loses no work, main loses no commit, and what
\* work it gains was on a branch before or comes from a worktree.
Grows(b, c) ==
    /\ tip' = [tip EXCEPT ![b] = c]
    /\ WorksOf(tip[b]) \subseteq WorksOf(c) /\ (b = Main => tip[b] \subseteq c)
    /\ WorksOf(c) \subseteq Sources \cup Chores \cup Settling

LEMMA BranchFacts ==
  ASSUME IInv
  PROVE  /\ Main \in Branches /\ head \in Branches /\ Tasks \subseteq Branches
         /\ Sprints \subseteq Branches /\ Main \notin Tasks \cup Sprints
         /\ \A b \in Branches : tip[b] \in SUBSET Commits
         /\ \A t \in Tasks : Target(t) \in Branches
         /\ \A b \in Branches : WorksOf(tip[b]) \subseteq Sources
  <1>1. \A b \in Branches : WorksOf(tip[b]) \subseteq Sources
    BY DEF Sources
  <1> QED
    BY <1>1, BranchAssumption DEF IInv, TypeOK, Branches, Shared, Target

LEMMA MergeGrows ==
  ASSUME IInv, NEW b \in Branches, Merge(tip[b])
  PROVE  Grows(head, tip[head] \cup tip[b])
  <1>1. WorksOf(tip[head] \cup tip[b]) = WorksOf(tip[head]) \cup WorksOf(tip[b])
    BY UnionWorks
  <1> QED
    BY <1>1, BranchFacts DEF Merge, Grows

LEMMA ChoreGrows ==
  ASSUME IInv, NEW c \in NewChores, tip' = [tip EXCEPT ![head] = Committed(@, {c})]
  PROVE  Grows(head, Committed(tip[head], {c})) /\ Committed(tip[head], {c}) \in SUBSET Commits
  <1>1. {c} \in SUBSET Works /\ {c} \subseteq Chores
    BY DEF NewChores, Works
  <1>2. /\ WorksOf(Committed(tip[head], {c})) = WorksOf(tip[head]) \cup {c}
        /\ tip[head] \subseteq Committed(tip[head], {c})
        /\ Committed(tip[head], {c}) \in SUBSET Commits
    BY <1>1, CommittedFacts, BranchFacts
  <1> QED
    BY <1>1, <1>2, BranchFacts DEF Grows

LEMMA RebaseGrows ==
  ASSUME IInv, NEW b \in Branches, NEW u \in SUBSET Commits, WorksOf(u) \subseteq Sources,
         b = Main => u = tip[Main], tip' = [tip EXCEPT ![b] = Rebased(@, u)]
  PROVE  Grows(b, Rebased(tip[b], u)) /\ Rebased(tip[b], u) \in SUBSET Commits
  <1>1. /\ WorksOf(Rebased(tip[b], u)) = WorksOf(tip[b]) \cup WorksOf(u)
        /\ Rebased(tip[b], u) \in SUBSET Commits
        /\ b = Main => Rebased(tip[b], u) = tip[b]
    BY RebasedFacts, BranchFacts
  <1> QED
    BY <1>1, BranchFacts DEF Grows

\* A step that is not of these leaves all branches alone.
TipStep ==
    \/ tip' = tip
    \/ \E b \in Branches \cap born', c \in SUBSET Commits : Grows(b, c)

LEMMA ChoreTip ==
  ASSUME IInv, MayCommitChore, born' = born
  PROVE  TipStep
  <1>1. CASE tip' = tip
    BY <1>1 DEF TipStep
  <1>2. ASSUME NEW c \in NewChores, tip' = [tip EXCEPT ![head] = Committed(@, {c})]
        PROVE  TipStep
    BY <1>2, ChoreGrows, BranchFacts DEF TipStep, IInv, TypeOK
  <1> QED
    BY <1>1, <1>2 DEF MayCommitChore

LEMMA MergeTip ==
  ASSUME IInv, NEW b \in Branches, Merge(tip[b]), born' = born
  PROVE  TipStep
  <1>1. tip[head] \cup tip[b] \in SUBSET Commits /\ head \in Branches \cap born
    BY BranchFacts DEF IInv, TypeOK
  <1> QED
    BY <1>1, MergeGrows DEF TipStep

LEMMA CommitTip ==
  ASSUME IInv, NEW t \in Tasks, CommitWorkspace(t), tree[t] = "ready"
  PROVE  Grows(t, Committed(tip[t], {t} \X dirty[t])) /\ t \in born
         /\ Committed(tip[t], {t} \X dirty[t]) \in SUBSET Commits
         /\ WorksOf(tip'[t]) = WorksOf(tip[t]) \cup ({t} \X dirty[t])
  <1>1. {t} \X dirty[t] \in SUBSET Works
    BY DEF IInv, TypeOK, Works
  <1>2. /\ WorksOf(Committed(tip[t], {t} \X dirty[t])) = WorksOf(tip[t]) \cup ({t} \X dirty[t])
        /\ Committed(tip[t], {t} \X dirty[t]) \in SUBSET Commits
    BY <1>1, CommittedFacts, BranchFacts
  <1>3. {t} \X dirty[t] \subseteq Settling
    <2>1. dirty[t] \subseteq Rounds /\ dirty'[t] = {} /\ made' = made
      BY DEF CommitWorkspace, IInv, TypeOK, history
    <2> QED
      BY <2>1 DEF Settling
  <1>4. tip' = [tip EXCEPT ![t] = Committed(tip[t], {t} \X dirty[t])] /\ t \in born
    BY DEF CommitWorkspace, IInv, UsedIsBorn
  <1> QED
    BY <1>2, <1>3, <1>4, BranchFacts DEF Grows, IInv, TypeOK

\* A branch that is made takes over the commits of another.
LEMMA ForkTip ==
  ASSUME IInv, NEW b \in Branches \ born, NEW a \in Branches, b \in born',
         tip' = [tip EXCEPT ![b] = tip[a]]
  PROVE  TipStep
  <1>1. Grows(b, tip[a])
    <2>1. tip[b] = {} /\ WorksOf(tip[b]) = {}
      BY DEF IInv, Unborn, WorksOf
    <2> QED
      BY <2>1, BranchFacts DEF Grows
  <1> QED
    BY <1>1, BranchFacts DEF TipStep

LEMMA EveryTipStep ==
  ASSUME IInv, [Next]_vars
  PROVE  TipStep
  <1> USE DEF TipStep
  <1>1. ASSUME NEW t \in Tasks, EnsureSprintBranch(t) PROVE TipStep
    BY <1>1, ForkTip, BranchFacts DEF EnsureSprintBranch
  <1>2. ASSUME NEW t \in Tasks, CreateWorkspace(t) PROVE TipStep
    <2>1. CASE t \in born
      BY <1>2, <2>1 DEF CreateWorkspace
    <2>2. CASE t \notin born
      <3> DEFINE a == IF sprintOf[t] = NoSprint THEN head ELSE sprintOf[t]
      <3>1. a \in Branches /\ tip' = [tip EXCEPT ![t] = tip[a]] /\ t \in born'
        BY <1>2, <2>2, BranchFacts DEF CreateWorkspace, IInv, TypeOK
      <3> HIDE DEF a
      <3> QED
        BY <2>2, <3>1, ForkTip, BranchFacts
    <2> QED
      BY <2>1, <2>2
  <1>3. ASSUME NEW t \in Tasks, RemoveGeneratedArtifacts(t) \/ FinishIntegration(t)
        PROVE  TipStep
    BY <1>3, ChoreTip DEF RemoveGeneratedArtifacts, FinishIntegration
  <1>4. ASSUME NEW t \in Tasks, CommitWorkspace(t) PROVE TipStep
    <2>1. CASE tree[t] = "ready"
      BY <1>4, <2>1, CommitTip, BranchFacts DEF CommitWorkspace
    <2>2. CASE tree[t] # "ready"
      BY <1>4, <2>2 DEF CommitWorkspace
    <2> QED
      BY <2>1, <2>2
  <1>5. ASSUME NEW t \in Tasks, FastForward(t) PROVE TipStep
    BY <1>5, MergeTip, BranchFacts DEF FastForward
  <1>6. ASSUME NEW t \in Tasks, Rebase(t) PROVE TipStep
    <2>1. /\ t \in Branches \cap born' /\ t # Main /\ Target(t) \in Branches
          /\ tip' = [tip EXCEPT ![t] = Rebased(@, tip[Target(t)])]
      BY <1>6, BranchFacts DEF Rebase, IInv, UsedIsBorn
    <2> QED
      BY <2>1, RebaseGrows, BranchFacts
  <1>7. ASSUME NEW t \in Tasks, RebaseContinues(t) PROVE TipStep
    <2>1. /\ t \in Branches \cap born' /\ t # Main
          /\ tip' = [tip EXCEPT ![t] = Rebased(@, onto[t])]
      BY <1>7, BranchFacts DEF RebaseContinues, At, IInv, UsedIsBorn
    <2>2. onto[t] \in SUBSET Commits /\ WorksOf(onto[t]) \subseteq Sources
      BY BranchFacts DEF IInv, TypeOK, OntoIsTargets
    <2> QED
      BY <2>1, <2>2, RebaseGrows
  <1>8. ASSUME NEW s \in Sprints, ShipFastForward(s) PROVE TipStep
    BY <1>8, MergeTip, BranchFacts DEF ShipFastForward
  <1>9. ASSUME NEW s \in Sprints, ShipRebase(s) PROVE TipStep
    <2>1. /\ head \in Branches \cap born'
          /\ tip' = [tip EXCEPT ![head] = Rebased(@, tip[Main])]
      BY <1>9, BranchFacts DEF ShipRebase, IInv, TypeOK
    <2> QED
      BY <2>1, RebaseGrows, BranchFacts
  <1>10. ASSUME NEW s \in Sprints, FinishShipment(s) PROVE TipStep
    BY <1>10, ChoreTip DEF FinishShipment
  <1>11. ASSUME NEW t \in Tasks,
                \/ Work(t) \/ WorktreeGoes(t) \/ BeginIntegration(t) \/ CheckOutSprint(t)
                \/ Diverged(t) \/ RebaseStops(t) \/ RebaseAborts(t) \/ IntegrationFails(t)
         PROVE  tip' = tip
    BY <1>11 DEF Work, WorktreeGoes, BeginIntegration, CheckOutSprint, Diverged, RebaseStops,
                 RebaseAborts, IntegrationFails, git
  <1>12. ASSUME NEW s \in Sprints,
                \/ BeginShipment(s) \/ CheckOutMain(s) \/ ShipDiverged(s) \/ CheckOutBranch(s)
                \/ ShipmentFails(s)
         PROVE  tip' = tip
    BY <1>12 DEF BeginShipment, CheckOutMain, ShipDiverged, CheckOutBranch, ShipmentFails, git
  <1>13. Restart \/ UNCHANGED vars => tip' = tip
    BY DEF Restart, vars, git
  <1> QED
    BY <1>1, <1>2, <1>3, <1>4, <1>5, <1>6, <1>7, <1>8, <1>9, <1>10, <1>11, <1>12, <1>13
    DEF Next, IntegrationStep, ShipmentStep
\* Main keeps its commits, every branch keeps its work.
LEMMA BranchesKeep ==
  ASSUME IInv, [Next]_vars
  PROVE  /\ tip' \in [Branches -> SUBSET Commits] /\ tip[Main] \subseteq tip'[Main]
         /\ \A b \in Branches : WorksOf(tip[b]) \subseteq WorksOf(tip'[b])
  <1>1. CASE tip' = tip
    BY <1>1, BranchFacts DEF IInv, TypeOK
  <1>2. ASSUME NEW b \in Branches, NEW c \in SUBSET Commits, Grows(b, c)
        PROVE  /\ tip' \in [Branches -> SUBSET Commits] /\ tip[Main] \subseteq tip'[Main]
               /\ \A a \in Branches : WorksOf(tip[a]) \subseteq WorksOf(tip'[a])
    <2>1. \A a \in Branches : tip'[a] = IF a = b THEN c ELSE tip[a]
      BY <1>2 DEF Grows, IInv, TypeOK
    <2>2. tip' \in [Branches -> SUBSET Commits]
      BY <1>2 DEF Grows, IInv, TypeOK
    <2>3. tip[Main] \subseteq tip'[Main]
      BY <1>2, <2>1, BranchFacts DEF Grows
    <2>4. ASSUME NEW a \in Branches PROVE WorksOf(tip[a]) \subseteq WorksOf(tip'[a])
      BY <1>2, <2>1 DEF Grows
    <2> QED
      BY <2>2, <2>3, <2>4
  <1> QED
    BY <1>1, <1>2, EveryTipStep DEF TipStep

\* Work comes from another branch or from a worktree.
LEMMA WorkHasSource ==
  ASSUME IInv, [Next]_vars, NEW b \in Branches
  PROVE  WorksOf(tip'[b]) \subseteq Sources \cup Chores \cup Settling
  <1>1. CASE tip' = tip
    BY <1>1, BranchFacts
  <1>2. ASSUME NEW a \in Branches, NEW c \in SUBSET Commits, Grows(a, c)
        PROVE  WorksOf(tip'[b]) \subseteq Sources \cup Chores \cup Settling
    <2>1. tip'[b] = IF b = a THEN c ELSE tip[b]
      BY <1>2 DEF Grows, IInv, TypeOK
    <2> QED
      BY <1>2, <2>1, BranchFacts DEF Grows
  <1> QED
    BY <1>1, <1>2, EveryTipStep DEF TipStep

LEMMA UnbornStays ==
  ASSUME IInv, [Next]_vars, NEW b \in Branches \ born'
  PROVE  tip'[b] = tip[b]
  BY EveryTipStep DEF TipStep, Grows, IInv, TypeOK

-----------------------------------------------------------------------------
(* The invariant is kept.                                                  *)

LEMMA TypeStep ==
  ASSUME IInv, [Next]_vars
  PROVE  TypeOK'
  <1>0. TypeOK /\ UsedIsBorn /\ tip' \in [Branches -> SUBSET Commits] /\ Main \in Shared
    BY BranchesKeep DEF IInv, Shared
  <1> USE <1>0 DEF TypeOK, TaskPcs, ShipPcs, At, ShipAt
  <1>1. ASSUME NEW t \in Tasks, EnsureSprintBranch(t) \/ CreateWorkspace(t)
        PROVE  TypeOK'
    BY <1>1 DEF EnsureSprintBranch, CreateWorkspace, Branches, Shared, worktrees, coroutines, history
  <1>2. ASSUME NEW t \in Tasks, Work(t) \/ WorktreeGoes(t)
        PROVE  TypeOK'
    BY <1>2 DEF Work, WorktreeGoes, git, coroutines
  <1>3. ASSUME NEW t \in Tasks, BeginIntegration(t) \/ RemoveGeneratedArtifacts(t)
                                 \/ CommitWorkspace(t) \/ FinishIntegration(t)
        PROVE  TypeOK'
    BY <1>3 DEF BeginIntegration, RemoveGeneratedArtifacts, CommitWorkspace, FinishIntegration,
                git, worktrees, history
  <1>4. ASSUME NEW t \in Tasks, CheckOutSprint(t)
        PROVE  TypeOK'
    <2>1. sprintOf[t] \in Sprints /\ sprintOf[t] \in born
      BY <1>4, BranchAssumption DEF CheckOutSprint, UsedIsBorn
    <2> QED
      BY <1>4, <2>1 DEF CheckOutSprint, Shared, worktrees, history
  <1>5. ASSUME NEW t \in Tasks, FastForward(t) \/ Diverged(t) \/ Rebase(t) \/ IntegrationFails(t)
        PROVE  TypeOK'
    BY <1>5 DEF FastForward, Diverged, Rebase, IntegrationFails, git, worktrees, history
  <1>6. ASSUME NEW t \in Tasks, RebaseStops(t) \/ RebaseContinues(t) \/ RebaseAborts(t)
        PROVE  TypeOK'
    <2>1. Target(t) \in Branches
      BY BranchFacts
    <2> QED
      BY <1>6, <2>1 DEF RebaseStops, RebaseContinues, RebaseAborts, EndRebase, git, history
  <1>7. ASSUME NEW s \in Sprints, BeginShipment(s) \/ ShipFastForward(s) \/ ShipDiverged(s)
                                   \/ ShipRebase(s) \/ FinishShipment(s) \/ ShipmentFails(s)
        PROVE  TypeOK'
    BY <1>7 DEF BeginShipment, ShipFastForward, ShipDiverged, ShipRebase, FinishShipment,
                ShipmentFails, git, worktrees, history
  <1>8. ASSUME NEW s \in Sprints, CheckOutMain(s) \/ CheckOutBranch(s)
        PROVE  TypeOK'
    BY <1>8 DEF CheckOutMain, CheckOutBranch, UsedIsBorn, Shared, worktrees, history
  <1>9. Restart \/ UNCHANGED vars => TypeOK'
    BY DEF Restart, vars, git, worktrees, coroutines, history
  <1> QED
    BY <1>1, <1>2, <1>3, <1>4, <1>5, <1>6, <1>7, <1>8, <1>9
    DEF Next, IntegrationStep, ShipmentStep

\* What a step does to work, seen from outside the branches: only what is
\* waiting in a worktree can be lost, and what waits is not settled.
LEMMA WorkStep ==
  ASSUME IInv, [Next]_vars
  PROVE  /\ sprintOf' = sprintOf /\ born \subseteq born'
         /\ \A t \in Tasks :
              /\ made[t] \ dirty[t] \subseteq made'[t] \ dirty'[t]
              /\ dirty'[t] \subseteq made'[t]
              /\ made'[t] \ dirty'[t] \subseteq (made[t] \ dirty[t]) \cup dirty[t]
              /\ \A n \in made'[t] \ dirty'[t] : n \in dirty[t] => <<t, n>> \in WorksOf(tip'[t])
  <1>0. TypeOK /\ DirtyIsMade
    BY DEF IInv
  <1> USE <1>0 DEF TypeOK, DirtyIsMade
  <1>1. ASSUME NEW t \in Tasks, Work(t)
        PROVE  /\ sprintOf' = sprintOf /\ born' = born
               /\ \A u \in Tasks \ {t} : made'[u] = made[u] /\ dirty'[u] = dirty[u]
               /\ \E n \in Rounds \ made[t] : /\ dirty'[t] = dirty[t] \cup {n}
                                             /\ made'[t] = made[t] \cup {n}
    BY <1>1 DEF Work, git
  <1>2. ASSUME NEW t \in Tasks, WorktreeGoes(t)
        PROVE  /\ sprintOf' = sprintOf /\ born' = born
               /\ \A u \in Tasks \ {t} : made'[u] = made[u] /\ dirty'[u] = dirty[u]
               /\ dirty'[t] = {} /\ made'[t] = made[t] \ dirty[t]
    BY <1>2 DEF WorktreeGoes, git
  <1>3. ASSUME NEW t \in Tasks, CommitWorkspace(t), tree[t] = "ready"
        PROVE  /\ sprintOf' = sprintOf /\ born' = born /\ made' = made
               /\ \A u \in Tasks \ {t} : dirty'[u] = dirty[u]
               /\ dirty'[t] = {} /\ \A n \in dirty[t] : <<t, n>> \in WorksOf(tip'[t])
    <2>1. \A n \in dirty[t] : <<t, n>> \in WorksOf(tip'[t])
      BY <1>3, CommitTip
    <2> QED
      BY <1>3, <2>1 DEF CommitWorkspace, history
  <1>4. \/ \E t \in Tasks : Work(t) \/ WorktreeGoes(t) \/ (CommitWorkspace(t) /\ tree[t] = "ready")
        \/ sprintOf' = sprintOf /\ born \subseteq born' /\ made' = made /\ dirty' = dirty
    <2>1. ASSUME NEW t \in Tasks, IntegrationStep(t)
          PROVE  \/ CommitWorkspace(t) /\ tree[t] = "ready"
                 \/ sprintOf' = sprintOf /\ born' = born /\ made' = made /\ dirty' = dirty
      BY <2>1 DEF IntegrationStep, CheckOutSprint, RemoveGeneratedArtifacts, CommitWorkspace,
         FastForward, Diverged, Rebase, RebaseStops, RebaseContinues, RebaseAborts, EndRebase,
         FinishIntegration, IntegrationFails, git, worktrees, history
    <2>2. ASSUME NEW s \in Sprints, ShipmentStep(s)
          PROVE  sprintOf' = sprintOf /\ born' = born /\ made' = made /\ dirty' = dirty
      BY <2>2 DEF ShipmentStep, CheckOutMain, ShipFastForward, ShipDiverged, CheckOutBranch,
         ShipRebase, FinishShipment, ShipmentFails, git, worktrees, history
    <2> QED
      BY <2>1, <2>2 DEF Next, EnsureSprintBranch, CreateWorkspace, BeginIntegration, BeginShipment,
         Restart, vars, git, worktrees, coroutines, history
  <1>5. CASE sprintOf' = sprintOf /\ born \subseteq born' /\ made' = made /\ dirty' = dirty
    BY <1>5
  <1>6. ASSUME NEW t \in Tasks, Work(t)
        PROVE  \A u \in Tasks :
                  /\ made[u] \ dirty[u] \subseteq made'[u] \ dirty'[u] /\ dirty'[u] \subseteq made'[u]
                  /\ made'[u] \ dirty'[u] \subseteq made[u] \ dirty[u]
    BY <1>1, <1>6
  <1>7. ASSUME NEW t \in Tasks, WorktreeGoes(t)
        PROVE  \A u \in Tasks :
                  /\ made[u] \ dirty[u] = made'[u] \ dirty'[u] /\ dirty'[u] \subseteq made'[u]
    BY <1>2, <1>7
  <1>8. ASSUME NEW t \in Tasks, CommitWorkspace(t), tree[t] = "ready"
        PROVE  \A u \in Tasks :
                  /\ made[u] \ dirty[u] \subseteq made'[u] \ dirty'[u] /\ dirty'[u] \subseteq made'[u]
                  /\ made'[u] \ dirty'[u] \subseteq (made[u] \ dirty[u]) \cup dirty[u]
                  /\ \A n \in made'[u] \ dirty'[u] : n \in dirty[u] => <<u, n>> \in WorksOf(tip'[u])
    BY <1>3, <1>8
  <1> QED
    BY <1>1, <1>2, <1>3, <1>4, <1>5, <1>6, <1>7, <1>8
LEMMA BornStep ==
  ASSUME IInv, [Next]_vars
  PROVE  Unborn' /\ UsedIsBorn'
  <1>1. Unborn'
    BY UnbornStays, WorkStep DEF IInv, Unborn
  <1>0. TypeOK /\ UsedIsBorn
    BY DEF IInv
  <1> USE <1>0 DEF TypeOK, UsedIsBorn, At, ShipAt
  <1>2. ASSUME NEW t \in Tasks, \/ EnsureSprintBranch(t) \/ CreateWorkspace(t) \/ Work(t)
                                \/ WorktreeGoes(t) \/ BeginIntegration(t)
        PROVE  UsedIsBorn'
    BY <1>2 DEF EnsureSprintBranch, CreateWorkspace, Work, WorktreeGoes, BeginIntegration,
       git, worktrees, coroutines, history
  <1>3. ASSUME NEW t \in Tasks, IntegrationStep(t)
        PROVE  UsedIsBorn'
    BY <1>3 DEF IntegrationStep, CheckOutSprint, RemoveGeneratedArtifacts, CommitWorkspace,
       FastForward, Diverged, Rebase, RebaseStops, RebaseContinues, RebaseAborts, EndRebase,
       FinishIntegration, IntegrationFails, git, worktrees, history, TaskPcs
  <1>4. ASSUME NEW s \in Sprints, BeginShipment(s)
        PROVE  UsedIsBorn'
    <2>1. s \in born
      BY <1>4, BranchAssumption DEF BeginShipment, TasksOf
    <2> QED
      BY <1>4, <2>1 DEF BeginShipment, git, worktrees
  <1>5. ASSUME NEW s \in Sprints, ShipmentStep(s)
        PROVE  UsedIsBorn'
    BY <1>5 DEF ShipmentStep, CheckOutMain, ShipFastForward, ShipDiverged, CheckOutBranch,
       ShipRebase, FinishShipment, ShipmentFails, git, worktrees, history, ShipPcs
  <1>6. Restart \/ UNCHANGED vars => UsedIsBorn'
    BY DEF Restart, vars, git, worktrees, coroutines, history
  <1> QED
    BY <1>1, <1>2, <1>3, <1>4, <1>5, <1>6 DEF Next

\* Work is on a branch exactly if it is done and has left the worktree.
LEMMA SettledStep ==
  ASSUME IInv, [Next]_vars
  PROVE  DirtyIsMade' /\ CommittedIsMade' /\ MadeIsCommitted'
  <1>0. TypeOK /\ CommittedIsMade /\ MadeIsCommitted /\ DirtyIsMade /\ TypeOK'
    BY TypeStep DEF IInv
  <1>1. DirtyIsMade'
    BY WorkStep DEF DirtyIsMade
  <1>2. CommittedIsMade'
    <2> SUFFICES ASSUME NEW b \in Branches, NEW t \in Tasks, NEW n \in Rounds,
                        <<t, n>> \in WorksOf(tip'[b])
                 PROVE  n \in made'[t] \ dirty'[t]
      BY DEF CommittedIsMade
    <2>1. <<t, n>> \in Sources \cup Settling
      BY WorkHasSource, BranchAssumption
    <2>2. CASE <<t, n>> \in Sources
      <3>1. PICK a \in Branches : <<t, n>> \in WorksOf(tip[a])
        BY <2>2 DEF Sources
      <3> QED
        BY <1>0, <3>1, WorkStep DEF CommittedIsMade
    <2>3. CASE <<t, n>> \in Settling
      BY <1>0, <2>3 DEF Settling, DirtyIsMade
    <2> QED
      BY <2>1, <2>2, <2>3
  <1>3. MadeIsCommitted'
    <2> SUFFICES ASSUME NEW t \in Tasks, NEW n \in made'[t] \ dirty'[t]
                 PROVE  <<t, n>> \in WorksOf(tip'[t])
      BY DEF MadeIsCommitted
    <2>1. CASE n \in made[t] \ dirty[t]
      BY <1>0, <2>1, BranchesKeep, BranchFacts DEF MadeIsCommitted
    <2>2. CASE n \in dirty[t]
      BY <2>2, WorkStep
    <2> QED
      BY <2>1, <2>2, WorkStep
  <1> QED
    BY <1>1, <1>2, <1>3

LEMMA OntoStep ==
  ASSUME IInv, [Next]_vars
  PROVE  OntoIsTargets'
  <1>0. TypeOK /\ OntoIsTargets /\ \A t \in Tasks : Target(t) \in Branches
    BY BranchFacts DEF IInv
  <1>1. \A t \in Tasks : onto'[t] \in {onto[t], {}, tip[Target(t)]}
    <2> USE <1>0 DEF TypeOK
    <2>1. ASSUME NEW t \in Tasks, IntegrationStep(t)
          PROVE  \A u \in Tasks : onto'[u] \in {onto[u], {}, tip[Target(u)]}
      BY <2>1 DEF IntegrationStep, CheckOutSprint, RemoveGeneratedArtifacts, CommitWorkspace,
         FastForward, Diverged, Rebase, RebaseStops, RebaseContinues, RebaseAborts, EndRebase,
         FinishIntegration, IntegrationFails
    <2>2. ASSUME NEW s \in Sprints, ShipmentStep(s)
          PROVE  onto' = onto
      BY <2>2 DEF ShipmentStep, CheckOutMain, ShipFastForward, ShipDiverged, CheckOutBranch,
         ShipRebase, FinishShipment, ShipmentFails
    <2> QED
      BY <2>1, <2>2 DEF Next, EnsureSprintBranch, CreateWorkspace, Work, WorktreeGoes,
         BeginIntegration, BeginShipment, Restart, vars, coroutines
  <1> SUFFICES ASSUME NEW t \in Tasks
               PROVE  WorksOf(onto'[t]) \subseteq WorksOf(tip'[Target(t)])
    BY WorkStep DEF OntoIsTargets, Target
  <1>2. WorksOf(tip[Target(t)]) \subseteq WorksOf(tip'[Target(t)])
    <2>1. Target(t) \in Branches
      BY <1>0
    <2> QED
      BY <2>1, BranchesKeep
  <1>3. WorksOf(onto[t]) \subseteq WorksOf(tip[Target(t)]) /\ WorksOf({}) = {}
    BY <1>0 DEF OntoIsTargets, WorksOf
  <1> QED
    BY <1>1, <1>2, <1>3
LEMMA CleanStep ==
  ASSUME IInv, [Next]_vars
  PROVE  ClaimedIsMade' /\ WorktreeIsClean'
  <1>0. TypeOK /\ ClaimedIsMade /\ WorktreeIsClean
    BY DEF IInv
  <1> USE <1>0 DEF TypeOK, ClaimedIsMade, WorktreeIsClean, At
  <1>1. ASSUME NEW t \in Tasks, EnsureSprintBranch(t) \/ CreateWorkspace(t) \/ BeginIntegration(t)
        PROVE  ClaimedIsMade' /\ WorktreeIsClean'
    BY <1>1 DEF EnsureSprintBranch, CreateWorkspace, BeginIntegration, worktrees, coroutines, history
  <1>2. ASSUME NEW t \in Tasks, Work(t) \/ WorktreeGoes(t)
        PROVE  ClaimedIsMade' /\ WorktreeIsClean'
    BY <1>2 DEF Work, WorktreeGoes, coroutines, UsedIsBorn
  <1>3. ASSUME NEW t \in Tasks, \/ CheckOutSprint(t) \/ RemoveGeneratedArtifacts(t)
                                \/ CommitWorkspace(t) \/ FinishIntegration(t)
        PROVE  ClaimedIsMade' /\ WorktreeIsClean'
    BY <1>3 DEF CheckOutSprint, RemoveGeneratedArtifacts, CommitWorkspace, FinishIntegration,
       worktrees, history
  <1>4. ASSUME NEW t \in Tasks, \/ FastForward(t) \/ Diverged(t) \/ Rebase(t)
                                \/ IntegrationFails(t)
        PROVE  ClaimedIsMade' /\ WorktreeIsClean'
    BY <1>4 DEF FastForward, Diverged, Rebase, IntegrationFails, worktrees, history
  <1>5. ASSUME NEW t \in Tasks, RebaseStops(t) \/ RebaseContinues(t) \/ RebaseAborts(t)
        PROVE  ClaimedIsMade' /\ WorktreeIsClean'
    BY <1>5 DEF RebaseStops, RebaseContinues, RebaseAborts, EndRebase, history
  <1>6. ASSUME NEW s \in Sprints, BeginShipment(s) \/ ShipmentStep(s)
        PROVE  UNCHANGED <<made, claimed, dirty, tree, pc>>
    BY <1>6 DEF BeginShipment, ShipmentStep, CheckOutMain, ShipFastForward, ShipDiverged,
       CheckOutBranch, ShipRebase, FinishShipment, ShipmentFails, git, worktrees, history
  <1>7. Restart \/ UNCHANGED vars => ClaimedIsMade' /\ WorktreeIsClean'
    BY DEF Restart, vars, git, worktrees, coroutines, history
  <1> QED
    BY <1>1, <1>2, <1>3, <1>4, <1>5, <1>6, <1>7 DEF Next, IntegrationStep

\* The branch of a task that has been merged stays as it is.
LEMMA MergedBranchStays ==
  ASSUME IInv, [Next]_vars, NEW t \in Tasks, pc[t] = "merged"
  PROVE  tip'[t] = tip[t]
  <1>0. /\ TypeOK /\ head # t /\ sprintOf \in [Tasks -> Sprints \cup {NoSprint}]
        /\ t \in born /\ t \in Branches /\ t \notin Sprints
    BY BranchAssumption, BranchFacts DEF IInv, TypeOK, UsedIsBorn, Shared
  <1> USE <1>0 DEF TypeOK, At
  <1>1. ASSUME NEW u \in Tasks, EnsureSprintBranch(u) \/ CreateWorkspace(u)
        PROVE  tip'[t] = tip[t]
    BY <1>1 DEF EnsureSprintBranch, CreateWorkspace
  <1>2. ASSUME NEW u \in Tasks, Work(u) \/ WorktreeGoes(u) \/ BeginIntegration(u)
        PROVE  tip' = tip
    BY <1>2 DEF Work, WorktreeGoes, BeginIntegration, git
  <1>3. MayCommitChore => tip'[t] = tip[t]
    BY DEF MayCommitChore
  <1>4. ASSUME NEW u \in Tasks, IntegrationStep(u)
        PROVE  tip'[t] = tip[t]
    BY <1>3, <1>4 DEF IntegrationStep, CheckOutSprint, RemoveGeneratedArtifacts, CommitWorkspace,
       FastForward, Merge, Diverged, Rebase, RebaseStops, RebaseContinues, RebaseAborts,
       FinishIntegration, IntegrationFails, git
  <1>5. ASSUME NEW s \in Sprints, BeginShipment(s) \/ ShipmentStep(s)
        PROVE  tip'[t] = tip[t]
    BY <1>3, <1>5 DEF BeginShipment, ShipmentStep, CheckOutMain, ShipFastForward, Merge,
       ShipDiverged, CheckOutBranch, ShipRebase, FinishShipment, ShipmentFails, git
  <1>6. Restart \/ UNCHANGED vars => tip' = tip
    BY DEF Restart, vars, git
  <1> QED
    BY <1>1, <1>2, <1>4, <1>5, <1>6 DEF Next

\* Integration gets as far as its end by a merge only, and only its end makes
\* more of the work claimed.
LEMMA ClaimStep ==
  ASSUME IInv, [Next]_vars, NEW t \in Tasks
  PROVE  /\ pc'[t] = "merged" => pc[t] = "merged" \/ FastForward(t)
         /\ claimed'[t] \ dirty'[t] \subseteq
                (claimed[t] \ dirty[t]) \cup IF pc[t] = "merged" THEN made[t] \ dirty[t] ELSE {}
  <1>0. TypeOK /\ WorktreeIsClean
    BY DEF IInv
  <1> DEFINE more == IF pc[t] = "merged" THEN made[t] \ dirty[t] ELSE {}
             Claims == /\ pc'[t] = "merged" => pc[t] = "merged" \/ FastForward(t)
                       /\ claimed'[t] \ dirty'[t] \subseteq (claimed[t] \ dirty[t]) \cup more
  <1> USE <1>0 DEF TypeOK, WorktreeIsClean, At
  <1>1. ASSUME NEW u \in Tasks, \/ EnsureSprintBranch(u) \/ CreateWorkspace(u) \/ Work(u)
                                \/ WorktreeGoes(u) \/ BeginIntegration(u)
        PROVE  Claims
    BY <1>1 DEF EnsureSprintBranch, CreateWorkspace, Work, WorktreeGoes, BeginIntegration,
       worktrees, coroutines, history
  <1>2. ASSUME NEW u \in Tasks, \/ CheckOutSprint(u) \/ RemoveGeneratedArtifacts(u)
                                \/ CommitWorkspace(u) \/ FinishIntegration(u)
        PROVE  Claims
    BY <1>2 DEF CheckOutSprint, RemoveGeneratedArtifacts, CommitWorkspace, FinishIntegration,
       worktrees, history
  <1>3. ASSUME NEW u \in Tasks, \/ FastForward(u) \/ Diverged(u) \/ Rebase(u) \/ RebaseStops(u)
                                \/ RebaseContinues(u) \/ RebaseAborts(u) \/ IntegrationFails(u)
        PROVE  Claims
    <2>1. claimed' = claimed /\ dirty' = dirty
      BY <1>3 DEF FastForward, Diverged, Rebase, RebaseStops, RebaseContinues, RebaseAborts,
         EndRebase, IntegrationFails, worktrees, history
    <2>2. CASE FastForward(u)
      BY <2>1, <2>2 DEF FastForward
    <2>3. CASE ~FastForward(u)
      BY <1>3, <2>1, <2>3 DEF Diverged, Rebase, RebaseStops, RebaseContinues, RebaseAborts,
         IntegrationFails
    <2> QED
      BY <2>2, <2>3
  <1>4. ASSUME NEW s \in Sprints, BeginShipment(s) \/ ShipmentStep(s)
        PROVE  UNCHANGED <<claimed, dirty, pc>>
    BY <1>4 DEF BeginShipment, ShipmentStep, CheckOutMain, ShipFastForward, ShipDiverged,
       CheckOutBranch, ShipRebase, FinishShipment, ShipmentFails, worktrees, history
  <1>5. Restart \/ UNCHANGED vars => Claims
    BY DEF Restart, vars, worktrees, coroutines, history
  <1> QED
    BY <1>1, <1>2, <1>3, <1>4, <1>5 DEF Next, IntegrationStep
LEMMA SharedStep ==
  ASSUME IInv, [Next]_vars
  PROVE  MergedIsShared' /\ ClaimedIsMerged'
  <1>0. /\ TypeOK /\ MergedIsShared /\ ClaimedIsMerged /\ MadeIsCommitted /\ TypeOK'
        /\ Shared \subseteq Branches
    BY TypeStep DEF IInv, Branches
  <1>1. MergedIsShared'
    <2> SUFFICES ASSUME NEW t \in Tasks, pc'[t] = "merged"
                 PROVE  \E b \in Shared : WorksOf(tip'[t]) \subseteq WorksOf(tip'[b])
      BY DEF MergedIsShared
    <2>1. CASE pc[t] = "merged"
      <3>1. PICK b \in Shared : WorksOf(tip[t]) \subseteq WorksOf(tip[b])
        BY <1>0, <2>1 DEF MergedIsShared
      <3>2. WorksOf(tip[b]) \subseteq WorksOf(tip'[b]) /\ tip'[t] = tip[t]
        BY <1>0, <2>1, BranchesKeep, MergedBranchStays
      <3> QED
        BY <3>1, <3>2
    <2>2. CASE FastForward(t)
      <3>1. head \in Shared /\ head # t /\ head \in Branches /\ t \in Branches
        BY <1>0, BranchAssumption DEF TypeOK, Shared, Branches
      <3>2. tip'[t] = tip[t] /\ tip'[head] = tip[head] \cup tip[t]
        BY <1>0, <2>2, <3>1 DEF FastForward, Merge, TypeOK
      <3> QED
        BY <3>1, <3>2, SubsetWorks
    <2> QED
      BY <2>1, <2>2, ClaimStep
  <1>2. ClaimedIsMerged'
    <2> SUFFICES ASSUME NEW t \in Tasks, NEW n \in claimed'[t] \ dirty'[t]
                 PROVE  \E b \in Shared : <<t, n>> \in WorksOf(tip'[b])
      <3>1. \A t, n, b : <<t, n>> \in WorksOf(tip'[b]) => In(t, {n}, b)'
        BY DEF In
      <3> QED
        BY <3>1 DEF ClaimedIsMerged
    <2> SUFFICES \E b \in Shared : <<t, n>> \in WorksOf(tip[b])
      BY <1>0, BranchesKeep
    <2>1. CASE n \in claimed[t] \ dirty[t]
      BY <1>0, <2>1 DEF ClaimedIsMerged, In
    <2>2. CASE pc[t] = "merged" /\ n \in made[t] \ dirty[t]
      BY <1>0, <2>2 DEF MergedIsShared, MadeIsCommitted
    <2> QED
      BY <2>1, <2>2, ClaimStep
  <1> QED
    BY <1>1, <1>2

LEMMA ShippingStep ==
  ASSUME IInv, [Next]_vars
  PROVE  ShippingIsAlone'
  <1>0. TypeOK /\ ShippingIsAlone
    BY DEF IInv
  <1> USE <1>0 DEF TypeOK, ShippingIsAlone, TasksOf, At, ShipAt
  <1>1. ASSUME NEW t \in Tasks, EnsureSprintBranch(t) \/ CreateWorkspace(t)
        PROVE  ShippingIsAlone'
    BY <1>1 DEF EnsureSprintBranch, CreateWorkspace, coroutines, history
  <1>2. ASSUME NEW t \in Tasks, Work(t) \/ BeginIntegration(t)
        PROVE  ShippingIsAlone'
    <2>1. /\ ship' = ship /\ sprintOf' = sprintOf
          /\ \A u \in Tasks \ {t} : pc'[u] = pc[u] /\ claimed'[u] = claimed[u] /\ made'[u] = made[u]
      BY <1>2 DEF Work, BeginIntegration, coroutines
    <2> QED
      BY <1>2, <2>1 DEF Work, BeginIntegration, Unshipping
  <1>6. ASSUME NEW t \in Tasks, WorktreeGoes(t)
        PROVE  ShippingIsAlone'
    <2>1. /\ ship' = ship /\ sprintOf' = sprintOf /\ pc' = pc
          /\ \A u \in Tasks \ {t} : claimed'[u] = claimed[u] /\ made'[u] = made[u]
          /\ claimed[t] = made[t] => claimed'[t] = made'[t]
      BY <1>6 DEF WorktreeGoes, coroutines
    <2> QED
      BY <2>1
  <1>3. ASSUME NEW t \in Tasks, IntegrationStep(t)
        PROVE  ShippingIsAlone'
    <2>1. pc[t] # "idle"
      BY <1>3 DEF IntegrationStep, CheckOutSprint, RemoveGeneratedArtifacts, CommitWorkspace,
         FastForward, Diverged, Rebase, RebaseStops, RebaseContinues, RebaseAborts,
         FinishIntegration, IntegrationFails
    <2>2. /\ ship' = ship /\ sprintOf' = sprintOf /\ made' = made
          /\ \A u \in Tasks \ {t} : pc'[u] = pc[u] /\ claimed'[u] = claimed[u]
      BY <1>3 DEF IntegrationStep, CheckOutSprint, RemoveGeneratedArtifacts, CommitWorkspace,
         FastForward, Diverged, Rebase, RebaseStops, RebaseContinues, RebaseAborts, EndRebase,
         FinishIntegration, IntegrationFails, history
    <2> QED
      BY <2>1, <2>2
  <1>4. ASSUME NEW s \in Sprints, BeginShipment(s) \/ ShipmentStep(s)
        PROVE  ShippingIsAlone'
    BY <1>4 DEF BeginShipment, ShipmentStep, CheckOutMain, ShipFastForward, ShipDiverged,
       CheckOutBranch, ShipRebase, FinishShipment, ShipmentFails, history
  <1>5. Restart \/ UNCHANGED vars => ShippingIsAlone'
    BY DEF Restart, vars, coroutines, history
  <1> QED
    BY <1>1, <1>2, <1>3, <1>4, <1>5, <1>6 DEF Next

\* With one sprint a branch is checked out only by what is to be merged into it.
LEMMA TargetStep ==
  ASSUME IInv, [Next]_vars
  PROVE  TargetIsCheckedOut'
  <1>0. TypeOK /\ ShippingIsAlone /\ TargetIsCheckedOut /\ UsedIsBorn
    BY DEF IInv
  <1> USE <1>0 DEF TypeOK, TargetIsCheckedOut, OneSprint, At, ShipAt
  <1>1. ASSUME NEW t \in Tasks, \/ EnsureSprintBranch(t) \/ CreateWorkspace(t) \/ Work(t)
                                \/ WorktreeGoes(t) \/ BeginIntegration(t)
        PROVE  TargetIsCheckedOut'
    BY <1>1, BranchAssumption DEF EnsureSprintBranch, CreateWorkspace, Work, WorktreeGoes,
       BeginIntegration, git, worktrees, coroutines, history
  <1>2. ASSUME NEW t \in Tasks, CheckOutSprint(t)
        PROVE  TargetIsCheckedOut'
    BY <1>2 DEF CheckOutSprint
  <1>3. ASSUME NEW t \in Tasks, IntegrationStep(t), ~CheckOutSprint(t)
        PROVE  TargetIsCheckedOut'
    <2>1. /\ head' = head /\ sprintOf' = sprintOf
          /\ \A u \in Tasks \ {t} : pc'[u] = pc[u]
          /\ pc[t] \in {"idle", "begun"} => pc'[t] \in {"idle", "begun"}
      BY <1>3 DEF IntegrationStep, RemoveGeneratedArtifacts, CommitWorkspace,
         FastForward, Diverged, Rebase, RebaseStops, RebaseContinues, RebaseAborts,
         FinishIntegration, IntegrationFails, git
    <2> QED
      BY <2>1
  <1>4. ASSUME NEW s \in Sprints, BeginShipment(s) \/ ShipmentStep(s)
        PROVE  TargetIsCheckedOut'
    <2>1. CASE CheckOutMain(s) \/ CheckOutBranch(s)
      <3>1. ship[s] # "idle" /\ pc' = pc /\ sprintOf' = sprintOf
        BY <2>1 DEF CheckOutMain, CheckOutBranch
      <3>2. OneSprint => \A t \in Tasks : pc[t] = "idle"
        BY <3>1 DEF ShippingIsAlone, TasksOf
      <3> QED
        BY <3>1, <3>2
    <2>2. CASE ~(CheckOutMain(s) \/ CheckOutBranch(s))
      BY <1>4, <2>2 DEF BeginShipment, ShipmentStep, ShipFastForward, ShipDiverged,
         ShipRebase, FinishShipment, ShipmentFails, git
    <2> QED
      BY <2>1, <2>2
  <1>5. Restart \/ UNCHANGED vars => TargetIsCheckedOut'
    BY DEF Restart, vars, git, coroutines
  <1> QED
    BY <1>1, <1>2, <1>3, <1>4, <1>5 DEF Next
\* Claims are lost only with a worktree.
LEMMA ClaimsStay ==
  ASSUME IInv, [Next]_vars, NEW t \in Tasks
  PROVE  claimed[t] \ dirty[t] \subseteq claimed'[t]
  <1>0. TypeOK /\ ClaimedIsMade
    BY DEF IInv
  <1> USE <1>0 DEF TypeOK, ClaimedIsMade
  <1>1. ASSUME NEW u \in Tasks, IntegrationStep(u)
        PROVE  claimed[t] \subseteq claimed'[t]
    BY <1>1 DEF IntegrationStep, CheckOutSprint, RemoveGeneratedArtifacts, CommitWorkspace,
       FastForward, Diverged, Rebase, RebaseStops, RebaseContinues, RebaseAborts,
       FinishIntegration, IntegrationFails, history
  <1>2. ASSUME NEW s \in Sprints, BeginShipment(s) \/ ShipmentStep(s)
        PROVE  claimed' = claimed
    BY <1>2 DEF BeginShipment, ShipmentStep, CheckOutMain, ShipFastForward, ShipDiverged,
       CheckOutBranch, ShipRebase, FinishShipment, ShipmentFails, history
  <1> QED
    BY <1>1, <1>2 DEF Next, EnsureSprintBranch, CreateWorkspace, Work, WorktreeGoes,
       BeginIntegration, Restart, vars, history

\* With one sprint, main gains work only from the merge of that sprint.
LEMMA MainGains ==
  ASSUME IInv, [Next]_vars, OneSprint, \A t \in Tasks : sprintOf[t] \in Sprints
  PROVE  \/ WorksOf(tip'[Main]) \subseteq WorksOf(tip[Main]) \cup Chores
         \/ \E s \in Sprints : ship[s] # "idle" /\ made' = made /\ dirty' = dirty
  <1>0. /\ TypeOK /\ TargetIsCheckedOut
        /\ Main \in Branches /\ \A t \in Tasks : t # Main /\ sprintOf[t] # Main
    BY BranchFacts DEF IInv
  <1> USE <1>0 DEF TypeOK, At, ShipAt
  <1>1. ASSUME NEW t \in Tasks, \/ EnsureSprintBranch(t) \/ CreateWorkspace(t)
                                \/ CommitWorkspace(t) \/ Rebase(t) \/ RebaseContinues(t)
        PROVE  tip'[Main] = tip[Main]
    BY <1>1 DEF EnsureSprintBranch, CreateWorkspace, CommitWorkspace, Rebase, RebaseContinues
  <1>2. ASSUME MayCommitChore
        PROVE  WorksOf(tip'[Main]) \subseteq WorksOf(tip[Main]) \cup Chores
    <2>1. ASSUME NEW c \in NewChores, tip' = [tip EXCEPT ![head] = Committed(@, {c})]
          PROVE  WorksOf(tip'[Main]) \subseteq WorksOf(tip[Main]) \cup Chores
      <3>1. c \in Chores /\ {c} \in SUBSET Works
        BY DEF NewChores, Works
      <3>2. WorksOf(Committed(tip[Main], {c})) = WorksOf(tip[Main]) \cup {c}
        BY <3>1, CommittedFacts
      <3> QED
        BY <2>1, <3>1, <3>2
    <2> QED
      BY <1>2, <2>1 DEF MayCommitChore
  <1>3. ASSUME NEW t \in Tasks, FastForward(t)
        PROVE  tip'[Main] = tip[Main]
    <2>1. head = sprintOf[t]
      BY <1>3 DEF FastForward, TargetIsCheckedOut
    <2> QED
      BY <1>3, <2>1 DEF FastForward, Merge
  <1>4. ASSUME NEW s \in Sprints, ShipmentStep(s)
        PROVE  ship[s] # "idle" /\ made' = made /\ dirty' = dirty
    BY <1>4 DEF ShipmentStep, CheckOutMain, ShipFastForward, ShipDiverged, CheckOutBranch,
       ShipRebase, FinishShipment, ShipmentFails, worktrees, history
  <1>5. ASSUME NEW t \in Tasks,
               \/ Work(t) \/ WorktreeGoes(t) \/ BeginIntegration(t) \/ CheckOutSprint(t)
               \/ Diverged(t) \/ RebaseStops(t) \/ RebaseAborts(t) \/ IntegrationFails(t)
        PROVE  tip' = tip
    BY <1>5 DEF Work, WorktreeGoes, BeginIntegration, CheckOutSprint, Diverged, RebaseStops,
       RebaseAborts, IntegrationFails, git
  <1>6. (\E s \in Sprints : BeginShipment(s)) \/ Restart \/ UNCHANGED vars => tip' = tip
    BY DEF BeginShipment, Restart, vars, git
  <1> QED
    BY <1>1, <1>2, <1>3, <1>4, <1>5, <1>6
    DEF Next, IntegrationStep, RemoveGeneratedArtifacts, FinishIntegration

\* What a sprint's tasks have on any branch is claimed when the sprint is merged.
LEMMA MainStep ==
  ASSUME IInv, [Next]_vars
  PROVE  MainWaitsForShipment'
  <1>0. /\ TypeOK /\ CommittedIsMade /\ ShippingIsAlone /\ MainWaitsForShipment
        /\ Main \in Branches /\ sprintOf' = sprintOf
    BY BranchFacts, WorkStep DEF IInv
  <1> SUFFICES ASSUME OneSprint, NEW t \in Tasks, NEW n \in Rounds, sprintOf[t] \in Sprints,
                      <<t, n>> \in WorksOf(tip'[Main])
               PROVE  n \in claimed'[t]
    <2>1. \A t, n : In(t, {n}, Main)' => <<t, n>> \in WorksOf(tip'[Main])
      BY DEF In
    <2> QED
      BY <1>0, <2>1 DEF MainWaitsForShipment, OneSprint
  <1>1. CASE <<t, n>> \in WorksOf(tip[Main])
    <2>1. n \in claimed[t]
      BY <1>0, <1>1 DEF MainWaitsForShipment, OneSprint, In
    <2>2. n \notin dirty[t]
      BY <1>0, <1>1 DEF CommittedIsMade
    <2> QED
      BY <2>1, <2>2, ClaimsStay
  <1>2. CASE <<t, n>> \notin WorksOf(tip[Main])
    <2>1. <<t, n>> \notin Chores
      BY BranchAssumption
    <2>2. \A u \in Tasks : sprintOf[u] \in Sprints
      BY DEF OneSprint
    <2>3. PICK s \in Sprints : ship[s] # "idle" /\ made' = made /\ dirty' = dirty
      BY <1>2, <2>1, <2>2, MainGains
    <2>4. claimed[t] = made[t] /\ pc[t] = "idle"
      BY <1>0, <2>3 DEF ShippingIsAlone, TasksOf, OneSprint
    <2>5. n \in made[t] \ dirty[t]
      <3>1. n \in made'[t] \ dirty'[t]
        BY <1>0, SettledStep DEF CommittedIsMade
      <3> QED
        BY <2>3, <3>1
    <2> QED
      BY <2>4, <2>5, ClaimsStay
  <1> QED
    BY <1>1, <1>2
-----------------------------------------------------------------------------
(* Theorems.                                                               *)

\* With no branch but main, and nothing on it, the invariant holds.
LEMMA InitIInv ==
  Init => IInv
  <1> SUFFICES ASSUME Init PROVE IInv
    OBVIOUS
  <1>1. /\ Main \in Branches /\ Main \in Shared
        /\ WorksOf({}) = {} /\ \A b \in Branches : tip[b] = {}
    BY DEF Init, Branches, Shared, WorksOf
  <1>2. TypeOK
    BY <1>1 DEF Init, TypeOK, TaskPcs, ShipPcs
  <1>3. Unborn /\ UsedIsBorn /\ DirtyIsMade
    BY <1>1 DEF Init, Unborn, UsedIsBorn, DirtyIsMade
  <1>4. CommittedIsMade /\ MadeIsCommitted
    BY <1>1 DEF Init, CommittedIsMade, MadeIsCommitted
  <1>5. OntoIsTargets /\ MergedIsShared /\ ClaimedIsMerged /\ ClaimedIsMade
    BY <1>1 DEF Init, OntoIsTargets, MergedIsShared, ClaimedIsMerged, ClaimedIsMade
  <1>6. WorktreeIsClean /\ ShippingIsAlone /\ TargetIsCheckedOut
    BY DEF Init, WorktreeIsClean, ShippingIsAlone, TargetIsCheckedOut
  <1>7. MainWaitsForShipment
    <2>1. \A t, n : ~In(t, {n}, Main)
      <3>1. WorksOf(tip[Main]) = {}
        BY <1>1
      <3>2. \A t, n : <<t, n>> \in {t} \X {n}
        OBVIOUS
      <3> QED
        BY <3>1, <3>2 DEF In
    <2> QED
      BY <2>1 DEF MainWaitsForShipment
  <1> QED
    BY <1>2, <1>3, <1>4, <1>5, <1>6, <1>7 DEF IInv

LEMMA KeepsIInv ==
  IInv /\ [Next]_vars => IInv'
  <1> SUFFICES ASSUME IInv, [Next]_vars PROVE IInv'
    OBVIOUS
  <1> QED
    BY TypeStep, BornStep, SettledStep, OntoStep, CleanStep, SharedStep, ShippingStep,
       TargetStep, MainStep
    DEF IInv

\* However git commands of different integrations alternate, and wherever the
\* server stops, the repository stays consistent in all of these ways.
THEOREM WorkspaceInvariant ==
  Spec => []IInv
  BY InitIInv, KeepsIInv, PTL DEF Spec

\* Every variable keeps its type, and what is checked out is a branch that
\* exists and belongs to no task.
THEOREM TypeCorrect ==
  Spec => []TypeOK
  <1>1. IInv => TypeOK
    BY DEF IInv
  <1> QED
    BY <1>1, WorkspaceInvariant, PTL

\* integrate_task_workspace reports success only of work that a branch other
\* than the task's own has, whichever was checked out by then.
THEOREM ClaimedWorkIsMerged ==
  Spec => []ClaimedIsMerged
  <1>1. IInv => ClaimedIsMerged
    BY DEF IInv
  <1> QED
    BY <1>1, WorkspaceInvariant, PTL

\* In a project of one sprint nothing of it reaches main before all of it is
\* claimed (sprint_maybe_ff_merge).
THEOREM MainWaits ==
  Spec => []MainWaitsForShipment
  <1>1. IInv => MainWaitsForShipment
    BY DEF IInv
  <1> QED
    BY <1>1, WorkspaceInvariant, PTL

\* No merge and no rebase, under whatever interleaving, takes a commit from
\* main or work from any branch.
THEOREM NoWorkIsLost ==
  Spec => NothingIsLost
  <1> DEFINE Kept == /\ tip[Main] \subseteq tip'[Main]
                     /\ \A b \in Branches : WorksOf(tip[b]) \subseteq {c.what : c \in tip'[b]}
  <1>1. IInv /\ [Next]_vars => [Kept]_vars
    <2> SUFFICES ASSUME IInv, [Next]_vars PROVE Kept
      OBVIOUS
    <2>1. \A b : WorksOf(tip'[b]) = {c.what : c \in tip'[b]}
      BY DEF WorksOf
    <2> QED
      BY <2>1, BranchesKeep
  <1> HIDE DEF Kept
  <1>2. Spec => [][Kept]_vars
    BY <1>1, WorkspaceInvariant, PTL DEF Spec
  <1> QED
    BY <1>2 DEF NothingIsLost, Kept

-----------------------------------------------------------------------------
(* The repository implements WorkLedger.                                   *)

\* The ledger's entries, work by work.
Entries ==
    /\ \A t \in Tasks, n \in Rounds :
           /\ <<t, n>> \in RoundsOf(made) <=> n \in made[t]
           /\ <<t, n>> \in On(Branches) <=> n \in made[t] \ dirty[t]
           /\ <<t, n>> \in On(Shared) <=> \E b \in Shared : <<t, n>> \in WorksOf(tip[b])
           /\ <<t, n>> \in On({Main}) <=> <<t, n>> \in WorksOf(tip[Main])
           /\ <<t, n>> \in RoundsOf([u \in Tasks |-> claimed[u] \ dirty[u]])
                 <=> n \in claimed[t] \ dirty[t]
    /\ Ledger!InOrder

\* What branches have together.
LEMMA WorksOn ==
  ASSUME NEW CONSTANT bs
  PROVE  /\ \A w : w \in On(bs) <=> w \in Tasks \X Rounds /\ \E b \in bs : w \in WorksOf(tip[b])
         /\ \A w : w \in On(bs)' <=> w \in Tasks \X Rounds /\ \E b \in bs : w \in WorksOf(tip'[b])
         /\ On(bs) \subseteq Tasks \X Rounds /\ On(bs)' \subseteq Tasks \X Rounds
  <1>1. \A b : WorksOf(tip[b])' = WorksOf(tip'[b])
    BY DEF WorksOf
  <1>2. \A w : w \in On(bs) <=> w \in Tasks \X Rounds /\ \E b \in bs : w \in WorksOf(tip[b])
    BY Zenon DEF On
  <1>3. \A w : w \in On(bs)' <=> w \in Tasks \X Rounds /\ \E b \in bs : w \in WorksOf(tip'[b])
    BY Zenon, <1>1 DEF On
  <1> QED
    BY <1>2, <1>3

LEMMA EntriesHold == IInv => Entries
  <1> SUFFICES ASSUME IInv PROVE Entries
    OBVIOUS
  <1>1. ASSUME NEW t \in Tasks, NEW n \in Rounds
        PROVE  /\ <<t, n>> \in RoundsOf(made) <=> n \in made[t]
               /\ <<t, n>> \in On(Branches) <=> n \in made[t] \ dirty[t]
               /\ <<t, n>> \in On(Shared) <=> \E b \in Shared : <<t, n>> \in WorksOf(tip[b])
               /\ <<t, n>> \in On({Main}) <=> <<t, n>> \in WorksOf(tip[Main])
               /\ <<t, n>> \in RoundsOf([u \in Tasks |-> claimed[u] \ dirty[u]])
                     <=> n \in claimed[t] \ dirty[t]
    <2>1. \A f : <<t, n>> \in RoundsOf(f) <=> n \in f[t]
      BY DEF RoundsOf
    <2>2. \A bs : <<t, n>> \in On(bs) <=> \E b \in bs : <<t, n>> \in WorksOf(tip[b])
      BY WorksOn
    <2>3. (\E b \in Branches : <<t, n>> \in WorksOf(tip[b])) <=> n \in made[t] \ dirty[t]
      BY BranchFacts DEF IInv, CommittedIsMade, MadeIsCommitted
    <2> QED
      BY <2>1, <2>2, <2>3
  <1>2. On({Main}) \subseteq On(Shared) /\ On(Shared) \subseteq On(Branches)
    BY WorksOn DEF Shared, Branches
  <1>3. On(Branches) \subseteq RoundsOf(made)
    <2> SUFFICES ASSUME NEW w \in On(Branches) PROVE w \in RoundsOf(made)
      BY Zenon
    <2>1. PICK t \in Tasks, n \in Rounds : w = <<t, n>>
      BY DEF On
    <2>2. <<t, n>> \in On(Branches)
      BY <2>1
    <2>3. <<t, n>> \in RoundsOf(made)
      BY <1>1, <2>2
    <2> QED
      BY <2>1, <2>3
  <1>4. RoundsOf([u \in Tasks |-> claimed[u] \ dirty[u]]) \subseteq On(Shared)
    <2> DEFINE reported == RoundsOf([u \in Tasks |-> claimed[u] \ dirty[u]])
    <2> SUFFICES ASSUME NEW w \in reported PROVE w \in On(Shared)
      BY Zenon
    <2>1. PICK t \in Tasks, n \in Rounds : w = <<t, n>>
      BY DEF RoundsOf
    <2>2. n \in claimed[t] \ dirty[t]
      BY <2>1 DEF RoundsOf
    <2>3. PICK b \in Shared : <<t, n>> \in WorksOf(tip[b])
      BY <2>2 DEF IInv, ClaimedIsMerged, In
    <2>4. <<t, n>> \in On(Shared)
      BY <1>1, <2>3
    <2> QED
      BY <2>1, <2>4
  <1> QED
    BY <1>1, <1>2, <1>3, <1>4 DEF Entries, Ledger!InOrder

\* Equal work by work is equal.
LEMMA SameWorks ==
  ASSUME NEW A, NEW B, A \subseteq Tasks \X Rounds, B \subseteq Tasks \X Rounds,
         \A t \in Tasks, n \in Rounds : <<t, n>> \in A <=> <<t, n>> \in B
  PROVE  A = B
  OBVIOUS

\* Branches only gain work.
LEMMA BranchesGain ==
  ASSUME IInv, [Next]_vars
  PROVE  On(Shared) \subseteq On(Shared)' /\ On({Main}) \subseteq On({Main})'
  <1>1. \A b \in Shared : WorksOf(tip[b]) \subseteq WorksOf(tip'[b])
    BY BranchesKeep DEF Branches
  <1>2. Main \in Shared
    BY DEF Shared
  <1> QED
    BY <1>1, <1>2, WorksOn

\* A step that does, loses and claims nothing merges at most.
LEMMA OthersMerge ==
  ASSUME IInv, Entries, Entries', [Next]_vars, UNCHANGED <<made, dirty, claimed>>
  PROVE  Ledger!Merge
  <1> DEFINE reported == RoundsOf([t \in Tasks |-> claimed[t] \ dirty[t]])
  <1>1. RoundsOf(made)' = RoundsOf(made) /\ reported' = reported
    BY DEF RoundsOf
  <1>2. On(Branches)' = On(Branches)
    <2>1. \A t \in Tasks, n \in Rounds : <<t, n>> \in On(Branches)' <=> <<t, n>> \in On(Branches)
      BY DEF Entries
    <2>2. On(Branches)' \subseteq Tasks \X Rounds /\ On(Branches) \subseteq Tasks \X Rounds
      BY DEF On
    <2> QED
      BY <2>1, <2>2, SameWorks
  <1>3. On(Shared)' \subseteq On(Branches)' /\ On({Main})' \subseteq On(Shared)'
    BY DEF Entries, Ledger!InOrder
  <1> HIDE DEF reported
  <1> QED
    BY <1>1, <1>2, <1>3, BranchesGain DEF Ledger!Merge, reported

LEMMA NextKeepsLedger ==
  ASSUME IInv, Entries, Entries', [Next]_vars PROVE [Ledger!Next]_Ledger!vars
  <1> DEFINE reported == RoundsOf([t \in Tasks |-> claimed[t] \ dirty[t]])
  <1>0. TypeOK /\ ClaimedIsMade /\ WorktreeIsClean /\ DirtyIsMade
    BY DEF IInv
  <1>1. ASSUME NEW t \in Tasks, Work(t) PROVE Ledger!Do
    <2>1. PICK n \in Rounds \ made[t] :
              /\ dirty' = [dirty EXCEPT ![t] = @ \cup {n}] /\ made' = [made EXCEPT ![t] = @ \cup {n}]
      BY <1>1 DEF Work
    <2>2. tip' = tip /\ claimed' = claimed
      BY <1>1 DEF Work, git
    <2>3. On(Branches)' = On(Branches) /\ On(Shared)' = On(Shared) /\ On({Main})' = On({Main})
      BY <2>2 DEF On
    <2>4. RoundsOf(made)' = RoundsOf(made) \cup {<<t, n>>} /\ <<t, n>> \notin RoundsOf(made)
      BY <1>0, <2>1 DEF RoundsOf, TypeOK
    <2>5. reported' = reported
      BY <1>0, <2>1, <2>2 DEF RoundsOf, TypeOK, ClaimedIsMade
    <2> HIDE DEF reported
    <2> QED
      BY <2>3, <2>4, <2>5 DEF Ledger!Do, Ledger!branches, reported
  <1>2. ASSUME NEW t \in Tasks, WorktreeGoes(t) PROVE Ledger!Lose
    <2>1. /\ dirty' = [dirty EXCEPT ![t] = {}] /\ made' = [made EXCEPT ![t] = @ \ dirty[t]]
          /\ claimed' = [claimed EXCEPT ![t] = @ \ dirty[t]] /\ tip' = tip
      BY <1>2 DEF WorktreeGoes, git
    <2>2. On(Branches)' = On(Branches) /\ On(Shared)' = On(Shared) /\ On({Main})' = On({Main})
      BY <2>1 DEF On
    <2>3. RoundsOf(made)' \subseteq RoundsOf(made)
      BY <1>0, <2>1 DEF RoundsOf, TypeOK
    <2>4. On(Branches)' \subseteq RoundsOf(made)'
      BY DEF Entries, Ledger!InOrder
    <2>5. reported' = reported
      BY <1>0, <2>1 DEF RoundsOf, TypeOK
    <2> HIDE DEF reported
    <2> QED
      BY <2>2, <2>3, <2>4, <2>5 DEF Ledger!Lose, Ledger!branches, reported
  <1>3. ASSUME NEW t \in Tasks, CommitWorkspace(t), tree[t] = "ready" PROVE Ledger!Commit
    <2>1. /\ dirty' = [dirty EXCEPT ![t] = {}] /\ made' = made /\ claimed' = claimed
          /\ tip' = [tip EXCEPT ![t] = Committed(@, {t} \X dirty[t])]
      BY <1>3 DEF CommitWorkspace, history
    <2>2. On(Shared)' = On(Shared) /\ On({Main})' = On({Main})
      <3>1. \A b \in Shared : tip'[b] = tip[b]
        BY <1>0, <2>1, BranchAssumption DEF TypeOK, Shared, Branches
      <3> QED
        BY <3>1 DEF On, Shared
    <2>3. RoundsOf(made)' = RoundsOf(made)
      BY <2>1 DEF RoundsOf
    <2>4. reported' = reported
      BY <1>0, <1>3, <2>1 DEF RoundsOf, TypeOK, WorktreeIsClean
    <2>5. On(Branches) \subseteq On(Branches)'
      BY BranchesKeep, WorksOn
    <2>6. On(Branches)' \subseteq RoundsOf(made)'
      BY DEF Entries, Ledger!InOrder
    <2> HIDE DEF reported
    <2> QED
      BY <2>2, <2>3, <2>4, <2>5, <2>6 DEF Ledger!Commit, Ledger!branches, reported
  <1>4. ASSUME NEW t \in Tasks, FinishIntegration(t) PROVE Ledger!Report
    <2>1. /\ dirty' = dirty /\ made' = made /\ claimed' = [claimed EXCEPT ![t] = made[t]]
          /\ MayCommitChore
      BY <1>4 DEF FinishIntegration, worktrees
    <2>2. \A b \in Branches : WorksOf(tip'[b]) \cap (Tasks \X Rounds) = WorksOf(tip[b]) \cap (Tasks \X Rounds)
      <3>1. CASE tip' = tip
        BY <3>1
      <3>2. ASSUME NEW c \in NewChores, tip' = [tip EXCEPT ![head] = Committed(@, {c})]
            PROVE  \A b \in Branches :
                      WorksOf(tip'[b]) \cap (Tasks \X Rounds) = WorksOf(tip[b]) \cap (Tasks \X Rounds)
        <4>1. c \in Chores /\ c \notin Tasks \X Rounds /\ {c} \in SUBSET Works
          BY BranchAssumption DEF NewChores, Works
        <4>2. WorksOf(Committed(tip[head], {c})) = WorksOf(tip[head]) \cup {c}
          BY <4>1, BranchFacts, CommittedFacts
        <4> QED
          BY <1>0, <3>2, <4>1, <4>2 DEF TypeOK
      <3> QED
        BY <2>1, <3>1, <3>2 DEF MayCommitChore
    <2>3. On(Branches)' = On(Branches) /\ On(Shared)' = On(Shared) /\ On({Main})' = On({Main})
      <3>1. ASSUME NEW bs \in SUBSET Branches PROVE On(bs)' = On(bs)
        <4>1. \A w \in Tasks \X Rounds : \A b \in bs : w \in WorksOf(tip'[b]) <=> w \in WorksOf(tip[b])
          BY <2>2
        <4>2. \A w : w \in On(bs)' <=> w \in On(bs)
          BY <4>1, WorksOn
        <4> QED
          BY <4>2, WorksOn
      <3> QED
        BY <3>1 DEF Branches, Shared
    <2>4. RoundsOf(made)' = RoundsOf(made)
      BY <2>1 DEF RoundsOf
    <2>5. reported \subseteq reported'
      BY <1>0, <2>1 DEF RoundsOf, TypeOK, ClaimedIsMade
    <2>6. reported' \subseteq On(Shared)'
      BY DEF Entries, Ledger!InOrder
    <2> HIDE DEF reported
    <2> QED
      BY <2>3, <2>4, <2>5, <2>6 DEF Ledger!Report, Ledger!branches, reported
  <1>5. CASE UNCHANGED <<made, dirty, claimed>>
    BY <1>5, OthersMerge DEF Ledger!Next
  <1>6. ASSUME ~UNCHANGED <<made, dirty, claimed>>
        PROVE  \E t \in Tasks : \/ Work(t) \/ WorktreeGoes(t) \/ FinishIntegration(t)
                                \/ CommitWorkspace(t) /\ tree[t] = "ready"
    BY <1>6 DEF Next, vars, history, worktrees, EnsureSprintBranch, CreateWorkspace,
                BeginIntegration, IntegrationStep, CheckOutSprint, RemoveGeneratedArtifacts,
                CommitWorkspace, FastForward, Diverged, Rebase, RebaseStops, EndRebase,
                RebaseContinues, RebaseAborts, IntegrationFails, BeginShipment, ShipmentStep,
                CheckOutMain, ShipFastForward, ShipDiverged, CheckOutBranch, ShipRebase,
                FinishShipment, ShipmentFails, Restart
  <1> HIDE DEF reported
  <1> QED
    BY <1>1, <1>2, <1>3, <1>4, <1>5, <1>6 DEF Ledger!Next

LEMMA InitOpensLedger == Init => Ledger!Init
  <1> SUFFICES ASSUME Init PROVE Ledger!Init
    OBVIOUS
  <1>1. \A t \in Tasks : made[t] = {} /\ claimed[t] = {} /\ dirty[t] = {}
    BY DEF Init
  <1>2. \A b \in Branches : WorksOf(tip[b]) = {}
    BY DEF Init, WorksOf
  <1> QED
    BY <1>1, <1>2 DEF Ledger!Init, RoundsOf, On, Branches, Shared

\* The repository keeps the promise of WorkLedger: committed work is never
\* lost, goes into shared branches and main and never back, and is reported
\* only where it is (workspace_integration.py, integrate_task_workspace).
THEOREM LedgerIsImplemented ==
  Spec => LedgerIsKept
  <1>1. Init => Ledger!Init
    BY InitOpensLedger
  <1>2. IInv /\ IInv' /\ [Next]_vars => [Ledger!Next]_Ledger!vars
    <2>1. IInv' => Entries'
      BY EntriesHold, PTL
    <2> QED
      BY <2>1, EntriesHold, NextKeepsLedger
  <1> QED
    BY <1>1, <1>2, WorkspaceInvariant, PTL DEF Spec, LedgerIsKept, Ledger!Spec
=============================================================================
