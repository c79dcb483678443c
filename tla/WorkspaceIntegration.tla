------------------------- MODULE WorkspaceIntegration -------------------------
(***************************************************************************)
(* The git repository of a project without a remote: a worktree and a      *)
(* branch for each task, a branch for each sprint, main, and the one       *)
(* checkout in which task branches are merged into sprint branches         *)
(* (orchestrator/workspace_integration.py) and those into main             *)
(* (orchestrator/sprint_lifecycle.py).                                     *)
(*                                                                         *)
(* Every git command is awaited, and nothing locks the checkout: between   *)
(* any two commands of one integration, those of others can run.           *)
(***************************************************************************)
CONSTANTS
    Tasks,
    Sprints,
    Main,        \* the branch main
    NoSprint,    \* the sprint of a task that has none
    Rounds,      \* rounds of work on a task
    Chores       \* commits of the builder's own, in the checkout

Shared == Sprints \cup {Main}     \* branches that work is merged into
Branches == Shared \cup Tasks     \* a task's branch is named for the task
Works == (Tasks \X Rounds) \cup Chores

\* A commit is what it changes, and what it is based on: rebasing it makes
\* another commit.  A branch is the set of its commits.
Commits == [what : Works, upon : SUBSET Works]

ASSUME BranchAssumption ==
    /\ Main \notin Tasks \cup Sprints \cup {NoSprint} /\ NoSprint \notin Sprints \cup Tasks
    /\ Tasks \cap Sprints = {} /\ Chores \cap (Tasks \X Rounds) = {}

VARIABLES
    sprintOf,   \* the sprint of each task
    \* The repository.
    born,       \* branches that exist
    tip,        \* of each branch: its commits
    head,       \* the branch that is checked out
    tree,       \* of each task: its worktree
    dirty,      \* and the rounds of work in it that are not committed
    \* Coroutines.
    pc,         \* of each task: how far its integration is
    onto,       \* and what the rebase that is under way has started from
    ship,       \* of each sprint: how far its merge into main is
    \* History.
    made,       \* rounds of work done on each task, and not lost with a worktree
    claimed,    \* what was reported to be integrated
    shipped,    \* sprints that were reported to be merged, with all that is claimed
    mixed       \* integrations into different branches have overlapped

git == <<born, tip, head>>
worktrees == <<tree, dirty>>
coroutines == <<pc, onto, ship>>
history == <<made, claimed, shipped, mixed>>
vars == <<sprintOf, git, worktrees, coroutines, history>>

\* resolving: the conflict resolver, an agent, is at work in the worktree
TaskPcs == {"idle", "begun", "checkedOut", "onTarget", "committed", "diverged", "resolving",
            "rebased", "merged"}
ShipPcs == {"idle", "begun", "onMain", "diverged", "onBranch", "rebased", "again", "merged"}

Init ==
    /\ sprintOf \in [Tasks -> Sprints \cup {NoSprint}]
    /\ born = {Main} /\ tip = [b \in Branches |-> {}] /\ head = Main
    /\ tree = [t \in Tasks |-> "none"] /\ dirty = [t \in Tasks |-> {}]
    /\ pc = [t \in Tasks |-> "idle"]
    /\ onto = [t \in Tasks |-> {}]
    /\ ship = [s \in Sprints |-> "idle"]
    /\ made = [t \in Tasks |-> {}] /\ claimed = [t \in Tasks |-> {}]
    /\ shipped = {} /\ mixed = FALSE

-----------------------------------------------------------------------------
(* What git does.                                                          *)

WorksOf(b) == {c.what : c \in b}

\* Works are committed on top of b.
Committed(b, works) == b \cup {[what |-> w, upon |-> WorksOf(b)] : w \in works}

\* git rebase: commits that u does not have, on top of u; those whose change is
\* in u already are dropped.
Rebased(b, u) ==
    LET own == {c \in b \ u : c.what \notin WorksOf(u)} IN
    u \cup {[what |-> c.what, upon |-> WorksOf(u) \cup (c.upon \cap WorksOf(own))] : c \in own}

\* git merge --ff-only into the branch that is checked out: it is behind b,
\* ahead of it, or has diverged.
CanMerge(b) == tip[head] \subseteq b \/ b \subseteq tip[head]
Merge(b) == tip' = [tip EXCEPT ![head] = @ \cup b]

\* The builder may commit something of its own to whatever is checked out: the
\* removal of generated files, its runtime guidance.
NewChores == {c \in Chores : \A b \in Branches : c \notin WorksOf(tip[b])}

-----------------------------------------------------------------------------
(* Worktrees (ensure_workspace, create_workspace) and the work in them.    *)

Target(t) == IF sprintOf[t] = NoSprint THEN Main ELSE sprintOf[t]

\* The sprint's branch forks from whatever is checked out.
EnsureSprintBranch(t) ==
    /\ pc[t] = "idle" /\ tree[t] = "none" /\ sprintOf[t] \in Sprints \ born
    /\ born' = born \cup {sprintOf[t]} /\ tip' = [tip EXCEPT ![sprintOf[t]] = tip[head]]
    /\ UNCHANGED <<sprintOf, head, worktrees, coroutines, history>>

\* Faulty variant: the branch is made anew when its worktree has gone.
CreateWorkspace_Anew(t) ==
    /\ pc[t] = "idle" /\ tree[t] = "none" /\ sprintOf[t] \in born \cup {NoSprint}
    /\ tree' = [tree EXCEPT ![t] = "ready"] /\ born' = born \cup {t}
    /\ tip' = [tip EXCEPT ![t] = tip[IF sprintOf[t] = NoSprint THEN head ELSE sprintOf[t]]]
    /\ UNCHANGED <<sprintOf, head, dirty, coroutines, history>>

\* A branch that is left of an earlier worktree is used again; a new one starts
\* from the sprint's, or from what is checked out.
CreateWorkspace(t) ==
    /\ pc[t] = "idle" /\ tree[t] = "none" /\ sprintOf[t] \in born \cup {NoSprint}
    /\ tree' = [tree EXCEPT ![t] = "ready"] /\ born' = born \cup {t}
    /\ tip' = IF t \in born THEN tip ELSE
                [tip EXCEPT ![t] = tip[IF sprintOf[t] = NoSprint THEN head ELSE sprintOf[t]]]
    /\ UNCHANGED <<sprintOf, head, dirty, coroutines, history>>

\* The task's sprint is not being merged: the task that is done last does that.
Unshipping(t) == \A s \in Sprints : sprintOf[t] = s => ship[s] = "idle"

\* An agent does a round of work.
Work(t) ==
    /\ pc[t] = "idle" /\ tree[t] # "none" /\ Unshipping(t)
    /\ \E n \in Rounds \ made[t] :
           /\ dirty' = [dirty EXCEPT ![t] = @ \cup {n}] /\ made' = [made EXCEPT ![t] = @ \cup {n}]
    /\ shipped' = shipped \ {sprintOf[t]}
    /\ UNCHANGED <<sprintOf, git, tree, coroutines, claimed, mixed>>

\* A worktree below a temporary directory goes, with what is not committed.
WorktreeGoes(t) ==
    /\ pc[t] = "idle" /\ tree[t] # "none"
    /\ tree' = [tree EXCEPT ![t] = "none"] /\ dirty' = [dirty EXCEPT ![t] = {}]
    /\ made' = [made EXCEPT ![t] = @ \ dirty[t]]
    /\ claimed' = [claimed EXCEPT ![t] = @ \ dirty[t]]
    /\ UNCHANGED <<sprintOf, git, coroutines, shipped, mixed>>

-----------------------------------------------------------------------------
(* Integration of a task (integrate_task_workspace).                       *)

At(t, from, to) == pc[t] \in from /\ pc' = [pc EXCEPT ![t] = to]

OtherTargetBusy(b) ==
    \/ \E u \in Tasks : pc[u] # "idle" /\ Target(u) # b
    \/ \E s \in Sprints : ship[s] # "idle" /\ s # b

\* Without a sprint nothing is checked out: the target is main, in name.
BeginIntegration(t) ==
    /\ tree[t] # "none" /\ Unshipping(t)
    /\ At(t, {"idle"}, IF sprintOf[t] = NoSprint THEN "onTarget" ELSE "begun")
    /\ mixed' = (mixed \/ OtherTargetBusy(Target(t)))
    /\ UNCHANGED <<sprintOf, git, worktrees, onto, ship, made, claimed, shipped>>

\* Faulty variant: the task's branch is checked out.
CheckOutSprint_Task(t) ==
    /\ At(t, {"begun"}, "checkedOut") /\ head' = t
    /\ UNCHANGED <<sprintOf, born, tip, worktrees, onto, ship, history>>

\* Faulty variant: the sprint's branch is taken for what is checked out.
CheckOutSprint_Assumed(t) ==
    /\ At(t, {"begun"}, "checkedOut")
    /\ UNCHANGED <<sprintOf, git, worktrees, onto, ship, history>>

CheckOutSprint(t) ==
    /\ At(t, {"begun"}, "checkedOut") /\ head' = sprintOf[t]
    /\ UNCHANGED <<sprintOf, born, tip, worktrees, onto, ship, history>>

\* A commit of the builder's own, or none.
MayCommitChore ==
    \/ UNCHANGED tip
    \/ \E c \in NewChores : tip' = [tip EXCEPT ![head] = Committed(@, {c})]

RemoveGeneratedArtifacts(t) ==
    /\ At(t, {"checkedOut"}, "onTarget") /\ MayCommitChore
    /\ UNCHANGED <<sprintOf, born, head, worktrees, onto, ship, history>>

\* Faulty variant: the changes are taken from the branch that is merged into.
CommitWorkspace_Loses(t) ==
    /\ At(t, {"onTarget"}, "committed") /\ dirty' = [dirty EXCEPT ![t] = {}]
    /\ UNCHANGED <<sprintOf, git, tree, onto, ship, history>>

\* commit_task_workspace_changes.  A worktree that a crash has left in a rebase
\* is not on its branch, and is skipped.
CommitWorkspace(t) ==
    /\ At(t, {"onTarget"}, "committed")
    /\ IF tree[t] = "ready"
       THEN /\ tip' = [tip EXCEPT ![t] = Committed(@, {t} \X dirty[t])]
            /\ dirty' = [dirty EXCEPT ![t] = {}]
       ELSE UNCHANGED <<tip, dirty>>
    /\ UNCHANGED <<sprintOf, born, head, tree, onto, ship, history>>

\* The task's branch is merged into whatever is checked out by now.
FastForward(t) ==
    /\ At(t, {"committed", "rebased"}, "merged") /\ CanMerge(tip[t]) /\ Merge(tip[t])
    /\ UNCHANGED <<sprintOf, born, head, worktrees, onto, ship, history>>

Diverged(t) ==
    /\ At(t, {"committed"}, "diverged") /\ ~CanMerge(tip[t])
    /\ UNCHANGED <<sprintOf, git, worktrees, onto, ship, history>>

\* rebase_task_workspace_for_integration.  The worktree must be on its branch.
Rebase(t) ==
    /\ At(t, {"diverged"}, "rebased") /\ tree[t] = "ready"
    /\ tip' = [tip EXCEPT ![t] = Rebased(@, tip[Target(t)])]
    /\ UNCHANGED <<sprintOf, born, head, worktrees, onto, ship, history>>

RebaseStops(t) ==
    /\ At(t, {"diverged"}, "resolving") /\ tree[t] = "ready"
    /\ tree' = [tree EXCEPT ![t] = "rebasing"]
    /\ onto' = [onto EXCEPT ![t] = tip[Target(t)]]
    /\ UNCHANGED <<sprintOf, git, dirty, ship, history>>

EndRebase(t) ==
    /\ tree' = [tree EXCEPT ![t] = "ready"]
    /\ onto' = [onto EXCEPT ![t] = {}]

\* Conflicts are resolved, and the rebase goes through in the end.
RebaseContinues(t) ==
    /\ At(t, {"resolving"}, "rebased") /\ EndRebase(t)
    /\ tip' = [tip EXCEPT ![t] = Rebased(@, onto[t])]
    /\ UNCHANGED <<sprintOf, born, head, dirty, ship, history>>

\* The resolver fails, or leaves conflicts.
RebaseAborts(t) ==
    /\ At(t, {"resolving"}, "idle") /\ EndRebase(t)
    /\ UNCHANGED <<sprintOf, git, dirty, ship, history>>

FinishIntegration(t) ==
    /\ At(t, {"merged"}, "idle") /\ MayCommitChore
    /\ claimed' = [claimed EXCEPT ![t] = made[t]]
    /\ UNCHANGED <<sprintOf, born, head, worktrees, onto, ship, made, shipped, mixed>>

\* A command fails: the second merge too finds branches diverged, the worktree
\* cannot be checked out, another git has the lock of the index.
IntegrationFails(t) ==
    /\ At(t, TaskPcs \ {"idle", "resolving"}, "idle")
    /\ UNCHANGED <<sprintOf, git, worktrees, onto, ship, history>>

-----------------------------------------------------------------------------
(* The merge of a sprint into main (sprint_maybe_ff_merge), by the task of *)
(* the sprint that is done last.                                           *)

ShipAt(s, from, to) == ship[s] \in from /\ ship' = [ship EXCEPT ![s] = to]

TasksOf(s) == {t \in Tasks : sprintOf[t] = s}

BeginShipment(s) ==
    /\ ShipAt(s, {"idle"}, "begun") /\ TasksOf(s) # {}
    /\ \A t \in TasksOf(s) : pc[t] = "idle" /\ made[t] # {} /\ claimed[t] = made[t]
    /\ mixed' = (mixed \/ OtherTargetBusy(s))
    /\ UNCHANGED <<sprintOf, git, worktrees, pc, onto, made, claimed, shipped>>

\* Faulty variant: main is taken for what is checked out.
CheckOutMain_Assumed(s) ==
    /\ ShipAt(s, {"begun"}, "onMain") \/ ShipAt(s, {"rebased"}, "again")
    /\ UNCHANGED <<sprintOf, git, worktrees, pc, onto, history>>

CheckOutMain(s) ==
    /\ ShipAt(s, {"begun"}, "onMain") \/ ShipAt(s, {"rebased"}, "again")
    /\ head' = Main
    /\ UNCHANGED <<sprintOf, born, tip, worktrees, pc, onto, history>>

ShipFastForward(s) ==
    /\ ShipAt(s, {"onMain", "again"}, "merged") /\ CanMerge(tip[s]) /\ Merge(tip[s])
    /\ UNCHANGED <<sprintOf, born, head, worktrees, pc, onto, history>>

ShipDiverged(s) ==
    /\ ShipAt(s, {"onMain"}, "diverged") /\ ~CanMerge(tip[s])
    /\ UNCHANGED <<sprintOf, git, worktrees, pc, onto, history>>

CheckOutBranch(s) ==
    /\ ShipAt(s, {"diverged"}, "onBranch") /\ head' = s
    /\ UNCHANGED <<sprintOf, born, tip, worktrees, pc, onto, history>>

\* Faulty variant: main is rebased, onto the sprint's branch.
ShipRebase_Main(s) ==
    /\ ShipAt(s, {"onBranch"}, "rebased")
    /\ tip' = [tip EXCEPT ![Main] = Rebased(@, tip[s])]
    /\ UNCHANGED <<sprintOf, born, head, worktrees, pc, onto, history>>

\* What is checked out is rebased onto main.
ShipRebase(s) ==
    /\ ShipAt(s, {"onBranch"}, "rebased")
    /\ tip' = [tip EXCEPT ![head] = Rebased(@, tip[Main])]
    /\ UNCHANGED <<sprintOf, born, head, worktrees, pc, onto, history>>

FinishShipment(s) ==
    /\ ShipAt(s, {"merged"}, "idle") /\ MayCommitChore /\ shipped' = shipped \cup {s}
    /\ UNCHANGED <<sprintOf, born, head, worktrees, pc, onto, made, claimed, mixed>>

\* A command fails, and leaves what is checked out.
ShipmentFails(s) ==
    /\ ShipAt(s, ShipPcs \ {"idle"}, "idle")
    /\ UNCHANGED <<sprintOf, git, worktrees, pc, onto, history>>

\* The server stops and starts again; a rebase is left as it is.
Restart ==
    /\ pc' = [t \in Tasks |-> "idle"] /\ ship' = [s \in Sprints |-> "idle"]
    /\ onto' = [t \in Tasks |-> {}]
    /\ UNCHANGED <<sprintOf, git, worktrees, history>>

-----------------------------------------------------------------------------
IntegrationStep(t) ==
    \/ CheckOutSprint(t) \/ RemoveGeneratedArtifacts(t) \/ CommitWorkspace(t)
    \/ FastForward(t) \/ Diverged(t) \/ Rebase(t) \/ RebaseStops(t) \/ RebaseContinues(t)
    \/ RebaseAborts(t) \/ FinishIntegration(t) \/ IntegrationFails(t)

ShipmentStep(s) ==
    \/ CheckOutMain(s) \/ ShipFastForward(s) \/ ShipDiverged(s) \/ CheckOutBranch(s)
    \/ ShipRebase(s) \/ FinishShipment(s) \/ ShipmentFails(s)

Next ==
    \/ \E t \in Tasks :
           \/ EnsureSprintBranch(t) \/ CreateWorkspace(t) \/ Work(t) \/ WorktreeGoes(t)
           \/ BeginIntegration(t) \/ IntegrationStep(t)
    \/ \E s \in Sprints : BeginShipment(s) \/ ShipmentStep(s)
    \/ Restart

Spec == Init /\ [][Next]_vars

-----------------------------------------------------------------------------
(* Properties.                                                             *)

TypeOK ==
    /\ sprintOf \in [Tasks -> Sprints \cup {NoSprint}]
    /\ born \in SUBSET Branches /\ Main \in born
    /\ tip \in [Branches -> SUBSET Commits] /\ head \in born \cap Shared
    /\ tree \in [Tasks -> {"none", "ready", "rebasing"}]
    /\ dirty \in [Tasks -> SUBSET Rounds]
    /\ pc \in [Tasks -> TaskPcs] /\ ship \in [Sprints -> ShipPcs]
    /\ onto \in [Tasks -> SUBSET Commits]
    /\ \A t \in Tasks : pc[t] = "resolving" => tree[t] = "rebasing"
    /\ made \in [Tasks -> SUBSET Rounds] /\ claimed \in [Tasks -> SUBSET Rounds]
    /\ shipped \in SUBSET Sprints /\ mixed \in BOOLEAN

In(t, rounds, b) == {t} \X rounds \subseteq WorksOf(tip[b])

\* What has reached main stays there as it is, and no other branch loses work
\* to a merge or a rebase, whatever the checkout is on by then.
NothingIsLost ==
    [][/\ tip[Main] \subseteq tip'[Main]
       /\ \A b \in Branches : WorksOf(tip[b]) \subseteq {c.what : c \in tip'[b]}]_vars

\* The work of an integration that reports success is in main or in the branch
\* of a sprint, or still in the worktree, where the next start will find it: what
\* LedgerIsKept says of reports, task by task.
ClaimedIsMerged ==
    \A t \in Tasks : \A n \in claimed[t] \ dirty[t] : \E b \in Shared : In(t, {n}, b)

\* It is in the branch it was meant for, unless integrations into different
\* branches have overlapped; and for a task without a sprint, as long as there
\* is no sprint whose branch can be checked out instead of main.
ClaimedIsInTarget ==
    \A t \in Tasks :
        /\ ~mixed
        /\ sprintOf[t] = NoSprint => \A u \in Tasks : sprintOf[u] = NoSprint
        => In(t, claimed[t], Target(t))

\* A sprint that is reported as merged has all of its work in main.
ShippedIsInMain ==
    ~mixed => \A s \in shipped : \A t \in TasksOf(s) : In(t, made[t], Main)

\* Work gets into main with its sprint and not before, where no other sprint's
\* branch is forked from it and no task without a sprint is merged beside it.
MainWaitsForShipment ==
    (\A t, u \in Tasks : sprintOf[t] = sprintOf[u]) =>
        \A s \in Sprints, t \in Tasks, n \in Rounds :
            sprintOf[t] = s /\ In(t, {n}, Main) => n \in claimed[t]

\* The work of the tasks, as WorkLedger sees it: what was done or claimed is
\* taken from the history, what was committed and merged from the branches.
RoundsOf(rounds) == {w \in Tasks \X Rounds : w[2] \in rounds[w[1]]}
On(branches) == {w \in Tasks \X Rounds : \E b \in branches : w \in WorksOf(tip[b])}

\* Whatever the git commands of different integrations do to each other, and
\* wherever the server stops, work that is committed goes into shared branches
\* and into main and never back, and is reported only where it is.
Ledger == INSTANCE WorkLedger WITH
    Works <- Tasks \X Rounds, done <- RoundsOf(made), kept <- On(Branches),
    merged <- On(Shared), released <- On({Main}),
    reported <- RoundsOf([t \in Tasks |-> claimed[t] \ dirty[t]])
LedgerIsKept == Ledger!Spec
=============================================================================
