----------------------------- MODULE WorkLedger -----------------------------
(***************************************************************************)
(* What the builder promises of the work that is done in a repository.     *)
(* Work can be lost only until it is committed; from then on it moves one  *)
(* way, into the branches that are shared and into main; and it is         *)
(* reported as integrated only where it can be found there.  Nothing is    *)
(* said of worktrees, commits, rebases and what is checked out;            *)
(* WorkspaceIntegration implements this specification.                     *)
(***************************************************************************)
CONSTANT Works   \* the rounds of work that can be done

VARIABLES
    done,       \* work that was done, and is not lost
    kept,       \* work that is committed
    merged,     \* work that a shared branch has
    released,   \* work that main has
    reported    \* work that was reported to be integrated

branches == <<merged, released>>
vars == <<done, kept, branches, reported>>

Init == done = {} /\ kept = {} /\ merged = {} /\ released = {} /\ reported = {}

Do ==
    /\ \E w \in Works \ done : done' = done \cup {w}
    /\ UNCHANGED <<kept, branches, reported>>

\* A worktree goes, with what is only there.
Lose ==
    /\ kept \subseteq done' /\ done' \subseteq done
    /\ UNCHANGED <<kept, branches, reported>>

Commit ==
    /\ kept \subseteq kept' /\ kept' \subseteq done
    /\ UNCHANGED <<done, branches, reported>>

\* Committed work is merged, and what was merged is released.
Merge ==
    /\ merged \subseteq merged' /\ merged' \subseteq kept
    /\ released \subseteq released' /\ released' \subseteq merged'
    /\ UNCHANGED <<done, kept, reported>>

Report ==
    /\ reported \subseteq reported' /\ reported' \subseteq merged
    /\ UNCHANGED <<done, kept, branches>>

Next == Do \/ Lose \/ Commit \/ Merge \/ Report

Spec == Init /\ [][Next]_vars

\* What follows for every state.
InOrder ==
    /\ released \subseteq merged /\ merged \subseteq kept /\ kept \subseteq done
    /\ reported \subseteq merged
=============================================================================
