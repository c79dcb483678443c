----------------------- MODULE MCWorkspaceIntegration -----------------------
EXTENDS WorkspaceIntegration, Naturals, FiniteSets, TLC

Symmetry ==
    Permutations(Tasks) \cup Permutations(Sprints) \cup Permutations(Rounds)

\* Bound: three of rounds of work and commits of the builder's own; where tasks
\* have different targets, the same round of work on each.
ThreeChanges ==
    LET chores == Chores \ NewChores
        rounds == UNION {{t} \X made[t] : t \in Tasks}
    IN  IF \A t, u \in Tasks : sprintOf[t] = sprintOf[u]
        THEN Cardinality(chores) + Cardinality(rounds) <= 3
        ELSE chores = {} /\ Cardinality(UNION {made[t] : t \in Tasks}) <= 1
=============================================================================
