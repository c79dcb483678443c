-------------------------- MODULE MCSprintLifecycle --------------------------
EXTENDS SprintLifecycle

\* Bound: pull requests of the sprint that wait for a decision.
TwoGates == gates <= 2
=============================================================================
