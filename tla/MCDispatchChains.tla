-------------------------- MODULE MCDispatchChains --------------------------
EXTENDS DispatchChains, FiniteSets

\* Bound: concurrent jobs are explored for features of one task, and larger
\* features with one job at a time.
OneJobInLargeFeatures == size > 1 => Cardinality({c \in Requests : ~Free(c)}) <= 1
=============================================================================
