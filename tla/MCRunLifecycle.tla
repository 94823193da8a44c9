-------------------------- MODULE MCRunLifecycle --------------------------
EXTENDS RunLifecycle
CONSTANTS r1, r2, u1, w1, w2
OneRun  == {r1}
TwoRuns == {r1, r2}
SameOwner == [r \in Runs |-> u1]
=============================================================================
