------------------------- MODULE MCRunEventStream -------------------------
EXTENDS RunEventStream
CONSTANTS r1, u1, w1
OneRun    == {r1}
SameOwner == [r \in Runs |-> u1]
=============================================================================
