--------------------------- MODULE MCProcessExit ---------------------------
EXTENDS ProcessExit

CONSTANTS p, q

TwoProcs == {p, q}
=============================================================================
