----------------------------- MODULE MCRunContext -----------------------------
(* A sandboxed agent; two layers over the root, two descriptors.           *)
EXTENDS RunContext, TLC

CONSTANTS f1, f2, k1, v1, v2, dir1, dir2

TwoFds   == {f1, f2}
TwoDests == {0, 3}
OneKey   == {k1}
TwoVals  == {v1, v2}
TwoDirs  == {dir1, dir2}
AgentEnv == (k1 :> v1)
Alike    == Permutations(TwoFds)
=============================================================================
