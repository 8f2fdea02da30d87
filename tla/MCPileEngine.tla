---------------------------- MODULE MCPileEngine ----------------------------
(* Small instances of PileEngine for TLC.                                  *)
EXTENDS PileEngine, TLC

CONSTANTS i1, i2, w1, w2, p1

\* One process runs every thread.
MCHome == [w \in Threads |-> p1]

\* More than are ever in use at once.
MCClaimIds == 1 .. 12

\* Every finished item, and a request that must be refused.
MCPurgeStatuses == {Finished, {"done", "running"}}

Symmetric == Permutations(Items) \cup Permutations(Threads)
=============================================================================
