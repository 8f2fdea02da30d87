---------------------------- MODULE MCTaskEngine ----------------------------
(* Small instances of TaskEngine for TLC.                                  *)
EXTENDS TaskEngine, TLC

CONSTANTS t1, w1, w2, p1, p2

\* Two processes of one worker each.  One is of an older version and lacks one
\* of the functions.
MCHome == [w \in Workers |-> IF w = w2 THEN p2 ELSE p1]
MCFunctionsOf == p1 :> {"sync", "mail"} @@ p2 :> {"sync"}

\* "sync" has a timeout, "mail" is not worth running more than a tick late.
MCSkipAfter == [f \in Names |-> IF f = "mail" THEN 1 ELSE NoLimit]

\* Finished tasks of any kind, and a request that must be refused.
MCPurgeRequests == {<<Final, 1>>, <<{"done", "running"}, 0>>}
=============================================================================
