---------------------------- MODULE MCTaskClients ----------------------------
(* Small instances of TaskClients: one process of one worker and no faults, *)
(* and the clients.                                                         *)
EXTENDS TaskClients, TLC

CONSTANTS t1, t2, w1, p1, c1, c2

MCHome == w1 :> p1
MCFunctionsOf == p1 :> {"sync"}
MCSkipAfter == [f \in Names |-> NoLimit]
MCPurgeRequests == {<<Final, 0>>}

\* A client that only schedules, and one that edits tasks.
MCCalls == [c \in Clients |-> IF c = c1 THEN {"schedule"} ELSE {"update", "save"}]

\* For the run of one client.
SaveCalls == [c \in Clients |-> {"schedule", "save"}]

\* Neither the actions nor the properties tell one task from another.
Symmetric == Permutations(Tasks)
=============================================================================
