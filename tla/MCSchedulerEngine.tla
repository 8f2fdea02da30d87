------------------------- MODULE MCSchedulerEngine -------------------------
(* Small instances of SchedulerEngine for TLC.                             *)
EXTENDS SchedulerEngine, TLC

CONSTANTS s1, w1, w2, p1, p2, c1, c2

\* Two processes of one worker each, or one of two.
MCHome == w1 :> p1 @@ w2 :> p2
SharedHome == [w \in Workers |-> p1]

\* A constant rhythm, and one that varies.
MCIntervalsOf == [d \in Distributions |-> IF d = "constant" THEN {1} ELSE {1, 2}]

\* One that makes every call, and one that boots as it does and declares the same.
MCCalls ==
  [c \in Clients |-> IF c = c1 THEN {"create", "change", "save", "delete"} ELSE {"create"}]

\* For the runs without edits.
CreateCalls == [c \in Clients |-> {"create"}]

\* Neither the actions nor the safety properties tell one worker of a process from
\* another.
Symmetric == Permutations(Workers)

\* More than are ever in use at once.
MCClaimIds == 1 .. 8
=============================================================================
