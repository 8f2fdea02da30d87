------------------------------ MODULE WorkOnce ------------------------------
(***************************************************************************)
(* What the task queue promises whoever schedules a task, without clocks,  *)
(* leases, claims, processes or their failures (README.md: "A task runs at *)
(* most once").  A task is scheduled, taken off the queue once, and ends   *)
(* once; taking it may give out the one permit to start its call, which is *)
(* spent by starting it or lost with whoever held it.                      *)
(*                                                                         *)
(* Several tasks may end, or be deleted, in one step: cancelMany and the   *)
(* housekeeping do that.                                                   *)
(***************************************************************************)
EXTENDS Naturals

CONSTANT Tasks

VARIABLES stage, permit, calls

vars == <<stage, permit, calls>>

Stages == {"none", "waiting", "taken", "ended", "gone"}

Permits == {"none", "given", "spent"}

Init ==
  /\ stage = [t \in Tasks |-> "none"]
  /\ permit = [t \in Tasks |-> "none"]
  /\ calls = [t \in Tasks |-> 0]

Schedule(t) ==
  /\ stage[t] = "none"
  /\ stage' = [stage EXCEPT ![t] = "waiting"]
  /\ UNCHANGED <<permit, calls>>

\* Off the queue, with or without the permit to start the call.
Take(t) ==
  /\ stage[t] = "waiting"
  /\ stage' = [stage EXCEPT ![t] = "taken"]
  /\ permit' \in {permit, [permit EXCEPT ![t] = "given"]}
  /\ UNCHANGED calls

\* A worker may be slow enough to start the call of a task given up meanwhile.
Start(t) ==
  /\ permit[t] = "given"
  /\ permit' = [permit EXCEPT ![t] = "spent"]
  /\ calls' = [calls EXCEPT ![t] = @ + 1]
  /\ UNCHANGED stage

\* Permits go down with the process that held them.
Lose(some) ==
  /\ \A t \in some : permit[t] = "given"
  /\ permit' = [t \in Tasks |-> IF t \in some THEN "none" ELSE permit[t]]
  /\ UNCHANGED <<stage, calls>>

End(some) ==
  /\ \A t \in some : stage[t] \in {"waiting", "taken"}
  /\ stage' = [t \in Tasks |-> IF t \in some THEN "ended" ELSE stage[t]]
  /\ UNCHANGED <<permit, calls>>

Delete(some) ==
  /\ \A t \in some : stage[t] = "ended"
  /\ stage' = [t \in Tasks |-> IF t \in some THEN "gone" ELSE stage[t]]
  /\ UNCHANGED <<permit, calls>>

Next ==
  \/ \E t \in Tasks : Schedule(t) \/ Take(t) \/ Start(t)
  \/ \E some \in SUBSET Tasks : Lose(some) \/ End(some) \/ Delete(some)

Spec == Init /\ [][Next]_vars
=============================================================================
