------------------------------ MODULE Handouts ------------------------------
(***************************************************************************)
(* What a pile promises whoever adds an item, without clocks, leases,      *)
(* claims, blocks, threads or their failures (README.md, "Piles"): an item *)
(* waits, is handed to a block MaxAttempts times at most, goes back with   *)
(* its try or without it, and ends once.                                   *)
(*                                                                         *)
(* An item may be taken and handed to no block: its claim's answer was     *)
(* lost, or it had no try left and is about to be given up.  Several items *)
(* may end, or be deleted, in one step: cancelMany and purge do that.      *)
(***************************************************************************)
EXTENDS Naturals

CONSTANTS Items, MaxAttempts

VARIABLES stage, tries

vars == <<stage, tries>>

Open == {"waiting", "handed", "taken"}

Init ==
  /\ stage = [i \in Items |-> "none"]
  /\ tries = [i \in Items |-> 0]

Add(i) ==
  /\ stage[i] = "none"
  /\ stage' = [stage EXCEPT ![i] = "waiting"]
  /\ UNCHANGED tries

\* To a block, whoever had it before.
HandOut(i) ==
  /\ stage[i] \in Open
  /\ tries[i] < MaxAttempts
  /\ stage' = [stage EXCEPT ![i] = "handed"]
  /\ tries' = [tries EXCEPT ![i] = @ + 1]

TakeAside(i) ==
  /\ stage[i] \in Open
  /\ stage' = [stage EXCEPT ![i] = "taken"]
  /\ UNCHANGED tries

\* The try comes back with the item, once, if it was handed out.
GiveBack(i) ==
  /\ stage[i] \in {"handed", "taken"}
  /\ stage' = [stage EXCEPT ![i] = "waiting"]
  /\ tries' = [tries EXCEPT ![i] = IF stage[i] = "handed" THEN @ - 1 ELSE @]

\* The item comes back alone.
PutBack(i) ==
  /\ stage[i] \in {"handed", "taken"}
  /\ stage' = [stage EXCEPT ![i] = "waiting"]
  /\ UNCHANGED tries

End(some) ==
  /\ \A i \in some : stage[i] \in Open
  /\ stage' = [i \in Items |-> IF i \in some THEN "ended" ELSE stage[i]]
  /\ UNCHANGED tries

Delete(some) ==
  /\ \A i \in some : stage[i] = "ended"
  /\ stage' = [i \in Items |-> IF i \in some THEN "gone" ELSE stage[i]]
  /\ UNCHANGED tries

Next ==
  \/ \E i \in Items : Add(i) \/ HandOut(i) \/ TakeAside(i) \/ GiveBack(i) \/ PutBack(i)
  \/ \E some \in SUBSET Items : End(some) \/ Delete(some)

Spec == Init /\ [][Next]_vars
=============================================================================
