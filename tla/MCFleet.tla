------------------------------ MODULE MCFleet ------------------------------
(* A small instance of Fleet and Upgrade for TLC: two processes of         *)
(* different versions of the app.                                          *)
EXTENDS Upgrade

CONSTANTS p1, p2

MCVersionOf == [p \in Processes |-> IF p = p1 THEN "2.0" ELSE "3.0"]
=============================================================================
