------------------------------ MODULE MCLeases ------------------------------
(* A small instance of Leases for TLC.                                     *)
EXTENDS Leases

CONSTANTS c1, c2, c3, a, b
=============================================================================
