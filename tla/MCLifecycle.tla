---------------------------- MODULE MCLifecycle ----------------------------
(* A small instance of Lifecycle for TLC: a task engine and a scheduler    *)
(* engine.                                                                 *)
EXTENDS Lifecycle

CONSTANTS te, se, t1, t2, s1, a1, a2

MCEngineOf == [x \in Workers |-> IF x \in {t1, t2} THEN te ELSE se]
=============================================================================
