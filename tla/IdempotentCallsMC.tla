-------------------------- MODULE IdempotentCallsMC --------------------------
(* IdempotentCalls on small instances; the cfg files give the constants. *)
EXTENDS IdempotentCalls, TLC

(* Calls are interchangeable and so are intents; used by the runs that check an invariant alone. *)
Symmetry == Permutations(Calls) \cup Permutations(Intents)
=============================================================================
