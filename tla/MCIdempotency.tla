-------------------------- MODULE MCIdempotency --------------------------
(* Small instances of Idempotency. *)
EXTENDS Idempotency, TLC

CONSTANTS a1, a2, a3, a4, alice, bob, k1, k2

Symmetry == Permutations(Attempts) \cup Permutations(Users) \cup Permutations(Keys)

=============================================================================
