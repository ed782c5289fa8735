--------------------------- MODULE MCFxService ---------------------------
(* Three concurrent requests for a rate. *)
EXTENDS FxService, TLC

CONSTANTS r1, r2, r3

Symmetry == Permutations(Requests)

=============================================================================
