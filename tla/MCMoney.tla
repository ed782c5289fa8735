------------------------------ MODULE MCMoney ------------------------------
(* A small instance of Money: the ledger is followed until it is off by Off. *)
EXTENDS Money

CONSTANTS Bits, MaxExponent, Off

MCSignificand == 2^Bits
MCUlps == {2^j : j \in 0..MaxExponent}

Followed == balance - recorded \in (-Off)..Off
=============================================================================
