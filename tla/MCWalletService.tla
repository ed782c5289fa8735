-------------------------- MODULE MCWalletService --------------------------
(* Small instances of WalletService. *)
EXTENDS WalletService, TLC

CONSTANTS ngn, usd, eur, alice, bob, r1, r2, r3

Fund(u, c, n) ==
  [user |-> u, type |-> "FUNDING", from |-> NoCurrency, to |-> c, amount |-> n]
Swap(t, c, d, n) ==
  [user |-> alice, type |-> t, from |-> c, to |-> d, amount |-> n]

\* A funding, a swap that can empty its source, one in the other direction, the
\* three ways to touch a currency without a row, and a request of a user without a
\* wallet.
MCOps == {Fund(alice, usd, 1), Swap("CONVERSION", ngn, usd, 2), Swap("TRADE", usd, ngn, 1),
          Fund(alice, eur, 1), Swap("TRADE", ngn, eur, 1), Swap("TRADE", eur, ngn, 1),
          Fund(bob, usd, 1)}

\* A funding can lose an update only if two others touch its new row (run
\* wallet_lost_update): here at most one other does.
MCInit == Init /\ FirstFundingsPaired

MCSpec == MCInit /\ [][Next]_vars

\* The same without the stranger, for the wallet whose usd row is missing.
FirstTouchOps == {Fund(alice, usd, 1), Swap("CONVERSION", ngn, usd, 2),
                  Swap("TRADE", usd, ngn, 1)}

Symmetry == Permutations(Requests)

=============================================================================
