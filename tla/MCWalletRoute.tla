--------------------------- MODULE MCWalletRoute ---------------------------
(* Small instances of WalletRoute. *)
EXTENDS WalletRoute, Sequences

CONSTANTS ngn, usd, alice, r1, r2, r3, k1, k2

Fund(c, n) == [user |-> alice, type |-> "FUNDING", from |-> NoCurrency, to |-> c, amount |-> n]
Swap(t, c, d, n) == [user |-> alice, type |-> t, from |-> c, to |-> d, amount |-> n]

\* The usd row does not exist at first; the swaps oppose each other.
OpList == <<Fund(usd, 1), Swap("CONVERSION", ngn, usd, 2), Swap("TRADE", usd, ngn, 1)>>

MCOps == {OpList[i] : i \in 1..3}

KeyList == <<NoKey, k1, k2>>

Number(r) == 3 * (CHOOSE i \in 1..3 : OpList[i] = op[r])
               + (CHOOSE i \in 1..3 : KeyList[i] = key[r])

\* Requests are interchangeable, so each choice of three is taken in one order only
\* (a symmetry reduction that is sound for liveness).
InOrder == Number(r1) <= Number(r2) /\ Number(r2) <= Number(r3)

\* At least two are duplicates; of keys, too, one representative is enough.  That one
\* key is used for two operations is tried without the other key.
Duplicates == /\ Cardinality({r \in Requests : key[r] = k1}) >= 2
              /\ k2 \in {key[r] : r \in Requests} => OneBodyPerKey

MCInit == RouteInit /\ InOrder /\ Duplicates

MCRouteSpec == /\ MCInit /\ [][RouteNext]_routeVars
               /\ WF_routeVars(\E r \in Requests : Serve(r))

=============================================================================
