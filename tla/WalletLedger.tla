--------------------------- MODULE WalletLedger ---------------------------
(***************************************************************************)
(* What the wallet promises, whatever the concurrency behind it: one       *)
(* wallet with a balance per currency and an append-only ledger, where the *)
(* two change only together.  A posting adds one row to the ledger and     *)
(* moves exactly the row's amounts; it never overdraws a currency, never   *)
(* exceeds what a numeric(20,8) column holds, and no request posts twice.  *)
(***************************************************************************)
EXTENDS Integers, FiniteSets, FiniteSetsExt

CONSTANTS
  Currencies,   \* currencies a balance row may hold
  Entries,      \* ledger rows that may ever be posted
  Opening,      \* the balance of each currency before the first posting
  MaxBalance    \* the largest value of the balance column

VARIABLES
  balance,      \* [Currencies -> 0..MaxBalance]
  ledger        \* the rows of the transactions table

ledgerVars == <<balance, ledger>>

-----------------------------------------------------------------------------

\* What a ledger row says happened to the balance of currency c.
Delta(e, c) == IF c = e.to THEN e.toAmount
               ELSE IF c = e.from THEN -e.fromAmount
               ELSE 0

Init == /\ balance = Opening
        /\ ledger = {}

Post(e) == /\ \A d \in ledger : d.ref # e.ref
           /\ \A c \in Currencies : balance[c] + Delta(e, c) \in 0..MaxBalance
           /\ ledger' = ledger \cup {e}
           /\ balance' = [c \in Currencies |-> balance[c] + Delta(e, c)]

Next == \E e \in Entries : Post(e)

Spec == Init /\ [][Next]_ledgerVars

-----------------------------------------------------------------------------

\* What the rows of R together say happened to the balance of currency c.
RowSum(c, R) == MapThenSumSet(LAMBDA e : Delta(e, c), R)

\* The balance of every currency is its opening balance plus everything the
\* ledger says happened to it.
Reconciled == \A c \in Currencies : balance[c] = Opening[c] + RowSum(c, ledger)

=============================================================================
