------------------------ MODULE MCTransactionHistory ------------------------
EXTENDS TransactionHistory, TLC

CONSTANTS t1, t2, t3, t4, fund, trade

Symmetry == Permutations(Txs)
=============================================================================
