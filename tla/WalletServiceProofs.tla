------------------------ MODULE WalletServiceProofs ------------------------
(***************************************************************************)
(* The wallet service for any number of requests: no overdraft, swaps on   *)
(* current balances, truthful answers, the shape of deadlocks, and that it *)
(* implements WalletLedger when the rows to be funded exist.               *)
(***************************************************************************)
EXTENDS WalletService, FiniteSetTheorems, WellFoundedInduction, TLAPS

\* toFixed of a non-negative fraction is a natural number.
LEMMA ToFixedNat ==
  ASSUME NEW n \in Nat, NEW d \in Nat \ {0}
  PROVE  ToFixed(n, d) \in Nat
  BY DEF ToFixed

\* The fields of a validated operation.
LEMMA OpFields ==
  ASSUME NEW o \in Ops
  PROVE  /\ o.to \in Currencies
         /\ o.amount \in Nat \ {0}
         /\ o.type # "FUNDING" => o.from \in Currencies
         /\ o.type = "FUNDING" => o.from = NoCurrency
         /\ o.from # o.to
  BY OpsAssumption

\* What an operation credits is a natural number.
LEMMA CreditNat ==
  ASSUME NEW o \in Ops, NEW q \in Rates \cup {0}
  PROVE  Credit(o, q) \in Nat
<1>1. o.amount \in Nat
  BY OpFields
<1>2. q \in Nat
  BY RatesAssumption
<1>3. o.amount * q \in Nat
  BY <1>1, <1>2
<1>4. RateScale \in Nat \ {0}
  BY RatesAssumption
<1> QED
  BY <1>1, <1>3, <1>4, ToFixedNat DEF Credit

\* The initial state is well typed.
LEMMA TypeInit == Init => TypeOK
  BY CurrencyAssumption, BalanceAssumption
  DEF Init, TypeOK, Opening, Unread

\* Whatever a request would record is a ledger entry.
LEMMA EntryTyped ==
  ASSUME TypeOK, NEW r \in Requests
  PROVE  Entry(r) \in LedgerEntries
<1>1. op[r] \in Ops /\ rate[r] \in Rates \cup {0}
  BY DEF TypeOK
<1> QED
  BY <1>1 DEF Entry, LedgerEntries

\* A commit stores well-typed values: the balances it computed fit the column.
LEMMA CommitTypes ==
  ASSUME IInv, NEW r \in Requests, pc[r] = "commit", ApplyWrites(r)
  PROVE  /\ balance' \in [Currencies -> 0..MaxBalance]
         /\ ledger' \in SUBSET LedgerEntries
         /\ lock' \in [Currencies -> Requests \cup {None}]
         /\ rows' \in SUBSET Currencies
<1> USE DEF IInv, TypeOK, ApplyWrites
<1>1. NewTo(r) \in 0..MaxBalance
  <2>1. Credit(op[r], rate[r]) \in Nat
    BY CreditNat
  <2>2. seen[r][op[r].to] \in 0..MaxBalance
    BY OpFields DEF ReadsInv
  <2>3. NewTo(r) <= MaxBalance
    BY DEF ReadsInv
  <2> QED
    BY <2>1, <2>2, <2>3, BalanceAssumption DEF NewTo
<1>2. ~IsFund(r) => NewFrom(r) \in 0..MaxBalance
  BY OpFields, BalanceAssumption DEF NewFrom, ReadsInv, SwapHolds, IsFund
<1>3. ASSUME NEW c \in Currencies, c = op[r].from PROVE ~IsFund(r)
  BY <1>3, OpFields, CurrencyAssumption DEF IsFund
<1>4. balance' \in [Currencies -> 0..MaxBalance]
  BY <1>1, <1>2, <1>3
<1>5. Entry(r) \in LedgerEntries
  BY EntryTyped
<1> QED
  BY <1>4, <1>5, OpFields DEF ReleaseLocks

\* A commit does not touch a row another request has locked.
LEMMA CommitLeavesLockedRows ==
  ASSUME IInv, NEW r \in Requests, pc[r] = "commit", ApplyWrites(r),
         NEW s \in Requests \ {r}, NEW c \in Currencies, lock[c] = s
  PROVE  balance'[c] = balance[c]
<1> USE DEF IInv
<1>1. lock[op[r].to] = r
  BY DEF LocksInv
<1>2. ASSUME c = op[r].from PROVE lock[c] = r
  <2>1. op[r] \in Ops
    BY DEF TypeOK
  <2>2. ~IsFund(r)
    BY <1>2, <2>1, OpFields, CurrencyAssumption DEF IsFund
  <2> QED
    BY <1>2, <2>2 DEF LocksInv, SwapHolds
<1>3. r # s
  OBVIOUS
<1> QED
  BY <1>1, <1>2, <1>3 DEF ApplyWrites

\* A ledger row refers to the request that wrote it.
LEMMA EntryRef ==
  /\ \A e \in LedgerEntries : e.ref \in Requests
  /\ \A r \in Requests : Entry(r).ref = r
  BY DEF LedgerEntries, Entry, EntryOf

\* The ledger row of a request depends on what it asked for and was quoted only.
LEMMA EntryKept ==
  ASSUME UNCHANGED <<op, rate>>, NEW r \in Requests
  PROVE  Entry(r)' = Entry(r)
  BY DEF Entry

\* The victim of a deadlock is waiting inside its transaction; its statement fails.
LEMMA VictimFails ==
  ASSUME NEW r \in Requests, DeadlockVictim(r)
  PROVE  /\ pc[r] \in {"lock", "lockTo", "update", "insert"}
         /\ StatementFails(r, 500)
         /\ UNCHANGED <<dbVars, op, rate, seen>>
<1>1. PICK S \in SUBSET Requests : r \in S /\ WaitCycle(S)
  BY DEF DeadlockVictim, InWaitCycle
<1>2. Blocked(r)
  BY <1>1 DEF WaitCycle
<1> QED
  BY <1>2 DEF DeadlockVictim, Blocked

\* Every step preserves the types.
LEMMA TypeStep == IInv /\ [Next]_vars => TypeOK'
<1> SUFFICES ASSUME IInv, [Next]_vars PROVE TypeOK'
  OBVIOUS
<1> USE DEF IInv, TypeOK, dbVars, Step, Goto, Throw, StatementFails, Answer,
     LockAndRead, ReleaseLocks
<1>0. ASSUME NEW r \in Requests, InvalidBody(r) PROVE TypeOK'
  BY <1>0 DEF InvalidBody
<1>1. ASSUME NEW r \in Requests, WalletNotFound(r) PROVE TypeOK'
  BY <1>1 DEF WalletNotFound
<1>2. ASSUME NEW r \in Requests, FundStart(r) PROVE TypeOK'
  BY <1>2 DEF FundStart
<1>3. ASSUME NEW r \in Requests, SwapQuote(r) PROVE TypeOK'
  BY <1>3 DEF SwapQuote
<1>4. ASSUME NEW r \in Requests, SwapNoQuote(r) PROVE TypeOK'
  BY <1>4 DEF SwapNoQuote
<1>5. ASSUME NEW r \in Requests, Connect(r) PROVE TypeOK'
  BY <1>5 DEF Connect
<1>6. ASSUME NEW r \in Requests, ConnectTimeout(r) PROVE TypeOK'
  BY <1>6 DEF ConnectTimeout
<1>7. ASSUME NEW r \in Requests, FundLock(r) PROVE TypeOK'
  BY <1>7 DEF FundLock
<1>8. ASSUME NEW r \in Requests, FundNoRow(r) PROVE TypeOK'
  BY <1>8 DEF FundNoRow
<1>9. ASSUME NEW r \in Requests, SwapLockFrom(r) PROVE TypeOK'
  BY <1>9 DEF SwapLockFrom, Target
<1>10. ASSUME NEW r \in Requests, SwapInsufficient(r) PROVE TypeOK'
  BY <1>10 DEF SwapInsufficient, Target
<1>11. ASSUME NEW r \in Requests, SwapNoSource(r) PROVE TypeOK'
  BY <1>11 DEF SwapNoSource
<1>12. ASSUME NEW r \in Requests, FundUpsertFound(r) PROVE TypeOK'
  BY <1>12 DEF FundUpsertFound
<1>13. ASSUME NEW r \in Requests, SwapUpsertFound(r) PROVE TypeOK'
  BY <1>13 DEF SwapUpsertFound
<1>14. ASSUME NEW r \in Requests, UpsertMissing(r) PROVE TypeOK'
  BY <1>14 DEF UpsertMissing
<1>15. ASSUME NEW r \in Requests, InsertRow(r) PROVE TypeOK'
  BY <1>15, OpFields DEF InsertRow
<1>16. ASSUME NEW r \in Requests, InsertConflict(r) PROVE TypeOK'
  BY <1>16 DEF InsertConflict
<1>17. ASSUME NEW r \in Requests, SwapLockTo(r) PROVE TypeOK'
  BY <1>17, OpFields DEF SwapLockTo, Target
<1>18. ASSUME NEW r \in Requests, UpdateBalances(r) PROVE TypeOK'
  BY <1>18 DEF UpdateBalances
<1>19. ASSUME NEW r \in Requests, BalanceOverflow(r) PROVE TypeOK'
  BY <1>19 DEF BalanceOverflow
<1>20. ASSUME NEW r \in Requests, Record(r) PROVE TypeOK'
  BY <1>20 DEF Record
<1>21. ASSUME NEW r \in Requests, Commit(r) PROVE TypeOK'
  BY <1>21, CommitTypes DEF Commit, ApplyWrites
<1>22. ASSUME NEW r \in Requests, CommitReplyLost(r) PROVE TypeOK'
  BY <1>22, CommitTypes DEF CommitReplyLost, ApplyWrites
<1>23. ASSUME NEW r \in Requests, Rollback(r) PROVE TypeOK'
  BY <1>23 DEF Rollback
<1>24. ASSUME NEW r \in Requests, ConnectionLost(r) PROVE TypeOK'
  BY <1>24 DEF ConnectionLost, InTx
<1>25. ASSUME NEW r \in Requests, DeadlockVictim(r) PROVE TypeOK'
  <2>1. /\ pc[r] \in {"lock", "lockTo", "update", "insert"}
        /\ StatementFails(r, 500)
        /\ UNCHANGED <<dbVars, op, rate, seen>>
    BY <1>25, VictimFails
  <2> QED
    BY <2>1
<1>26. CASE UNCHANGED vars
  BY <1>26 DEF vars
<1> HIDE DEF IInv, TypeOK
<1> QED
  BY <1>0, <1>1, <1>2, <1>3, <1>4, <1>5, <1>6, <1>7, <1>8, <1>9, <1>10, <1>11,
     <1>12, <1>13, <1>14, <1>15, <1>16, <1>17, <1>18, <1>19, <1>20, <1>21,
     <1>22, <1>23, <1>24, <1>25, <1>26
  DEF Next, Proceed, Finished

\* Every step preserves the lock discipline.
LEMMA LocksStep == IInv /\ [Next]_vars => LocksInv'
<1> SUFFICES ASSUME IInv, [Next]_vars PROVE LocksInv'
  OBVIOUS
<1> USE DEF IInv, TypeOK, LocksInv, SwapHolds, IsFund, dbVars, Step, Goto,
     Throw, StatementFails, Answer, LockAndRead, ReleaseLocks
<1>0. ASSUME NEW r \in Requests, InvalidBody(r) PROVE LocksInv'
  BY <1>0 DEF InvalidBody
<1>1. ASSUME NEW r \in Requests, WalletNotFound(r) PROVE LocksInv'
  BY <1>1 DEF WalletNotFound
<1>2. ASSUME NEW r \in Requests, FundStart(r) PROVE LocksInv'
  BY <1>2 DEF FundStart
<1>3. ASSUME NEW r \in Requests, SwapQuote(r) PROVE LocksInv'
  BY <1>3 DEF SwapQuote
<1>4. ASSUME NEW r \in Requests, SwapNoQuote(r) PROVE LocksInv'
  BY <1>4 DEF SwapNoQuote
<1>5. ASSUME NEW r \in Requests, Connect(r) PROVE LocksInv'
  BY <1>5 DEF Connect
<1>6. ASSUME NEW r \in Requests, ConnectTimeout(r) PROVE LocksInv'
  BY <1>6 DEF ConnectTimeout
<1>7. ASSUME NEW r \in Requests, FundLock(r) PROVE LocksInv'
  BY <1>7, NoneAssumption DEF FundLock
<1>8. ASSUME NEW r \in Requests, FundNoRow(r) PROVE LocksInv'
  BY <1>8 DEF FundNoRow
<1>9. ASSUME NEW r \in Requests, SwapLockFrom(r) PROVE LocksInv'
  BY <1>9, NoneAssumption DEF SwapLockFrom, Target
<1>10. ASSUME NEW r \in Requests, SwapInsufficient(r) PROVE LocksInv'
  BY <1>10, NoneAssumption DEF SwapInsufficient, Target
<1>11. ASSUME NEW r \in Requests, SwapNoSource(r) PROVE LocksInv'
  BY <1>11 DEF SwapNoSource
<1>12. ASSUME NEW r \in Requests, FundUpsertFound(r) PROVE LocksInv'
  BY <1>12 DEF FundUpsertFound
<1>13. ASSUME NEW r \in Requests, SwapUpsertFound(r) PROVE LocksInv'
  BY <1>13 DEF SwapUpsertFound
<1>14. ASSUME NEW r \in Requests, UpsertMissing(r) PROVE LocksInv'
  BY <1>14 DEF UpsertMissing
<1>15. ASSUME NEW r \in Requests, InsertRow(r) PROVE LocksInv'
  BY <1>15, NoneAssumption DEF InsertRow
<1>16. ASSUME NEW r \in Requests, InsertConflict(r) PROVE LocksInv'
  BY <1>16, OpFields, NoneAssumption DEF InsertConflict
<1>17. ASSUME NEW r \in Requests, SwapLockTo(r) PROVE LocksInv'
  BY <1>17, NoneAssumption DEF SwapLockTo, Target
<1>18. ASSUME NEW r \in Requests, UpdateBalances(r) PROVE LocksInv'
  BY <1>18, OpFields, NoneAssumption DEF UpdateBalances
<1>19. ASSUME NEW r \in Requests, BalanceOverflow(r) PROVE LocksInv'
  BY <1>19, OpFields, NoneAssumption DEF BalanceOverflow
<1>20. ASSUME NEW r \in Requests, Record(r) PROVE LocksInv'
  BY <1>20 DEF Record
<1>21. ASSUME NEW r \in Requests, Commit(r) PROVE LocksInv'
  BY <1>21, OpFields, NoneAssumption DEF Commit, ApplyWrites
<1>22. ASSUME NEW r \in Requests, CommitReplyLost(r) PROVE LocksInv'
  BY <1>22, OpFields, NoneAssumption DEF CommitReplyLost, ApplyWrites
<1>23. ASSUME NEW r \in Requests, Rollback(r) PROVE LocksInv'
  BY <1>23, OpFields, NoneAssumption DEF Rollback
<1>24. ASSUME NEW r \in Requests, ConnectionLost(r) PROVE LocksInv'
  BY <1>24, OpFields, NoneAssumption DEF ConnectionLost, InTx
<1>25. ASSUME NEW r \in Requests, DeadlockVictim(r) PROVE LocksInv'
  <2>1. /\ pc[r] \in {"lock", "lockTo", "update", "insert"}
        /\ StatementFails(r, 500)
        /\ UNCHANGED <<dbVars, op, rate, seen>>
    BY <1>25, VictimFails
  <2> QED
    BY <2>1, OpFields, NoneAssumption
<1>26. CASE UNCHANGED vars
  BY <1>26 DEF vars
<1> HIDE DEF IInv, TypeOK, LocksInv
<1> QED
  BY <1>0, <1>1, <1>2, <1>3, <1>4, <1>5, <1>6, <1>7, <1>8, <1>9, <1>10, <1>11,
     <1>12, <1>13, <1>14, <1>15, <1>16, <1>17, <1>18, <1>19, <1>20, <1>21,
     <1>22, <1>23, <1>24, <1>25, <1>26
  DEF Next, Proceed, Finished

\* A commit leaves what the other requests have read current.
LEMMA CommitKeepsReads ==
  ASSUME IInv, NEW r \in Requests, pc[r] = "commit", ApplyWrites(r),
         Goto(r, "done"), UNCHANGED <<op, rate, seen>>
  PROVE  ReadsInv'
<1>1. pc'[r] = "done" /\ \A s \in Requests \ {r} : pc'[s] = pc[s]
  BY DEF Goto, IInv, TypeOK
<1>2. \A s \in Requests : IsFund(s)' = IsFund(s) /\ NewTo(s)' = NewTo(s)
  BY DEF IsFund, NewTo
<1>3. \A s \in Requests : op[s] \in Ops
  BY DEF IInv, TypeOK
<1>4. ASSUME NEW s \in Requests \ {r}, ~IsFund(s), pc[s] \in SwapHolds
      PROVE  balance'[op[s].from] = balance[op[s].from]
  <2>1. lock[op[s].from] = s /\ op[s].from \in Currencies
    BY <1>3, <1>4, OpFields DEF IInv, LocksInv, IsFund
  <2> QED
    BY <2>1, CommitLeavesLockedRows
<1>5. ASSUME NEW s \in Requests \ {r}, ~IsFund(s),
             pc[s] \in {"update", "record", "commit"}
      PROVE  balance'[op[s].to] = balance[op[s].to]
  <2>1. lock[op[s].to] = s /\ op[s].to \in Currencies
    BY <1>3, <1>5, OpFields DEF IInv, LocksInv
  <2> QED
    BY <2>1, CommitLeavesLockedRows
<1> QED
  BY <1>1, <1>2, <1>4, <1>5 DEF IInv, ReadsInv, SwapHolds

\* Every step preserves the worth of what the requests have read.
LEMMA ReadsStep == IInv /\ [Next]_vars => ReadsInv'
<1> SUFFICES ASSUME IInv, [Next]_vars PROVE ReadsInv'
  OBVIOUS
<1> USE DEF IInv, TypeOK, LocksInv, ReadsInv, SwapHolds, IsFund, NewTo,
     Unread, dbVars, Step, Goto, Throw, StatementFails, Answer, LockAndRead,
     ReleaseLocks
<1>0. ASSUME NEW r \in Requests, InvalidBody(r) PROVE ReadsInv'
  BY <1>0 DEF InvalidBody
<1>1. ASSUME NEW r \in Requests, WalletNotFound(r) PROVE ReadsInv'
  BY <1>1 DEF WalletNotFound
<1>2. ASSUME NEW r \in Requests, FundStart(r) PROVE ReadsInv'
  BY <1>2 DEF FundStart
<1>3. ASSUME NEW r \in Requests, SwapQuote(r) PROVE ReadsInv'
  BY <1>3 DEF SwapQuote
<1>4. ASSUME NEW r \in Requests, SwapNoQuote(r) PROVE ReadsInv'
  BY <1>4 DEF SwapNoQuote
<1>5. ASSUME NEW r \in Requests, Connect(r) PROVE ReadsInv'
  BY <1>5 DEF Connect
<1>6. ASSUME NEW r \in Requests, ConnectTimeout(r) PROVE ReadsInv'
  BY <1>6 DEF ConnectTimeout
<1>7. ASSUME NEW r \in Requests, FundLock(r) PROVE ReadsInv'
  BY <1>7 DEF FundLock
<1>8. ASSUME NEW r \in Requests, FundNoRow(r) PROVE ReadsInv'
  BY <1>8 DEF FundNoRow
<1>9. ASSUME NEW r \in Requests, SwapLockFrom(r) PROVE ReadsInv'
  BY <1>9 DEF SwapLockFrom, Target
<1>10. ASSUME NEW r \in Requests, SwapInsufficient(r) PROVE ReadsInv'
  BY <1>10 DEF SwapInsufficient, Target
<1>11. ASSUME NEW r \in Requests, SwapNoSource(r) PROVE ReadsInv'
  BY <1>11 DEF SwapNoSource
<1>12. ASSUME NEW r \in Requests, FundUpsertFound(r) PROVE ReadsInv'
  BY <1>12 DEF FundUpsertFound
<1>13. ASSUME NEW r \in Requests, SwapUpsertFound(r) PROVE ReadsInv'
  BY <1>13 DEF SwapUpsertFound
<1>14. ASSUME NEW r \in Requests, UpsertMissing(r) PROVE ReadsInv'
  BY <1>14 DEF UpsertMissing
<1>15. ASSUME NEW r \in Requests, InsertRow(r) PROVE ReadsInv'
  BY <1>15, OpFields DEF InsertRow
<1>16. ASSUME NEW r \in Requests, InsertConflict(r) PROVE ReadsInv'
  BY <1>16 DEF InsertConflict
<1>17. ASSUME NEW r \in Requests, SwapLockTo(r) PROVE ReadsInv'
  BY <1>17, OpFields DEF SwapLockTo, Target
<1>18. ASSUME NEW r \in Requests, UpdateBalances(r) PROVE ReadsInv'
  BY <1>18 DEF UpdateBalances
<1>19. ASSUME NEW r \in Requests, BalanceOverflow(r) PROVE ReadsInv'
  BY <1>19 DEF BalanceOverflow
<1>20. ASSUME NEW r \in Requests, Record(r) PROVE ReadsInv'
  BY <1>20 DEF Record
<1>21. ASSUME NEW r \in Requests, Commit(r) PROVE ReadsInv'
  BY <1>21, CommitKeepsReads DEF Commit
<1>22. ASSUME NEW r \in Requests, CommitReplyLost(r) PROVE ReadsInv'
  BY <1>22, CommitKeepsReads DEF CommitReplyLost
<1>23. ASSUME NEW r \in Requests, Rollback(r) PROVE ReadsInv'
  BY <1>23 DEF Rollback
<1>24. ASSUME NEW r \in Requests, ConnectionLost(r) PROVE ReadsInv'
  BY <1>24 DEF ConnectionLost, InTx
<1>25. ASSUME NEW r \in Requests, DeadlockVictim(r) PROVE ReadsInv'
  <2>1. /\ pc[r] \in {"lock", "lockTo", "update", "insert"}
        /\ StatementFails(r, 500)
        /\ UNCHANGED <<dbVars, op, rate, seen>>
    BY <1>25, VictimFails
  <2> QED
    BY <2>1
<1>26. CASE UNCHANGED vars
  BY <1>26 DEF vars
<1> HIDE DEF IInv, TypeOK, LocksInv, ReadsInv
<1> QED
  BY <1>0, <1>1, <1>2, <1>3, <1>4, <1>5, <1>6, <1>7, <1>8, <1>9, <1>10, <1>11,
     <1>12, <1>13, <1>14, <1>15, <1>16, <1>17, <1>18, <1>19, <1>20, <1>21,
     <1>22, <1>23, <1>24, <1>25, <1>26
  DEF Next, Proceed, Finished

\* Every step preserves the relation of responses and ledger.
LEMMA AnswersStep == IInv /\ [Next]_vars => AnswersInv'
<1> SUFFICES ASSUME IInv, [Next]_vars PROVE AnswersInv'
  OBVIOUS
<1> USE DEF IInv, TypeOK, AnswersInv, dbVars, Step, Goto, Throw,
     StatementFails, Answer, LockAndRead, ReleaseLocks
<1>0. ASSUME NEW r \in Requests, InvalidBody(r) PROVE AnswersInv'
  BY <1>0, EntryKept DEF InvalidBody
<1>1. ASSUME NEW r \in Requests, WalletNotFound(r) PROVE AnswersInv'
  BY <1>1, EntryKept DEF WalletNotFound
<1>2. ASSUME NEW r \in Requests, FundStart(r) PROVE AnswersInv'
  BY <1>2, EntryKept DEF FundStart
<1>3. ASSUME NEW r \in Requests, SwapQuote(r) PROVE AnswersInv'
  BY <1>3 DEF SwapQuote, Entry
<1>4. ASSUME NEW r \in Requests, SwapNoQuote(r) PROVE AnswersInv'
  BY <1>4, EntryKept DEF SwapNoQuote
<1>5. ASSUME NEW r \in Requests, Connect(r) PROVE AnswersInv'
  BY <1>5, EntryKept DEF Connect
<1>6. ASSUME NEW r \in Requests, ConnectTimeout(r) PROVE AnswersInv'
  BY <1>6, EntryKept DEF ConnectTimeout
<1>7. ASSUME NEW r \in Requests, FundLock(r) PROVE AnswersInv'
  BY <1>7, EntryKept DEF FundLock
<1>8. ASSUME NEW r \in Requests, FundNoRow(r) PROVE AnswersInv'
  BY <1>8, EntryKept DEF FundNoRow
<1>9. ASSUME NEW r \in Requests, SwapLockFrom(r) PROVE AnswersInv'
  BY <1>9, EntryKept DEF SwapLockFrom, Target
<1>10. ASSUME NEW r \in Requests, SwapInsufficient(r) PROVE AnswersInv'
  BY <1>10, EntryKept DEF SwapInsufficient, Target
<1>11. ASSUME NEW r \in Requests, SwapNoSource(r) PROVE AnswersInv'
  BY <1>11, EntryKept DEF SwapNoSource
<1>12. ASSUME NEW r \in Requests, FundUpsertFound(r) PROVE AnswersInv'
  BY <1>12, EntryKept DEF FundUpsertFound
<1>13. ASSUME NEW r \in Requests, SwapUpsertFound(r) PROVE AnswersInv'
  BY <1>13, EntryKept DEF SwapUpsertFound
<1>14. ASSUME NEW r \in Requests, UpsertMissing(r) PROVE AnswersInv'
  BY <1>14, EntryKept DEF UpsertMissing
<1>15. ASSUME NEW r \in Requests, InsertRow(r) PROVE AnswersInv'
  BY <1>15, EntryKept DEF InsertRow
<1>16. ASSUME NEW r \in Requests, InsertConflict(r) PROVE AnswersInv'
  BY <1>16, EntryKept DEF InsertConflict
<1>17. ASSUME NEW r \in Requests, SwapLockTo(r) PROVE AnswersInv'
  BY <1>17, EntryKept DEF SwapLockTo, Target
<1>18. ASSUME NEW r \in Requests, UpdateBalances(r) PROVE AnswersInv'
  BY <1>18, EntryKept DEF UpdateBalances
<1>19. ASSUME NEW r \in Requests, BalanceOverflow(r) PROVE AnswersInv'
  BY <1>19, EntryKept DEF BalanceOverflow
<1>20. ASSUME NEW r \in Requests, Record(r) PROVE AnswersInv'
  BY <1>20, EntryKept DEF Record
<1>21. ASSUME NEW r \in Requests, Commit(r) PROVE AnswersInv'
  BY <1>21, EntryKept, EntryRef DEF Commit, ApplyWrites
<1>22. ASSUME NEW r \in Requests, CommitReplyLost(r) PROVE AnswersInv'
  BY <1>22, EntryKept, EntryRef DEF CommitReplyLost, ApplyWrites
<1>23. ASSUME NEW r \in Requests, Rollback(r) PROVE AnswersInv'
  BY <1>23, EntryKept DEF Rollback
<1>24. ASSUME NEW r \in Requests, ConnectionLost(r) PROVE AnswersInv'
  BY <1>24, EntryKept DEF ConnectionLost, InTx
<1>25. ASSUME NEW r \in Requests, DeadlockVictim(r) PROVE AnswersInv'
  <2>1. /\ pc[r] \in {"lock", "lockTo", "update", "insert"}
        /\ StatementFails(r, 500)
        /\ UNCHANGED <<dbVars, op, rate, seen>>
    BY <1>25, VictimFails
  <2> QED
    BY <2>1, EntryKept
<1>26. CASE UNCHANGED vars
  BY <1>26 DEF vars, Entry
<1> HIDE DEF IInv, TypeOK, AnswersInv
<1> QED
  BY <1>0, <1>1, <1>2, <1>3, <1>4, <1>5, <1>6, <1>7, <1>8, <1>9, <1>10, <1>11,
     <1>12, <1>13, <1>14, <1>15, <1>16, <1>17, <1>18, <1>19, <1>20, <1>21,
     <1>22, <1>23, <1>24, <1>25, <1>26
  DEF Next, Proceed, Finished

\* Every step preserves that a swap past its upsert has a destination row.
LEMMA DestinationStep == IInv /\ [Next]_vars => DestinationAlwaysFound'
<1> SUFFICES ASSUME IInv, [Next]_vars PROVE DestinationAlwaysFound'
  OBVIOUS
<1> USE DEF IInv, TypeOK, DestinationAlwaysFound, dbVars, Step, Goto, Throw,
     StatementFails, Answer, LockAndRead, ReleaseLocks
<1>0. ASSUME NEW r \in Requests, InvalidBody(r) PROVE DestinationAlwaysFound'
  BY <1>0 DEF InvalidBody
<1>1. ASSUME NEW r \in Requests, WalletNotFound(r) PROVE DestinationAlwaysFound'
  BY <1>1 DEF WalletNotFound
<1>2. ASSUME NEW r \in Requests, FundStart(r) PROVE DestinationAlwaysFound'
  BY <1>2 DEF FundStart
<1>3. ASSUME NEW r \in Requests, SwapQuote(r) PROVE DestinationAlwaysFound'
  BY <1>3 DEF SwapQuote
<1>4. ASSUME NEW r \in Requests, SwapNoQuote(r) PROVE DestinationAlwaysFound'
  BY <1>4 DEF SwapNoQuote
<1>5. ASSUME NEW r \in Requests, Connect(r) PROVE DestinationAlwaysFound'
  BY <1>5 DEF Connect
<1>6. ASSUME NEW r \in Requests, ConnectTimeout(r) PROVE DestinationAlwaysFound'
  BY <1>6 DEF ConnectTimeout
<1>7. ASSUME NEW r \in Requests, FundLock(r) PROVE DestinationAlwaysFound'
  BY <1>7 DEF FundLock
<1>8. ASSUME NEW r \in Requests, FundNoRow(r) PROVE DestinationAlwaysFound'
  BY <1>8 DEF FundNoRow
<1>9. ASSUME NEW r \in Requests, SwapLockFrom(r) PROVE DestinationAlwaysFound'
  BY <1>9 DEF SwapLockFrom, Target
<1>10. ASSUME NEW r \in Requests, SwapInsufficient(r) PROVE DestinationAlwaysFound'
  BY <1>10 DEF SwapInsufficient, Target
<1>11. ASSUME NEW r \in Requests, SwapNoSource(r) PROVE DestinationAlwaysFound'
  BY <1>11 DEF SwapNoSource
<1>12. ASSUME NEW r \in Requests, FundUpsertFound(r) PROVE DestinationAlwaysFound'
  BY <1>12 DEF FundUpsertFound
<1>13. ASSUME NEW r \in Requests, SwapUpsertFound(r) PROVE DestinationAlwaysFound'
  BY <1>13 DEF SwapUpsertFound
<1>14. ASSUME NEW r \in Requests, UpsertMissing(r) PROVE DestinationAlwaysFound'
  BY <1>14 DEF UpsertMissing
<1>15. ASSUME NEW r \in Requests, InsertRow(r) PROVE DestinationAlwaysFound'
  BY <1>15, OpFields, NoneAssumption DEF InsertRow
<1>16. ASSUME NEW r \in Requests, InsertConflict(r) PROVE DestinationAlwaysFound'
  BY <1>16, OpFields DEF InsertConflict
<1>17. ASSUME NEW r \in Requests, SwapLockTo(r) PROVE DestinationAlwaysFound'
  BY <1>17 DEF SwapLockTo, Target
<1>18. ASSUME NEW r \in Requests, UpdateBalances(r) PROVE DestinationAlwaysFound'
  BY <1>18, NoneAssumption DEF UpdateBalances
<1>19. ASSUME NEW r \in Requests, BalanceOverflow(r) PROVE DestinationAlwaysFound'
  BY <1>19, OpFields DEF BalanceOverflow
<1>20. ASSUME NEW r \in Requests, Record(r) PROVE DestinationAlwaysFound'
  BY <1>20 DEF Record
<1>21. ASSUME NEW r \in Requests, Commit(r) PROVE DestinationAlwaysFound'
  BY <1>21, OpFields DEF Commit, ApplyWrites
<1>22. ASSUME NEW r \in Requests, CommitReplyLost(r) PROVE DestinationAlwaysFound'
  BY <1>22, OpFields DEF CommitReplyLost, ApplyWrites
<1>23. ASSUME NEW r \in Requests, Rollback(r) PROVE DestinationAlwaysFound'
  BY <1>23, OpFields DEF Rollback
<1>24. ASSUME NEW r \in Requests, ConnectionLost(r) PROVE DestinationAlwaysFound'
  BY <1>24, OpFields DEF ConnectionLost, InTx
<1>25. ASSUME NEW r \in Requests, DeadlockVictim(r) PROVE DestinationAlwaysFound'
  <2>1. /\ pc[r] \in {"lock", "lockTo", "update", "insert"}
        /\ StatementFails(r, 500)
        /\ UNCHANGED <<dbVars, op, rate, seen>>
    BY <1>25, VictimFails
  <2> QED
    BY <2>1, OpFields
<1>26. CASE UNCHANGED vars
  BY <1>26 DEF vars
<1> HIDE DEF IInv, TypeOK, DestinationAlwaysFound
<1> QED
  BY <1>0, <1>1, <1>2, <1>3, <1>4, <1>5, <1>6, <1>7, <1>8, <1>9, <1>10, <1>11,
     <1>12, <1>13, <1>14, <1>15, <1>16, <1>17, <1>18, <1>19, <1>20, <1>21,
     <1>22, <1>23, <1>24, <1>25, <1>26
  DEF Next, Proceed, Finished
-----------------------------------------------------------------------------
\* The initial state satisfies the invariant.
LEMMA InitInv == Init => IInv
  BY TypeInit, NoneAssumption
  DEF Init, IInv, LocksInv, ReadsInv, AnswersInv, DestinationAlwaysFound, SwapHolds

\* IInv is an invariant of fund and executeSwap, for any number of concurrent
\* requests, currencies, rates and connections.
THEOREM Invariance == Spec => []IInv
<1>1. IInv /\ [Next]_vars => IInv'
  BY TypeStep, LocksStep, ReadsStep, AnswersStep, DestinationStep DEF IInv
<1> QED
  BY InitInv, <1>1, PTL DEF Spec

\* No interleaving overdraws a balance or overflows its column.
THEOREM TypeCorrect == Spec => []TypeOK
<1>1. IInv => TypeOK
  BY DEF IInv
<1> QED
  BY Invariance, <1>1, PTL

\* executeSwap never writes a balance computed from an outdated read.
THEOREM SwapsReadCurrent == Spec => []SwapReadsCurrent
<1>1. IInv => SwapReadsCurrent
  BY DEF IInv, ReadsInv, SwapReadsCurrent, SwapHolds
<1> QED
  BY Invariance, <1>1, PTL

\* A 201 has its ledger row, a 4xx has none.
THEOREM AnswersTrue == Spec => []AnswerMatchesLedger
<1>1. IInv => AnswerMatchesLedger
  BY EntryRef DEF IInv, AnswersInv, AnswerMatchesLedger, TypeOK
<1> QED
  BY Invariance, <1>1, PTL

\* The 500 of executeSwap for a missing destination row is unreachable.
THEOREM DestinationFound == Spec => []DestinationAlwaysFound
<1>1. IInv => DestinationAlwaysFound
  BY DEF IInv
<1> QED
  BY Invariance, <1>1, PTL

\* A request that waits and is waited for is a swap holding its source row.
LEMMA WaitedForSwap ==
  ASSUME IInv, NEW r \in Requests, Blocked(r), NEW c \in Currencies, lock[c] = r
  PROVE  ~IsFund(r) /\ c = op[r].from /\ Target(r) = op[r].to
  BY OpFields DEF IInv, TypeOK, LocksInv, Blocked, Target, SwapHolds

\* Deadlocks involve swaps only, each waiting for the source of the next.
THEOREM OnlySwapsDeadlock == Spec => []OnlyOpposingSwapsDeadlock
<1>1. ASSUME IInv, NEW S \in SUBSET Requests, WaitCycle(S), NEW r \in S
      PROVE  ~IsFund(r) /\ op[r].to = op[lock[op[r].to]].from
  <2>1. \A s \in S : Blocked(s) /\ Target(s) \in Currencies /\ lock[Target(s)] \in S
    BY <1>1, OpFields DEF WaitCycle, Target, IsFund, IInv, TypeOK
  <2>2. PICK t \in S : r = lock[Target(t)]
    BY <1>1 DEF WaitCycle
  <2>3. ~IsFund(r) /\ Target(r) = op[r].to
    BY <1>1, <2>1, <2>2, WaitedForSwap
  <2>4. Target(r) = op[lock[Target(r)]].from
    BY <1>1, <2>1, WaitedForSwap
  <2> QED
    BY <2>3, <2>4
<1>2. IInv => OnlyOpposingSwapsDeadlock
  BY <1>1 DEF OnlyOpposingSwapsDeadlock
<1> QED
  BY Invariance, <1>2, PTL

-----------------------------------------------------------------------------
\* What a sum over the ledger is: the library folds the rows in an order of its own
\* choice, so that adding a row may change the whole order.

\* The row that the fold under RowSum takes next from R.
First(R) == CHOOSE e \in R : TRUE

\* The equation that the recursive function of the fold solves.
Folds(f, c, R) ==
  f = [Q \in SUBSET R |->
         IF Q = {} THEN 0 ELSE L!Delta(First(Q), c) + f[Q \ {First(Q)}]]

\* f gives the sum of each subset of R, in whatever order its rows are taken.
Sums(f, c, R) ==
  /\ f \in [SUBSET R -> Int]
  /\ f[{}] = 0
  /\ \A Q \in SUBSET R : \A e \in Q : f[Q] = f[Q \ {e}] + L!Delta(e, c)

\* The library's fold, written out.
LEMMA RowSumFold == ASSUME NEW c, NEW R PROVE L!RowSum(c, R) = (CHOOSE f : Folds(f, c, R))[R]
  BY Zenon DEF L!RowSum, Folds, First, L!MapThenSumSet, L!MapThenFoldSet

\* Every non-empty family of subsets of a finite set has a smallest member.
LEMMA SmallestSubset ==
  ASSUME NEW R, IsFiniteSet(R), NEW F \in SUBSET SUBSET R, F # {}
  PROVE  \E Q \in F : \A P \in F : P \subseteq Q => P = Q
<1>1. IsWellFoundedOn(StrictSubsetOrdering(R), SUBSET R)
  BY FS_StrictSubsetOrderingWellFounded, FS_FiniteSubsetsOfFinite
<1>2. PICK Q \in F : \A P \in F : <<P, Q>> \notin StrictSubsetOrdering(R)
  BY <1>1, WFMin
<1>3. ASSUME NEW P \in F, P \subseteq Q PROVE P = Q
  BY <1>2, <1>3 DEF StrictSubsetOrdering
<1> QED
  BY <1>3

\* One more row adds to the sums what it says.
LEMMA SumsExtend ==
  ASSUME NEW c, NEW R, NEW a \in R, NEW f, Sums(f, c, R \ {a}),
         \A e \in R : L!Delta(e, c) \in Int
  PROVE  \E g : Sums(g, c, R)
<1> DEFINE D(e) == L!Delta(e, c)
           g == [Q \in SUBSET R |-> IF a \in Q THEN f[Q \ {a}] + D(a) ELSE f[Q]]
<1> HIDE DEF D
<1>0. \A e \in R : D(e) \in Int
  BY DEF D
<1>1. \A Q \in SUBSET R : Q \ {a} \in SUBSET (R \ {a}) /\ (a \notin Q => Q \in SUBSET (R \ {a}))
  OBVIOUS
<1>2. f \in [SUBSET (R \ {a}) -> Int] /\ f[{}] = 0
  BY DEF Sums
<1>3. \A Q \in SUBSET (R \ {a}) : \A e \in Q : f[Q] = f[Q \ {e}] + D(e)
  BY DEF Sums, D
<1>4. g \in [SUBSET R -> Int]
  BY <1>0, <1>1, <1>2
<1>5. g[{}] = 0
  BY <1>2
<1>6. ASSUME NEW Q \in SUBSET R, NEW e \in Q PROVE g[Q] = g[Q \ {e}] + D(e)
  <2>1. CASE e = a
    BY <2>1
  <2>2. CASE e # a /\ a \in Q
    <3>1. (Q \ {e}) \ {a} = (Q \ {a}) \ {e} /\ e \in Q \ {a} /\ a \in Q \ {e}
      BY <2>2
    <3>2. g[Q] = f[Q \ {a}] + D(a) /\ g[Q \ {e}] = f[(Q \ {a}) \ {e}] + D(a)
      BY <2>2, <3>1
    <3>3. f[Q \ {a}] = f[(Q \ {a}) \ {e}] + D(e)
      BY <1>1, <1>3, <3>1
    <3>4. f[Q \ {a}] \in Int /\ f[(Q \ {a}) \ {e}] \in Int
      BY <1>1, <1>2
    <3> HIDE DEF g
    <3> QED
      BY <1>0, <3>2, <3>3, <3>4
  <2>3. CASE a \notin Q
    BY <1>1, <1>3, <2>3
  <2> QED
    BY <2>1, <2>2, <2>3
<1>7. Sums(g, c, R)
  BY <1>4, <1>5, <1>6 DEF Sums, D
<1> QED
  BY <1>7

\* A finite set of rows has sums.
LEMMA SumsExist ==
  ASSUME NEW c, NEW R, IsFiniteSet(R), \A e \in R : L!Delta(e, c) \in Int
  PROVE  \E f : Sums(f, c, R)
<1> DEFINE F == {Q \in SUBSET R : ~ \E f : Sums(f, c, Q)}
<1> SUFFICES ASSUME F # {} PROVE FALSE
  OBVIOUS
<1>0. F \in SUBSET SUBSET R
  OBVIOUS
<1>1. PICK Q \in F : \A P \in F : P \subseteq Q => P = Q
  <2> HIDE DEF F
  <2> QED
    BY <1>0, SmallestSubset
<1>2. Q # {}
  <2>1. Sums([P \in SUBSET {} |-> 0], c, {})
    BY DEF Sums
  <2> QED
    BY <2>1
<1>3. PICK a \in Q : TRUE
  BY <1>2
<1>4. PICK f : Sums(f, c, Q \ {a})
  <2>1. Q \ {a} \in SUBSET R /\ Q \ {a} \subseteq Q /\ Q \ {a} # Q
    BY <1>3
  <2> QED
    BY <1>1, <2>1
<1>5. \E g : Sums(g, c, Q)
  BY <1>4, SumsExtend
<1> QED
  BY <1>5

\* The library's fold computes the sums.
LEMMA RowSumIs ==
  ASSUME NEW c, NEW R, IsFiniteSet(R), NEW f, Sums(f, c, R),
         \A e \in R : L!Delta(e, c) \in Int
  PROVE  L!RowSum(c, R) = f[R]
<1> DEFINE g == CHOOSE g : Folds(g, c, R)
           D(e) == L!Delta(e, c)
<1> HIDE DEF D
<1>1. \A Q \in SUBSET R : Q # {} => First(Q) \in Q
  BY DEF First
<1>2. ASSUME NEW Q \in SUBSET R
      PROVE  f[Q] = IF Q = {} THEN 0 ELSE D(First(Q)) + f[Q \ {First(Q)}]
  <2>1. CASE Q = {}
    BY <2>1 DEF Sums
  <2>2. CASE Q # {}
    <3>1. First(Q) \in Q
      BY <1>1, <2>2
    <3>2. f[Q] = f[Q \ {First(Q)}] + D(First(Q))
      BY <3>1 DEF Sums, D
    <3>3. f[Q \ {First(Q)}] \in Int /\ D(First(Q)) \in Int
      BY <3>1 DEF Sums, D
    <3> QED
      BY <2>2, <3>2, <3>3
  <2> QED
    BY <2>1, <2>2
<1>3. Folds(f, c, R)
  <2>1. f = [Q \in SUBSET R |-> f[Q]]
    BY DEF Sums
  <2> QED
    BY <1>2, <2>1 DEF Folds, D
<1>4. Folds(g, c, R)
  BY <1>3
<1> HIDE DEF g
<1>5. \A Q \in SUBSET R :
        g[Q] = IF Q = {} THEN 0 ELSE D(First(Q)) + g[Q \ {First(Q)}]
  BY <1>4 DEF Folds, D
<1> DEFINE F == {Q \in SUBSET R : g[Q] # f[Q]}
<1>6. ASSUME F # {} PROVE FALSE
  <2>0. F \in SUBSET SUBSET R
    OBVIOUS
  <2>1. PICK Q \in F : \A P \in F : P \subseteq Q => P = Q
    <3> HIDE DEF F
    <3> QED
      BY <1>6, <2>0, SmallestSubset
  <2>2. Q # {}
    BY <1>2, <1>5
  <2>3. Q \ {First(Q)} \subseteq Q /\ Q \ {First(Q)} # Q /\ Q \ {First(Q)} \in SUBSET R
    BY <1>1, <2>2
  <2>4. g[Q \ {First(Q)}] = f[Q \ {First(Q)}]
    BY <2>1, <2>3
  <2> QED
    BY <1>2, <1>5, <2>2, <2>4
<1>7. g[R] = f[R]
  BY <1>6
<1> QED
  BY <1>7, RowSumFold DEF g

\* No rows sum to nothing.
LEMMA RowSumEmpty == ASSUME NEW c PROVE L!RowSum(c, {}) = 0
<1>1. PICK f : Sums(f, c, {})
  BY SumsExist, FS_EmptySet
<1>2. L!RowSum(c, {}) = f[{}]
  BY <1>1, RowSumIs, FS_EmptySet
<1> QED
  BY <1>1, <1>2 DEF Sums

\* A new row adds what it says to the sum.
LEMMA RowSumAdd ==
  ASSUME NEW c, NEW R, IsFiniteSet(R), NEW a, a \notin R,
         \A e \in R \cup {a} : L!Delta(e, c) \in Int
  PROVE  /\ L!RowSum(c, R) \in Int
         /\ L!RowSum(c, R \cup {a}) = L!RowSum(c, R) + L!Delta(a, c)
<1> DEFINE S == R \cup {a}
<1>1. IsFiniteSet(S)
  BY FS_AddElement
<1>2. PICK f : Sums(f, c, S)
  BY <1>1, SumsExist
<1> DEFINE h == [Q \in SUBSET R |-> f[Q]]
<1>3. Sums(h, c, R)
  BY <1>2 DEF Sums
<1>4. L!RowSum(c, S) = f[S] /\ L!RowSum(c, R) = h[R]
  BY <1>1, <1>2, <1>3, RowSumIs
<1>5. S \ {a} = R
  OBVIOUS
<1> QED
  BY <1>2, <1>4, <1>5 DEF Sums

-----------------------------------------------------------------------------
\* No step changes what a request asks for.
LEMMA OpKept == ASSUME [Next]_vars PROVE op' = op
<1>1. ASSUME NEW r \in Requests,
             InvalidBody(r) \/ WalletNotFound(r) \/ FundStart(r) \/ SwapQuote(r)
               \/ SwapNoQuote(r) \/ Connect(r) \/ ConnectTimeout(r)
      PROVE  op' = op
  BY <1>1 DEF InvalidBody, WalletNotFound, FundStart, SwapQuote, SwapNoQuote, Connect,
     ConnectTimeout
<1>2. ASSUME NEW r \in Requests,
             FundLock(r) \/ FundNoRow(r) \/ SwapLockFrom(r) \/ SwapInsufficient(r)
               \/ SwapNoSource(r) \/ SwapLockTo(r)
      PROVE  op' = op
  BY <1>2 DEF FundLock, FundNoRow, SwapLockFrom, SwapInsufficient, SwapNoSource, SwapLockTo
<1>3. ASSUME NEW r \in Requests,
             FundUpsertFound(r) \/ SwapUpsertFound(r) \/ UpsertMissing(r)
               \/ InsertRow(r) \/ InsertConflict(r)
      PROVE  op' = op
  BY <1>3 DEF FundUpsertFound, SwapUpsertFound, UpsertMissing, InsertRow, InsertConflict
<1>4. ASSUME NEW r \in Requests,
             UpdateBalances(r) \/ BalanceOverflow(r) \/ Record(r) \/ Commit(r)
               \/ Rollback(r) \/ DeadlockVictim(r)
      PROVE  op' = op
  BY <1>4 DEF UpdateBalances, BalanceOverflow, Record, Commit, Rollback, DeadlockVictim
<1>5. ASSUME NEW r \in Requests, CommitReplyLost(r) \/ ConnectionLost(r) PROVE op' = op
  BY <1>5 DEF CommitReplyLost, ConnectionLost
<1>6. CASE Finished \/ UNCHANGED vars
  BY <1>6 DEF Finished, vars
<1> QED
  BY <1>1, <1>2, <1>3, <1>4, <1>5, <1>6 DEF Next, Proceed

\* Initially no funding has read anything.
LEMMA FundsInit == Init => FundsInv
  BY DEF Init, FundsInv

\* Which operations touch a row does not change.
LEMMA SafetyKept ==
  ASSUME op' = op
  PROVE  /\ \A r \in Requests : IsFund(r)' <=> IsFund(r)
         /\ \A c : FundedSafely(c)' <=> FundedSafely(c)
         /\ FirstFundingsPaired' <=> FirstFundingsPaired
  BY DEF FundedSafely, FirstFundingsPaired, Touches, IsFund

\* A commit keeps the reads of safe fundings current: it changes no row that is locked
\* by another, and the only other request for a row without lock is over.
LEMMA CommitKeepsFunds ==
  ASSUME IInv, FundsInv, NEW r \in Requests, pc[r] = "commit", ApplyWrites(r),
         Goto(r, "done"), UNCHANGED <<op, rate, seen>>
  PROVE  FundsInv'
<1> USE DEF IInv
<1>1. pc'[r] = "done" /\ \A s \in Requests \ {r} : pc'[s] = pc[s]
  BY DEF Goto, TypeOK
<1>2. rows' = rows \cup {op[r].to} /\ op' = op
  BY DEF ApplyWrites
<1>3. \A s \in Requests : pc[s] = "done" => pc'[s] = "done"
  BY <1>1
<1>4. ASSUME NEW c \in rows' \ SeedRows
      PROVE  \E s \in Requests : op'[s].to = c /\ pc'[s] = "done"
  BY <1>1, <1>2, <1>3, <1>4 DEF FundsInv
<1>5. ASSUME NEW s \in Requests, IsFund(s), pc'[s] \in {"update", "record", "commit"},
             FundedSafely(op[s].to)
      PROVE  /\ \/ lock'[op[s].to] = s
                \/ /\ op[s].to \notin SeedRows
                   /\ \E t \in Requests \ {s} : op[t].to = op[s].to /\ pc'[t] = "done"
             /\ seen[s][op[s].to] = balance'[op[s].to]
  <2>1. s # r /\ pc[s] = pc'[s] /\ op[s].to \in Currencies
    BY <1>1, <1>5, OpFields DEF TypeOK
  <2>2. seen[s][op[s].to] = balance[op[s].to]
    BY <1>5, <2>1 DEF FundsInv
  <2>3. CASE lock[op[s].to] = s
    <3>1. balance'[op[s].to] = balance[op[s].to]
      BY <2>1, <2>3, CommitLeavesLockedRows
    <3>2. lock'[op[s].to] = s
      BY <2>1, <2>3 DEF ApplyWrites, ReleaseLocks
    <3> QED
      BY <2>2, <3>1, <3>2
  <2>4. CASE lock[op[s].to] # s
    <3>1. PICK t \in Requests \ {s} : op[t].to = op[s].to /\ pc[t] = "done"
      BY <1>5, <2>1, <2>4 DEF FundsInv
    <3>2. op[s].to \notin SeedRows
      BY <1>5, <2>1, <2>4 DEF FundsInv
    <3>3. ~Touches(r, op[s].to)
      <4>1. t # r
        BY <3>1
      <4> QED
        BY <1>5, <2>1, <3>1, <3>2, <4>1 DEF FundedSafely, Touches
    <3>4. balance'[op[s].to] = balance[op[s].to]
      BY <2>1, <3>3 DEF ApplyWrites, Touches
    <3> QED
      BY <1>3, <2>2, <3>1, <3>2, <3>4
  <2> QED
    BY <2>3, <2>4
<1>6. SeedRows \subseteq rows'
  BY <1>2 DEF FundsInv
<1>7. \A s \in Requests : IsFund(s) /\ op[s].to \in SeedRows => pc'[s] \notin {"upsert", "insert"}
  BY <1>1 DEF FundsInv
<1>8. seen' = seen
  OBVIOUS
<1> QED
  BY <1>2, <1>4, <1>5, <1>6, <1>7, <1>8, SafetyKept DEF FundsInv

\* A step of one request that commits nothing keeps the reads of the fundings, if that
\* request keeps its own.
LEMMA FundsKept ==
  ASSUME IInv, FundsInv, NEW r \in Requests, pc[r] # "done", UNCHANGED <<rows, balance, op>>,
         \A s \in Requests \ {r} :
           /\ pc'[s] = pc[s] /\ seen'[s] = seen[s]
           /\ \A c \in Currencies : lock[c] = s => lock'[c] = s,
         IsFund(r) =>
           /\ op[r].to \in SeedRows => pc'[r] \notin {"upsert", "insert"}
           /\ pc'[r] \in {"update", "record", "commit"} /\ FundedSafely(op[r].to) =>
                /\ \/ lock'[op[r].to] = r
                   \/ /\ op[r].to \notin SeedRows
                      /\ \E s \in Requests \ {r} : op[s].to = op[r].to /\ pc[s] = "done"
                /\ seen'[r][op[r].to] = balance[op[r].to]
  PROVE  FundsInv'
<1>1. \A s \in Requests : pc[s] = "done" => pc'[s] = "done" /\ s # r
  OBVIOUS
<1>2. \A s \in Requests : op[s].to \in Currencies
  BY OpFields DEF IInv, TypeOK
<1>3. ASSUME NEW c \in rows \ SeedRows PROVE \E s \in Requests : op[s].to = c /\ pc'[s] = "done"
  BY <1>1 DEF FundsInv
<1>4. ASSUME NEW s \in Requests, IsFund(s)
      PROVE  /\ op[s].to \in SeedRows => pc'[s] \notin {"upsert", "insert"}
             /\ pc'[s] \in {"update", "record", "commit"} /\ FundedSafely(op[s].to) =>
                  /\ \/ lock'[op[s].to] = s
                     \/ /\ op[s].to \notin SeedRows
                        /\ \E t \in Requests \ {s} : op[t].to = op[s].to /\ pc'[t] = "done"
                  /\ seen'[s][op[s].to] = balance[op[s].to]
  <2>1. CASE s = r
    BY <1>1, <1>4, <2>1
  <2>2. CASE s # r
    BY <1>1, <1>2, <1>4, <2>2 DEF FundsInv
  <2> QED
    BY <2>1, <2>2
<1> QED
  BY <1>3, <1>4, SafetyKept DEF FundsInv

\* Fundings keep what they know of their rows.
LEMMA FundsStep == IInv /\ FundsInv /\ [Next]_vars => FundsInv'
<1> SUFFICES ASSUME IInv, FundsInv, [Next]_vars PROVE FundsInv'
  OBVIOUS
<1>a. /\ DOMAIN pc = Requests /\ pc = [r \in Requests |-> pc[r]]
      /\ seen \in [Requests -> [Currencies -> {Unread} \cup 0..MaxBalance]]
      /\ lock \in [Currencies -> Requests \cup {None}]
      /\ \A r \in Requests :
           op[r].to \in Currencies /\ (~IsFund(r) => op[r].from \in Currencies)
  <2>1. /\ DOMAIN pc = Requests /\ pc = [r \in Requests |-> pc[r]]
        /\ seen \in [Requests -> [Currencies -> {Unread} \cup 0..MaxBalance]]
        /\ lock \in [Currencies -> Requests \cup {None}]
    BY DEF IInv, TypeOK
  <2>2. \A r \in Requests :
          op[r].to \in Currencies /\ (~IsFund(r) => op[r].from \in Currencies)
    BY OpFields DEF IInv, TypeOK, IsFund
  <2> QED
    BY <2>1, <2>2
<1>b. \A r \in Requests : IsFund(r) =>
        /\ pc[r] # "lockTo"
        /\ op[r].to \in SeedRows => pc[r] \notin {"upsert", "insert"}
        /\ pc[r] \in {"update", "record", "commit"} /\ FundedSafely(op[r].to) =>
             /\ \/ lock[op[r].to] = r
                \/ /\ op[r].to \notin SeedRows
                   /\ \E s \in Requests \ {r} : op[s].to = op[r].to /\ pc[s] = "done"
             /\ seen[r][op[r].to] = balance[op[r].to]
  BY DEF FundsInv, IInv, LocksInv
<1>c. SeedRows \subseteq rows
  BY DEF FundsInv
<1> USE <1>a, <1>b, <1>c DEF dbVars, Step, Goto, Throw, StatementFails, Answer, LockAndRead,
     ReleaseLocks
<1>0. ASSUME NEW r \in Requests, InvalidBody(r) PROVE FundsInv'
  BY <1>0, FundsKept DEF InvalidBody
<1>1. ASSUME NEW r \in Requests, WalletNotFound(r) PROVE FundsInv'
  BY <1>1, FundsKept DEF WalletNotFound
<1>2. ASSUME NEW r \in Requests, FundStart(r) PROVE FundsInv'
  BY <1>2, FundsKept DEF FundStart
<1>3. ASSUME NEW r \in Requests, SwapQuote(r) PROVE FundsInv'
  BY <1>3, FundsKept DEF SwapQuote
<1>4. ASSUME NEW r \in Requests, SwapNoQuote(r) PROVE FundsInv'
  BY <1>4, FundsKept DEF SwapNoQuote
<1>5. ASSUME NEW r \in Requests, Connect(r) PROVE FundsInv'
  BY <1>5, FundsKept DEF Connect
<1>6. ASSUME NEW r \in Requests, ConnectTimeout(r) PROVE FundsInv'
  BY <1>6, FundsKept DEF ConnectTimeout
<1>7. ASSUME NEW r \in Requests, FundLock(r) PROVE FundsInv'
  BY <1>7, FundsKept, NoneAssumption DEF FundLock
<1>8. ASSUME NEW r \in Requests, FundNoRow(r) PROVE FundsInv'
  BY <1>8, FundsKept DEF FundNoRow
<1>9. ASSUME NEW r \in Requests, SwapLockFrom(r) PROVE FundsInv'
  BY <1>9, FundsKept, NoneAssumption DEF SwapLockFrom, Target
<1>10. ASSUME NEW r \in Requests, SwapInsufficient(r) PROVE FundsInv'
  BY <1>10, FundsKept, NoneAssumption DEF SwapInsufficient, Target
<1>11. ASSUME NEW r \in Requests, SwapNoSource(r) PROVE FundsInv'
  BY <1>11, FundsKept DEF SwapNoSource
<1>12. ASSUME NEW r \in Requests, FundUpsertFound(r) PROVE FundsInv'
  <2>1. op[r].to \notin SeedRows /\ op[r].to \in rows /\ IsFund(r)
    BY <1>12 DEF FundUpsertFound
  <2>2. PICK s \in Requests : op[s].to = op[r].to /\ pc[s] = "done"
    BY <2>1 DEF FundsInv
  <2>3. s # r
    BY <1>12, <2>2 DEF FundUpsertFound
  <2> QED
    BY <1>12, <2>1, <2>2, <2>3, FundsKept DEF FundUpsertFound
<1>13. ASSUME NEW r \in Requests, SwapUpsertFound(r) PROVE FundsInv'
  BY <1>13, FundsKept DEF SwapUpsertFound
<1>14. ASSUME NEW r \in Requests, UpsertMissing(r) PROVE FundsInv'
  BY <1>14, FundsKept DEF UpsertMissing
<1>15. ASSUME NEW r \in Requests, InsertRow(r) PROVE FundsInv'
  BY <1>15, FundsKept, NoneAssumption DEF InsertRow
<1>16. ASSUME NEW r \in Requests, InsertConflict(r) PROVE FundsInv'
  BY <1>16, FundsKept DEF InsertConflict
<1>17. ASSUME NEW r \in Requests, SwapLockTo(r) PROVE FundsInv'
  BY <1>17, FundsKept, NoneAssumption DEF SwapLockTo, Target
<1>18. ASSUME NEW r \in Requests, UpdateBalances(r) PROVE FundsInv'
  BY <1>18, FundsKept, NoneAssumption DEF UpdateBalances
<1>19. ASSUME NEW r \in Requests, BalanceOverflow(r) PROVE FundsInv'
  BY <1>19, FundsKept DEF BalanceOverflow
<1>20. ASSUME NEW r \in Requests, Record(r) PROVE FundsInv'
  BY <1>20, FundsKept DEF Record
<1>21. ASSUME NEW r \in Requests, Commit(r) PROVE FundsInv'
  BY <1>21, CommitKeepsFunds DEF Commit
<1>22. ASSUME NEW r \in Requests, CommitReplyLost(r) PROVE FundsInv'
  BY <1>22, CommitKeepsFunds DEF CommitReplyLost
<1>23. ASSUME NEW r \in Requests, Rollback(r) PROVE FundsInv'
  BY <1>23, FundsKept DEF Rollback
<1>24. ASSUME NEW r \in Requests, ConnectionLost(r) PROVE FundsInv'
  BY <1>24, FundsKept DEF ConnectionLost, InTx
<1>25. ASSUME NEW r \in Requests, DeadlockVictim(r) PROVE FundsInv'
  <2>1. /\ pc[r] \in {"lock", "lockTo", "update", "insert"}
        /\ StatementFails(r, 500)
        /\ UNCHANGED <<dbVars, op, rate, seen>>
    BY <1>25, VictimFails
  <2> QED
    BY <2>1, FundsKept
<1>26. CASE UNCHANGED vars
  <2>1. UNCHANGED <<rows, balance, lock, op, pc, seen>>
    BY <1>26 DEF vars
  <2> QED
    BY <2>1, SafetyKept DEF FundsInv
<1> QED
  BY <1>0, <1>1, <1>2, <1>3, <1>4, <1>5, <1>6, <1>7, <1>8, <1>9, <1>10, <1>11,
     <1>12, <1>13, <1>14, <1>15, <1>16, <1>17, <1>18, <1>19, <1>20, <1>21,
     <1>22, <1>23, <1>24, <1>25, <1>26
  DEF Next, Proceed, Finished

\* A commit moves a balance as its ledger row says, if no funding can lose an update.
LEMMA CommitMoves ==
  ASSUME IInv, FundsInv, NEW r \in Requests, pc[r] = "commit", ApplyWrites(r),
         NEW c \in Currencies, FundedSafely(c)
  PROVE  balance'[c] = balance[c] + L!Delta(Entry(r), c)
<1> USE DEF IInv
<1>1. Credit(op[r], rate[r]) \in Nat
  BY CreditNat DEF TypeOK
<1>2. c = op[r].from => ~IsFund(r)
  BY OpFields, CurrencyAssumption DEF IsFund, TypeOK
<1>3. c = op[r].from => seen[r][c] = balance[c]
  BY <1>2 DEF ReadsInv, SwapHolds
<1>4. c = op[r].to => seen[r][c] = balance[c]
  BY DEF ReadsInv, FundsInv, FundedSafely
<1> QED
  BY <1>1, <1>2, <1>3, <1>4, OpFields, BalanceAssumption
  DEF ApplyWrites, NewTo, NewFrom, Entry, EntryOf, IsFund, TypeOK, L!Delta

\* If no funding can lose an update, a commit is a posting of the abstract ledger.
LEMMA CommitPosts ==
  ASSUME FirstFundingsPaired, IInv, FundsInv, NEW r \in Requests,
         pc[r] = "commit", ApplyWrites(r)
  PROVE  L!Next
<1> USE DEF IInv
<1>1. Entry(r) \in LedgerEntries
  BY EntryTyped
<1>2. \A d \in ledger : d.ref # Entry(r).ref
  BY EntryRef DEF AnswersInv
<1>3. balance' \in [Currencies -> 0..MaxBalance]
  BY CommitTypes
<1>4. \A c \in Currencies : FundedSafely(c)
  BY DEF FirstFundingsPaired
<1>5. \A c \in Currencies : balance'[c] = balance[c] + L!Delta(Entry(r), c)
  BY <1>4, CommitMoves
<1>6. L!Post(Entry(r))
  BY <1>2, <1>3, <1>5 DEF ApplyWrites, L!Post
<1> QED
  BY <1>1, <1>6 DEF L!Next

\* A step commits a request, or leaves balances and ledger alone.
LEMMA LedgerMoves ==
  ASSUME [Next]_vars
  PROVE  \/ \E r \in Requests : pc[r] = "commit" /\ ApplyWrites(r)
         \/ UNCHANGED <<balance, ledger>>
<1>1. ASSUME NEW r \in Requests, Commit(r) \/ CommitReplyLost(r)
      PROVE  pc[r] = "commit" /\ ApplyWrites(r)
  BY <1>1 DEF Commit, CommitReplyLost
<1>2. ASSUME NEW r \in Requests, ConnectionLost(r) PROVE UNCHANGED <<balance, ledger>>
  BY <1>2 DEF ConnectionLost, dbVars
<1>3. ASSUME NEW r \in Requests, Proceed(r), ~Commit(r)
      PROVE  UNCHANGED <<balance, ledger>>
  BY <1>3 DEF dbVars, Proceed, InvalidBody, WalletNotFound, FundStart,
       SwapQuote, SwapNoQuote, Connect, ConnectTimeout, FundLock, FundNoRow,
       SwapLockFrom, SwapInsufficient, SwapNoSource, FundUpsertFound,
       SwapUpsertFound, UpsertMissing, InsertRow, InsertConflict, SwapLockTo,
       UpdateBalances, BalanceOverflow, Record, Rollback, DeadlockVictim
<1>4. CASE UNCHANGED vars
  BY <1>4 DEF vars
<1> QED
  BY <1>1, <1>2, <1>3, <1>4 DEF Next, Finished

\* Which fundings are safe is settled by what is asked for.
LEMMA PairedStep == FirstFundingsPaired /\ [Next]_vars => FirstFundingsPaired'
  BY OpKept, SafetyKept

\* If beside a first funding at most one other request touches the new row, fund and
\* executeSwap implement the abstract ledger: balances and ledger change together, once
\* per request.
THEOREM Refinement == Spec /\ FirstFundingsPaired => LedgerSpec
<1>1. Init => L!Init
  BY DEF Init, L!Init
<1>2. FirstFundingsPaired /\ IInv /\ FundsInv /\ [Next]_vars => [L!Next]_(L!ledgerVars)
  BY LedgerMoves, CommitPosts DEF L!ledgerVars
<1> QED
  BY Invariance, FundsInit, FundsStep, PairedStep, <1>1, <1>2, PTL
  DEF Spec, LedgerSpec, L!Spec

\* Under the same condition fund never overwrites an update it has not seen.
THEOREM FundsReadCurrent == Spec /\ FirstFundingsPaired => []FundReadsCurrent
<1>1. FirstFundingsPaired /\ IInv /\ FundsInv => FundReadsCurrent
  BY OpFields DEF FundsInv, FundReadsCurrent, FirstFundingsPaired, IInv, TypeOK
<1> QED
  BY Invariance, FundsInit, FundsStep, PairedStep, <1>1, PTL DEF Spec

-----------------------------------------------------------------------------
\* The ledger adds up

\* What a ledger row says is an integer.
LEMMA DeltaInt == \A e \in LedgerEntries : \A c \in Currencies : L!Delta(e, c) \in Int
<1> SUFFICES ASSUME NEW o \in Ops, NEW q \in Rates \cup {0}, NEW r \in Requests,
                    NEW c \in Currencies
             PROVE  L!Delta(EntryOf(r, o, q), c) \in Int
  BY DEF LedgerEntries
<1>1. Credit(o, q) \in Int /\ o.amount \in Int
  BY CreditNat, OpFields
<1> QED
  BY <1>1 DEF EntryOf, L!Delta

\* Initially every balance is its opening balance, and there are no rows.
LEMMA ReconciledInit == Init => ReconciledInv
<1> SUFFICES ASSUME Init PROVE ReconciledInv
  OBVIOUS
<1>1. \A c \in Currencies : Opening[c] \in Int
  BY BalanceAssumption DEF Opening
<1>2. \A c \in Currencies : L!RowSum(c, {}) = 0
  BY RowSumEmpty
<1> QED
  BY <1>1, <1>2, FS_EmptySet DEF Init, ReconciledInv

\* A commit adds to the sum of the rows what it adds to the balance.
LEMMA CommitReconciles ==
  ASSUME IInv, FundsInv, ReconciledInv, NEW r \in Requests, pc[r] = "commit",
         ApplyWrites(r), NEW c \in Currencies, FundedSafely(c)
  PROVE  balance'[c] = Opening[c] + L!RowSum(c, ledger')
<1> DEFINE a == Entry(r)
<1>1. a \in LedgerEntries /\ ledger \subseteq LedgerEntries /\ balance[c] \in Int
  BY EntryTyped, BalanceAssumption DEF IInv, TypeOK
<1>2. a \notin ledger
  BY EntryRef DEF IInv, AnswersInv
<1>3. \A e \in ledger \cup {a} : L!Delta(e, c) \in Int
  BY <1>1, DeltaInt
<1>4. ledger' = ledger \cup {a}
  BY DEF ApplyWrites
<1>5. IsFiniteSet(ledger) /\ balance[c] = Opening[c] + L!RowSum(c, ledger)
  BY DEF ReconciledInv
<1>6. balance'[c] = balance[c] + L!Delta(a, c)
  BY CommitMoves
<1>7. Opening[c] \in Int
  BY BalanceAssumption DEF Opening
<1> HIDE DEF a
<1>8. /\ L!RowSum(c, ledger) \in Int
      /\ L!RowSum(c, ledger') = L!RowSum(c, ledger) + L!Delta(a, c)
  BY <1>2, <1>3, <1>4, <1>5, RowSumAdd
<1>9. L!Delta(a, c) \in Int
  BY <1>3
<1> QED
  BY <1>5, <1>6, <1>7, <1>8, <1>9

\* Every step keeps a currency reconciled in which no funding can lose an update.
LEMMA ReconciledStep ==
  IInv /\ FundsInv /\ ReconciledInv /\ [Next]_vars => ReconciledInv'
<1> SUFFICES ASSUME IInv, FundsInv, ReconciledInv, [Next]_vars
             PROVE  ReconciledInv'
  OBVIOUS
<1>1. op' = op
  BY OpKept
<1>2. \A c \in Currencies : FundedSafely(c)' <=> FundedSafely(c)
  BY <1>1, SafetyKept
<1>3. ASSUME NEW r \in Requests, pc[r] = "commit", ApplyWrites(r) PROVE ReconciledInv'
  <2>1. IsFiniteSet(ledger')
    BY <1>3, FS_AddElement DEF ReconciledInv, ApplyWrites
  <2> QED
    BY <1>2, <1>3, <2>1, CommitReconciles DEF ReconciledInv
<1>4. CASE UNCHANGED <<balance, ledger>>
  BY <1>2, <1>4 DEF ReconciledInv
<1> QED
  BY <1>3, <1>4, LedgerMoves

\* Whatever is funded for the first time elsewhere, a currency whose row exists, that is
\* not funded, or whose first fundings are paired always holds its opening balance plus
\* its ledger rows.
THEOREM ReconciledPerCurrency == Spec => []ReconciledInv
  BY Invariance, FundsInit, FundsStep, ReconciledInit, ReconciledStep, PTL DEF Spec

\* If that is so of every currency, no interleaving of fundings and swaps loses or
\* invents money.
THEOREM Reconciliation == Spec /\ FirstFundingsPaired => []Reconciled
<1>1. FirstFundingsPaired /\ ReconciledInv => Reconciled
  BY DEF FirstFundingsPaired, ReconciledInv, Reconciled, L!Reconciled
<1> QED
  BY ReconciledPerCurrency, PairedStep, <1>1, PTL DEF Spec

=============================================================================
