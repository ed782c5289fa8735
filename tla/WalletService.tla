--------------------------- MODULE WalletService ---------------------------
(***************************************************************************)
(* WalletService.fund and WalletService.executeSwap (convert and trade)    *)
(* running concurrently against PostgreSQL at READ COMMITTED, with the     *)
(* repositories they call.  One wallet is modelled: no operation touches   *)
(* two, and rows of different wallets share no lock.                       *)
(*                                                                         *)
(* Amounts are naturals, in units of the last decimal of numeric(20,8).    *)
(* PostgreSQL is external: row locks, uncommitted inserts, unique          *)
(* violations, deadlock detection and lost connections are modelled from   *)
(* what the service observes of them.                                      *)
(***************************************************************************)
EXTENDS Integers, FiniteSets

CONSTANTS
  Requests,     \* HTTP requests, each handled once
  Users, Owner, \* Owner is the only user with a (this) wallet
  Currencies,
  NoCurrency,   \* the null from_currency of a funding
  Ops,          \* the validated operations a request may carry
  Rates,        \* numerators of the rates FxService may quote ...
  RateScale,    \* ... over this denominator
  SeedRows,     \* currencies whose balance row exists at the start
  SeedBalance,  \* what each of those rows holds
  MaxBalance,   \* the largest numeric(20,8)
  PoolSize,     \* connections of the pool
  None          \* nobody holds the lock

ASSUME OwnerAssumption == Owner \in Users

ASSUME CurrencyAssumption == NoCurrency \notin Currencies /\ SeedRows \subseteq Currencies

\* What FundWalletDto and ConvertCurrencyDto let through.
ASSUME OpsAssumption ==
  \A o \in Ops :
    /\ o \in [user : Users, type : {"FUNDING", "CONVERSION", "TRADE"},
              from : Currencies \cup {NoCurrency}, to : Currencies,
              amount : Nat \ {0}]
    /\ o.type = "FUNDING" <=> o.from = NoCurrency
    /\ o.from # o.to

ASSUME RatesAssumption == Rates \subseteq Nat \ {0} /\ RateScale \in Nat \ {0}

ASSUME BalanceAssumption == MaxBalance \in Nat /\ SeedBalance \in 0..MaxBalance

ASSUME PoolAssumption == PoolSize \in Nat \ {0}

ASSUME NoneAssumption == None \notin Requests

VARIABLES
  rows,     \* committed rows of wallet_balances
  balance,  \* their committed balance (0 for a row that does not exist)
  lock,     \* the transaction that has locked, or inserted, the row
  ledger,   \* committed rows of transactions
  op,       \* what each request asks for
  pc,       \* where its handler stands
  rate,     \* the rate it was quoted, 0 for none
  seen,     \* the balances its handler read, Unread where it has not
  outcome   \* its HTTP status, 0 until it has one

vars == <<rows, balance, lock, ledger, op, pc, rate, seen, outcome>>

dbVars == <<rows, balance, ledger>>

-----------------------------------------------------------------------------
\* Helpers

Unread == -1

Opening == [c \in Currencies |-> IF c \in SeedRows THEN SeedBalance ELSE 0]

IsFund(r) == op[r].type = "FUNDING"

\* (2n + d) div 2d is toFixed of n/d: round to nearest, ties up.
ToFixed(n, d) == (2 * n + d) \div (2 * d)

\* What operation o, quoted rate q, adds to its destination currency.
Credit(o, q) == IF o.type = "FUNDING" THEN o.amount
                ELSE ToFixed(o.amount * q, RateScale)

\* The absolute balances the handler computes in memory from what it read.
NewFrom(r) == seen[r][op[r].from] - op[r].amount
NewTo(r) == seen[r][op[r].to] + Credit(op[r], rate[r])

InTx(r) == pc[r] \in {"lock", "upsert", "insert", "lockTo", "update",
                      "record", "commit", "rollback"}

\* The ledger row of request r for operation o at rate q.
EntryOf(r, o, q) ==
  [ref |-> r, type |-> o.type,
   from |-> o.from, fromAmount |-> IF o.type = "FUNDING" THEN 0 ELSE o.amount,
   to |-> o.to, toAmount |-> Credit(o, q), rate |-> q]

Entry(r) == EntryOf(r, op[r], rate[r])

Goto(r, label) == pc' = [pc EXCEPT ![r] = label]

Step(r, here, there) == pc[r] = here /\ Goto(r, there)

\* Mutant of LockAndRead: the read leaves out the pessimistic_write lock.
ReadWithoutLock(r, c) == /\ seen' = [seen EXCEPT ![r][c] = balance[c]]
                         /\ UNCHANGED lock

\* Take the lock on the row of c and keep the balance read from it.
LockAndRead(r, c) == /\ lock[c] \in {None, r}
                     /\ lock' = [lock EXCEPT ![c] = r]
                     /\ seen' = [seen EXCEPT ![r][c] = balance[c]]

ReleaseLocks(r) ==
  lock' = [c \in Currencies |-> IF lock[c] = r THEN None ELSE lock[c]]

\* The handler throws inside its try block: it still has to roll back.
Throw(r, status) == /\ Goto(r, "rollback")
                    /\ outcome' = [outcome EXCEPT ![r] = status]

\* A statement fails: the server has aborted the transaction before the handler
\* sees the error.
StatementFails(r, status) == Throw(r, status) /\ ReleaseLocks(r)

\* The response leaves the handler.
Answer(r, status) == /\ Goto(r, "done")
                     /\ outcome' = [outcome EXCEPT ![r] = status]

-----------------------------------------------------------------------------
\* Lock waits

\* Mutant of Target: a swap locks its destination first.
TargetDestinationFirst(r) ==
  IF IsFund(r) \/ pc[r] = "lock" THEN op[r].to ELSE op[r].from

\* The row the next statement of r has to lock or insert.
Target(r) == IF pc[r] = "lock" /\ ~IsFund(r) THEN op[r].from ELSE op[r].to

\* r waits for another transaction: its statement targets a committed row that
\* is locked, or inserts a key another transaction has inserted and not
\* committed.  A locking read does not see, nor wait for, such an insert.
Blocked(r) == /\ lock[Target(r)] \notin {None, r}
              /\ \/ pc[r] \in {"lock", "lockTo", "update"} /\ Target(r) \in rows
                 \/ pc[r] = "insert" /\ Target(r) \notin rows

\* Every member waits for another one, and every member is waited for.
WaitCycle(S) == /\ S # {}
                /\ \A r \in S : Blocked(r)
                /\ S = {lock[Target(r)] : r \in S}

InWaitCycle(r) == \E S \in SUBSET Requests : r \in S /\ WaitCycle(S)

-----------------------------------------------------------------------------
\* Before the transaction

Init == /\ rows = SeedRows
        /\ balance = Opening
        /\ lock = [c \in Currencies |-> None]
        /\ ledger = {}
        /\ op \in [Requests -> Ops]
        /\ pc = [r \in Requests |-> "start"]
        /\ rate = [r \in Requests |-> 0]
        /\ seen = [r \in Requests |-> [c \in Currencies |-> Unread]]
        /\ outcome = [r \in Requests |-> 0]

\* The ValidationPipe refuses a body that is no operation of Ops: 400.
InvalidBody(r) ==
  /\ pc[r] = "start"
  /\ Answer(r, 400)
  /\ UNCHANGED <<dbVars, lock, op, rate, seen>>

\* walletsRepo.findByUserId finds nothing: 404.
WalletNotFound(r) ==
  /\ pc[r] = "start" /\ op[r].user # Owner
  /\ Answer(r, 404)
  /\ UNCHANGED <<dbVars, lock, op, rate, seen>>

FundStart(r) ==
  /\ Step(r, "start", "connect") /\ op[r].user = Owner /\ IsFund(r)
  /\ UNCHANGED <<dbVars, lock, op, rate, seen, outcome>>

\* The rate is quoted before the transaction opens.
SwapQuote(r) ==
  /\ Step(r, "start", "connect") /\ op[r].user = Owner /\ ~IsFund(r)
  /\ \E q \in Rates : rate' = [rate EXCEPT ![r] = q]
  /\ UNCHANGED <<dbVars, lock, op, seen, outcome>>

SwapNoQuote(r) ==
  /\ pc[r] = "start" /\ op[r].user = Owner /\ ~IsFund(r)
  /\ Answer(r, 500)
  /\ UNCHANGED <<dbVars, lock, op, rate, seen>>

\* queryRunner.connect() and startTransaction(); the pool may be exhausted.
Connect(r) ==
  /\ Step(r, "connect", "lock")
  /\ Cardinality({s \in Requests : InTx(s)}) < PoolSize
  /\ UNCHANGED <<dbVars, lock, op, rate, seen, outcome>>

ConnectTimeout(r) ==
  /\ pc[r] = "connect"
  /\ Cardinality({s \in Requests : InTx(s)}) >= PoolSize
  /\ Answer(r, 500)
  /\ UNCHANGED <<dbVars, lock, op, rate, seen>>

-----------------------------------------------------------------------------
\* fund: the locking read

FundLock(r) ==
  /\ Step(r, "lock", "update") /\ IsFund(r) /\ op[r].to \in rows
  /\ LockAndRead(r, op[r].to)
  /\ UNCHANGED <<dbVars, op, rate, outcome>>

\* The locking read finds no row, so it locks nothing.
FundNoRow(r) ==
  /\ Step(r, "lock", "upsert") /\ IsFund(r) /\ op[r].to \notin rows
  /\ UNCHANGED <<dbVars, lock, op, rate, seen, outcome>>

-----------------------------------------------------------------------------
\* executeSwap: the locking read of the source

\* Mutant of SwapLockFrom: no check of the balance.
SwapLockFromUnchecked(r) ==
  /\ Step(r, "lock", "upsert") /\ ~IsFund(r) /\ op[r].from \in rows
  /\ LockAndRead(r, Target(r))
  /\ UNCHANGED <<dbVars, op, rate, outcome>>

SwapLockFrom(r) ==
  /\ Step(r, "lock", "upsert") /\ ~IsFund(r) /\ op[r].from \in rows
  /\ LockAndRead(r, Target(r))
  /\ balance[op[r].from] >= op[r].amount
  /\ UNCHANGED <<dbVars, op, rate, outcome>>

SwapInsufficient(r) ==
  /\ pc[r] = "lock" /\ ~IsFund(r) /\ op[r].from \in rows
  /\ LockAndRead(r, Target(r))
  /\ balance[op[r].from] < op[r].amount
  /\ Throw(r, 400)
  /\ UNCHANGED <<dbVars, op, rate>>

SwapNoSource(r) ==
  /\ pc[r] = "lock" /\ ~IsFund(r) /\ op[r].from \notin rows
  /\ Throw(r, 400)
  /\ UNCHANGED <<dbVars, lock, op, rate, seen>>

-----------------------------------------------------------------------------
\* WalletBalanceRepository.upsert of the destination row

\* Its plain findOne finds a committed row: fund goes on with what it read here,
\* without holding the lock ...
FundUpsertFound(r) ==
  /\ Step(r, "upsert", "update") /\ IsFund(r) /\ op[r].to \in rows
  /\ seen' = [seen EXCEPT ![r][op[r].to] = balance[op[r].to]]
  /\ UNCHANGED <<dbVars, lock, op, rate, outcome>>

\* ... and executeSwap drops the result and reads the row again under its lock.
SwapUpsertFound(r) ==
  /\ Step(r, "upsert", "lockTo") /\ ~IsFund(r) /\ op[r].to \in rows
  /\ UNCHANGED <<dbVars, lock, op, rate, seen, outcome>>

UpsertMissing(r) ==
  /\ Step(r, "upsert", "insert") /\ op[r].to \notin rows
  /\ UNCHANGED <<dbVars, lock, op, rate, seen, outcome>>

\* Mutant of InsertRow: the new row is created in memory and never saved.
InsertForgotten(r) ==
  /\ Step(r, "insert", "lockTo") /\ ~IsFund(r)
  /\ UNCHANGED <<dbVars, lock, op, rate, seen, outcome>>

\* INSERT of a row holding 0; it waits while another transaction's insert of the
\* same key is uncommitted.
InsertRow(r) ==
  /\ pc[r] = "insert" /\ op[r].to \notin rows
  /\ LockAndRead(r, op[r].to)
  /\ Goto(r, IF IsFund(r) THEN "update" ELSE "lockTo")
  /\ UNCHANGED <<dbVars, op, rate, outcome>>

\* The key was committed since the findOne: unique violation, answered 409.
InsertConflict(r) ==
  /\ pc[r] = "insert" /\ op[r].to \in rows
  /\ StatementFails(r, 409)
  /\ UNCHANGED <<dbVars, op, rate, seen>>

-----------------------------------------------------------------------------
\* Reading the destination, writing both balances and the ledger row

\* The row is committed, or this transaction inserted it.
SwapLockTo(r) ==
  /\ Step(r, "lockTo", "update")
  /\ op[r].to \in rows \/ lock[op[r].to] = r
  /\ LockAndRead(r, Target(r))
  /\ UNCHANGED <<dbVars, op, rate, outcome>>

\* updateBalance writes the absolute value computed from what was read; the
\* UPDATE takes the row's lock if the transaction does not hold it.
UpdateBalances(r) ==
  /\ Step(r, "update", "record")
  /\ NewTo(r) <= MaxBalance
  /\ lock[op[r].to] \in {None, r}
  /\ lock' = [lock EXCEPT ![op[r].to] = r]
  /\ UNCHANGED <<dbVars, op, rate, seen, outcome>>

\* numeric field overflow.
BalanceOverflow(r) ==
  /\ pc[r] = "update"
  /\ NewTo(r) > MaxBalance
  /\ StatementFails(r, 500)
  /\ UNCHANGED <<dbVars, op, rate, seen>>

\* Mutants of Record: the row is written outside the transaction; the response is
\* given before the commit.
RecordOutsideTransaction(r) ==
  /\ Step(r, "record", "commit")
  /\ ledger' = ledger \cup {Entry(r)}
  /\ UNCHANGED <<rows, balance, lock, op, rate, seen, outcome>>

RecordThenAnswer(r) ==
  /\ Step(r, "record", "commit")
  /\ outcome' = [outcome EXCEPT ![r] = 201]
  /\ UNCHANGED <<dbVars, lock, op, rate, seen>>

\* transactionRepository.create: the row is the transaction's own until commit.
Record(r) ==
  /\ Step(r, "record", "commit")
  /\ UNCHANGED <<dbVars, lock, op, rate, seen, outcome>>

-----------------------------------------------------------------------------
\* The end of the transaction

\* Everything the transaction wrote becomes visible and its locks are released.
ApplyWrites(r) ==
  /\ rows' = rows \cup {op[r].to}
  /\ balance' = [c \in Currencies |->
                   IF c = op[r].to THEN NewTo(r)
                   ELSE IF c = op[r].from THEN NewFrom(r)
                   ELSE balance[c]]
  /\ ledger' = ledger \cup {Entry(r)}
  /\ ReleaseLocks(r)

Commit(r) ==
  /\ pc[r] = "commit"
  /\ ApplyWrites(r)
  /\ Answer(r, 201)
  /\ UNCHANGED <<op, rate, seen>>

\* The server commits, the connection breaks before it says so: the handler
\* takes its catch block and answers 500.
CommitReplyLost(r) ==
  /\ pc[r] = "commit"
  /\ ApplyWrites(r)
  /\ Answer(r, 500)
  /\ UNCHANGED <<op, rate, seen>>

\* Mutant of Rollback: the transaction is left open.
RollbackForgotten(r) ==
  /\ Step(r, "rollback", "done")
  /\ UNCHANGED <<dbVars, lock, op, rate, seen, outcome>>

\* catch and finally: roll back, release the connection, rethrow.
Rollback(r) ==
  /\ Step(r, "rollback", "done")
  /\ ReleaseLocks(r)
  /\ UNCHANGED <<dbVars, op, rate, seen, outcome>>

\* A query (BEGIN, COMMIT and ROLLBACK included) fails because the connection
\* breaks: the server rolls back whatever was open.
ConnectionLost(r) ==
  /\ pc[r] \in {"start", "connect"} \/ InTx(r)
  /\ ReleaseLocks(r)
  /\ Answer(r, 500)
  /\ UNCHANGED <<dbVars, op, rate, seen>>

\* PostgreSQL aborts one transaction of a wait cycle; nothing retries it.
DeadlockVictim(r) ==
  /\ InWaitCycle(r)
  /\ StatementFails(r, 500)
  /\ UNCHANGED <<dbVars, op, rate, seen>>

-----------------------------------------------------------------------------

\* What a request does when nothing outside breaks.
Proceed(r) ==
  \/ InvalidBody(r) \/ WalletNotFound(r) \/ FundStart(r) \/ SwapQuote(r) \/ SwapNoQuote(r)
  \/ Connect(r) \/ ConnectTimeout(r)
  \/ FundLock(r) \/ FundNoRow(r)
  \/ SwapLockFrom(r) \/ SwapInsufficient(r) \/ SwapNoSource(r)
  \/ FundUpsertFound(r) \/ SwapUpsertFound(r) \/ UpsertMissing(r)
  \/ InsertRow(r) \/ InsertConflict(r)
  \/ SwapLockTo(r) \/ UpdateBalances(r) \/ BalanceOverflow(r) \/ Record(r)
  \/ Commit(r) \/ Rollback(r) \/ DeadlockVictim(r)

Finished == (\A r \in Requests : pc[r] = "done") /\ UNCHANGED vars

Next == \/ \E r \in Requests : Proceed(r) \/ CommitReplyLost(r) \/ ConnectionLost(r)
        \/ Finished

Spec == Init /\ [][Next]_vars

-----------------------------------------------------------------------------
\* Properties

Types == {"FUNDING", "CONVERSION", "TRADE"}

\* The rows the ledger may ever hold.
LedgerEntries == {EntryOf(r, o, q) : r \in Requests, o \in Ops, q \in Rates \cup {0}}

\* Balances stay within the column: no interleaving of fundings and swaps
\* overdraws a currency (the check of executeSwap is made on a locked row) or
\* stores a value numeric(20,8) cannot hold.
TypeOK ==
  /\ rows \in SUBSET Currencies
  /\ balance \in [Currencies -> 0..MaxBalance]
  /\ lock \in [Currencies -> Requests \cup {None}]
  /\ ledger \in SUBSET LedgerEntries
  /\ op \in [Requests -> Ops]
  /\ pc \in [Requests -> {"start", "connect", "lock", "upsert", "insert", "lockTo",
                          "update", "record", "commit", "rollback", "done"}]
  /\ rate \in [Requests -> Rates \cup {0}]
  /\ seen \in [Requests -> [Currencies -> {Unread} \cup 0..MaxBalance]]
  /\ outcome \in [Requests -> {0, 201, 400, 404, 409, 500}]

L == INSTANCE WalletLedger WITH Entries <- LedgerEntries

\* The service implements the abstract ledger: every step that changes a
\* balance adds the matching ledger row, once per request, and nothing else does.
LedgerSpec == L!Spec

\* Every balance equals its opening balance plus the sum of its ledger rows:
\* what "SELECT FOR UPDATE ... prevents race conditions and double-spending"
\* (README) means for the stored data.
Reconciled == L!Reconciled

\* The response tells the truth: 201 means exactly this operation is in the
\* ledger, a 4xx that nothing of it is.  (A 500 promises neither: the reply to
\* COMMIT may have been lost.)
AnswerMatchesLedger ==
  \A r \in Requests :
    /\ outcome[r] = 201 => Entry(r) \in ledger
    /\ outcome[r] \in {400, 404, 409} => \A e \in ledger : e.ref # r

\* What a swap read before computing its new balances is still current when it
\* writes them, on both sides, whatever else runs.
SwapReadsCurrent ==
  \A r \in Requests :
    ~IsFund(r) /\ pc[r] \in {"update", "record", "commit"} =>
      /\ seen[r][op[r].from] = balance[op[r].from]
      /\ seen[r][op[r].to] = balance[op[r].to]

\* The same for a funding whose UPDATE has run, so that no commit overwrites an
\* update it has not seen.
FundReadsCurrent ==
  \A r \in Requests :
    IsFund(r) /\ pc[r] \in {"record", "commit"} =>
      seen[r][op[r].to] = balance[op[r].to]

\* executeSwap's "Failed to create/find destination wallet balance" branch is
\* unreachable: after upsert the locking read finds the row.
DestinationAlwaysFound ==
  \A r \in Requests :
    pc[r] = "lockTo" => op[r].to \in rows \/ lock[op[r].to] = r

\* Only swaps deadlock, and only in a circle of currencies: each waits for the
\* source row of the next.  Fundings and same-direction swaps never do.
OnlyOpposingSwapsDeadlock ==
  \A S \in SUBSET Requests :
    WaitCycle(S) => \A r \in S : ~IsFund(r) /\ op[r].to = op[lock[op[r].to]].from

-----------------------------------------------------------------------------
\* The inductive invariant behind the safety properties

SwapHolds == {"upsert", "insert", "lockTo", "update", "record", "commit"}

\* Which locks a request holds at each point, and no others.
LocksInv ==
  \A r \in Requests :
    /\ ~IsFund(r) /\ pc[r] \in SwapHolds => lock[op[r].from] = r
    /\ ~IsFund(r) /\ pc[r] \in {"update", "record", "commit"} => lock[op[r].to] = r
    /\ IsFund(r) /\ pc[r] \in {"record", "commit"} => lock[op[r].to] = r
    /\ IsFund(r) => pc[r] # "lockTo"
    /\ \A c \in Currencies :
         lock[c] = r =>
           \/ c = op[r].from /\ ~IsFund(r) /\ pc[r] \in SwapHolds \cup {"rollback"}
           \/ c = op[r].to /\ pc[r] \in {"lockTo", "update", "record", "commit", "rollback"}

\* What the balances a request read are worth at each point.
ReadsInv ==
  \A r \in Requests :
    /\ ~IsFund(r) /\ pc[r] \in SwapHolds =>
         /\ seen[r][op[r].from] = balance[op[r].from]
         /\ balance[op[r].from] >= op[r].amount
    /\ ~IsFund(r) /\ pc[r] \in {"update", "record", "commit"} =>
         seen[r][op[r].to] = balance[op[r].to]
    /\ pc[r] \in {"update", "record", "commit"} => seen[r][op[r].to] # Unread
    /\ pc[r] \in {"record", "commit"} => NewTo(r) <= MaxBalance

\* How the ledger and the responses are related at each point.
AnswersInv ==
  /\ \A r \in Requests :
       /\ outcome[r] # 0 <=> pc[r] \in {"rollback", "done"}
       /\ outcome[r] = 201 => pc[r] = "done" /\ Entry(r) \in ledger
  /\ \A e \in ledger : pc[e.ref] = "done" /\ outcome[e.ref] \in {201, 500}

IInv == TypeOK /\ LocksInv /\ ReadsInv /\ AnswersInv /\ DestinationAlwaysFound

Touches(r, c) == c \in {op[r].from, op[r].to}

\* No funding of c can lose an update: the row is there from the start (as the NGN row
\* made by verify is), or beside a funding at most one other request touches it.
FundedSafely(c) ==
  \/ c \in SeedRows
  \/ \A r \in Requests : IsFund(r) /\ op[r].to = c =>
       \A s, t \in Requests \ {r} : Touches(s, c) /\ Touches(t, c) => s = t

FirstFundingsPaired == \A c \in Currencies : FundedSafely(c)

\* A new row is there once a request for it is over; such a funding holds the lock on
\* its row, or the only other request for it is over.
FundsInv ==
  /\ SeedRows \subseteq rows
  /\ \A c \in rows \ SeedRows : \E s \in Requests : op[s].to = c /\ pc[s] = "done"
  /\ \A r \in Requests : IsFund(r) =>
       /\ op[r].to \in SeedRows => pc[r] \notin {"upsert", "insert"}
       /\ pc[r] \in {"update", "record", "commit"} /\ FundedSafely(op[r].to) =>
            /\ \/ lock[op[r].to] = r
               \/ /\ op[r].to \notin SeedRows
                  /\ \E s \in Requests \ {r} : op[s].to = op[r].to /\ pc[s] = "done"
            /\ seen[r][op[r].to] = balance[op[r].to]

\* Such a currency is reconciled, whatever happens to the others.
ReconciledInv ==
  /\ IsFiniteSet(ledger)
  /\ \A c \in Currencies :
       FundedSafely(c) => balance[c] = Opening[c] + L!RowSum(c, ledger)

=============================================================================
