------------------------- MODULE TransactionHistory -------------------------
(***************************************************************************)
(* TransactionRepository.findPaginatedByUserId: scans that page through    *)
(* the ledger rows of one user, newest first, while wallet operations add  *)
(* rows to it.                                                             *)
(*                                                                         *)
(* created_at is the now() of PostgreSQL (external): the time at which the *)
(* operation's transaction began, not when it committed.  Rows are never   *)
(* changed nor deleted.                                                    *)
(***************************************************************************)
EXTENDS Integers, FiniteSets

CONSTANTS
  Txs,      \* the ledger rows that may be written
  Types,    \* their types
  AnyType,  \* a query without the type filter
  Scans,    \* clients that page through the history
  Limits,   \* page sizes they may ask for
  MaxTime   \* the clock stops here (bound)

ASSUME TypesAssumption == AnyType \notin Types

\* The DTO lets a positive limit through only.
ASSUME LimitsAssumption == Limits \subseteq Nat \ {0}

ASSUME TimeAssumption == MaxTime \in Nat \ {0}

VARIABLES
  clock,
  type,       \* the type of each row
  createdAt,  \* its created_at, 0 before its transaction begins
  committed,  \* the rows others can see
  limit, filter, \* what each scan asks for
  page,       \* "first" or "next" to be asked for, or "done"
  cursor,     \* the rows that may have ended the last page: one, or none at first
  got,        \* the rows it has been given
  atStart     \* the rows it could see when it asked for its first page (history)

vars == <<clock, type, createdAt, committed, limit, filter, page, cursor, got, atStart>>

ledgerVars == <<clock, type, createdAt, committed>>

-----------------------------------------------------------------------------

Init == /\ clock = 1
        /\ type \in [Txs -> Types]
        /\ createdAt = [t \in Txs |-> 0]
        /\ committed = {}
        /\ limit \in [Scans -> Limits]
        /\ filter \in [Scans -> Types \cup {AnyType}]
        /\ page = [s \in Scans |-> "first"]
        /\ cursor = [s \in Scans |-> {}]
        /\ got = [s \in Scans |-> {}]
        /\ atStart = [s \in Scans |-> {}]

Tick == /\ clock < MaxTime
        /\ clock' = clock + 1
        /\ UNCHANGED <<type, createdAt, committed, limit, filter, page, cursor, got, atStart>>

\* A wallet operation begins its transaction.
Begin(t) == /\ createdAt[t] = 0
            /\ createdAt' = [createdAt EXCEPT ![t] = clock]
            /\ UNCHANGED <<clock, type, committed, limit, filter, page, cursor, got, atStart>>

Commit(t) == /\ createdAt[t] # 0 /\ t \notin committed
             /\ committed' = committed \cup {t}
             /\ UNCHANGED <<clock, type, createdAt, limit, filter, page, cursor, got, atStart>>

\* Mutant of Older: the rows of the cursor's instant are included.
OlderOrSame(t, c) == createdAt[t] <= createdAt[c]

Older(t, c) == createdAt[t] < createdAt[c]

\* The rows of the WHERE clause.
Matching(s) == {t \in committed : /\ filter[s] \in {AnyType, type[t]}
                                  /\ \A c \in cursor[s] : Older(t, c)}

\* R is a choice of n rows of T that ORDER BY created_at DESC may put first.
Newest(R, T, n) == /\ R \subseteq T /\ Cardinality(R) = n
                   /\ \A t \in R, u \in T \ R : createdAt[t] >= createdAt[u]

\* Mutant of EndsPage: the last of the limit + 1 rows found.
EndsPagePeeked(t, R, T) ==
  t \in T \ R /\ \A u \in T \ R : createdAt[t] >= createdAt[u]

\* A row that may be the last one of page R of the rows T.
EndsPage(t, R, T) == t \in R /\ \A u \in R : createdAt[t] <= createdAt[u]

\* Mutant of HasNextPage: no row more than the page holds is asked for.
HasNextPageNever(n, l) == FALSE

\* take(limit + 1) has found more than limit rows.
HasNextPage(n, l) == n > l

\* One page: take(limit + 1), of which the first limit are returned.
Page(s) ==
  LET T == Matching(s)  n == Cardinality(T) IN
  \/ /\ ~HasNextPage(n, limit[s])
     /\ \E R \in SUBSET T :
          /\ Newest(R, T, IF n < limit[s] THEN n ELSE limit[s])
          /\ got' = [got EXCEPT ![s] = @ \cup R]
     /\ page' = [page EXCEPT ![s] = "done"]
     /\ UNCHANGED cursor
  \/ /\ HasNextPage(n, limit[s])
     /\ \E R \in SUBSET T :
          /\ Newest(R, T, limit[s])
          /\ got' = [got EXCEPT ![s] = @ \cup R]
          /\ \E t \in T : EndsPage(t, R, T) /\ cursor' = [cursor EXCEPT ![s] = {t}]
     /\ page' = [page EXCEPT ![s] = "next"]

FirstPage(s) == /\ page[s] = "first"
                /\ Page(s)
                /\ atStart' = [atStart EXCEPT ![s] = Matching(s)]
                /\ UNCHANGED <<ledgerVars, limit, filter>>

NextPage(s) == /\ page[s] = "next"
               /\ Page(s)
               /\ UNCHANGED <<ledgerVars, limit, filter, atStart>>

Finished == /\ \A s \in Scans : page[s] = "done"
            /\ UNCHANGED vars

Next == \/ \E s \in Scans : FirstPage(s) \/ NextPage(s)
        \/ \E t \in Txs : Begin(t) \/ Commit(t)
        \/ Tick
        \/ Finished

Spec == Init /\ [][Next]_vars

-----------------------------------------------------------------------------
\* Properties

\* Every variable has its type, and a cursor is a row the scan has been given.
TypeOK ==
  /\ clock \in 1..MaxTime
  /\ type \in [Txs -> Types]
  /\ createdAt \in [Txs -> 0..MaxTime]
  /\ committed \subseteq Txs
  /\ limit \in [Scans -> Limits]
  /\ filter \in [Scans -> Types \cup {AnyType}]
  /\ page \in [Scans -> {"first", "next", "done"}]
  /\ got \in [Scans -> SUBSET committed]
  /\ atStart \in [Scans -> SUBSET committed]
  /\ cursor \in [Scans -> SUBSET committed]
  /\ \A s \in Scans : cursor[s] \subseteq got[s] /\ Cardinality(cursor[s]) <= 1

\* Whatever commits between two pages, the next one holds only rows older than all
\* the scan has: it is never given a row twice or out of order.
PagesDescend ==
  \A s \in Scans : page[s] = "next" =>
    \A t \in Matching(s), u \in got[s] : createdAt[t] < createdAt[u]

\* A finished scan has been given every row it could see when it started, but for
\* those created at the same instant as a row that ended one of its pages.
CompleteButTies ==
  \A s \in Scans : page[s] = "done" =>
    \A t \in atStart[s] \ got[s] :
      \E u \in got[s] : u # t /\ createdAt[u] = createdAt[t]

-----------------------------------------------------------------------------
\* The inductive invariant

\* Others see finitely many rows, none before its transaction began.
RowsInv == /\ IsFiniteSet(committed)
           /\ \A t \in committed : createdAt[t] # 0

\* A cursor is the oldest row its scan has been given.
CursorInv ==
  \A s \in Scans :
    /\ page[s] = "first" => cursor[s] = {} /\ got[s] = {} /\ atStart[s] = {}
    /\ page[s] = "next" =>
         \E c \in got[s] : /\ cursor[s] = {c}
                           /\ \A u \in got[s] : createdAt[c] <= createdAt[u]

\* A row that was there at the start and has not been given is still to come, or
\* shares its instant with one that has.
MissingInv ==
  \A s \in Scans : \A t \in atStart[s] \ got[s] :
    \/ page[s] = "next" /\ t \in Matching(s)
    \/ \E u \in got[s] : createdAt[u] = createdAt[t]

IInv == TypeOK /\ RowsInv /\ CursorInv /\ MissingInv

=============================================================================
