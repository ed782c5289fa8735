---------------------- MODULE TransactionHistoryProofs ----------------------
(* Proofs about TransactionHistory, for any number of rows, scans and limits. *)
EXTENDS TransactionHistory, FiniteSetTheorems, TLAPS

\* The rows of a WHERE clause are finitely many committed ones.
LEMMA MatchingSet ==
  ASSUME IInv, NEW s \in Scans
  PROVE  /\ Matching(s) \subseteq committed
         /\ IsFiniteSet(Matching(s)) /\ Cardinality(Matching(s)) \in Nat
<1>1. Matching(s) \subseteq committed
  BY DEF Matching
<1> QED
  BY <1>1, FS_Subset, FS_CardinalityType DEF IInv, RowsInv

\* As many rows as match are all of them.
LEMMA NewestAll ==
  ASSUME NEW T, IsFiniteSet(T), NEW R, Newest(R, T, Cardinality(T))
  PROVE  R = T
  BY FS_Subset DEF Newest

\* A page gives all the rows that match and ends the scan, or gives some, none older
\* than one of them that becomes the cursor, and no other matching row is newer.
LEMMA PageGives ==
  ASSUME IInv, NEW s \in Scans, Page(s)
  PROVE  \E R \in SUBSET Matching(s) :
           /\ got' = [got EXCEPT ![s] = @ \cup R]
           /\ \/ /\ R = Matching(s)
                 /\ page' = [page EXCEPT ![s] = "done"]
                 /\ UNCHANGED cursor
              \/ /\ page' = [page EXCEPT ![s] = "next"]
                 /\ \E c \in R : /\ cursor' = [cursor EXCEPT ![s] = {c}]
                                 /\ \A u \in R : createdAt[c] <= createdAt[u]
                                 /\ \A u \in Matching(s) \ R : createdAt[u] <= createdAt[c]
<1> DEFINE T == Matching(s)
           n == Cardinality(T)
<1>1. IsFiniteSet(T) /\ n \in Nat
  BY MatchingSet
<1>2. limit[s] \in Nat
  BY LimitsAssumption DEF IInv, TypeOK
<1>3. CASE HasNextPage(n, limit[s])
  <2>1. PICK R \in SUBSET T, c \in T :
          /\ Newest(R, T, limit[s])
          /\ got' = [got EXCEPT ![s] = @ \cup R]
          /\ EndsPage(c, R, T)
          /\ cursor' = [cursor EXCEPT ![s] = {c}]
          /\ page' = [page EXCEPT ![s] = "next"]
    BY <1>3 DEF Page
  <2>2. c \in R /\ \A u \in R : createdAt[c] <= createdAt[u]
    BY <2>1 DEF EndsPage
  <2>3. \A u \in T \ R : createdAt[c] >= createdAt[u]
    BY <2>1, <2>2 DEF Newest
  <2>4. \A u \in T : createdAt[u] \in Int
    BY MatchingSet, TimeAssumption DEF IInv, TypeOK
  <2> QED
    BY <2>1, <2>2, <2>3, <2>4
<1>4. CASE ~HasNextPage(n, limit[s])
  <2>1. PICK R \in SUBSET T :
          /\ Newest(R, T, IF n < limit[s] THEN n ELSE limit[s])
          /\ got' = [got EXCEPT ![s] = @ \cup R]
          /\ page' = [page EXCEPT ![s] = "done"]
          /\ UNCHANGED cursor
    BY <1>4 DEF Page
  <2>2. (IF n < limit[s] THEN n ELSE limit[s]) = n
    BY <1>1, <1>2, <1>4 DEF HasNextPage
  <2>3. R = T
    BY <1>1, <2>1, <2>2, NewestAll
  <2> QED
    BY <2>1, <2>3
<1> QED
  BY <1>3, <1>4

\* The initial state satisfies the invariant.
LEMMA InitInv == Init => IInv
  BY FS_EmptySet, TimeAssumption
  DEF Init, IInv, TypeOK, RowsInv, CursorInv, MissingInv

\* Both actions of a scan are one page; the first also notes what there is.
LEMMA Pages ==
  ASSUME NEW s \in Scans, FirstPage(s) \/ NextPage(s)
  PROVE  /\ page[s] \in {"first", "next"} /\ Page(s)
         /\ UNCHANGED <<clock, type, createdAt, committed, limit, filter>>
         /\ page[s] = "first" => atStart' = [atStart EXCEPT ![s] = Matching(s)]
         /\ page[s] = "next" => atStart' = atStart
  BY DEF FirstPage, NextPage, ledgerVars

\* A page preserves the invariant.
LEMMA PageStep ==
  ASSUME IInv, NEW s \in Scans, FirstPage(s) \/ NextPage(s)
  PROVE  IInv'
<1> DEFINE T == Matching(s)
<1>1. PICK R \in SUBSET T :
        /\ got' = [got EXCEPT ![s] = @ \cup R]
        /\ \/ /\ R = T
              /\ page' = [page EXCEPT ![s] = "done"]
              /\ UNCHANGED cursor
           \/ /\ page' = [page EXCEPT ![s] = "next"]
              /\ \E c \in R : /\ cursor' = [cursor EXCEPT ![s] = {c}]
                              /\ \A u \in R : createdAt[c] <= createdAt[u]
                              /\ \A u \in T \ R : createdAt[u] <= createdAt[c]
  BY Pages, PageGives
<1>2. /\ page[s] \in {"first", "next"}
      /\ UNCHANGED <<clock, type, createdAt, committed, limit, filter>>
      /\ page[s] = "first" => atStart' = [atStart EXCEPT ![s] = T]
      /\ page[s] = "next" => atStart' = atStart
  BY Pages
<1>3. T \subseteq committed /\ committed \subseteq Txs /\ createdAt \in [Txs -> 0..MaxTime]
  BY MatchingSet DEF IInv, TypeOK
<1>4. \A u \in committed : createdAt[u] \in Int
  BY <1>3, TimeAssumption
<1> HIDE DEF T
<1>5. got' \in [Scans -> SUBSET committed] /\ got'[s] = got[s] \cup R
  BY <1>1, <1>3 DEF IInv, TypeOK
<1>6. atStart' \in [Scans -> SUBSET committed]
  BY <1>2, <1>3 DEF IInv, TypeOK
<1>7. TypeOK'
  <2>1. page' \in [Scans -> {"first", "next", "done"}]
    BY <1>1 DEF IInv, TypeOK
  <2>2. ASSUME NEW v \in Scans
        PROVE  cursor'[v] \subseteq got'[v] /\ Cardinality(cursor'[v]) <= 1
    <3>1. got[v] \subseteq got'[v]
      BY <1>1 DEF IInv, TypeOK
    <3>2. CASE cursor'[v] = cursor[v]
      BY <3>1, <3>2 DEF IInv, TypeOK
    <3>3. ASSUME NEW c \in R, cursor' = [cursor EXCEPT ![s] = {c}], v = s
          PROVE  cursor'[v] \subseteq got'[v] /\ Cardinality(cursor'[v]) <= 1
      <4>1. cursor'[v] = {c}
        BY <3>3 DEF IInv, TypeOK
      <4>2. Cardinality({c}) = 1
        BY FS_Singleton
      <4> QED
        BY <1>5, <3>3, <4>1, <4>2
    <3>4. cursor' = cursor \/ \E c \in R : cursor' = [cursor EXCEPT ![s] = {c}]
      BY <1>1
    <3>5. v # s => cursor'[v] = cursor[v]
      BY <3>4 DEF IInv, TypeOK
    <3> QED
      BY <3>2, <3>3, <3>4, <3>5
  <2>3. cursor' \in [Scans -> SUBSET committed]
    BY <1>1, <1>3 DEF IInv, TypeOK
  <2> QED
    BY <1>2, <1>5, <1>6, <2>1, <2>2, <2>3 DEF IInv, TypeOK
<1>8. RowsInv'
  BY <1>2 DEF IInv, RowsInv
<1>9. CursorInv'
  <2>1. ASSUME NEW v \in Scans \ {s}
        PROVE  /\ page'[v] = page[v] /\ cursor'[v] = cursor[v]
               /\ got'[v] = got[v] /\ atStart'[v] = atStart[v]
    BY <1>1, <1>2 DEF IInv, TypeOK
  <2>2. page'[s] # "first"
    BY <1>1 DEF IInv, TypeOK
  <2>3. ASSUME page'[s] = "next"
        PROVE  \E c \in got'[s] : /\ cursor'[s] = {c}
                                  /\ \A u \in got'[s] : createdAt[c] <= createdAt[u]
    <3>1. PICK c \in R : cursor' = [cursor EXCEPT ![s] = {c}]
                         /\ \A u \in R : createdAt[c] <= createdAt[u]
      BY <1>1, <2>3 DEF IInv, TypeOK
    <3>2. ASSUME NEW u \in got[s] PROVE createdAt[c] <= createdAt[u]
      <4>1. page[s] = "next"
        BY <1>2, <3>2 DEF IInv, CursorInv
      <4>2. PICK d \in got[s] : cursor[s] = {d} /\ createdAt[d] <= createdAt[u]
        BY <3>2, <4>1 DEF IInv, CursorInv
      <4>3. createdAt[c] < createdAt[d]
        BY <3>1, <4>2 DEF T, Matching, Older
      <4>4. c \in committed /\ d \in committed /\ u \in committed
        BY <1>3, <3>1, <3>2, <4>2 DEF IInv, TypeOK
      <4> QED
        BY <1>4, <4>2, <4>3, <4>4
    <3>3. cursor'[s] = {c}
      BY <3>1 DEF IInv, TypeOK
    <3> QED
      BY <1>5, <3>1, <3>2, <3>3
  <2> QED
    BY <1>2, <2>1, <2>2, <2>3 DEF IInv, CursorInv
<1>10. MissingInv'
  <2>1. ASSUME NEW v \in Scans \ {s}
        PROVE  /\ page'[v] = page[v] /\ Matching(v)' = Matching(v)
               /\ got'[v] = got[v] /\ atStart'[v] = atStart[v]
    BY <1>1, <1>2 DEF IInv, TypeOK, Matching, Older
  <2>2. ASSUME NEW t \in atStart'[s] \ got'[s]
        PROVE  \/ page'[s] = "next" /\ t \in Matching(s)'
               \/ \E u \in got'[s] : createdAt[u] = createdAt[t]
    <3>1. t \in T \/ \E u \in got'[s] : createdAt[u] = createdAt[t]
      BY <1>2, <1>5, <2>2 DEF IInv, TypeOK, MissingInv, T
    <3>2. ASSUME t \in T, ~ \E u \in got'[s] : createdAt[u] = createdAt[t]
          PROVE  page'[s] = "next" /\ t \in Matching(s)'
      <4>1. t \in T \ R
        BY <1>5, <2>2, <3>2
      <4>2. PICK c \in R : /\ cursor' = [cursor EXCEPT ![s] = {c}]
                           /\ createdAt[t] <= createdAt[c]
        BY <1>1, <4>1
      <4>3. page'[s] = "next" /\ cursor'[s] = {c}
        BY <1>1, <4>1, <4>2 DEF IInv, TypeOK
      <4>4. createdAt[t] < createdAt[c]
        BY <1>3, <1>4, <1>5, <3>2, <4>2
      <4> QED
        BY <1>2, <3>2, <4>3, <4>4 DEF T, Matching, Older
    <3> QED
      BY <3>1, <3>2
  <2> QED
    BY <1>2, <2>1, <2>2 DEF IInv, MissingInv
<1> QED
  BY <1>7, <1>8, <1>9, <1>10 DEF IInv

\* A wallet operation that begins touches no row that anyone has seen.
LEMMA BeginStep == ASSUME IInv, NEW t \in Txs, Begin(t) PROVE IInv'
<1>1. \A u \in committed : createdAt'[u] = createdAt[u]
  BY DEF Begin, IInv, TypeOK, RowsInv
<1>2. \A s \in Scans : got[s] \subseteq committed /\ atStart[s] \subseteq committed
                     /\ cursor[s] \subseteq committed
  BY DEF IInv, TypeOK
<1>3. \A s \in Scans : Matching(s)' = Matching(s)
  BY <1>1, <1>2 DEF Begin, Matching, Older
<1>4. TypeOK'
  BY TimeAssumption DEF Begin, IInv, TypeOK
<1>5. RowsInv'
  BY <1>1 DEF Begin, IInv, RowsInv
<1>6. CursorInv'
  BY <1>1, <1>2 DEF Begin, IInv, CursorInv
<1>7. MissingInv'
  BY <1>1, <1>2, <1>3 DEF Begin, IInv, MissingInv
<1> QED
  BY <1>4, <1>5, <1>6, <1>7 DEF IInv

\* One that commits adds a row for later pages at most.
LEMMA CommitStep == ASSUME IInv, NEW t \in Txs, Commit(t) PROVE IInv'
<1>1. \A s \in Scans : Matching(s) \subseteq Matching(s)'
  BY DEF Commit, Matching, Older
<1>2. TypeOK'
  BY DEF Commit, IInv, TypeOK
<1>3. RowsInv'
  BY FS_AddElement DEF Commit, IInv, RowsInv
<1>4. CursorInv'
  BY DEF Commit, IInv, CursorInv
<1>5. MissingInv'
  BY <1>1 DEF Commit, IInv, MissingInv
<1> QED
  BY <1>2, <1>3, <1>4, <1>5 DEF IInv

\* IInv is an invariant of scans and wallet operations together.
THEOREM Invariance == Spec => []IInv
<1>1. IInv /\ [Next]_vars => IInv'
  <2> SUFFICES ASSUME IInv, [Next]_vars PROVE IInv'
    OBVIOUS
  <2>1. CASE Tick
    <3>1. TypeOK'
      BY <2>1, TimeAssumption DEF Tick, IInv, TypeOK
    <3> QED
      BY <2>1, <3>1 DEF Tick, IInv, RowsInv, CursorInv, MissingInv, Matching, Older
  <2>2. CASE UNCHANGED vars
    BY <2>2 DEF vars, IInv, TypeOK, RowsInv, CursorInv, MissingInv, Matching, Older
  <2> QED
    BY <2>1, <2>2, PageStep, BeginStep, CommitStep DEF Next, Finished
<1> QED
  BY InitInv, <1>1, PTL DEF Spec

\* Every variable has its type; a cursor is a row its scan has been given.
THEOREM TypeCorrect == Spec => []TypeOK
<1>1. IInv => TypeOK
  BY DEF IInv
<1> QED
  BY Invariance, <1>1, PTL

\* Whatever commits between two pages, no page repeats a row nor goes back in time.
THEOREM PagesInOrder == Spec => []PagesDescend
<1>1. ASSUME IInv, NEW s \in Scans, page[s] = "next",
             NEW t \in Matching(s), NEW u \in got[s]
      PROVE  createdAt[t] < createdAt[u]
  <2>1. PICK c \in got[s] : cursor[s] = {c} /\ createdAt[c] <= createdAt[u]
    BY <1>1 DEF IInv, CursorInv
  <2>2. createdAt[t] < createdAt[c]
    BY <1>1, <2>1 DEF Matching, Older
  <2>3. createdAt[t] \in Int /\ createdAt[c] \in Int /\ createdAt[u] \in Int
    BY <1>1, MatchingSet, TimeAssumption DEF IInv, TypeOK
  <2> QED
    BY <2>1, <2>2, <2>3
<1>2. IInv => PagesDescend
  BY <1>1 DEF PagesDescend
<1> QED
  BY Invariance, <1>2, PTL

\* A finished scan misses no row that was there when it started, but for ties.
THEOREM ScansComplete == Spec => []CompleteButTies
<1>1. IInv => CompleteButTies
  BY DEF IInv, MissingInv, CompleteButTies
<1> QED
  BY Invariance, <1>1, PTL

=============================================================================
