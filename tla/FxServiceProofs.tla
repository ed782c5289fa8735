-------------------------- MODULE FxServiceProofs --------------------------
(***************************************************************************)
(* What getRate answers, for all TTLs, latencies, numbers of requests and  *)
(* tries: IInv is inductive, and the properties of fx_cache follow.        *)
(***************************************************************************)
EXTENDS FxService, TLAPS

\* Every step preserves the types.
LEMMA TypeStep == IInv /\ [Next]_vars => TypeOK'
<1> SUFFICES ASSUME IInv, [Next]_vars PROVE TypeOK'
  OBVIOUS
<1> USE TimesAssumption DEF IInv, TypeOK, Step, Goto, Answer, Try, Fault, Later, Alive, HeldInv,
      EntriesInv, Entry, Payloads, NoPayload, Answers, Unanswered, Error, Rate
<1>1. ASSUME NEW r \in Requests, FreshHit(r) PROVE TypeOK'
  BY <1>1 DEF FreshHit
<1>2. ASSUME NEW r \in Requests, FreshMiss(r) PROVE TypeOK'
  BY <1>2 DEF FreshMiss
<1>3. ASSUME NEW r \in Requests, FreshReadFails(r) PROVE TypeOK'
  BY <1>3 DEF FreshReadFails
<1>4. ASSUME NEW r \in Requests, FetchOk(r) PROVE TypeOK'
  BY <1>4 DEF FetchOk
<1>5. ASSUME NEW r \in Requests, FetchFails(r) PROVE TypeOK'
  BY <1>5 DEF FetchFails
<1>6. ASSUME NEW r \in Requests, FetchRefused(r) PROVE TypeOK'
  BY <1>6 DEF FetchRefused
<1>7. ASSUME NEW r \in Requests, FetchMalformed(r) PROVE TypeOK'
  BY <1>7 DEF FetchMalformed
<1>8. ASSUME NEW r \in Requests, StoreFresh(r) PROVE TypeOK'
  BY <1>8 DEF StoreFresh
<1>9. ASSUME NEW r \in Requests, StoreFreshFails(r) PROVE TypeOK'
  BY <1>9 DEF StoreFreshFails
<1>10. ASSUME NEW r \in Requests, StoreStale(r) PROVE TypeOK'
  BY <1>10 DEF StoreStale
<1>11. ASSUME NEW r \in Requests, StoreStaleFails(r) PROVE TypeOK'
  BY <1>11 DEF StoreStaleFails
<1>12. ASSUME NEW r \in Requests, StaleHit(r) PROVE TypeOK'
  BY <1>12 DEF StaleHit
<1>13. ASSUME NEW r \in Requests, StaleMiss(r) PROVE TypeOK'
  BY <1>13 DEF StaleMiss
<1>14. ASSUME NEW r \in Requests, StaleReadFails(r) PROVE TypeOK'
  BY <1>14 DEF StaleReadFails
<1>15. ASSUME Tick PROVE TypeOK'
  BY <1>15 DEF Tick
<1>16. CASE UNCHANGED vars
  BY <1>16 DEF vars
<1> QED
  BY <1>1, <1>2, <1>3, <1>4, <1>5, <1>6, <1>7, <1>8, <1>9, <1>10, <1>11, <1>12, <1>13, <1>14,
        <1>15, <1>16
  DEF Next, Proceed, Finished

\* Every step preserves what requests keep.
LEMMA HeldStep == IInv /\ [Next]_vars => HeldInv'
<1> SUFFICES ASSUME IInv, [Next]_vars PROVE HeldInv'
  OBVIOUS
<1> USE TimesAssumption DEF IInv, TypeOK, Step, Goto, Answer, Try, Fault, Later, Alive, HeldInv,
      Payloads, Unanswered
<1>1. ASSUME NEW r \in Requests, FreshHit(r) PROVE HeldInv'
  BY <1>1 DEF FreshHit
<1>2. ASSUME NEW r \in Requests, FreshMiss(r) PROVE HeldInv'
  BY <1>2 DEF FreshMiss
<1>3. ASSUME NEW r \in Requests, FreshReadFails(r) PROVE HeldInv'
  BY <1>3 DEF FreshReadFails
<1>4. ASSUME NEW r \in Requests, FetchOk(r) PROVE HeldInv'
  BY <1>4 DEF FetchOk
<1>5. ASSUME NEW r \in Requests, FetchFails(r) PROVE HeldInv'
  BY <1>5 DEF FetchFails
<1>6. ASSUME NEW r \in Requests, FetchRefused(r) PROVE HeldInv'
  BY <1>6 DEF FetchRefused
<1>7. ASSUME NEW r \in Requests, FetchMalformed(r) PROVE HeldInv'
  BY <1>7 DEF FetchMalformed
<1>8. ASSUME NEW r \in Requests, StoreFresh(r) PROVE HeldInv'
  BY <1>8 DEF StoreFresh
<1>9. ASSUME NEW r \in Requests, StoreFreshFails(r) PROVE HeldInv'
  BY <1>9 DEF StoreFreshFails
<1>10. ASSUME NEW r \in Requests, StoreStale(r) PROVE HeldInv'
  BY <1>10 DEF StoreStale
<1>11. ASSUME NEW r \in Requests, StoreStaleFails(r) PROVE HeldInv'
  BY <1>11 DEF StoreStaleFails
<1>12. ASSUME NEW r \in Requests, StaleHit(r) PROVE HeldInv'
  BY <1>12 DEF StaleHit
<1>13. ASSUME NEW r \in Requests, StaleMiss(r) PROVE HeldInv'
  BY <1>13 DEF StaleMiss
<1>14. ASSUME NEW r \in Requests, StaleReadFails(r) PROVE HeldInv'
  BY <1>14 DEF StaleReadFails
<1>15. ASSUME Tick PROVE HeldInv'
  BY <1>15 DEF Tick
<1>16. CASE UNCHANGED vars
  BY <1>16 DEF vars
<1> QED
  BY <1>1, <1>2, <1>3, <1>4, <1>5, <1>6, <1>7, <1>8, <1>9, <1>10, <1>11, <1>12, <1>13, <1>14,
        <1>15, <1>16
  DEF Next, Proceed, Finished

\* Every step preserves when the entries expire.
LEMMA EntriesStep == IInv /\ [Next]_vars => EntriesInv'
<1> SUFFICES ASSUME IInv, [Next]_vars PROVE EntriesInv'
  OBVIOUS
<1> USE TimesAssumption DEF IInv, TypeOK, Step, Goto, Answer, Try, Fault, Later, Alive, HeldInv,
      EntriesInv, OnlyFresh, Entry, Payloads
<1>1. ASSUME NEW r \in Requests, FreshHit(r) PROVE EntriesInv'
  BY <1>1 DEF FreshHit
<1>2. ASSUME NEW r \in Requests, FreshMiss(r) PROVE EntriesInv'
  BY <1>2 DEF FreshMiss
<1>3. ASSUME NEW r \in Requests, FreshReadFails(r) PROVE EntriesInv'
  BY <1>3 DEF FreshReadFails
<1>4. ASSUME NEW r \in Requests, FetchOk(r) PROVE EntriesInv'
  BY <1>4 DEF FetchOk
<1>5. ASSUME NEW r \in Requests, FetchFails(r) PROVE EntriesInv'
  BY <1>5 DEF FetchFails
<1>6. ASSUME NEW r \in Requests, FetchRefused(r) PROVE EntriesInv'
  BY <1>6 DEF FetchRefused
<1>7. ASSUME NEW r \in Requests, FetchMalformed(r) PROVE EntriesInv'
  BY <1>7 DEF FetchMalformed
<1>8. ASSUME NEW r \in Requests, StoreFresh(r) PROVE EntriesInv'
  BY <1>8 DEF StoreFresh
<1>9. ASSUME NEW r \in Requests, StoreFreshFails(r) PROVE EntriesInv'
  BY <1>9 DEF StoreFreshFails
<1>10. ASSUME NEW r \in Requests, StoreStale(r) PROVE EntriesInv'
  BY <1>10 DEF StoreStale
<1>11. ASSUME NEW r \in Requests, StoreStaleFails(r) PROVE EntriesInv'
  BY <1>11 DEF StoreStaleFails
<1>12. ASSUME NEW r \in Requests, StaleHit(r) PROVE EntriesInv'
  BY <1>12 DEF StaleHit
<1>13. ASSUME NEW r \in Requests, StaleMiss(r) PROVE EntriesInv'
  BY <1>13 DEF StaleMiss
<1>14. ASSUME NEW r \in Requests, StaleReadFails(r) PROVE EntriesInv'
  BY <1>14 DEF StaleReadFails
<1>15. ASSUME Tick PROVE EntriesInv'
  BY <1>15 DEF Tick
<1>16. CASE UNCHANGED vars
  BY <1>16 DEF vars
<1> QED
  BY <1>1, <1>2, <1>3, <1>4, <1>5, <1>6, <1>7, <1>8, <1>9, <1>10, <1>11, <1>12, <1>13, <1>14,
        <1>15, <1>16
  DEF Next, Proceed, Finished

\* Every step preserves the age of the answers.
LEMMA AgeStep == IInv /\ [Next]_vars => AgeBounded'
<1> SUFFICES ASSUME IInv, [Next]_vars PROVE AgeBounded'
  OBVIOUS
<1> USE TimesAssumption DEF IInv, TypeOK, Step, Goto, Answer, Try, Fault, Later, Alive, HeldInv,
      EntriesInv, AgeBounded, Entry, Payloads, Error, Rate
<1>1. ASSUME NEW r \in Requests, FreshHit(r) PROVE AgeBounded'
  BY <1>1 DEF FreshHit
<1>2. ASSUME NEW r \in Requests, FreshMiss(r) PROVE AgeBounded'
  BY <1>2 DEF FreshMiss
<1>3. ASSUME NEW r \in Requests, FreshReadFails(r) PROVE AgeBounded'
  BY <1>3 DEF FreshReadFails
<1>4. ASSUME NEW r \in Requests, FetchOk(r) PROVE AgeBounded'
  BY <1>4 DEF FetchOk
<1>5. ASSUME NEW r \in Requests, FetchFails(r) PROVE AgeBounded'
  BY <1>5 DEF FetchFails
<1>6. ASSUME NEW r \in Requests, FetchRefused(r) PROVE AgeBounded'
  BY <1>6 DEF FetchRefused
<1>7. ASSUME NEW r \in Requests, FetchMalformed(r) PROVE AgeBounded'
  BY <1>7 DEF FetchMalformed
<1>8. ASSUME NEW r \in Requests, StoreFresh(r) PROVE AgeBounded'
  BY <1>8 DEF StoreFresh
<1>9. ASSUME NEW r \in Requests, StoreFreshFails(r) PROVE AgeBounded'
  BY <1>9 DEF StoreFreshFails
<1>10. ASSUME NEW r \in Requests, StoreStale(r) PROVE AgeBounded'
  BY <1>10 DEF StoreStale
<1>11. ASSUME NEW r \in Requests, StoreStaleFails(r) PROVE AgeBounded'
  BY <1>11 DEF StoreStaleFails
<1>12. ASSUME NEW r \in Requests, StaleHit(r) PROVE AgeBounded'
  BY <1>12 DEF StaleHit
<1>13. ASSUME NEW r \in Requests, StaleMiss(r) PROVE AgeBounded'
  BY <1>13 DEF StaleMiss
<1>14. ASSUME NEW r \in Requests, StaleReadFails(r) PROVE AgeBounded'
  BY <1>14 DEF StaleReadFails
<1>15. ASSUME Tick PROVE AgeBounded'
  BY <1>15 DEF Tick
<1>16. CASE UNCHANGED vars
  BY <1>16 DEF vars
<1> QED
  BY <1>1, <1>2, <1>3, <1>4, <1>5, <1>6, <1>7, <1>8, <1>9, <1>10, <1>11, <1>12, <1>13, <1>14,
        <1>15, <1>16
  DEF Next, Proceed, Finished

\* Every step preserves the order of the payloads.
LEMMA RegressStep == IInv /\ [Next]_vars => RegressBounded'
<1> SUFFICES ASSUME IInv, [Next]_vars PROVE RegressBounded'
  OBVIOUS
<1> USE TimesAssumption DEF IInv, TypeOK, Step, Goto, Answer, Try, Fault, Later, Alive, HeldInv,
      EntriesInv, RegressBounded, Entry, Payloads
<1>1. ASSUME NEW r \in Requests, FreshHit(r) PROVE RegressBounded'
  BY <1>1 DEF FreshHit
<1>2. ASSUME NEW r \in Requests, FreshMiss(r) PROVE RegressBounded'
  BY <1>2 DEF FreshMiss
<1>3. ASSUME NEW r \in Requests, FreshReadFails(r) PROVE RegressBounded'
  BY <1>3 DEF FreshReadFails
<1>4. ASSUME NEW r \in Requests, FetchOk(r) PROVE RegressBounded'
  BY <1>4 DEF FetchOk
<1>5. ASSUME NEW r \in Requests, FetchFails(r) PROVE RegressBounded'
  BY <1>5 DEF FetchFails
<1>6. ASSUME NEW r \in Requests, FetchRefused(r) PROVE RegressBounded'
  BY <1>6 DEF FetchRefused
<1>7. ASSUME NEW r \in Requests, FetchMalformed(r) PROVE RegressBounded'
  BY <1>7 DEF FetchMalformed
<1>8. ASSUME NEW r \in Requests, StoreFresh(r) PROVE RegressBounded'
  BY <1>8 DEF StoreFresh
<1>9. ASSUME NEW r \in Requests, StoreFreshFails(r) PROVE RegressBounded'
  BY <1>9 DEF StoreFreshFails
<1>10. ASSUME NEW r \in Requests, StoreStale(r) PROVE RegressBounded'
  BY <1>10 DEF StoreStale
<1>11. ASSUME NEW r \in Requests, StoreStaleFails(r) PROVE RegressBounded'
  BY <1>11 DEF StoreStaleFails
<1>12. ASSUME NEW r \in Requests, StaleHit(r) PROVE RegressBounded'
  BY <1>12 DEF StaleHit
<1>13. ASSUME NEW r \in Requests, StaleMiss(r) PROVE RegressBounded'
  BY <1>13 DEF StaleMiss
<1>14. ASSUME NEW r \in Requests, StaleReadFails(r) PROVE RegressBounded'
  BY <1>14 DEF StaleReadFails
<1>15. ASSUME Tick PROVE RegressBounded'
  BY <1>15 DEF Tick
<1>16. CASE UNCHANGED vars
  BY <1>16 DEF vars
<1> QED
  BY <1>1, <1>2, <1>3, <1>4, <1>5, <1>6, <1>7, <1>8, <1>9, <1>10, <1>11, <1>12, <1>13, <1>14,
        <1>15, <1>16
  DEF Next, Proceed, Finished

\* Every step preserves that stale answers follow failures.
LEMMA StaleStep == IInv /\ [Next]_vars => StaleOnlyAfterFailure'
<1> SUFFICES ASSUME IInv, [Next]_vars PROVE StaleOnlyAfterFailure'
  OBVIOUS
<1> USE TimesAssumption DEF IInv, TypeOK, Step, Goto, Answer, Try, Fault, Later, Alive, HeldInv,
      StaleOnlyAfterFailure, Error, Rate, Unanswered
<1>1. ASSUME NEW r \in Requests, FreshHit(r) PROVE StaleOnlyAfterFailure'
  BY <1>1 DEF FreshHit
<1>2. ASSUME NEW r \in Requests, FreshMiss(r) PROVE StaleOnlyAfterFailure'
  BY <1>2 DEF FreshMiss
<1>3. ASSUME NEW r \in Requests, FreshReadFails(r) PROVE StaleOnlyAfterFailure'
  BY <1>3 DEF FreshReadFails
<1>4. ASSUME NEW r \in Requests, FetchOk(r) PROVE StaleOnlyAfterFailure'
  BY <1>4 DEF FetchOk
<1>5. ASSUME NEW r \in Requests, FetchFails(r) PROVE StaleOnlyAfterFailure'
  BY <1>5 DEF FetchFails
<1>6. ASSUME NEW r \in Requests, FetchRefused(r) PROVE StaleOnlyAfterFailure'
  BY <1>6 DEF FetchRefused
<1>7. ASSUME NEW r \in Requests, FetchMalformed(r) PROVE StaleOnlyAfterFailure'
  BY <1>7 DEF FetchMalformed
<1>8. ASSUME NEW r \in Requests, StoreFresh(r) PROVE StaleOnlyAfterFailure'
  BY <1>8 DEF StoreFresh
<1>9. ASSUME NEW r \in Requests, StoreFreshFails(r) PROVE StaleOnlyAfterFailure'
  BY <1>9 DEF StoreFreshFails
<1>10. ASSUME NEW r \in Requests, StoreStale(r) PROVE StaleOnlyAfterFailure'
  BY <1>10 DEF StoreStale
<1>11. ASSUME NEW r \in Requests, StoreStaleFails(r) PROVE StaleOnlyAfterFailure'
  BY <1>11 DEF StoreStaleFails
<1>12. ASSUME NEW r \in Requests, StaleHit(r) PROVE StaleOnlyAfterFailure'
  BY <1>12 DEF StaleHit
<1>13. ASSUME NEW r \in Requests, StaleMiss(r) PROVE StaleOnlyAfterFailure'
  BY <1>13 DEF StaleMiss
<1>14. ASSUME NEW r \in Requests, StaleReadFails(r) PROVE StaleOnlyAfterFailure'
  BY <1>14 DEF StaleReadFails
<1>15. ASSUME Tick PROVE StaleOnlyAfterFailure'
  BY <1>15 DEF Tick
<1>16. CASE UNCHANGED vars
  BY <1>16 DEF vars
<1> QED
  BY <1>1, <1>2, <1>3, <1>4, <1>5, <1>6, <1>7, <1>8, <1>9, <1>10, <1>11, <1>12, <1>13, <1>14,
        <1>15, <1>16
  DEF Next, Proceed, Finished
-----------------------------------------------------------------------------
\* The initial state satisfies the invariant.
LEMMA InitInv == Init => IInv
  BY TimesAssumption
  DEF Init, IInv, TypeOK, HeldInv, EntriesInv, AgeBounded, RegressBounded,
      StaleOnlyAfterFailure, Absent, Entry, NoPayload, Payloads, Answers, Unanswered

\* IInv is an invariant, for any number of requests and any times to live.
THEOREM Invariance == Spec => []IInv
<1>1. IInv /\ [Next]_vars => IInv'
  BY TypeStep, HeldStep, EntriesStep, AgeStep, RegressStep, StaleStep DEF IInv
<1> QED
  BY InitInv, <1>1, PTL DEF Spec

\* No request asks the API more often than fetchWithRetry allows, and every
\* variable has its type.
THEOREM TypeCorrect == Spec => []TypeOK
<1>1. IInv => TypeOK
  BY DEF IInv
<1> QED
  BY Invariance, <1>1, PTL

\* A rate is never older, when given out, than the TTL of its flag and the latency.
THEOREM AgesBounded == Spec => []AgeBounded
<1>1. IInv => AgeBounded
  BY DEF IInv
<1> QED
  BY Invariance, <1>1, PTL

\* Concurrent writers set the fresh entry back by the latency at most.
THEOREM RegressesBounded == Spec => []RegressBounded
<1>1. IInv => RegressBounded
  BY DEF IInv
<1> QED
  BY Invariance, <1>1, PTL

\* A fresh entry is backed by a stale one unless its own writer could not write it yet.
THEOREM FallbackThere == Spec => []FallbackBehindFresh
<1>1. IInv => FallbackBehindFresh
  BY DEF IInv, TypeOK, EntriesInv, FallbackBehindFresh, OnlyFresh, Alive
<1> QED
  BY Invariance, <1>1, PTL

\* A stale rate is given out after a failed fetch only.
THEOREM StaleAfterFailure == Spec => []StaleOnlyAfterFailure
<1>1. IInv => StaleOnlyAfterFailure
  BY DEF IInv
<1> QED
  BY Invariance, <1>1, PTL

\* Only the request that moves is told anything.
LEMMA Told ==
  ASSUME IInv, NEW r \in Requests, NEW s \in Requests, NEW a, Answer(s, a),
         answer[r] = Unanswered, answer'[r].kind = "error"
  PROVE  s = r /\ a.kind = "error"
<1>1. answer' = [answer EXCEPT ![s] = a] /\ answer \in [Requests -> Answers]
  BY DEF Answer, IInv, TypeOK
<1>2. Unanswered.kind # "error"
  BY DEF Unanswered
<1> QED
  BY <1>1, <1>2

\* A quote that fails while the fallback is usable and Redis works has met one of
\* the two answers of the API for which getRates does not use it.
THEOREM FallbackIsUsed == Spec => FallbackUsed
<1> DEFINE Excused(r) == \/ FetchMalformed(r)
                         \/ pc[r] = "lookup" /\ ~fresh.hasRate
                         \/ pc[r] = "storeStale" /\ ~held[r].hasRate
<1>1. ASSUME IInv, [Next]_vars, NEW r \in Requests, answer[r] = Unanswered,
             answer'[r].kind = "error", Alive(stale), stale.hasRate, faults' = faults
      PROVE  Excused(r)
  <2> USE <1>1
  <2>0. faults \in Nat
    BY TimesAssumption DEF IInv, TypeOK
  <2>1. ASSUME NEW s \in Requests, FreshHit(s) PROVE Excused(r)
    <3>1. s = r /\ Rate(fresh, FALSE).kind = "error"
      BY <2>1, Told DEF FreshHit
    <3> QED
      BY <2>1, <3>1 DEF FreshHit, Rate
  <2>2. ASSUME NEW s \in Requests, FetchMalformed(s) PROVE Excused(r)
    BY <2>2, Told DEF FetchMalformed
  <2>3. ASSUME NEW s \in Requests, StoreStale(s) PROVE Excused(r)
    <3>1. s = r /\ Rate(held[s], FALSE).kind = "error"
      BY <2>3, Told DEF StoreStale
    <3> QED
      BY <2>3, <3>1 DEF StoreStale, Rate
  <2>4. ASSUME NEW s \in Requests, StoreStaleFails(s) PROVE FALSE
    BY <2>0, <2>4 DEF StoreStaleFails, Fault
  <2>5. ASSUME NEW s \in Requests, StaleHit(s) PROVE FALSE
    <3>1. Rate(stale, TRUE).kind = "error"
      BY <2>5, Told DEF StaleHit
    <3> QED
      BY <3>1 DEF Rate
  <2>6. ASSUME NEW s \in Requests, StaleMiss(s) PROVE FALSE
    BY <2>6 DEF StaleMiss
  <2>7. ASSUME NEW s \in Requests, StaleReadFails(s) PROVE FALSE
    BY <2>0, <2>7 DEF StaleReadFails, Fault
  <2>8. answer' # answer
    BY DEF Unanswered
  <2>9. ASSUME NEW s \in Requests,
               \/ FreshMiss(s) \/ FreshReadFails(s) \/ FetchOk(s) \/ FetchFails(s)
               \/ FetchRefused(s) \/ StoreFresh(s) \/ StoreFreshFails(s)
        PROVE  FALSE
    BY <2>8, <2>9 DEF FreshMiss, FreshReadFails, FetchOk, FetchFails, FetchRefused,
       StoreFresh, StoreFreshFails
  <2>10. CASE Tick \/ Finished \/ UNCHANGED vars
    BY <2>8, <2>10 DEF Tick, Finished, vars
  <2> HIDE DEF Excused
  <2> QED
    BY <2>1, <2>2, <2>3, <2>4, <2>5, <2>6, <2>7, <2>9, <2>10 DEF Next, Proceed
<1>2. IInv /\ [Next]_vars =>
        [\A r \in Requests :
           /\ answer[r] = Unanswered /\ answer'[r].kind = "error"
           /\ Alive(stale) /\ stale.hasRate /\ faults' = faults
           => \/ FetchMalformed(r)
              \/ pc[r] = "lookup" /\ ~fresh.hasRate
              \/ pc[r] = "storeStale" /\ ~held[r].hasRate]_vars
  BY <1>1
<1> QED
  BY Invariance, <1>2, PTL DEF Spec, FallbackUsed

=============================================================================
