----------------------------- MODULE FxService -----------------------------
(***************************************************************************)
(* FxService.getRate for one pair of currencies: the fresh and the stale   *)
(* Redis entry of the base currency, fetchAndCache and fetchWithRetry,     *)
(* called by any number of concurrent requests.  Entries of different base *)
(* currencies have different keys and do not interact.                     *)
(*                                                                         *)
(* The rate API and Redis are external: the API may fail, refuse, answer   *)
(* without the wanted currency or with a body of another shape; a Redis    *)
(* call may fail.  Time passes between any two steps.                      *)
(***************************************************************************)
EXTENDS Integers

CONSTANTS
  Requests,
  FreshTTL,    \* EX of the fresh entry
  StaleTTL,    \* EX of the stale entry
  Attempts,    \* tries of fetchWithRetry
  Latency,     \* longest time from a fetched body to the response built from it
  MaxFaults,   \* how many Redis calls fail
  MaxTime      \* the clock stops here (bound)

ASSUME TimesAssumption ==
  /\ {FreshTTL, StaleTTL, Latency, MaxTime, MaxFaults} \subseteq Nat
  /\ FreshTTL \in 1..StaleTTL
  /\ Attempts \in Nat \ {0}

VARIABLES
  now,
  fresh, stale,  \* the two entries: [cachedAt, hasRate, expires]
  pc,
  tries,         \* fetches each request has made
  held,          \* the payload each request has fetched: [cachedAt, hasRate]
  answer,        \* what each request was told, and when
  newest,        \* the latest cachedAt ever written to the fresh entry
  skipped,       \* the requests whose write of the stale entry failed (history)
  faults

vars == <<now, fresh, stale, pc, tries, held, answer, newest, skipped, faults>>

-----------------------------------------------------------------------------

Payloads == [cachedAt : 0..MaxTime, hasRate : BOOLEAN]

NoPayload == [cachedAt |-> 0, hasRate |-> FALSE]

\* An entry that was never written is one that has already expired.
Entry(p, expires) ==
  [cachedAt |-> p.cachedAt, hasRate |-> p.hasRate, expires |-> expires]

Absent == Entry(NoPayload, 0)

Alive(e) == now < e.expires

Unanswered == [kind |-> "none"]

Error(at) == [kind |-> "error", at |-> at]

\* getRate: a payload without the wanted currency is "Rate not found".
Rate(p, isStale) ==
  IF p.hasRate
  THEN [kind |-> "rate", at |-> now, cachedAt |-> p.cachedAt, stale |-> isStale]
  ELSE Error(now)

Goto(r, label) == pc' = [pc EXCEPT ![r] = label]

Step(r, here, there) == pc[r] = here /\ Goto(r, there)

Answer(r, a) == /\ Goto(r, "done")
                /\ answer' = [answer EXCEPT ![r] = a]

Fault == faults < MaxFaults /\ faults' = faults + 1

Later(m, n) == IF m > n THEN m ELSE n

Init == /\ now = 0
        /\ fresh = Absent /\ stale = Absent
        /\ pc = [r \in Requests |-> "lookup"]
        /\ tries = [r \in Requests |-> 0]
        /\ held = [r \in Requests |-> NoPayload]
        /\ answer = [r \in Requests |-> Unanswered]
        /\ newest = 0
        /\ skipped = {}
        /\ faults = 0

-----------------------------------------------------------------------------
\* getRates: the fresh entry

FreshHit(r) ==
  /\ pc[r] = "lookup" /\ Alive(fresh)
  /\ Answer(r, Rate(fresh, FALSE))
  /\ UNCHANGED <<now, fresh, stale, tries, held, newest, skipped, faults>>

\* Mutant of FreshMiss: the stale entry is tried before the API.
FreshMissToStale(r) ==
  /\ Step(r, "lookup", "readStale") /\ ~Alive(fresh)
  /\ UNCHANGED <<now, fresh, stale, tries, held, answer, newest, skipped, faults>>

FreshMiss(r) ==
  /\ Step(r, "lookup", "fetch") /\ ~Alive(fresh)
  /\ UNCHANGED <<now, fresh, stale, tries, held, answer, newest, skipped, faults>>

FreshReadFails(r) ==
  /\ Step(r, "lookup", "fetch") /\ Fault
  /\ UNCHANGED <<now, fresh, stale, tries, held, answer, newest, skipped>>

-----------------------------------------------------------------------------
\* fetchWithRetry and fetchAndCache

Try(r) == /\ pc[r] = "fetch"
          /\ tries' = [tries EXCEPT ![r] = @ + 1]

\* A body with result "success"; cachedAt is the time of its arrival.
FetchOk(r) ==
  /\ Try(r) /\ Goto(r, "storeFresh")
  /\ \E b \in BOOLEAN :
       held' = [held EXCEPT ![r] = [cachedAt |-> now, hasRate |-> b]]
  /\ UNCHANGED <<now, fresh, stale, answer, newest, skipped, faults>>

\* Mutant of FetchFails: one try too many.
FetchFailsOnceMore(r) ==
  /\ Try(r)
  /\ Goto(r, IF tries[r] < Attempts THEN "fetch" ELSE "readStale")
  /\ UNCHANGED <<now, fresh, stale, held, answer, newest, skipped, faults>>

\* A network error or an HTTP error: try again while tries are left.
FetchFails(r) ==
  /\ Try(r)
  /\ Goto(r, IF tries[r] + 1 < Attempts THEN "fetch" ELSE "readStale")
  /\ UNCHANGED <<now, fresh, stale, held, answer, newest, skipped, faults>>

\* A body with another result is an error, not retried.
FetchRefused(r) ==
  /\ Try(r) /\ Goto(r, "readStale")
  /\ UNCHANGED <<now, fresh, stale, held, answer, newest, skipped, faults>>

\* A "success" without conversion_rates throws past the stale fallback.
FetchMalformed(r) ==
  /\ Try(r)
  /\ Answer(r, Error(now))
  /\ UNCHANGED <<now, fresh, stale, held, newest, skipped, faults>>

\* Mutants of StoreFresh: the TTL of the stale entry; no stale entry.
StoreFreshTooLong(r) ==
  /\ Step(r, "storeFresh", "storeStale")
  /\ fresh' = Entry(held[r], now + StaleTTL)
  /\ newest' = Later(newest, held[r].cachedAt)
  /\ UNCHANGED <<now, stale, tries, held, answer, skipped, faults>>

StoreFreshOnly(r) ==
  /\ pc[r] = "storeFresh"
  /\ fresh' = Entry(held[r], now + FreshTTL)
  /\ newest' = Later(newest, held[r].cachedAt)
  /\ Answer(r, Rate(held[r], FALSE))
  /\ UNCHANGED <<now, stale, tries, held, skipped, faults>>

\* The payload is written to both entries, fresh first; a failed write is ignored.
StoreFresh(r) ==
  /\ Step(r, "storeFresh", "storeStale")
  /\ fresh' = Entry(held[r], now + FreshTTL)
  /\ newest' = Later(newest, held[r].cachedAt)
  /\ UNCHANGED <<now, stale, tries, held, answer, skipped, faults>>

StoreFreshFails(r) ==
  /\ Step(r, "storeFresh", "storeStale") /\ Fault
  /\ UNCHANGED <<now, fresh, stale, tries, held, answer, newest, skipped>>

StoreStale(r) ==
  /\ pc[r] = "storeStale"
  /\ stale' = Entry(held[r], now + StaleTTL)
  /\ Answer(r, Rate(held[r], FALSE))
  /\ UNCHANGED <<now, fresh, tries, held, newest, skipped, faults>>

StoreStaleFails(r) ==
  /\ pc[r] = "storeStale" /\ Fault
  /\ Answer(r, Rate(held[r], FALSE))
  /\ skipped' = skipped \cup {r}
  /\ UNCHANGED <<now, fresh, stale, tries, held, newest>>

-----------------------------------------------------------------------------
\* getRates: the stale entry

\* Mutant of StaleHit: the stale payload is put back into the fresh entry.
StaleHitPromoted(r) ==
  /\ pc[r] = "readStale" /\ Alive(stale)
  /\ fresh' = Entry(stale, now + FreshTTL)
  /\ Answer(r, Rate(stale, TRUE))
  /\ UNCHANGED <<now, stale, tries, held, newest, skipped, faults>>

StaleHit(r) ==
  /\ pc[r] = "readStale" /\ Alive(stale)
  /\ Answer(r, Rate(stale, TRUE))
  /\ UNCHANGED <<now, fresh, stale, tries, held, newest, skipped, faults>>

\* Mutant of StaleMiss: the age is checked again, against the wrong lifetime.
StaleMissTooOld(r) ==
  /\ pc[r] = "readStale" /\ (Alive(stale) => now >= stale.cachedAt + FreshTTL)
  /\ Answer(r, Error(now))
  /\ UNCHANGED <<now, fresh, stale, tries, held, newest, skipped, faults>>

StaleMiss(r) ==
  /\ pc[r] = "readStale" /\ ~Alive(stale)
  /\ Answer(r, Error(now))
  /\ UNCHANGED <<now, fresh, stale, tries, held, newest, skipped, faults>>

StaleReadFails(r) ==
  /\ pc[r] = "readStale" /\ Fault
  /\ Answer(r, Error(now))
  /\ UNCHANGED <<now, fresh, stale, tries, held, newest, skipped>>

-----------------------------------------------------------------------------

\* A fetched payload is stored and answered within Latency.
Tick == /\ now < MaxTime
        /\ \A r \in Requests :
             pc[r] \in {"storeFresh", "storeStale"} => now < held[r].cachedAt + Latency
        /\ now' = now + 1
        /\ UNCHANGED <<fresh, stale, pc, tries, held, answer, newest, skipped, faults>>

Proceed(r) == \/ FreshHit(r) \/ FreshMiss(r) \/ FreshReadFails(r)
              \/ FetchOk(r) \/ FetchFails(r) \/ FetchRefused(r) \/ FetchMalformed(r)
              \/ StoreFresh(r) \/ StoreFreshFails(r)
              \/ StoreStale(r) \/ StoreStaleFails(r)
              \/ StaleHit(r) \/ StaleMiss(r) \/ StaleReadFails(r)

Finished == (\A r \in Requests : pc[r] = "done") /\ UNCHANGED vars

Next == (\E r \in Requests : Proceed(r)) \/ Tick \/ Finished

Spec == Init /\ [][Next]_vars

-----------------------------------------------------------------------------
\* Properties

\* The request that wrote the payload of the fresh entry has not written it to the
\* stale one, or failed to.
OnlyFresh(r) ==
  /\ pc[r] = "storeStale" \/ r \in skipped
  /\ held[r].cachedAt = fresh.cachedAt

Answers == {Unanswered}
             \cup [kind : {"error"}, at : 0..MaxTime]
             \cup [kind : {"rate"}, at : 0..MaxTime, cachedAt : 0..MaxTime, stale : BOOLEAN]

\* Above all tries: no request asks the API more often than fetchWithRetry allows.
TypeOK ==
  /\ now \in 0..MaxTime
  /\ fresh \in [cachedAt : 0..MaxTime, hasRate : BOOLEAN, expires : Nat]
  /\ stale \in [cachedAt : 0..MaxTime, hasRate : BOOLEAN, expires : Nat]
  /\ pc \in [Requests -> {"lookup", "fetch", "storeFresh", "storeStale",
                          "readStale", "done"}]
  /\ tries \in [Requests -> 0..Attempts]
  /\ held \in [Requests -> Payloads]
  /\ answer \in [Requests -> Answers]
  /\ newest \in 0..MaxTime
  /\ skipped \subseteq Requests
  /\ faults \in 0..MaxFaults

\* A rate not flagged stale is less than a minute old when it is given out, one
\* flagged stale less than thirty, but for the latency of storing it.
AgeBounded ==
  \A r \in Requests :
    answer[r].kind = "rate" =>
      answer[r].at < answer[r].cachedAt + Latency
                       + (IF answer[r].stale THEN StaleTTL ELSE FreshTTL)

\* Slow writers may put an older payload over a newer one, but never one older
\* than the newest by more than the latency.
RegressBounded == fresh.cachedAt + Latency >= newest

\* The fallback outlives the fresh entry: whenever the fresh entry is there, so is the
\* stale one, or the request whose payload the fresh entry has is about to write it or
\* could not.  No other loss, and no order of the writers, leaves rates that are given
\* out without a fallback.
FallbackBehindFresh ==
  Alive(fresh) => Alive(stale) \/ \E r \in Requests : OnlyFresh(r)

\* A stale rate is given out only after the API has failed this very request: it
\* has been asked at least once and nothing it sent was kept.
StaleOnlyAfterFailure ==
  \A r \in Requests :
    answer[r].kind = "rate" /\ answer[r].stale => tries[r] > 0 /\ held[r] = NoPayload

\* No quote fails while a usable fallback is there and Redis works, however the
\* fetches of others overwrite and outlive each other, but for two answers of the
\* API: a success body of another shape, which throws past the fallback, and one
\* without the wanted currency, which is given out like any payload.
FallbackUsed ==
  [][\A r \in Requests :
       /\ answer[r] = Unanswered /\ answer'[r].kind = "error"
       /\ Alive(stale) /\ stale.hasRate /\ faults' = faults
       => \/ FetchMalformed(r)
          \/ pc[r] = "lookup" /\ ~fresh.hasRate
          \/ pc[r] = "storeStale" /\ ~held[r].hasRate]_vars

-----------------------------------------------------------------------------
\* The inductive invariant

\* A request keeps nothing before its fetch and is quick with it afterwards.
HeldInv ==
  \A r \in Requests :
    /\ pc[r] \in {"lookup", "fetch", "readStale"} => held[r] = NoPayload
    /\ pc[r] \in {"storeFresh", "storeStale"} =>
         held[r].cachedAt <= now /\ now <= held[r].cachedAt + Latency
    /\ pc[r] = "readStale" => tries[r] > 0
    /\ pc[r] = "fetch" => tries[r] < Attempts
    /\ pc[r] = "lookup" => tries[r] = 0
    /\ answer[r] = Unanswered \/ pc[r] = "done"
    /\ r \in skipped => pc[r] = "done"

\* When the entries expire, against the clock, their payload and each other.
EntriesInv ==
  /\ newest <= now
  /\ fresh.expires <= now + FreshTTL
  /\ fresh.expires <= fresh.cachedAt + Latency + FreshTTL
  /\ stale.expires <= stale.cachedAt + Latency + StaleTTL
  /\ fresh.expires <= stale.expires \/ \E r \in Requests : OnlyFresh(r)

IInv == /\ TypeOK /\ HeldInv /\ EntriesInv
        /\ AgeBounded /\ RegressBounded /\ StaleOnlyAfterFailure

=============================================================================
