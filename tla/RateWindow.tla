----------------------------- MODULE RateWindow -----------------------------
(***************************************************************************)
(* RateLimiter with clocks beside it, to say how many requests get through *)
(* in any stretch of Ttl ticks.  The clocks are history: they stop at Ttl, *)
(* and time passes whether the key has an expiry or not.                   *)
(***************************************************************************)
EXTENDS RateLimiter

VARIABLES
  age,  \* the ticks since each request was counted, up to Ttl
  born  \* the ticks since the key was last created, up to Ttl

windowVars == <<vars, age, born>>

-----------------------------------------------------------------------------

WindowInit == Init /\ age = [h \in Hits |-> Ttl] /\ born = Ttl

Older(n) == IF n < Ttl THEN n + 1 ELSE n

\* What a request does to the clocks.
Stamp(h) == /\ age' = IF counted' = counted THEN age ELSE [age EXCEPT ![h] = 0]
            /\ born' = IF life' = life THEN born ELSE 0

WindowRequest(h) == Request(h) /\ Stamp(h)

WindowTick ==
  /\ Tick \/ (left <= 0 /\ UNCHANGED vars)
  /\ age' = [h \in Hits |-> Older(age[h])]
  /\ born' = Older(born)

WindowNext == (\E h \in Hits : WindowRequest(h)) \/ WindowTick

WindowSpec == WindowInit /\ [][WindowNext]_windowVars

-----------------------------------------------------------------------------
\* Properties

\* Admissions that ratelimit decided by the count it was told.
AdmittedIn(S) == {h \in S : answer[h] = "admitted"}

\* The requests counted less than Ttl ago.
Recent == {h \in Hits : age[h] < Ttl}

\* However requests, expiries and late or lost EXPIREs interleave, no stretch of Ttl
\* ticks, wherever it begins, has more admissions than two windows: a key lives for
\* Ttl at least, because every EXPIRE that reaches it, also one meant for a key
\* before it, gives it that long.  A window admits one less than Limit, where the
\* repository's README promises Limit (30 requests per 15 seconds).
RateBounded == Cardinality(AdmittedIn(Recent)) <= 2 * (Limit - 1)

-----------------------------------------------------------------------------
\* The inductive invariant behind it, together with that of the limiter

\* A key has lived for Ttl when it goes, so what was counted before the last key but
\* one is out of the window.
AgeInv ==
  /\ age \in [Hits -> 0..Ttl] /\ born \in 0..Ttl
  /\ left # Forever => born + left >= Ttl
  /\ \A h \in Hits :
       /\ counted[h] < life => age[h] >= born
       /\ counted[h] + 1 < life \/ counted[h] = 0 => age[h] = Ttl

=============================================================================
