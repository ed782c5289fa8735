---------------------------- MODULE RateLimiter ----------------------------
(***************************************************************************)
(* RedisService.ratelimit as the storage of the global throttler, for the  *)
(* requests of one client to one route (one Redis key): INCR, and an       *)
(* EXPIRE sent after the reply to the first INCR and to the one that       *)
(* passes the limit.  Between the two commands anything may happen.        *)
(*                                                                         *)
(* Redis is external, and so is the throttler, which refuses what the      *)
(* storage calls blocked.                                                  *)
(***************************************************************************)
EXTENDS Integers, FiniteSets

CONSTANTS
  Hits,   \* the requests, each counted once
  Limit,  \* 30
  Ttl,    \* 15 s, in ticks
  Block   \* blockDuration, 60 s

ASSUME HitsAssumption == IsFiniteSet(Hits)

ASSUME LimitsAssumption == Limit \in Nat \ {0} /\ Ttl \in Nat \ {0} /\ Block \in Nat

VARIABLES
  count,   \* the value of the key, 0 when it does not exist
  left,    \* the time it has left
  life,    \* how often the key has been created (history)
  lost,    \* EXPIREs lost since (history)
  pc,
  seen,    \* the count each request was told, 0 if none
  counted, \* the life of the key that counted it, 0 if none (history)
  answer   \* "open" is an admission because Redis failed

vars == <<count, left, life, lost, pc, seen, counted, answer>>

-----------------------------------------------------------------------------

\* A key without expiry.
Forever == -1

Goto(h, label) == pc' = [pc EXCEPT ![h] = label]

\* Mutant of Verdict: the comparison that starts the block.
VerdictBeyond(n) == IF n > Limit THEN "refused" ELSE "admitted"

\* isBlocked, as it is returned: the request that reaches the limit is refused
\* already.
Verdict(n) == IF n >= Limit THEN "refused" ELSE "admitted"

Answer(h, a) == Goto(h, "done") /\ answer' = [answer EXCEPT ![h] = a]

Init == /\ count = 0 /\ left = 0 /\ life = 0 /\ lost = 0
        /\ pc = [h \in Hits |-> "idle"]
        /\ seen = [h \in Hits |-> 0]
        /\ counted = [h \in Hits |-> 0]
        /\ answer = [h \in Hits |-> "none"]

\* INCR creates a missing key, without expiry.
Incr(h) == /\ count' = count + 1
           /\ left' = IF count = 0 THEN Forever ELSE left
           /\ life' = IF count = 0 THEN life + 1 ELSE life
           /\ counted' = [counted EXCEPT ![h] = life']

\* Mutant of SetsExpiry: the block duration is forgotten.
OnlyFirstSetsExpiry(n) == n = 1

\* The counts whose request sets the expiry of the key.
SetsExpiry(n) == n \in {1, Limit + 1}

Increment(h) ==
  /\ pc[h] = "idle"
  /\ Incr(h)
  /\ seen' = [seen EXCEPT ![h] = count']
  /\ IF SetsExpiry(count')
     THEN Goto(h, "expire") /\ UNCHANGED answer
     ELSE Answer(h, Verdict(count'))
  /\ UNCHANGED lost

\* The catch block lets the request pass.
IncrementFails(h) ==
  /\ pc[h] = "idle"
  /\ Answer(h, "open")
  /\ UNCHANGED <<count, left, life, lost, seen, counted>>

\* Counted, but the request never hears of it.
IncrementReplyLost(h) ==
  /\ pc[h] = "idle"
  /\ Incr(h)
  /\ lost' = IF SetsExpiry(count') THEN lost + 1 ELSE lost
  /\ Answer(h, "open")
  /\ UNCHANGED seen

NewTtl(n) == IF n = 1 THEN Ttl ELSE Ttl + Block

\* EXPIRE has no effect on a key that has gone; a key that has expired and been
\* created again is not told apart.
Expire(h) == left' = IF count = 0 THEN left ELSE NewTtl(seen[h])

SetExpiry(h) ==
  /\ pc[h] = "expire"
  /\ Expire(h)
  /\ Answer(h, Verdict(seen[h]))
  /\ UNCHANGED <<count, life, lost, seen, counted>>

SetExpiryFails(h) ==
  /\ pc[h] = "expire"
  /\ lost' = lost + 1
  /\ Answer(h, "open")
  /\ UNCHANGED <<count, left, life, seen, counted>>

\* Also the reply to an EXPIRE that was applied is lost.
SetExpiryReplyLost(h) ==
  /\ pc[h] = "expire"
  /\ Expire(h)
  /\ Answer(h, "open")
  /\ UNCHANGED <<count, life, lost, seen, counted>>

\* The process ends between the two commands.
Crash(h) ==
  /\ pc[h] = "expire"
  /\ lost' = lost + 1
  /\ Goto(h, "done")
  /\ UNCHANGED <<count, left, life, seen, counted, answer>>

Tick ==
  /\ left > 0
  /\ left' = left - 1
  /\ count' = IF left' = 0 THEN 0 ELSE count
  /\ lost' = IF left' = 0 THEN 0 ELSE lost
  /\ UNCHANGED <<life, pc, seen, counted, answer>>

Finished == (\A h \in Hits : pc[h] = "done") /\ UNCHANGED vars

Request(h) == \/ Increment(h) \/ IncrementFails(h) \/ IncrementReplyLost(h)
              \/ SetExpiry(h) \/ SetExpiryFails(h) \/ SetExpiryReplyLost(h)
              \/ Crash(h)

Next == \/ \E h \in Hits : Request(h)
        \/ Tick
        \/ Finished

Spec == Init /\ [][Next]_vars

-----------------------------------------------------------------------------
\* Properties

CountedIn(l) == {h \in Hits : counted[h] = l}

\* Every variable has its type; the key exists exactly while it has time left.
TypeOK ==
  /\ count \in Nat /\ life \in Nat /\ lost \in Nat
  /\ left \in {Forever} \cup (0..(Ttl + Block)) /\ (left = 0 <=> count = 0)
  /\ pc \in [Hits -> {"idle", "expire", "done"}]
  /\ seen \in [Hits -> Nat]
  /\ counted \in [Hits -> 0..life]
  /\ answer \in [Hits -> {"none", "admitted", "refused", "open"}]

\* The EXPIRE of the first request may be lost, by an error or a crash: the key
\* has no expiry and its client is refused from the Limit-th request on.  The next
\* request sets the expiry again: only two losses refuse the client forever.
BlockEnds ==
  count > Limit /\ left = Forever /\ lost < 2 => \E h \in Hits : pc[h] = "expire"

-----------------------------------------------------------------------------
\* The inductive invariants behind them

\* The key counts the requests of its life, and tells each a different number.
CountInv ==
  /\ count > 0 => life > 0 /\ count = Cardinality(CountedIn(life))
  /\ \A h \in Hits :
       /\ pc[h] = "idle" => counted[h] = 0 /\ seen[h] = 0 /\ answer[h] = "none"
       /\ pc[h] = "expire" => seen[h] > 0 /\ answer[h] = "none"
       /\ seen[h] > 0 => /\ counted[h] > 0
                         /\ seen[h] <= Cardinality(CountedIn(counted[h]))
                         /\ count > 0 /\ counted[h] = life => seen[h] <= count
       /\ answer[h] = "admitted" => seen[h] \in 1..(Limit - 1)
       /\ answer[h] = "refused" => seen[h] >= Limit
  /\ \A g, h \in Hits :
       seen[g] > 0 /\ seen[g] = seen[h] /\ counted[g] = counted[h] => g = h

\* The requests of this life that have yet to send their EXPIRE.
Owing == {h \in CountedIn(life) : pc[h] = "expire"}

\* While the key has no expiry, the request that created it and the one that passed
\* the limit have yet to send theirs, or it is lost.
OwingInv ==
  left = Forever => /\ Cardinality(Owing) + lost >= 1
                    /\ count > Limit => Cardinality(Owing) + lost >= 2

=============================================================================
