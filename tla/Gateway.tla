------------------------------ MODULE Gateway ------------------------------
(***************************************************************************)
(* What a request passes before its route: the global ThrottlerGuard on    *)
(* RedisService.ratelimit (RateLimiter, with the clocks of RateWindow),    *)
(* then the controller's AuthGuard.  Requests come from one address to one *)
(* route.  The throttler runs first, so when it builds its key there is no *)
(* request.user yet: requests of all users, and those without a cookie,    *)
(* count on the key of their address.                                      *)
(*                                                                         *)
(* The blacklist is external: nothing in src/ writes it yet, an operator   *)
(* or a later logout endpoint does.                                        *)
(***************************************************************************)
EXTENDS RateWindow

CONSTANTS
  Users,   \* each with one access token
  Nobody   \* the sender of a request without the cookie

ASSUME NobodyAssumption == Nobody \notin Users

VARIABLES
  sender,    \* whose cookie each request carries
  expired,   \* users whose token has outlived its 15 minutes
  revoked,   \* users whose token is on the blacklist
  guard,     \* where AuthGuard stands with each request
  standing,  \* what its token was worth when the request arrived (history)
  unread     \* requests whose blacklist lookup failed (history)

guardVars == <<sender, expired, revoked, guard, standing, unread>>

gatewayVars == <<windowVars, guardVars>>

-----------------------------------------------------------------------------

\* What the token of u is worth right now.
Standing(u) == IF u = Nobody THEN "none"
               ELSE IF u \in expired THEN "expired"
               ELSE IF u \in revoked THEN "revoked"
               ELSE "valid"

GatewayInit == /\ WindowInit
               /\ sender \in [Hits -> Users \cup {Nobody}]
               /\ expired = {} /\ revoked = {}
               /\ guard = [h \in Hits |-> "before"]
               /\ standing = [h \in Hits |-> "none"]
               /\ unread = {}

-----------------------------------------------------------------------------
\* ThrottlerGuard and the first half of AuthGuard

\* ThrottlerGuard answers 429 to the others, and AuthGuard never sees them.
Passed(h) == answer[h] \in {"admitted", "open"}

\* Mutant of Enter: a refused request goes on.
EnterBlocked(h) ==
  guard' = IF pc'[h] = "done"
           THEN [guard EXCEPT ![h] = IF Standing(sender[h]) \in {"none", "expired"}
                                     THEN "unauthorized" ELSE "lookup"]
           ELSE guard

\* With the throttler's reply AuthGuard looks at the cookie and verifies its token
\* (no I/O): 401, or on to the blacklist.
Enter(h) ==
  guard' = IF Passed(h)'
           THEN [guard EXCEPT ![h] = IF Standing(sender[h]) \in {"none", "expired"}
                                     THEN "unauthorized" ELSE "lookup"]
           ELSE guard

\* The first command of ratelimit.
Arrive(h) ==
  /\ Increment(h) \/ IncrementFails(h) \/ IncrementReplyLost(h)
  /\ Stamp(h)
  /\ standing' = [standing EXCEPT ![h] = Standing(sender[h])]
  /\ Enter(h)
  /\ UNCHANGED <<sender, expired, revoked, unread>>

\* The second, for those that send it.
SecondCommand(h) ==
  /\ SetExpiry(h) \/ SetExpiryFails(h) \/ SetExpiryReplyLost(h) \/ Crash(h)
  /\ Stamp(h)
  /\ Enter(h)
  /\ UNCHANGED <<sender, expired, revoked, standing, unread>>

-----------------------------------------------------------------------------
\* AuthGuard: the blacklist

Leave(h, there) ==
  /\ guard[h] = "lookup"
  /\ guard' = [guard EXCEPT ![h] = there]
  /\ UNCHANGED <<windowVars, sender, expired, revoked, standing>>

BlacklistHit(h) ==
  /\ sender[h] \in revoked
  /\ Leave(h, "unauthorized")
  /\ UNCHANGED unread

\* Mutant of BlacklistMiss: the value read is not looked at.
BlacklistIgnored(h) ==
  /\ Leave(h, "handler")
  /\ UNCHANGED unread

BlacklistMiss(h) ==
  /\ sender[h] \notin revoked
  /\ Leave(h, "handler")
  /\ UNCHANGED unread

\* A failed lookup is logged, and its empty data lets the request pass.
BlacklistReadFails(h) ==
  /\ Leave(h, "handler")
  /\ unread' = unread \cup {h}

-----------------------------------------------------------------------------
\* The environment

TimePasses == WindowTick /\ UNCHANGED guardVars

TokenExpires(u) ==
  /\ u \notin expired
  /\ expired' = expired \cup {u}
  /\ UNCHANGED <<windowVars, sender, revoked, guard, standing, unread>>

Revoke(u) ==
  /\ u \notin revoked
  /\ revoked' = revoked \cup {u}
  /\ UNCHANGED <<windowVars, sender, expired, guard, standing, unread>>

GatewayFinished == /\ \A h \in Hits : pc[h] = "done" /\ guard[h] # "lookup"
                   /\ UNCHANGED gatewayVars

GatewayNext ==
  \/ \E h \in Hits : \/ Arrive(h) \/ SecondCommand(h)
                     \/ BlacklistHit(h) \/ BlacklistMiss(h) \/ BlacklistReadFails(h)
  \/ TimePasses
  \/ \E u \in Users : TokenExpires(u) \/ Revoke(u)
  \/ GatewayFinished

GatewaySpec == GatewayInit /\ [][GatewayNext]_gatewayVars

\* Redis keeps time, and a handler that sent INCR either goes on or ends.
FairGatewaySpec == /\ GatewaySpec
                   /\ WF_gatewayVars(TimePasses)
                   /\ WF_gatewayVars(\E h \in Hits : SecondCommand(h))

-----------------------------------------------------------------------------
\* Properties

\* Types; and no request that was refused with 429, or whose process ended, goes on
\* to AuthGuard.
GatewayTypeOK ==
  /\ TypeOK
  /\ sender \in [Hits -> Users \cup {Nobody}]
  /\ expired \subseteq Users /\ revoked \subseteq Users
  /\ guard \in [Hits -> {"before", "lookup", "handler", "unauthorized"}]
  /\ standing \in [Hits -> {"none", "expired", "revoked", "valid"}]
  /\ unread \subseteq {h \in Hits : guard[h] = "handler"}
  /\ \A h \in Hits : guard[h] # "before" <=> Passed(h)

\* A token that is no good when its request arrives does not reach the handler,
\* whatever happens to it or to others meanwhile: not without cookie, not expired,
\* and if revoked only when the blacklist could not be read.  (One that turns bad
\* later may: both checks are made once.)
NoLateEntry ==
  \A h \in Hits :
    guard[h] = "handler" => \/ standing[h] = "valid"
                            \/ standing[h] = "revoked" /\ h \in unread

\* The key of an address goes away again: always if no EXPIRE is lost, and once it
\* blocks after one loss too, as the request that passes the limit sets the expiry
\* again.  Nobody is refused for ever by fewer than two losses.
KeyGoesAway ==
  /\ (count > 0 /\ lost = 0) ~> (count = 0 \/ lost > 0)
  /\ (count > Limit /\ lost < 2) ~> (count = 0 \/ lost >= 2)

-----------------------------------------------------------------------------
\* The inductive invariant behind them

\* What the guard goes by is still what the token was worth on arrival, or worse.
EntryInv ==
  \A h \in Hits :
    /\ pc[h] = "expire" =>
         /\ standing[h] = "none" => sender[h] = Nobody
         /\ standing[h] = "expired" => sender[h] \in expired
    /\ pc[h] = "expire" \/ guard[h] = "lookup" =>
         (standing[h] = "revoked" => sender[h] \in revoked)
    /\ guard[h] = "lookup" => standing[h] \in {"valid", "revoked"}

=============================================================================
