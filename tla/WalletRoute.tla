---------------------------- MODULE WalletRoute ----------------------------
(***************************************************************************)
(* The routes POST /wallets/fund, /convert and /trade as they are wired in *)
(* wallet.controller.ts: IdempotencyInterceptor around the ValidationPipe  *)
(* and the handlers of WalletService.  The interceptor's own steps are the *)
(* actions of Idempotency; its handler, one step there, is here the whole  *)
(* transaction, and what an attempt executed is what the ledger holds.     *)
(***************************************************************************)
EXTENDS WalletService

CONSTANTS
  Keys, NoKey,    \* x-idempotency-key, or no such header
  MaxInFlight,    \* how many requests clients have in flight at once
  MaxFaults       \* how many Redis calls fail and processes end

ASSUME RouteAssumption == /\ IsFiniteSet(Requests)
                          /\ NoKey \notin Keys
                          /\ MaxInFlight \in Nat \ {0}
                          /\ MaxFaults \in Nat

VARIABLES
  key,      \* the key each request carries
  stored,   \* Redis: the stored response of a slot
  stage,    \* where its interceptor stands
  reply,    \* what the client was answered
  known,    \* for each request, those answered 201 before it was sent
  faults,   \* Redis failures and crashes so far
  expired   \* whether a stored response has expired

routeVars == <<vars, key, stored, stage, reply, known, faults, expired>>

-----------------------------------------------------------------------------

\* The requests whose operation is in the ledger.
Posted == {e.ref : e \in ledger}

I == INSTANCE Idempotency WITH
       Attempts <- Requests, Expiry <- TRUE, LostReplies <- TRUE,
       request <- [r \in Requests |-> [user |-> op[r].user, key |-> key[r]]],
       cache <- stored, pc <- stage, response <- reply,
       executed <- Posted, answered <- known

RouteInit == /\ Init
             /\ key \in [Requests -> Keys \cup {NoKey}]
             /\ stored = [s \in I!Slots |-> I!Missing]
             /\ stage = [r \in Requests |-> "idle"]
             /\ reply = [r \in Requests |-> I!Missing]
             /\ known = [r \in Requests |-> {}]
             /\ faults = 0
             /\ expired = FALSE

-----------------------------------------------------------------------------
\* The interceptor, before and after its handler

Arrive(r) == UNCHANGED <<vars, key>> /\ (I!MissingKey(r) \/ I!Start(r))

Lookup(r) == UNCHANGED <<vars, key>> /\ (I!Replay(r) \/ I!Miss(r) \/ I!LookupFails(r))

StoreResult(r) == UNCHANGED <<vars, key>> /\ (I!Store(r) \/ I!StoreFails(r))

\* Mutant of HandBack: catchError lets an error through as a result.
HandBackAll(r) ==
  IF pc'[r] = "done"
  THEN stage' = [stage EXCEPT ![r] = "store"] /\ UNCHANGED reply
  ELSE UNCHANGED <<stage, reply>>

\* What the interceptor does with the end of the handler: a result is stored
\* before it is answered, an error goes to the client (400 for every 4xx).
HandBack(r) ==
  \/ pc'[r] # "done" /\ UNCHANGED <<stage, reply>>
  \/ /\ pc'[r] = "done" /\ outcome'[r] = 201
     /\ stage' = [stage EXCEPT ![r] = "store"]
     /\ UNCHANGED reply
  \/ /\ pc'[r] = "done" /\ outcome'[r] # 201
     /\ stage' = [stage EXCEPT ![r] = "done"]
     /\ reply' = [reply EXCEPT ![r] = I!Error(IF outcome'[r] = 500 THEN 500 ELSE 400)]

\* One step of the ValidationPipe or the handler, which the interceptor calls
\* only after its lookup.
HandlerStep(r, step) ==
  /\ stage[r] = "handle"
  /\ step
  /\ HandBack(r)
  /\ UNCHANGED <<key, stored, known, faults, expired>>

Handle(r) == HandlerStep(r, Proceed(r))

HandleBroken(r) == HandlerStep(r, CommitReplyLost(r) \/ ConnectionLost(r))

-----------------------------------------------------------------------------
\* The environment

\* The process ends while it serves r: before or after its handler, or in it, and
\* then the server rolls back what was open.
Crash(r) ==
  \/ stage[r] \in {"lookup", "store"} /\ UNCHANGED <<vars, key>> /\ I!Crash(r)
  \/ stage[r] = "handle" /\ ConnectionLost(r) /\ UNCHANGED key /\ I!Crash(r)
  \/ UNCHANGED <<vars, key>> /\ I!CrashAfterStore(r)

ExpireStored == UNCHANGED <<vars, key>> /\ \E s \in I!Slots : I!Expire(s)

Serve(r) == Lookup(r) \/ Handle(r) \/ StoreResult(r)

RouteFinished ==
  (\A r \in Requests : stage[r] \in {"done", "dead"}) /\ UNCHANGED routeVars

RouteNext ==
  \/ \E r \in Requests : Arrive(r) \/ Serve(r) \/ HandleBroken(r) \/ Crash(r)
  \/ ExpireStored
  \/ RouteFinished

RouteSpec == RouteInit /\ [][RouteNext]_routeVars

\* While a request can go on, one does: the event loop resumes handlers after every
\* await, the pool's 10 s connection timeout and PostgreSQL's deadlock detector end
\* the waits.  Which one goes on is left open, and nothing makes clients send more.
FairRouteSpec == RouteSpec /\ WF_routeVars(\E r \in Requests : Serve(r))

-----------------------------------------------------------------------------
\* Properties

\* The route implements the interceptor's specification with the ledger as the
\* record of what was executed: a handler of many statements, locks, rollbacks and
\* lost replies is, seen from outside, one step that commits or fails.
IdempotencySpec == I!Spec

\* Clients use a key for one operation only.
OneBodyPerKey ==
  \A r, s \in Requests :
    op[r].user = op[s].user /\ key[r] = key[s] /\ key[r] # NoKey => op[r] = op[s]

\* What clients are told and what the ledger holds.  A 201 reports a row in the
\* ledger for the same user and key, and for the very operation that was asked
\* for unless clients use a key for two.  A row that no success reports is one
\* whose client got a 500 or nothing: never one that was refused or got a replay.
RepliesReportLedger ==
  \A r \in Requests :
    /\ reply[r].status = 201 =>
         LET s == reply[r].by IN
           /\ Entry(s) \in ledger
           /\ op[s].user = op[r].user /\ key[s] = key[r]
           /\ OneBodyPerKey => \E e \in ledger : e.ref = s /\ e = EntryOf(s, op[r], e.rate)
    /\ r \in Posted => \/ stage[r] \in {"store", "dead"}
                       \/ reply[r] \in {I!Success(r), I!Error(500)}

\* Every request that reaches the interceptor is answered, unless its process
\* ends, whatever its handler waits for on the way: no lock, connection or wait
\* cycle is left behind by those before it.
EveryRequestAnswered ==
  <>[](\A r \in Requests : stage[r] \in {"idle", "done", "dead"})

-----------------------------------------------------------------------------
\* The inductive invariant behind them, together with those of both components

\* Where the handler of a request stands while its interceptor is at each stage,
\* what a posted request has been answered, and whose row is whose.
StageInv ==
  /\ \A r \in Requests :
       /\ stage[r] \in {"idle", "lookup"} => pc[r] = "start"
       /\ stage[r] = "handle" => pc[r] # "done"
       /\ key[r] = NoKey => stage[r] \in {"idle", "done"} /\ reply[r].status # 201
       /\ r \in Posted /\ stage[r] = "done" => reply[r] \in {I!Success(r), I!Error(500)}
  /\ \A e \in ledger : e.ref \in Requests /\ e = Entry(e.ref)

=============================================================================
