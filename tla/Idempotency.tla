---------------------------- MODULE Idempotency ----------------------------
(***************************************************************************)
(* IdempotencyInterceptor.intercept around a wallet handler, with the      *)
(* Redis get and set it calls.  Attempts are HTTP requests to fund,        *)
(* convert or trade; attempts with the same user and x-idempotency-key are *)
(* retries, or concurrent duplicates, of one operation.  The handler is    *)
(* seen through what WalletService guarantees of its responses: 201 means  *)
(* it committed, a 4xx that it did not, a 500 either.                      *)
(*                                                                         *)
(* Redis and the client are external.  A slot stands for                   *)
(* sha256(key:user): user ids are UUIDs, so no two pairs share a slot.     *)
(***************************************************************************)
EXTENDS Integers, FiniteSets

CONSTANTS
  Attempts,
  Users, Keys,
  NoKey,          \* the header is missing
  MaxInFlight,    \* how many attempts clients have in flight at once
  MaxFaults,      \* how many Redis calls fail and processes crash
  Expiry,         \* whether the 24 h of a cached result may pass
  LostReplies     \* whether the handler may commit and still fail

ASSUME AttemptsAssumption == IsFiniteSet(Attempts)

ASSUME KeysAssumption == NoKey \notin Keys

ASSUME BoundsAssumption == /\ MaxInFlight \in Nat \ {0}
                           /\ MaxFaults \in Nat
                           /\ {Expiry, LostReplies} \subseteq BOOLEAN

VARIABLES
  request,   \* the [user, key] of each attempt
  cache,     \* Redis: the stored response of a slot, or Missing
  pc,        \* where the interceptor stands
  response,  \* what each attempt was answered, Missing for nothing yet
  executed,  \* attempts whose handler committed
  answered,  \* for each attempt, those answered 201 before it started
  faults,    \* Redis failures and crashes so far
  expired    \* whether a cached result has expired

vars == <<request, cache, pc, response, executed, answered, faults, expired>>

-----------------------------------------------------------------------------

Missing == [status |-> 0]

\* A response names the attempt whose execution it reports.
Success(a) == [status |-> 201, by |-> a]

Error(code) == [status |-> code]

Slots == Users \X Keys

Slot(a) == <<request[a].user, request[a].key>>

SameSlot(a, b) == request[a] = request[b]

InFlight == {a \in Attempts : pc[a] \in {"lookup", "handle", "store"}}

Goto(a, label) == pc' = [pc EXCEPT ![a] = label]

Answer(a, resp) == /\ Goto(a, "done")
                   /\ response' = [response EXCEPT ![a] = resp]

Fault == faults < MaxFaults /\ faults' = faults + 1

Init == /\ request \in [Attempts -> [user : Users, key : Keys \cup {NoKey}]]
        /\ cache = [s \in Slots |-> Missing]
        /\ pc = [a \in Attempts |-> "idle"]
        /\ response = [a \in Attempts |-> Missing]
        /\ executed = {}
        /\ answered = [a \in Attempts |-> {}]
        /\ faults = 0
        /\ expired = FALSE

-----------------------------------------------------------------------------
\* intercept

\* The header is required.
MissingKey(a) ==
  /\ pc[a] = "idle" /\ request[a].key = NoKey
  /\ Answer(a, Error(400))
  /\ UNCHANGED <<request, cache, executed, answered, faults, expired>>

Start(a) ==
  /\ pc[a] = "idle" /\ request[a].key # NoKey
  /\ Cardinality(InFlight) < MaxInFlight
  /\ Goto(a, "lookup")
  /\ answered' = [answered EXCEPT ![a] = {b \in Attempts : response[b].status = 201}]
  /\ UNCHANGED <<request, cache, response, executed, faults, expired>>

\* A cached result is replayed without calling the handler.
Replay(a) ==
  /\ pc[a] = "lookup" /\ cache[Slot(a)] # Missing
  /\ Answer(a, cache[Slot(a)])
  /\ UNCHANGED <<request, cache, executed, answered, faults, expired>>

Miss(a) ==
  /\ pc[a] = "lookup" /\ cache[Slot(a)] = Missing
  /\ Goto(a, "handle")
  /\ UNCHANGED <<request, cache, response, executed, answered, faults, expired>>

\* A failed get counts as a miss.
LookupFails(a) ==
  /\ pc[a] = "lookup" /\ Fault
  /\ Goto(a, "handle")
  /\ UNCHANGED <<request, cache, response, executed, answered, expired>>

HandlerCommits(a) ==
  /\ pc[a] = "handle"
  /\ executed' = executed \cup {a}
  /\ Goto(a, "store")
  /\ UNCHANGED <<request, cache, response, answered, faults, expired>>

\* Mutant of HandlerFails: errors are stored like results.
HandlerFailureStored(a) ==
  /\ pc[a] = "handle"
  /\ cache' = [cache EXCEPT ![Slot(a)] = Error(500)]
  /\ Answer(a, Error(500))
  /\ UNCHANGED <<request, executed, answered, faults, expired>>

\* An error passes through (400 stands for every 4xx); nothing is stored.
HandlerFails(a) ==
  /\ pc[a] = "handle"
  /\ \E code \in {400, 500} : Answer(a, Error(code))
  /\ UNCHANGED <<request, cache, executed, answered, faults, expired>>

\* The commit was applied and its reply lost: a 500 that did execute.
HandlerReplyLost(a) ==
  /\ pc[a] = "handle" /\ LostReplies
  /\ executed' = executed \cup {a}
  /\ Answer(a, Error(500))
  /\ UNCHANGED <<request, cache, answered, faults, expired>>

\* Mutants of Keep: SET without NX; a key that leaves out the user; the entry is
\* not written.
KeepAlways(a) == cache' = [cache EXCEPT ![Slot(a)] = Success(a)]

KeepForAllUsers(a) ==
  cache' = [s \in Slots |-> IF s[2] = request[a].key THEN Success(a) ELSE cache[s]]

KeepNothing(a) == UNCHANGED cache

\* SET ... NX: the first result stored for a slot stays.
Keep(a) ==
  cache' = IF cache[Slot(a)] = Missing
           THEN [cache EXCEPT ![Slot(a)] = Success(a)]
           ELSE cache

\* The attempt answers its own result whether SET stored it or not.
Store(a) ==
  /\ pc[a] = "store"
  /\ Keep(a)
  /\ Answer(a, Success(a))
  /\ UNCHANGED <<request, executed, answered, faults, expired>>

\* A failed SET is ignored (it may have been applied all the same: Store).
StoreFails(a) ==
  /\ pc[a] = "store" /\ Fault
  /\ Answer(a, Success(a))
  /\ UNCHANGED <<request, cache, executed, answered, expired>>

-----------------------------------------------------------------------------
\* The environment

\* The process dies; the client gets no response.
Crash(a) ==
  /\ a \in InFlight /\ Fault
  /\ Goto(a, "dead")
  /\ UNCHANGED <<request, cache, response, executed, answered, expired>>

\* It dies between SET and the response.
CrashAfterStore(a) ==
  /\ pc[a] = "store" /\ Fault
  /\ Keep(a)
  /\ Goto(a, "dead")
  /\ UNCHANGED <<request, response, executed, answered, expired>>

\* The TTL of a stored result runs out.
Expire(s) ==
  /\ Expiry /\ cache[s] # Missing
  /\ cache' = [cache EXCEPT ![s] = Missing]
  /\ expired' = TRUE
  /\ UNCHANGED <<request, pc, response, executed, answered, faults>>

Handle(a) == HandlerCommits(a) \/ HandlerFails(a) \/ HandlerReplyLost(a)

Proceed(a) == \/ MissingKey(a) \/ Start(a)
              \/ Replay(a) \/ Miss(a) \/ LookupFails(a)
              \/ Handle(a)
              \/ Store(a) \/ StoreFails(a)

Finished == (\A a \in Attempts : pc[a] \in {"done", "dead"}) /\ UNCHANGED vars

Next == \/ \E a \in Attempts : Proceed(a) \/ Crash(a) \/ CrashAfterStore(a)
        \/ \E s \in Slots : Expire(s)
        \/ Finished

Spec == Init /\ [][Next]_vars
-----------------------------------------------------------------------------
\* Properties

\* Only results are stored and answered: an error of one attempt never becomes
\* the stored response of an operation.
TypeOK ==
  /\ request \in [Attempts -> [user : Users, key : Keys \cup {NoKey}]]
  /\ cache \in [Slots -> {Missing} \cup {Success(a) : a \in Attempts}]
  /\ pc \in [Attempts -> {"idle", "lookup", "handle", "store", "done", "dead"}]
  /\ response \in [Attempts -> {Missing, Error(400), Error(500)}
                               \cup {Success(a) : a \in Attempts}]
  /\ executed \in SUBSET Attempts
  /\ answered \in [Attempts -> SUBSET Attempts]
  /\ faults \in Nat
  /\ expired \in BOOLEAN

\* A success that is answered, fresh or replayed, reports an execution that did
\* commit, asked for by the same user under the same key.
SuccessIsOwn ==
  \A a \in Attempts :
    response[a].status = 201 =>
      response[a].by \in executed /\ SameSlot(a, response[a].by)

Replayed(a) == response[a].status = 201 /\ response[a].by # a

\* All replays of a slot give the same response while no stored result expires,
\* even if duplicates raced and several of them executed: NX keeps the first.
ReplaysAgree ==
  ~expired => \A a, b \in Attempts :
                Replayed(a) /\ Replayed(b) /\ SameSlot(a, b) => response[a] = response[b]

\* While Redis works and nothing expires, an operation that has been answered
\* with success is never executed again by a later attempt.
AnsweredNotRerun ==
  faults = 0 /\ ~expired =>
    \A a \in executed : \A b \in answered[a] : ~SameSlot(a, b)

\* "Replayed requests return the original response without re-executing": no
\* operation is executed twice.
AtMostOnce == \A a, b \in executed : SameSlot(a, b) => a = b

\* The executions of an operation, but for those whose reply was lost.
Ran(s) == {b \in executed : Slot(b) = s /\ response[b].status # 500}

\* What racing duplicates and failures can cost a client that retries after any answer
\* or none: while nothing expires, an operation is executed at most as often as attempts
\* are in flight at once, and once more for each failure of Redis or of a process.
\* (Beside that, each commit whose reply is lost may be repeated.)
RerunsAccounted ==
  ~expired => \A s \in Slots : Cardinality(Ran(s)) <= MaxInFlight + faults

-----------------------------------------------------------------------------
\* The inductive invariants behind them

\* What is stored, or about to be, was executed for its slot.
StoredInv ==
  /\ \A a \in Attempts : pc[a] = "store" => a \in executed
  /\ \A s \in Slots : cache[s] # Missing =>
       cache[s].by \in executed /\ Slot(cache[s].by) = s
  /\ \A a \in InFlight : Slot(a) \in Slots
  /\ \A a \in executed : pc[a] \in {"store", "done", "dead"}
  /\ \A a \in Attempts : pc[a] # "done" => response[a] = Missing
  /\ SuccessIsOwn

\* A replayed response is the one still stored.
ReplayInv ==
  ~expired => \A a \in Attempts : Replayed(a) => cache[Slot(a)] = response[a]

\* An operation that has been answered is stored, and a later attempt past its
\* lookup belongs to another one.
RerunInv ==
  faults = 0 /\ ~expired =>
    /\ \A b \in Attempts : response[b].status = 201 => cache[Slot(b)] # Missing
    /\ \A a \in Attempts : \A b \in answered[a] :
         /\ response[b].status = 201
         /\ pc[a] \in {"handle", "store"} \/ a \in executed => ~SameSlot(a, b)

\* The executions whose attempt has got past SET, and those and what may yet run.
Over(s) == {b \in Ran(s) : pc[b] # "store"}

MayRun(s) == Ran(s) \cup {a \in Attempts : pc[a] = "handle" /\ Slot(a) = s}

\* While nothing is stored for an operation, only failures got past SET; so whoever
\* then starts to run it is one of those in flight.
AccountedInv ==
  /\ Cardinality(InFlight) <= MaxInFlight
  /\ ~expired => \A s \in Slots :
       /\ cache[s] = Missing => Cardinality(Over(s)) <= faults
       /\ Cardinality(MayRun(s)) <= MaxInFlight + faults

\* One attempt at a time on dependable services.
Sequential == MaxInFlight = 1 /\ MaxFaults = 0 /\ ~Expiry /\ ~LostReplies

\* Then whatever was executed is stored, or about to be.
SequentialInv ==
  /\ \A a, b \in Attempts : a \in InFlight /\ b \in InFlight => a = b
  /\ \A a \in executed : pc[a] = "store" \/ cache[Slot(a)] # Missing
  /\ \A a \in Attempts, b \in executed :
       pc[a] \in {"handle", "store"} /\ SameSlot(a, b) => a = b
  /\ AtMostOnce

=============================================================================
