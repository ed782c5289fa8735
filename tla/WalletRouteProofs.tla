------------------------- MODULE WalletRouteProofs -------------------------
(***************************************************************************)
(* The composition implements both of its parts: the wallet service, of    *)
(* which every theorem therefore holds behind the interceptor too, and the *)
(* interceptor's specification, with the ledger for what was executed, so  *)
(* that what is proved of its one-step handler holds of the real one.      *)
(***************************************************************************)
EXTENDS WalletRoute, WalletServiceProofs

\* The theorems about the interceptor, of this one.
IP == INSTANCE IdempotencyProofs WITH
        Attempts <- Requests, Expiry <- TRUE, LostReplies <- TRUE,
        request <- [r \in Requests |-> [user |-> op[r].user, key |-> key[r]]],
        cache <- stored, pc <- stage, response <- reply,
        executed <- Posted, answered <- known

\* Its assumptions hold of the route's constants.
LEMMA InterceptorAssumptions ==
  /\ IP!IsFiniteSet(Requests)
  /\ NoKey \notin Keys
  /\ MaxInFlight \in Nat \ {0} /\ MaxFaults \in Nat
  /\ {TRUE, TRUE} \subseteq BOOLEAN
  BY RouteAssumption DEF IP!IsFiniteSet, IsFiniteSet

-----------------------------------------------------------------------------
\* The service behind the interceptor

\* Every step of the route is a step of the service, or leaves it alone.
LEMMA ServiceStep == [RouteNext]_routeVars => [Next]_vars
<1> SUFFICES ASSUME [RouteNext]_routeVars PROVE [Next]_vars
  OBVIOUS
<1>1. ASSUME NEW r \in Requests, Handle(r) PROVE Next
  BY <1>1 DEF Handle, HandlerStep, Next
<1>2. ASSUME NEW r \in Requests, HandleBroken(r) PROVE Next
  BY <1>2 DEF HandleBroken, HandlerStep, Next
<1>3. ASSUME NEW r \in Requests, Crash(r) PROVE [Next]_vars
  BY <1>3 DEF Crash, Next
<1>4. ASSUME NEW r \in Requests, Arrive(r) \/ Lookup(r) \/ StoreResult(r)
      PROVE  UNCHANGED vars
  BY <1>4 DEF Arrive, Lookup, StoreResult
<1>5. CASE ExpireStored \/ RouteFinished \/ UNCHANGED routeVars
  BY <1>5 DEF ExpireStored, RouteFinished, routeVars
<1> QED
  BY <1>1, <1>2, <1>3, <1>4, <1>5 DEF RouteNext, Serve

\* The requests that reach the handlers are a behaviour of WalletService, whatever
\* the interceptor, Redis and the clients do: its theorems hold on the routes.
THEOREM RouteKeepsService == RouteSpec => Spec
<1>1. RouteInit => Init
  BY DEF RouteInit
<1> QED
  BY <1>1, ServiceStep, PTL DEF RouteSpec, Spec

-----------------------------------------------------------------------------
\* What a step of the handler does to the ledger

\* The service's inductive invariant survives every step of the route.
LEMMA ServiceInvStep == IInv /\ [RouteNext]_routeVars => IInv'
  BY ServiceStep, TypeStep, LocksStep, ReadsStep, AnswersStep, DestinationStep DEF IInv

\* One step of the handler of r moves r only; it adds the row of r if it commits, and
\* no row otherwise.
LEMMA HandlerMoves ==
  ASSUME NEW r \in Requests, Proceed(r) \/ CommitReplyLost(r) \/ ConnectionLost(r)
  PROVE  /\ UNCHANGED op
         /\ \E label : pc' = [pc EXCEPT ![r] = label]
         /\ \/ UNCHANGED rate
            \/ \E q \in Rates : rate' = [rate EXCEPT ![r] = q]
         /\ \/ UNCHANGED ledger
            \/ /\ Commit(r) \/ CommitReplyLost(r)
               /\ UNCHANGED rate
               /\ ledger' = ledger \cup {Entry(r)}
<1> USE DEF dbVars, Step, Goto, Throw, Answer, StatementFails
<1>1. CASE Commit(r) \/ CommitReplyLost(r)
  BY <1>1 DEF Commit, CommitReplyLost, ApplyWrites
<1>2. CASE ConnectionLost(r)
  BY <1>2 DEF ConnectionLost
<1>3. CASE DeadlockVictim(r)
  BY <1>3 DEF DeadlockVictim
<1>4. CASE \/ InvalidBody(r) \/ WalletNotFound(r) \/ FundStart(r) \/ SwapQuote(r)
           \/ SwapNoQuote(r) \/ Connect(r) \/ ConnectTimeout(r)
  BY <1>4 DEF InvalidBody, WalletNotFound, FundStart, SwapQuote, SwapNoQuote,
       Connect, ConnectTimeout
<1>5. CASE \/ FundLock(r) \/ FundNoRow(r) \/ SwapLockFrom(r) \/ SwapInsufficient(r)
           \/ SwapNoSource(r) \/ FundUpsertFound(r) \/ SwapUpsertFound(r)
           \/ UpsertMissing(r)
  BY <1>5 DEF FundLock, FundNoRow, SwapLockFrom, SwapInsufficient, SwapNoSource,
       FundUpsertFound, SwapUpsertFound, UpsertMissing
<1>6. CASE \/ InsertRow(r) \/ InsertConflict(r) \/ SwapLockTo(r) \/ UpdateBalances(r)
           \/ BalanceOverflow(r) \/ Record(r) \/ Rollback(r)
  BY <1>6 DEF InsertRow, InsertConflict, SwapLockTo, UpdateBalances, BalanceOverflow,
       Record, Rollback
<1> QED
  BY <1>1, <1>2, <1>3, <1>4, <1>5, <1>6 DEF Proceed

\* How a handler may end: a row and 201, a row and 500, or no row and an error.
LEMMA HandlerEnds ==
  ASSUME IInv, IInv', NEW r \in Requests, pc[r] # "done",
         Proceed(r) \/ CommitReplyLost(r) \/ ConnectionLost(r)
  PROVE  \/ /\ ledger' = ledger \cup {Entry(r)}
            /\ pc'[r] = "done" /\ outcome'[r] \in {201, 500}
         \/ /\ UNCHANGED ledger
            /\ pc'[r] = "done" => outcome'[r] \in {400, 404, 409, 500}
<1>1. CASE Commit(r) \/ CommitReplyLost(r)
  BY <1>1 DEF Commit, CommitReplyLost, ApplyWrites, Answer, Goto, IInv, TypeOK
<1>2. CASE UNCHANGED ledger
  <2>1. Entry(r)' \notin ledger
    <3>1. Entry(r)'.ref = r
      BY DEF Entry, EntryOf
    <3> QED
      BY <3>1 DEF IInv, AnswersInv
  <2>2. outcome'[r] # 201
    BY <1>2, <2>1 DEF IInv, AnswersInv
  <2>3. pc'[r] = "done" => outcome'[r] # 0
    BY DEF IInv, AnswersInv
  <2> QED
    BY <1>2, <2>2, <2>3 DEF IInv, TypeOK
<1> QED
  BY <1>1, <1>2, HandlerMoves

-----------------------------------------------------------------------------
\* The interceptor around the service

\* I and IP are instances of one module under the same substitution.
LEMMA SameInterceptor ==
  /\ I!Init <=> IP!Init
  /\ [I!Next]_(I!vars) <=> [IP!Next]_(IP!vars)
  /\ I!SuccessIsOwn <=> IP!SuccessIsOwn
  /\ I!ReplaysAgree <=> IP!ReplaysAgree
  /\ I!AnsweredNotRerun <=> IP!AnsweredNotRerun
<1>1. I!Init <=> IP!Init
  BY DEF I!Init, IP!Init, I!Slots, IP!Slots, I!Missing, IP!Missing
<1>2. [I!Next]_(I!vars) <=> [IP!Next]_(IP!vars)
  BY DEF I!Next, IP!Next, I!vars, IP!vars, I!Proceed, IP!Proceed, I!Handle, IP!Handle,
    I!MissingKey, IP!MissingKey, I!Start, IP!Start, I!Replay, IP!Replay, I!Miss, IP!Miss,
    I!LookupFails, IP!LookupFails, I!HandlerCommits, IP!HandlerCommits,
    I!HandlerFails, IP!HandlerFails, I!HandlerReplyLost, IP!HandlerReplyLost,
    I!Store, IP!Store, I!StoreFails, IP!StoreFails, I!Crash, IP!Crash,
    I!CrashAfterStore, IP!CrashAfterStore, I!Expire, IP!Expire, I!Finished, IP!Finished,
    I!Keep, IP!Keep, I!Goto, IP!Goto, I!Answer, IP!Answer, I!Fault, IP!Fault,
    I!Slot, IP!Slot, I!Slots, IP!Slots, I!InFlight, IP!InFlight,
    I!Success, IP!Success, I!Error, IP!Error, I!Missing, IP!Missing,
    I!Cardinality, IP!Cardinality
<1>3. I!SuccessIsOwn <=> IP!SuccessIsOwn
  BY DEF I!SuccessIsOwn, IP!SuccessIsOwn, I!SameSlot, IP!SameSlot
<1>4. I!ReplaysAgree <=> IP!ReplaysAgree
  BY DEF I!ReplaysAgree, IP!ReplaysAgree, I!SameSlot, IP!SameSlot, I!Replayed, IP!Replayed
<1>5. I!AnsweredNotRerun <=> IP!AnsweredNotRerun
  BY DEF I!AnsweredNotRerun, IP!AnsweredNotRerun, I!SameSlot, IP!SameSlot
<1> QED
  BY <1>1, <1>2, <1>3, <1>4, <1>5

\* The rows of the ledger are those of the requests in Posted.
LEMMA PostedSteps ==
  ASSUME NEW r \in Requests
  PROVE  /\ UNCHANGED ledger => UNCHANGED Posted
         /\ ledger' = ledger \cup {Entry(r)} => Posted' = Posted \cup {r}
<1>1. Entry(r).ref = r
  BY DEF Entry, EntryOf
<1> QED
  BY <1>1 DEF Posted

\* A step of the handler is, for the interceptor, its commit, its failure, a commit
\* whose reply is lost, or nothing.
LEMMA HandlerRefines ==
  ASSUME IInv, IInv', StageInv, NEW r \in Requests, stage[r] = "handle",
         Proceed(r) \/ CommitReplyLost(r) \/ ConnectionLost(r), HandBack(r),
         UNCHANGED <<key, stored, known, faults, expired>>
  PROVE  I!Handle(r) \/ UNCHANGED I!vars
<1>1. pc[r] # "done" /\ UNCHANGED op
  BY HandlerMoves DEF StageInv
<1>2. CASE pc'[r] # "done"
  <2>1. UNCHANGED Posted
    BY <1>1, <1>2, HandlerEnds, PostedSteps
  <2> QED
    BY <1>1, <1>2, <2>1 DEF HandBack, I!vars
<1>3. CASE ledger' = ledger \cup {Entry(r)} /\ pc'[r] = "done" /\ outcome'[r] = 201
  <2>1. I!HandlerCommits(r)
    BY <1>1, <1>3, PostedSteps DEF HandBack, I!HandlerCommits, I!Goto
  <2> QED
    BY <2>1 DEF I!Handle
<1>4. CASE ledger' = ledger \cup {Entry(r)} /\ pc'[r] = "done" /\ outcome'[r] = 500
  <2>1. I!HandlerReplyLost(r)
    BY <1>1, <1>4, PostedSteps DEF HandBack, I!HandlerReplyLost, I!Answer, I!Goto
  <2> QED
    BY <2>1 DEF I!Handle
<1>5. CASE /\ UNCHANGED ledger
           /\ pc'[r] = "done" /\ outcome'[r] \in {400, 404, 409, 500}
  <2>1. I!HandlerFails(r)
    BY <1>1, <1>5, PostedSteps DEF HandBack, I!HandlerFails, I!Answer, I!Goto
  <2> QED
    BY <2>1 DEF I!Handle
<1> QED
  BY <1>1, <1>2, <1>3, <1>4, <1>5, HandlerEnds

\* Every step of the route is a step of the interceptor's specification.
LEMMA InterceptorStep ==
  IInv /\ StageInv /\ [RouteNext]_routeVars => [I!Next]_(I!vars)
<1> SUFFICES ASSUME IInv, StageInv, [RouteNext]_routeVars PROVE [I!Next]_(I!vars)
  OBVIOUS
<1>0. IInv'
  BY ServiceInvStep
<1>1. ASSUME NEW r \in Requests, Arrive(r) PROVE I!Next
  BY <1>1 DEF Arrive, I!Next, I!Proceed
<1>2. ASSUME NEW r \in Requests, Lookup(r) PROVE I!Next
  BY <1>2 DEF Lookup, I!Next, I!Proceed
<1>3. ASSUME NEW r \in Requests, StoreResult(r) PROVE I!Next
  BY <1>3 DEF StoreResult, I!Next, I!Proceed
<1>4. ASSUME NEW r \in Requests, Handle(r) PROVE I!Next \/ UNCHANGED I!vars
  BY <1>0, <1>4, HandlerRefines DEF Handle, HandlerStep, I!Next, I!Proceed
<1>5. ASSUME NEW r \in Requests, HandleBroken(r) PROVE I!Next \/ UNCHANGED I!vars
  BY <1>0, <1>5, HandlerRefines DEF HandleBroken, HandlerStep, I!Next, I!Proceed
<1>6. ASSUME NEW r \in Requests, Crash(r) PROVE I!Next
  BY <1>6 DEF Crash, I!Next
<1>7. CASE ExpireStored
  BY <1>7 DEF ExpireStored, I!Next
<1>8. CASE RouteFinished \/ UNCHANGED routeVars
  BY <1>8 DEF RouteFinished, routeVars, vars, I!vars, Posted
<1> QED
  BY <1>1, <1>2, <1>3, <1>4, <1>5, <1>6, <1>7, <1>8 DEF RouteNext, Serve

-----------------------------------------------------------------------------
\* Stages, rows and replies

\* A step of the interceptor itself leaves the service alone; the handler of a
\* request that is not yet past its lookup has not started.
LEMMA StageInvInterceptor ==
  ASSUME IInv, IP!TypeOK, StageInv, NEW r \in Requests, UNCHANGED <<vars, key>>,
         \/ I!MissingKey(r) \/ I!Start(r) \/ I!Replay(r) \/ I!Miss(r) \/ I!LookupFails(r)
         \/ I!Store(r) \/ I!StoreFails(r) \/ I!Crash(r) \/ I!CrashAfterStore(r)
  PROVE  StageInv'
<1> USE DEF StageInv, I!Goto, I!Answer, I!Success, I!Error
<1>1. /\ stage \in [Requests -> {"idle", "lookup", "handle", "store", "done", "dead"}]
      /\ DOMAIN reply = Requests
  BY DEF IP!TypeOK
<1>2. UNCHANGED <<Posted, op, pc, ledger, key>> /\ \A s \in Requests : Entry(s)' = Entry(s)
  BY DEF vars, Posted, Entry
<1>3. \A s \in Posted : pc[s] = "done"
  BY DEF Posted, IInv, AnswersInv
<1>4. CASE I!MissingKey(r)
  BY <1>1, <1>2, <1>3, <1>4 DEF I!MissingKey
<1>5. CASE I!Start(r)
  BY <1>1, <1>2, <1>3, <1>5 DEF I!Start
<1>6. CASE I!Replay(r)
  BY <1>1, <1>2, <1>3, <1>6 DEF I!Replay
<1>7. CASE I!Miss(r) \/ I!LookupFails(r)
  BY <1>1, <1>2, <1>3, <1>7 DEF I!Miss, I!LookupFails
<1>8. CASE I!Store(r) \/ I!StoreFails(r)
  BY <1>1, <1>2, <1>3, <1>8 DEF I!Store, I!StoreFails
<1>9. CASE I!Crash(r) \/ I!CrashAfterStore(r)
  BY <1>1, <1>2, <1>3, <1>9 DEF I!Crash, I!CrashAfterStore, I!InFlight
<1> QED
  BY <1>4, <1>5, <1>6, <1>7, <1>8, <1>9

\* The rows of the ledger keep belonging to their requests: a request with a row is
\* done and is quoted no other rate.
LEMMA RowsKept ==
  ASSUME IInv, StageInv, NEW r \in Requests, pc[r] # "done",
         Proceed(r) \/ CommitReplyLost(r) \/ ConnectionLost(r)
  PROVE  \A e \in ledger' : e.ref \in Requests /\ e = Entry(e.ref)'
<1>1. \A s \in Requests \ {r} : Entry(s)' = Entry(s)
  BY HandlerMoves DEF Entry, IInv, TypeOK
<1>2. ASSUME NEW e \in ledger PROVE e.ref \in Requests /\ e = Entry(e.ref)'
  BY <1>1, <1>2 DEF StageInv, IInv, AnswersInv
<1>3. CASE UNCHANGED ledger
  BY <1>2, <1>3
<1>4. CASE UNCHANGED rate /\ ledger' = ledger \cup {Entry(r)}
  <2>1. Entry(r)' = Entry(r) /\ Entry(r).ref = r
    BY <1>4, HandlerMoves DEF Entry, EntryOf
  <2> QED
    BY <1>2, <1>4, <2>1
<1> QED
  BY <1>3, <1>4, HandlerMoves

\* A step of the handler, handed back by the interceptor or lost with its process.
LEMMA StageInvHandler ==
  ASSUME IInv, IInv', IP!TypeOK, StageInv, NEW r \in Requests, stage[r] = "handle",
         Proceed(r) \/ CommitReplyLost(r) \/ ConnectionLost(r), UNCHANGED key,
         HandBack(r) \/ (I!Crash(r) /\ ConnectionLost(r))
  PROVE  StageInv'
<1>1. /\ stage \in [Requests -> {"idle", "lookup", "handle", "store", "done", "dead"}]
      /\ DOMAIN reply = Requests
  BY DEF IP!TypeOK
<1>2. pc[r] # "done" /\ key[r] # NoKey
  BY DEF StageInv
<1>3. \A s \in Requests \ {r} : pc'[s] = pc[s]
  BY HandlerMoves DEF IInv, TypeOK
<1>4. \A e \in ledger' : e.ref \in Requests /\ e = Entry(e.ref)'
  BY <1>2, RowsKept
<1>5. \A s \in Requests \ {r} : s \in Posted' => s \in Posted
  BY <1>2, HandlerEnds, PostedSteps
<1>6. \A s \in Requests \ {r} : stage'[s] = stage[s] /\ reply'[s] = reply[s]
  BY <1>1 DEF HandBack, I!Crash, I!Goto
<1>7. /\ stage'[r] = "handle" => pc'[r] # "done"
      /\ stage'[r] \in {"handle", "store", "done", "dead"}
      /\ r \in Posted' /\ stage'[r] = "done" => reply'[r] \in {I!Success(r), I!Error(500)}
  <2>1. r \notin Posted
    BY <1>2 DEF Posted, IInv, AnswersInv
  <2>2. CASE I!Crash(r)
    BY <1>1, <2>2 DEF I!Crash, I!Goto
  <2>3. CASE HandBack(r)
    BY <1>1, <1>2, <2>1, <2>3, HandlerEnds, PostedSteps DEF HandBack
  <2> QED
    BY <2>2, <2>3
<1>8. \A s \in Requests \ {r} : s \in Posted' /\ stage'[s] = "done" =>
        reply'[s] \in {I!Success(s), I!Error(500)}
  BY <1>5, <1>6 DEF StageInv
<1> QED
  BY <1>2, <1>3, <1>4, <1>6, <1>7, <1>8 DEF StageInv, I!Success, I!Error

\* Every step preserves StageInv.
LEMMA StageInvStep == IInv /\ IP!TypeOK /\ StageInv /\ [RouteNext]_routeVars => StageInv'
<1> SUFFICES ASSUME IInv, IP!TypeOK, StageInv, [RouteNext]_routeVars PROVE StageInv'
  OBVIOUS
<1>0. IInv'
  BY ServiceInvStep
<1>1. ASSUME NEW r \in Requests, Arrive(r) \/ Lookup(r) \/ StoreResult(r) PROVE StageInv'
  BY <1>1, StageInvInterceptor DEF Arrive, Lookup, StoreResult
<1>2. ASSUME NEW r \in Requests, Handle(r) \/ HandleBroken(r) PROVE StageInv'
  BY <1>0, <1>2, StageInvHandler DEF Handle, HandleBroken, HandlerStep
<1>3. ASSUME NEW r \in Requests, Crash(r) PROVE StageInv'
  BY <1>0, <1>3, StageInvInterceptor, StageInvHandler DEF Crash
<1>4. CASE ExpireStored
  BY <1>4 DEF ExpireStored, I!Expire, StageInv, vars, Posted, Entry, I!Success, I!Error
<1>5. CASE RouteFinished \/ UNCHANGED routeVars
  BY <1>5 DEF RouteFinished, routeVars, vars, StageInv, Posted, Entry, I!Success, I!Error
<1> QED
  BY <1>1, <1>2, <1>3, <1>4, <1>5 DEF RouteNext, Serve

\* Initially nothing has been asked or answered.
LEMMA RouteInitInv == RouteInit => IInv /\ StageInv /\ IP!TypeOK /\ IP!StoredInv
<1> SUFFICES ASSUME RouteInit PROVE IInv /\ StageInv /\ IP!TypeOK /\ IP!StoredInv
  OBVIOUS
<1>1. IInv
  BY InitInv DEF RouteInit
<1>2. Posted = {}
  BY DEF RouteInit, Init, Posted
<1>3. StageInv
  BY <1>2 DEF RouteInit, Init, StageInv, I!Missing
<1>4. I!Init
  BY <1>2, OpsAssumption DEF RouteInit, Init, I!Init
<1>5. IP!TypeOK /\ IP!StoredInv
  BY <1>4, SameInterceptor, IP!InitInv, InterceptorAssumptions
<1> QED
  BY <1>1, <1>3, <1>5

\* The inductive invariant of the composition: those of the two components, and what
\* relates them.
THEOREM RouteInvariance ==
  RouteSpec => [](IInv /\ StageInv /\ IP!TypeOK /\ IP!StoredInv)
<1>1. ASSUME IInv, StageInv, IP!TypeOK, IP!StoredInv, [RouteNext]_routeVars
      PROVE  IInv' /\ StageInv' /\ IP!TypeOK' /\ IP!StoredInv'
  <2>1. IInv' /\ StageInv'
    BY <1>1, ServiceInvStep, StageInvStep
  <2>2. [IP!Next]_(IP!vars)
    BY <1>1, InterceptorStep, SameInterceptor
  <2> QED
    BY <1>1, <2>1, <2>2, IP!TypeStep, IP!StoredStep, InterceptorAssumptions
<1> QED
  BY RouteInitInv, <1>1, PTL DEF RouteSpec

\* The route implements the interceptor's specification, with the ledger in the place
\* of what was executed: the whole transaction, with its locks, failures and lost
\* replies, is the handler's one step.
THEOREM RouteRefinement == RouteSpec => IdempotencySpec
<1>1. RouteInit => I!Init
  <2>1. RouteInit => Posted = {}
    BY DEF RouteInit, Init, Posted
  <2> QED
    BY <2>1, OpsAssumption DEF RouteInit, Init, I!Init
<1>2. IInv /\ StageInv /\ [RouteNext]_routeVars => [I!Next]_(I!vars)
  BY InterceptorStep
<1> QED
  BY RouteInvariance, <1>1, <1>2, PTL DEF RouteSpec, IdempotencySpec, I!Spec

\* What is proved of the interceptor around an abstract handler holds of the routes
\* and the ledger: successes are about rows of the same user and key, replays agree,
\* and an answered operation is not posted again while Redis works.
THEOREM InterceptorHolds ==
  RouteSpec => [](I!SuccessIsOwn /\ I!ReplaysAgree /\ I!AnsweredNotRerun)
<1>1. I!Spec => IP!Spec
  BY SameInterceptor, PTL DEF I!Spec, IP!Spec
<1>2. IP!Spec => []IP!SuccessIsOwn
  BY IP!SuccessesOwn, InterceptorAssumptions, PTL
<1>3. IP!Spec => []IP!ReplaysAgree
  BY IP!ReplaysConsistent, InterceptorAssumptions, PTL
<1>4. IP!Spec => []IP!AnsweredNotRerun
  BY IP!AnsweredOnce, InterceptorAssumptions, PTL
<1> QED
  BY RouteRefinement, <1>1, <1>2, <1>3, <1>4, SameInterceptor, PTL DEF IdempotencySpec

\* A 201 reports a row of the ledger for the same user, key and, if clients do not use
\* a key for two operations, for the very operation; a row that no success reports
\* belongs to a client that got a 500 or no answer.
THEOREM RepliesTrue == RouteSpec => []RepliesReportLedger
<1>1. ASSUME IInv, StageInv, IP!TypeOK, IP!StoredInv PROVE RepliesReportLedger
  <2>1. I!SuccessIsOwn
    BY <1>1, SameInterceptor DEF IP!StoredInv
  <2>2. ASSUME NEW r \in Requests, reply[r].status = 201, NEW s, s = reply[r].by
        PROVE  /\ Entry(s) \in ledger
               /\ op[s].user = op[r].user /\ key[s] = key[r]
               /\ OneBodyPerKey =>
                    \E e \in ledger : e.ref = s /\ e = EntryOf(s, op[r], e.rate)
    <3>1. s \in Posted /\ I!SameSlot(r, s)
      BY <2>1, <2>2 DEF I!SuccessIsOwn
    <3>2. PICK e \in ledger : e.ref = s
      BY <3>1 DEF Posted
    <3>3. s \in Requests /\ e = Entry(s)
      BY <1>1, <3>2 DEF StageInv
    <3>4. op[s].user = op[r].user /\ key[s] = key[r]
      BY <3>1, <3>3 DEF I!SameSlot
    <3>5. OneBodyPerKey => op[s] = op[r]
      BY <1>1, <2>2, <3>3, <3>4 DEF OneBodyPerKey, StageInv
    <3>6. e.rate = rate[s]
      BY <3>3 DEF Entry, EntryOf
    <3> QED
      BY <3>2, <3>3, <3>4, <3>5, <3>6 DEF Entry
  <2>3. ASSUME NEW r \in Requests, r \in Posted
        PROVE  \/ stage[r] \in {"store", "dead"}
               \/ reply[r] \in {I!Success(r), I!Error(500)}
    <3>1. pc[r] = "done"
      BY <1>1, <2>3 DEF Posted, IInv, AnswersInv
    <3>2. stage[r] \in {"store", "dead", "done"}
      BY <1>1, <3>1 DEF StageInv, IP!TypeOK
    <3> QED
      BY <1>1, <2>3, <3>2 DEF StageInv
  <2> QED
    BY <2>2, <2>3 DEF RepliesReportLedger
<1> QED
  BY RouteInvariance, <1>1, PTL

=============================================================================
