# Formal model of the credpal wallet backend

TLA+ modules, model-checking configurations and machine-checked proofs for the
NestJS backend in this repository: concurrent wallet operations on PostgreSQL,
idempotent retries and rate limiting through Redis, exchange rates with a stale
fallback, and the life of an account. `PROJECT.json` is the index: the components,
the runs, the source lines each definition models (`map`), and for every checked
property a mutated definition that breaks it.

    tlc -workers 2 -config wallet_seeded.cfg MCWalletService.tla     # one run
    tlapm WalletServiceProofs.tla                                    # one proof module

## 1. The system

One stateless Node process (or several) in front of PostgreSQL, Redis and two HTTP
providers. All state that outlives a request is in the database or in Redis, and
every `await` is a point where other requests, of this process or another, run.

| component | state | operations | talks to |
|---|---|---|---|
| Wallet operations (`wallet.service.ts`, repositories) | `wallet_balances`, `transactions` | `fund`, `convert`, `trade` | PostgreSQL, FX rates |
| History (`transactions.*`) | reads `transactions` | one page of a cursor scan | PostgreSQL |
| Idempotency interceptor | `idempotency:*` in Redis | around fund, convert, trade | Redis, the handler |
| FX rates (`fx.service.ts`, `fetchWithRetry`) | a fresh and a stale Redis entry per base currency | `getRate`, `getRates` | Redis, rate API |
| Auth (`auth.service.ts`) | `users`, `otps`, `wallets`, the first balance row | `register`, `verify` | PostgreSQL, mailer, argon2 |
| Rate limiter (`redis.service.ts`, throttler) | one counter per address and route | one hit | Redis |
| Auth guard | none: a JWT in a cookie, and a blacklist in Redis that nothing in `src/` writes yet | every request to wallets, rates and history | Redis |
| Config, bootstrap, controllers, DTOs, error filter, hasher, mailer | none | | |

How a money request goes: throttler (global guard), `AuthGuard` of the controller,
idempotency interceptor up to its lookup, `ValidationPipe`, handler, interceptor
again to store the result, and the error filter for what was thrown. A swap asks FX
for its rate *before* it opens its transaction. `verify` creates the wallet that
`fund` later finds.

What is hard, and what makes each part correct:

- **Wallet.** Balances are read, computed in memory as absolute values and written
  back: nothing may commit in between. Two row locks are taken in the order the
  request names the currencies. A balance row may not exist yet, so there is nothing
  to lock. COMMIT's reply can be lost, the pool can run dry, PostgreSQL may abort a
  deadlock victim. The arithmetic is that of doubles. Correct means: balances are the sum of the ledger, the ledger
  gets one row per operation, the response tells the truth, everyone is answered.
- **Idempotency.** Lookup, execution and `SET NX` are three steps, each of which can
  fail or be the last of the process. Correct means: what a client is told is about
  its own operation, replays agree, an answered operation is not executed again; and
  all of that of ledger rows, with the real handler inside.
- **FX.** Two entries written one after the other by racing requests. Correct
  means: a bound on the age of a rate, and a fallback that is there when needed.
- **Auth.** Checks are made before the transactions that rely on them. Correct means:
  the rows of an account come and go together, and it is verified once.
- **Rate limiter.** INCR and EXPIRE are two commands. Correct means: a bound on what
  is admitted, and no block for ever.
- **Auth guard.** Token and blacklist are checked at different moments, and the
  blacklist may be unreadable. Correct means: a token that is bad on arrival does not
  get in.
- **History.** Pages are separate queries; `created_at` is the time a transaction
  *began*. Correct means: no row twice, none missing.

`PROJECT.json` lists 38 hazards at their lines, with the properties that cover them, or why none does.

## 2. The modules

| module | what it is |
|---|---|
| `WalletLedger` | abstract: balances and a set of ledger rows that change together (`Post`) |
| `WalletService`, `WalletServiceProofs` | `fund` and `executeSwap`, statement by statement, against PostgreSQL; implements `WalletLedger` |
| `Idempotency`, `IdempotencyProofs` | the interceptor around an abstract handler |
| `WalletRoute`, `WalletRouteProofs` | the composition: `Idempotency` around `WalletService`; implements `Idempotency` |
| `Money`, `MoneyProofs` | the arithmetic of balances in binary floating point |
| `FxService`, `FxServiceProofs` | quotes over two cache entries and a failing API |
| `AuthService`, `AuthServiceProofs` | registration and verification of one email address |
| `RateLimiter`, `RateWindow` | one key of the throttler's storage; the same with clocks beside it. Their proofs are in `GatewayProofs` |
| `Gateway`, `GatewayProofs` | the composition: `RateWindow`, then `AuthGuard` |
| `TransactionHistory`, `TransactionHistoryProofs` | cursor scans of the ledger |
| `MC...` | constants, operations and symmetry for TLC |

In every module `pc` is the position of each request's handler between two
`await`s; one action is one awaited call together with the synchronous code up to
the next. Operators under a comment "Mutant of X" are not part of the model: they are
plausible faults put in place of X to show that a property notices.

### WalletService

One wallet: no operation touches two, and locks of different wallets do not
interact. `rows` and `balance` are the committed rows of `wallet_balances`, `ledger`
those of `transactions`, `lock[c]` the transaction that holds (or has inserted) the
row of `c`, `seen` what a handler has read. What a transaction has written stays in
its handler's variables until `ApplyWrites`, which is when others can see it.

| code | actions |
|---|---|
| `ValidationPipe`, `findByUserId`, quote | `InvalidBody`, `WalletNotFound`, `FundStart`, `SwapQuote`, `SwapNoQuote` |
| `connect`, `startTransaction` | `Connect`, `ConnectTimeout` |
| `findByWalletIdAndCurrencyWithLock` | `FundLock`, `FundNoRow`, `SwapLockFrom`, `SwapInsufficient`, `SwapNoSource`, `SwapLockTo` |
| `upsert` | `FundUpsertFound`, `SwapUpsertFound`, `UpsertMissing`, `InsertRow`, `InsertConflict` |
| `updateBalance` | `UpdateBalances`, `BalanceOverflow` |
| `transactionRepository.create` | `Record` |
| `commitTransaction`, `catch`, `finally` | `Commit`, `CommitReplyLost`, `Rollback` |
| environment | `ConnectionLost`, `DeadlockVictim` |

PostgreSQL (external) is modelled as READ COMMITTED: a locking read of a row that
does not exist locks nothing; an INSERT waits for another uncommitted INSERT of the
same key; `Blocked`, `WaitCycle` and `DeadlockVictim` are its lock waits. Amounts are
naturals in units of 10^-8, `ToFixed` rounds as `toFixed(8)` does; where doubles
behave differently is the subject of `Money`.

### Idempotency

Attempts with equal user and key share a `Slot` (the SHA-256 key, taken to be
injective). The handler is one step that commits, fails, or commits and fails
(`HandlerReplyLost`, justified by `CommitReplyLost`). `answered[a]` remembers, for
the properties, what clients knew when attempt `a` was sent. `MaxInFlight`,
`MaxFaults`, `Expiry` and `LostReplies` limit the environment.

### WalletRoute

Extends `WalletService` and instantiates `Idempotency` as `I`, with `executed` bound
to `Posted`, the requests that have a row in `ledger`. The interceptor's steps are
the actions of `I`; its handler, one step there, is here every action of
`WalletService`, enabled while `stage[r] = "handle"`. `HandBack` is what the
interceptor's pipe does when the handler ends: a 201 goes on to be stored, an error
straight to the client. A process that ends inside a handler leaves an open
transaction, which the server rolls back or has committed already (`Crash` with
`ConnectionLost`). `IdempotencySpec` is the whole specification of `Idempotency` as a
property of the routes.

### Money

One balance and its ledger rows. The format is a parameter: `Significand` for 2^53,
`Ulps` for the distances of neighbouring doubles, `Scale` for 10^8, `Nearest` for IEEE
rounding with ties to even. A double is the number of steps of a fine binary grid it
stands for, so all arithmetic is exact on naturals and rounding is visible.
`FormatAssumption` says what of powers of two is needed: each ulp is 1 or twice
another, and a multiple of twice every finer one. `RangeAssumption` says that nothing
gets near Infinity, which doubles reach at 10^308 and the column never. The runs take
a *scale model* with 7 bits. `coarse` remembers whether a value was so large that rounding
could move it by half a unit of the column (2^24 units of a currency, with the real
constants), `partial` counts amounts with more decimals than the column keeps, which
the DTOs let through.

### FxService

`fresh` and `stale` carry the payload's `cachedAt`, whether it has the wanted
currency, and when they expire. `Latency` bounds the time between the arrival of a
body and the response made from it: the code does not bound it, the age of a rate
depends on it, so it is a parameter. `FetchMalformed` is the success body without
`conversion_rates`, which throws past the fallback; a missing API configuration has
the effect of `FetchRefused`. `skipped` remembers whose write of the stale entry failed.

### AuthService

One email address, so at most one user, one code, one wallet. `emailLock` and
`otpLock` are the transactions with an uncommitted `users` row and with an updated
`otps` row. Requests are registrations, verifications with the mailed code and
verifications with another one. `Fails` covers a failing query, a failing hash in
`register` and the end of the process: what is uncommitted is rolled back, what
follows the commit (mail, tokens) does not happen. A hash that cannot be checked in
`verify` is answered like a wrong code (`OtpRefused`).

### RateLimiter and Gateway

One key. `Forever` is a key without expiry, as INCR leaves it until the EXPIRE that
the same request sends next. `life`, `lost` and `counted` are history. `RateWindow`
adds two clocks, the age of each request and of the key, so that "in any 15 seconds"
can be said; they run while the key has no expiry, too.

`Gateway` puts the requests of one address to one route through it. The throttler is
a global guard and runs before the controller's, so when it builds its key there is
no `request.user` yet: requests of all users behind one address share the key. With
the throttler's reply (`Enter`) `AuthGuard` looks at cookie and token, which needs no
I/O, and then asks Redis for the blacklist (`BlacklistHit`, `BlacklistMiss`,
`BlacklistReadFails`). Tokens expire 15 minutes after `verify` signed them. Whoever
writes the blacklist is external: README.md:40 says that the guard is ready for a
logout that does not exist yet. `standing` and `unread` are history.

### TransactionHistory

`Newest` leaves the order of equal `created_at` open, as ORDER BY does; `Page` is
`take(limit + 1)`, the slice and the next cursor. The status filter is left out
because every row is written with SUCCESS.

## 3. The runs

| run | instance | shows |
|---|---|---|
| `wallet_seeded` | 3 requests over 7 operations (funding, swaps in both directions, a funding of a currency without row and swaps to and from it, a stranger), 2 connections, balances up to 4, two rates one of which rounds | types with no overdraft, `Reconciled`, truthful responses, current reads, who can deadlock, that the missing-destination branch is unreachable, and that the service implements `WalletLedger` as long as at most one other request touches a row that a funding creates |
| `wallet_route` | 3 requests, 2 keys or none, at least two duplicates, over a funding and two opposite swaps; the `usd` row does not exist; one failing Redis call or crash, expiry, lost replies; three in flight on two connections, `FairRouteSpec` | replies and ledger agree (`RepliesReportLedger`), the routes implement `Idempotency`, every request is answered (`EveryRequestAnswered`) |
| `wallet_lost_update` | 3 requests, the `usd` row does not exist | **violated:** `Reconciled` |
| `idempotency_faults` | 4 attempts, 2 users, 2 keys, 2 in flight, 1 failure, expiry, lost replies | what a client may rely on under all of this, and how often its operation is executed at most (`RerunsAccounted`) |
| `idempotency_race` | 3 attempts, no failure, nothing expires | **violated:** `AtMostOnce` |
| `fx_cache` | 3 requests, TTLs 2 and 3, 2 tries, latency 1, one failing Redis call, 4 ticks | ages, order of payloads, that the fallback is there and is used |
| `auth_accounts` | 4 requests of any kind | `AccountWhole`, `VerifiedOnce`, `CodeSpentWithWallet` |
| `auth_register_again` | the same | **violated:** `MayRegisterAgain` |
| `gateway` | 4 requests, limit 2, TTL 2, block 1, one token; `FairGatewaySpec` | how many are admitted in any stretch of one TTL (`RateBounded`), `BlockEnds`, `NoLateEntry`, and that the key goes away again (`KeyGoesAway`) |
| `history_pages` | 4 rows of 2 types at 3 instants, pages of 1 or 2, with and without filter | `PagesDescend`, `CompleteButTies` |
| `money` | 7 bits, 10 units to 1, quarter units, 8 amounts, 3 rates, balances up to 100 units, of which those below 40 are in the exact range | `TypeOK` (never negative), `DriftBounded` |
| `money_drift` | the same | **violated:** `ExactInColumn` |

Why the bounds are enough to be interesting. A lost update needs two writers and a
third party to commit in between, a deadlock two swaps, the duplicate-key race two
inserts and one more: three requests reach them all, and two connections make the
third one wait. The lost update itself is the
subject of `wallet_lost_update`: `wallet_seeded` leaves out (`FirstFundingsPaired`)
the requests it takes. Balances of 2 with a limit of 4 reach "insufficient" and "overflow".
On the routes two requests are duplicates and the third is another duplicate, has
another key or none, or uses the key for another operation; all three may be in flight at
once, one more than there are connections, so one waits for the pool or times out
(`ConnectTimeout`). Which request is which does not matter, so one order of each choice
is taken (`InOrder`). Three FX requests are two racing writers and a reader of the
fallback, and four ticks outlast both TTLs. Four attempts are two duplicates that
race to store their result and a replay of each one's. Four account requests are a
registration, two verifications and a late registration. Four hits exceed a limit of
two twice over, or fill two lives of a key, or exceed it in one life and send the
first EXPIRE of that life in the next; which of those without a cookie comes first does
not matter (`InOrder`). Four rows fill three pages with a tie at a
border. In `money` the finest double below the exact range is a small fraction of a
unit, as it is for real amounts, and the column ends well beyond it, as the real one
does; the ledger is followed until it is off by `Off`. `MaxTime`, `MaxFaults`,
`MaxInFlight`, `MaxBalance`, `MaxPartial` and `Off` are named constants.

Fairness. `FairRouteSpec` assumes weak fairness of *some* request's own steps: while
one can go on, one does. Handlers are driven by the event loop, waiting for a
connection ends after 10 s (`data-source.ts`), PostgreSQL resolves deadlocks after
its timeout. Which request goes on is left open, and clients need not send any.
`FairGatewaySpec` assumes that Redis keeps time and that handlers which sent INCR go
on or end (`SecondCommand` includes both). Nothing is assumed to succeed, and no
failure is assumed to happen.

### What the violated runs say

`README.md` with a line number is the one of the repository, not this file.

1. `wallet_lost_update`. `fund` finds no row, and by the time `upsert` runs its plain
   `findOne` another funding has created it. It goes on with a balance read without a
   lock; what a third transaction commits before its UPDATE is overwritten, although
   both ledger rows stay. (README: "`SELECT FOR UPDATE` ... to prevent race
   conditions".) Swaps re-read the row under a lock and are not affected.
2. `idempotency_race`. Duplicates in flight together both execute. (README: "replayed
   requests return the original response without re-executing".) The same happens one
   at a time after a commit whose reply was lost. Those aside, `RerunsAccounted` bounds
   how often.
3. `auth_register_again`. "Please register again" is answered 409, for ever.
4. `money_drift`. The column is `numeric(20, 8)` so that balances need not be floating
   point (README.md:197), but the service computes them with `parseFloat`, `+` and
   `toFixed(8)`. Up to about 2^24 (16.7 million) units of a currency each result
   rounds back to the exact decimal and errors never add up; from about 2^26 on, far
   inside the column, a balance drifts from its ledger rows.

Known to the models without a run of their own:

- Opposite swaps deadlock, one is aborted and answered 500 without a retry
  (`OnlyOpposingSwapsDeadlock` says that nothing else does; README.md:185 speaks of
  "deterministic locking behaviour without the retry logic").
- A key used for two operations replays the reply of the first
  (`RepliesReportLedger` promises the operation only under `OneBodyPerKey`).
- The request that reaches the limit is refused already, so 29 of the 30 requests that
  README.md:81 promises are admitted: the block is decided with `>`
  (`redis.service.ts:84`), the answer with `>=` (`:92`). `RateBounded` counts
  `Limit - 1`.
- The limit is per address and route, never per user as README.md:81 has it: a user is
  refused for what others behind his address have sent.
- The EXPIRE that starts a block names only the key. Sent late, it is applied to the key
  of the next window, which then lasts 75 seconds for people who have not exceeded
  anything. What survives all such delays is `RateBounded`: a key lives for one TTL at
  least, so any 15 seconds meet two keys at most.
- A success body without `conversion_rates` throws past the stale entry, and the quote
  fails with the fallback unused (README.md:54-55); a payload without the wanted
  currency fails it, too. `FallbackUsed` says that nothing else does.
- Rows that share `created_at` with the last row of a page are on no later page either.
  `CompleteButTies` says that nothing else is missed.
- Amounts with more than 8 decimals are accepted, and each may put a balance off
  its ledger by one unit (`DriftBounded`).
- A row that began before a scan's cursor and commits after the page is read is not in
  that scan.
- Where the guard cannot read the blacklist it lets the token pass and logs it;
  `NoLateEntry` names that as the only way in for a revoked one. A token that turns bad
  after the last check is served.
- Nobody can sign in again: a process that ends between the commit of `verify` and its
  response leaves a verified account without tokens.

## 4. The proofs

TLAPS proves, for any number of requests, users, currencies, rates and limits that
meet the named assumptions of the modules:

| theorem | states |
|---|---|
| `WalletServiceProofs!TypeCorrect` | no overdraft, no overflow, in any interleaving |
| `!SwapsReadCurrent` | swaps write only what they computed from current balances |
| `!AnswersTrue` | 201 has its ledger row, 4xx has none |
| `!DestinationFound` | a branch of `executeSwap` is dead code |
| `!OnlySwapsDeadlock` | the shape of every wait cycle |
| `!Refinement`, `!FundsReadCurrent` | the service implements `WalletLedger`, fundings included, *if* `FirstFundingsPaired`: beside a funding of a currency without row at most one other request touches that row |
| `!Reconciliation` | `Reconciled`: every balance is the sum of its ledger rows, *if* `FirstFundingsPaired` |
| `!ReconciledPerCurrency` | the same without any assumption, for every currency that is `FundedSafely`: it has its row, is not funded, or is paired |
| `IdempotencyProofs!TypeCorrect`, `!SuccessesOwn`, `!ReplaysConsistent`, `!AnsweredOnce` | types and the three guarantees of the faults run |
| `!RerunsArePaidFor` | `RerunsAccounted`, for any number of attempts in flight |
| `!SequentialOnce` | at-most-once, *if* `Sequential` |
| `WalletRouteProofs!RouteKeepsService` | whatever goes on around them, the handlers behave as `WalletService` |
| `!RouteRefinement` | the routes implement `Idempotency`, with the ledger as what was executed |
| `!InterceptorHolds` | `SuccessIsOwn`, `ReplaysAgree` and `AnsweredNotRerun` of routes and ledger |
| `!RepliesTrue` | `RepliesReportLedger` |
| `FxServiceProofs!AgesBounded`, `!RegressesBounded`, `!FallbackThere`, `!StaleAfterFailure`, `!TypeCorrect` | the invariants of `fx_cache`, for all TTLs and latencies |
| `!FallbackIsUsed` | its action property `FallbackUsed` |
| `AuthServiceProofs!TypeCorrect`, `!AccountsWhole`, `!AccountVerifiedOnce`, `!CodesSpentWithWallet` | the properties of `auth_accounts` |
| `GatewayProofs!RateIsBounded`, `!BlocksEnd` | `RateBounded`, `BlockEnds`, for all limits and times |
| `!LimiterHolds`, `!GatewayTypesCorrect`, `!BadTokensKeptOut` | `BlockEnds` and `RateBounded` in front of the guard, `GatewayTypeOK`, `NoLateEntry` |
| `TransactionHistoryProofs!TypeCorrect`, `!PagesInOrder`, `!ScansComplete` | the properties of `history_pages`, for any number of rows, scans and page sizes |
| `MoneyProofs!TypeCorrect`, `!DriftsBounded` | the properties of `money`, for every binary format, column and sequence of operations |

The argument. The safety properties are not inductive: that a swap's read is current
at `commit` depends on who holds which lock at every earlier point. `IInv` of each
module is the conjunction of the named parts that are needed together; each was
checked with TLC before it was proved.

- *WalletService.* `LocksInv` (which rows each position has locked, and no others),
  `ReadsInv` (what was read under a lock is current, and covers the debit),
  `AnswersInv` (responses against ledger), `DestinationAlwaysFound`. A commit touches
  its own two rows only (`CommitLeavesLockedRows`), which leaves every other
  request's reads current (`CommitKeepsReads`). Fundings are missing from `ReadsInv`
  because of finding 1; `FundsInv` adds those that are `FundedSafely`: such a funding
  has its row locked, or found it without a lock because the only other request for
  it is over. With it a commit is exactly one `Post` of the abstract ledger
  (`CommitPosts`) and every other step a stutter. With one request more on the
  new row `wallet_lost_update` finds the lost update, so `FirstFundingsPaired` cannot
  just be dropped. It holds in particular of wallets whose funded rows exist, as the NGN row
  does from verification on.
- *Reconciled.* The sum of a ledger of any size is a fold over a set. `Sums` describes
  what such a fold is by functions over its subsets; that every finite set has one
  (`SumsExist`) and only one value (`RowSumIs`) is shown by taking the smallest
  set without one, since the prover has no induction over data; `RowSumAdd` follows:
  one more row adds its `Delta`. A commit then keeps `ReconciledInv`
  (`CommitReconciles`), because what it read of each `FundedSafely` currency is current.
- *Idempotency.* `StoredInv` ties what is stored to an execution for that slot,
  `ReplayInv` ties what was replayed to what is stored, `RerunInv` says that an
  answered operation is still stored while nothing expires. `AccountedInv` is a credit:
  while nothing is stored for a slot, what got past SET (`Over`) is paid for by a
  failure each, so what a miss lets run is that and who is in flight; once something is
  stored, only a failed lookup lets another one run.
- *WalletRoute.* Every step is a step or a stutter of `WalletService` (`ServiceStep`)
  and of `Idempotency` (`InterceptorStep`). The first carries `IInv` of the service
  over; for the second a handler's last step has to be exactly one of commit, failure
  or commit with a lost reply (`HandlerRefines`), which needs `StageInv`: where a
  handler stands at each stage of its interceptor, and whose row is whose.
  `IdempotencyProofs` is instantiated with the same substitution (`IP`), so that its
  theorems, proved of an abstract handler, become theorems about the ledger.
- *RateLimiter.* `CountInv`: the key's value is the number of requests of its life,
  and each was told a number of its own. `OwingInv`: a key without expiry has
  requests that will still set one, or losses to show for it. `AgeInv` of `RateWindow`:
  the age of a key and the time it has left are one TTL together at least, so what was
  counted before the last key but one is out of the window (`TwoLives`), and each key
  admits one less than the limit (`LifeAdmits`).
- *Gateway.* Its steps are steps of `RateWindow` (`LimiterStep`); `EntryInv` says
  that what a token was worth on arrival it is worth at most later.
- *FxService.* `HeldInv` and `EntriesInv` relate expiry, `cachedAt` and the clock.
- *AuthService.* `LocksInv` makes the code's row a mutex between its UPDATE and the
  end of the transaction; `RowsInv` says what each position knows of the rows.
- *TransactionHistory.* `CursorInv`: a scan's cursor is its oldest row and all it has
  lies at or after it; `MissingInv`: what a scan could see at its start and has not
  got is still to come, being older than the cursor, or ties with a row it has got.
- *Money.* `NearestWithin`: rounding moves a value by half an ulp at most and leaves a
  full significand. So a double below the range of an ulp has that ulp or a finer
  one (`UlpBelow`), and what was rounded to it is less than half that ulp away
  (`RoundedBelow`). Outside the coarse range one such ulp, of which three are less
  than a unit of the column, serves every double of an update (`MoveFine`); reading
  the balance, parsing the amount and rounding the result are then off by less than
  half a unit together, and `toFixed` gives the exact decimal (`MoveExact`), or one
  unit more or less when the amount had a fraction of a unit (`MovePartial`).
  That no balance becomes negative needs none of this: the check compares the very
  doubles that are subtracted.

Not proved. Liveness (`EveryRequestAnswered`, `KeyGoesAway`) is model-checked only:
fairness and ENABLED are out of the prover's reach.

## 5. What is not modelled

- Configuration, bootstrap, logging, routing, documentation, tokens and cookies
  themselves: fixed at start, or without state. What they set up (the order of
  guards, the global pipe and filter, limits and TTLs) is in the modules.
- The full width of a double in the runs: they take a scale model (the theorems do
  not). `Money` is about one balance only.
- Early returns of `AuthGuard` for public routes and other transports than HTTP:
  nothing in `src/` is marked public, and there is no other transport.
- The transfer of a request between `Gateway` and `WalletRoute`: the guard hands over
  a user and keeps nothing, so the two are checked apart.
- Repository methods without callers (`updateStatus`, `invalidateAllByUserId`, ...).
- The database as a whole being down for longer than a request, replication, backups.

## 6. Plan

Done, in this order: abstract ledger and wallet service, idempotency, FX, auth,
history, the rate limiter, the routes as a composition of interceptor and service,
the gateway as one of limiter and guard, money. Every safety property that a passing
run checks is a theorem as well.

Next:

1. The rate limiter, the gateway and the routes as refinements of shorter abstract
   specifications of what a client sees.
2. What is left of `Reconciled` when a first funding does lose an update: a bound on
   the difference.
