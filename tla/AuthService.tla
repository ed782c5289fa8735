---------------------------- MODULE AuthService ----------------------------
(***************************************************************************)
(* AuthService.register and AuthService.verify for one email address,      *)
(* called by any number of concurrent requests: the users, otps and        *)
(* wallets rows they read and write, the mail that carries the code, and   *)
(* the ten minutes after which the code expires.                           *)
(*                                                                         *)
(* PostgreSQL (READ COMMITTED, unique email, unique wallet per user), the  *)
(* mailer and argon2 are external.                                         *)
(***************************************************************************)
EXTENDS Integers, FiniteSets

CONSTANTS Requests, None

ASSUME NoneAssumption == None \notin Requests

VARIABLES
  kind,       \* what each request is: a registration, or a verification
              \* with the mailed code or with a wrong one
  user,       \* the users row
  otp,        \* the otps row
  wallets,    \* committed wallets rows of the user
  ngnRows,    \* and their NGN balance rows
  expired,    \* ten minutes have passed since the code was made
  mailed,     \* the code has reached the user
  emailLock,  \* the transaction with an uncommitted users row
  otpLock,    \* the transaction that has updated the otps row
  pc, status,
  told        \* a response has said "Please register again"

vars == <<kind, user, otp, wallets, ngnRows, expired, mailed,
          emailLock, otpLock, pc, status, told>>

rowVars == <<user, otp, wallets, ngnRows>>

-----------------------------------------------------------------------------

Goto(r, label) == pc' = [pc EXCEPT ![r] = label]

Step(r, here, there) == pc[r] = here /\ Goto(r, there)

Answer(r, code) == Goto(r, "done") /\ status' = [status EXCEPT ![r] = code]

Release(r) == /\ emailLock' = IF emailLock = r THEN None ELSE emailLock
              /\ otpLock' = IF otpLock = r THEN None ELSE otpLock

Init == /\ kind \in [Requests -> {"register", "verify", "guess"}]
        /\ user = "none" /\ otp = "none"
        /\ wallets = 0 /\ ngnRows = 0
        /\ expired = FALSE /\ mailed = FALSE
        /\ emailLock = None /\ otpLock = None
        /\ pc = [r \in Requests |-> "idle"]
        /\ status = [r \in Requests |-> 0]
        /\ told = FALSE

-----------------------------------------------------------------------------
\* register

RegisterExisting(r) ==
  /\ pc[r] = "idle" /\ kind[r] = "register" /\ user # "none"
  /\ Answer(r, 409)
  /\ UNCHANGED <<kind, rowVars, expired, mailed, emailLock, otpLock, told>>

RegisterStart(r) ==
  /\ Step(r, "idle", "insert") /\ kind[r] = "register" /\ user = "none"
  /\ UNCHANGED <<kind, rowVars, expired, mailed, emailLock, otpLock, status, told>>

\* INSERT of the user waits for another uncommitted one with the same email.
InsertUser(r) ==
  /\ Step(r, "insert", "register") /\ user = "none" /\ emailLock = None
  /\ emailLock' = r
  /\ UNCHANGED <<kind, rowVars, expired, mailed, otpLock, status, told>>

InsertUserConflict(r) ==
  /\ pc[r] = "insert" /\ user # "none"
  /\ Answer(r, 409)
  /\ UNCHANGED <<kind, rowVars, expired, mailed, emailLock, otpLock, told>>

\* The user and the hash of the code.
CommitRegister(r) ==
  /\ Step(r, "register", "mail")
  /\ user' = "unverified" /\ otp' = "active"
  /\ Release(r)
  /\ UNCHANGED <<kind, wallets, ngnRows, expired, mailed, status, told>>

\* A mail that cannot be sent is logged; the response is the same.
SendMail(r) ==
  /\ pc[r] = "mail"
  /\ mailed' \in {mailed, TRUE}
  /\ Answer(r, 201)
  /\ UNCHANGED <<kind, rowVars, expired, emailLock, otpLock, told>>

-----------------------------------------------------------------------------
\* verify

VerifyNoUser(r) ==
  /\ pc[r] = "idle" /\ kind[r] = "guess" /\ user = "none"
  /\ Answer(r, 404)
  /\ UNCHANGED <<kind, rowVars, expired, mailed, emailLock, otpLock, told>>

VerifyAgain(r) ==
  /\ pc[r] = "idle" /\ kind[r] \in {"verify", "guess"} /\ user = "verified"
  /\ Answer(r, 400)
  /\ UNCHANGED <<kind, rowVars, expired, mailed, emailLock, otpLock, told>>

\* Only who has got the mail knows the code.
VerifyStart(r) ==
  /\ Step(r, "idle", "findOtp") /\ user = "unverified"
  /\ \/ kind[r] = "guess"
     \/ kind[r] = "verify" /\ mailed
  /\ UNCHANGED <<kind, rowVars, expired, mailed, emailLock, otpLock, status, told>>

NoActiveOtp(r) ==
  /\ pc[r] = "findOtp" /\ otp = "used"
  /\ Answer(r, 400)
  /\ told' = TRUE
  /\ UNCHANGED <<kind, rowVars, expired, mailed, emailLock, otpLock>>

OtpExpired(r) ==
  /\ Step(r, "findOtp", "expire") /\ otp = "active" /\ expired
  /\ UNCHANGED <<kind, rowVars, expired, mailed, emailLock, otpLock, status, told>>

\* markAsUsed without a transaction; it waits for one that has updated the row.
ExpireOtp(r) ==
  /\ pc[r] = "expire" /\ otpLock = None
  /\ otp' = "used"
  /\ Answer(r, 400)
  /\ told' = TRUE
  /\ UNCHANGED <<kind, user, wallets, ngnRows, expired, mailed, emailLock, otpLock>>

\* verifyHash of the code that was read, outside any transaction.
OtpMatches(r) ==
  /\ Step(r, "findOtp", "begin") /\ otp = "active" /\ ~expired
  /\ kind[r] = "verify"
  /\ UNCHANGED <<kind, rowVars, expired, mailed, emailLock, otpLock, status, told>>

\* A wrong code; also a hash that fails to be checked, be the code right or wrong.
OtpRefused(r) ==
  /\ pc[r] = "findOtp" /\ otp = "active" /\ ~expired
  /\ Answer(r, 401)
  /\ UNCHANGED <<kind, rowVars, expired, mailed, emailLock, otpLock, told>>

\* Mutant of MarkUsed: the UPDATE is not given the transaction's manager.
MarkUsedAtOnce(r) ==
  /\ Step(r, "begin", "wallet") /\ otpLock = None
  /\ otpLock' = r
  /\ otp' = "used"
  /\ UNCHANGED <<kind, user, wallets, ngnRows, expired, mailed, emailLock,
                 status, told>>

\* The transaction starts with the UPDATE of the otps row: used, whatever it was.
MarkUsed(r) ==
  /\ Step(r, "begin", "wallet") /\ otpLock = None
  /\ otpLock' = r
  /\ UNCHANGED <<kind, rowVars, expired, mailed, emailLock, status, told>>

\* Mutant of WalletFree: no unique constraint on wallets.user_id.
WalletAlwaysFree == TRUE

WalletFree == wallets = 0

\* UPDATE of the user, INSERT of the wallet and of its NGN row.
CreateWallet(r) ==
  /\ Step(r, "wallet", "verify") /\ WalletFree
  /\ UNCHANGED <<kind, rowVars, expired, mailed, emailLock, otpLock, status, told>>

\* The user has got a wallet since the request read the user: unique violation.
WalletConflict(r) ==
  /\ pc[r] = "wallet" /\ ~WalletFree
  /\ Answer(r, 409)
  /\ Release(r)
  /\ UNCHANGED <<kind, rowVars, expired, mailed, told>>

\* Mutant of VerifyRows: the NGN row is left to the first funding.
VerifyRowsWithoutNgn == /\ user' = "verified" /\ otp' = "used"
                        /\ wallets' = wallets + 1 /\ UNCHANGED ngnRows

VerifyRows == /\ user' = "verified" /\ otp' = "used"
              /\ wallets' = wallets + 1 /\ ngnRows' = ngnRows + 1

CommitVerify(r) ==
  /\ Step(r, "verify", "tokens")
  /\ VerifyRows
  /\ Release(r)
  /\ UNCHANGED <<kind, expired, mailed, status, told>>

IssueTokens(r) ==
  /\ pc[r] = "tokens"
  /\ Answer(r, 201)
  /\ UNCHANGED <<kind, rowVars, expired, mailed, emailLock, otpLock, told>>

-----------------------------------------------------------------------------
\* The environment

\* A query, a hash of register or the process fails: what is uncommitted is rolled
\* back, what comes after the commit (the mail, the tokens) never happens.
Fails(r) ==
  /\ pc[r] \notin {"idle", "done"}
  /\ Answer(r, 500)
  /\ Release(r)
  /\ UNCHANGED <<kind, rowVars, expired, mailed, told>>

TenMinutesPass ==
  /\ otp # "none" /\ ~expired
  /\ expired' = TRUE
  /\ UNCHANGED <<kind, rowVars, mailed, emailLock, otpLock, pc, status, told>>

Register(r) == \/ RegisterExisting(r) \/ RegisterStart(r)
               \/ InsertUser(r) \/ InsertUserConflict(r)
               \/ CommitRegister(r) \/ SendMail(r)

Verify(r) == \/ VerifyNoUser(r) \/ VerifyAgain(r) \/ VerifyStart(r)
             \/ NoActiveOtp(r) \/ OtpExpired(r) \/ ExpireOtp(r)
             \/ OtpMatches(r) \/ OtpRefused(r)
             \/ MarkUsed(r) \/ CreateWallet(r) \/ WalletConflict(r)
             \/ CommitVerify(r) \/ IssueTokens(r)

\* A code that never arrived is never sent back.
NeverSent(r) == pc[r] = "idle" /\ kind[r] = "verify" /\ ~mailed

Finished == /\ \A r \in Requests : pc[r] = "done" \/ NeverSent(r)
            /\ UNCHANGED vars

Next == \/ \E r \in Requests : Register(r) \/ Verify(r) \/ Fails(r)
        \/ TenMinutesPass
        \/ Finished

Spec == Init /\ [][Next]_vars

-----------------------------------------------------------------------------
\* Properties

Labels == {"idle", "insert", "register", "mail", "findOtp", "expire", "begin",
           "wallet", "verify", "tokens", "done"}

\* Every variable has its type, and wallets and NGN rows are at most one.
TypeOK ==
  /\ kind \in [Requests -> {"register", "verify", "guess"}]
  /\ user \in {"none", "unverified", "verified"}
  /\ otp \in {"none", "active", "used"}
  /\ wallets \in 0..1 /\ ngnRows \in 0..1
  /\ expired \in BOOLEAN /\ mailed \in BOOLEAN /\ told \in BOOLEAN
  /\ emailLock \in Requests \union {None} /\ otpLock \in Requests \union {None}
  /\ pc \in [Requests -> Labels]
  /\ status \in [Requests -> {0, 201, 400, 401, 404, 409, 500}]

\* The rows of an account come and go together, whatever fails between their
\* statements: an account has its code from the commit of register on, and its
\* wallet and NGN balance exactly from the commit of verify on. WalletService
\* relies on it: a verified user is never answered "Wallet not found".
AccountWhole ==
  /\ (user = "none") = (otp = "none")
  /\ wallets = IF user = "verified" THEN 1 ELSE 0
  /\ ngnRows = wallets

\* A request that has verified the account: it has tokens, or is about to.
HasVerified(r) == \/ pc[r] = "tokens"
                  \/ kind[r] # "register" /\ status[r] = 201

\* The same code sent twice at once signs one request in: both pass the checks
\* of the code, and the unique wallet stops the second.
VerifiedOnce == \A r, s \in Requests : HasVerified(r) /\ HasVerified(s) => r = s

\* A code is spent by a verification that commits or because its time is over,
\* never by an attempt that was rolled back.
CodeSpentWithWallet ==
  [][otp = "active" /\ otp' = "used" => expired \/ wallets' = 1]_vars

\* What verify tells the owner of an expired code: "OTP has expired. Please
\* register again." A registration that comes after it is not refused.
MayRegisterAgain ==
  [][\A r \in Requests : told /\ user = "unverified" => ~RegisterExisting(r)]_vars

-----------------------------------------------------------------------------
\* The inductive invariant

\* A lock belongs to the request between the statement that takes it and the end
\* of its transaction.
LocksInv ==
  \A r \in Requests : /\ (emailLock = r) = (pc[r] = "register")
                      /\ (otpLock = r) = (pc[r] \in {"wallet", "verify"})

\* What each point of the code knows of the rows, though others may change them.
RowsInv ==
  \A r \in Requests :
    /\ pc[r] = "register" => user = "none"
    /\ pc[r] \in {"findOtp", "expire", "begin", "wallet", "verify"} => user # "none"
    /\ pc[r] = "expire" => expired
    /\ pc[r] = "verify" => wallets = 0
    /\ HasVerified(r) => user = "verified"

\* No answer has been given to a request that is still running.
RunningInv == \A r \in Requests : pc[r] # "done" => status[r] = 0

\* Only a verification reaches the tokens.
KindInv == \A r \in Requests :
  pc[r] \notin {"idle", "done"} =>
    (kind[r] = "register") = (pc[r] \in {"insert", "register", "mail"})

IInv == /\ TypeOK /\ AccountWhole /\ VerifiedOnce
        /\ LocksInv /\ RowsInv /\ RunningInv /\ KindInv

=============================================================================
