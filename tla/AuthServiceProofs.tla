------------------------- MODULE AuthServiceProofs -------------------------
(***************************************************************************)
(* The rows of an account for any number of concurrent registrations and   *)
(* verifications: IInv is inductive, and what the runs check follows.      *)
(***************************************************************************)
EXTENDS AuthService, TLAPS

\* The initial state satisfies the invariant.
LEMMA InitInv == Init => IInv
<1> SUFFICES ASSUME Init PROVE IInv
  OBVIOUS
<1> USE NoneAssumption DEF Init
<1>1. TypeOK
  <2>1. expired \in BOOLEAN /\ mailed \in BOOLEAN /\ told \in BOOLEAN
    OBVIOUS
  <2> QED
    BY <2>1 DEF TypeOK, Labels
<1>2. AccountWhole
  BY DEF AccountWhole
<1>3. VerifiedOnce /\ RowsInv
  BY DEF VerifiedOnce, HasVerified, RowsInv
<1>4. LocksInv
  BY DEF LocksInv
<1>5. RunningInv /\ KindInv
  BY DEF RunningInv, KindInv
<1> QED
  BY <1>1, <1>2, <1>3, <1>4, <1>5 DEF IInv

\* Sending the mail, or failing to, leaves the flag a truth value.
LEMMA MailedTyped ==
  ASSUME mailed \in BOOLEAN, NEW r, SendMail(r)
  PROVE  mailed' \in BOOLEAN
<1>1. mailed' = mailed \/ mailed' = TRUE
  BY DEF SendMail
<1> QED
  BY <1>1

\* Every step preserves the types: no second wallet is ever committed.
LEMMA TypeStep == IInv /\ [Next]_vars => TypeOK'
<1> SUFFICES ASSUME IInv, [Next]_vars PROVE TypeOK'
  OBVIOUS
<1> USE NoneAssumption DEF IInv, TypeOK, AccountWhole, RowsInv, LocksInv,
      Labels, Goto, Step, Answer, Release, rowVars, WalletFree, VerifyRows
<1>1. ASSUME NEW r \in Requests, RegisterExisting(r) PROVE TypeOK'
  BY <1>1 DEF RegisterExisting
<1>2. ASSUME NEW r \in Requests, RegisterStart(r) PROVE TypeOK'
  BY <1>2 DEF RegisterStart
<1>3. ASSUME NEW r \in Requests, InsertUser(r) PROVE TypeOK'
  BY <1>3 DEF InsertUser
<1>4. ASSUME NEW r \in Requests, InsertUserConflict(r) PROVE TypeOK'
  BY <1>4 DEF InsertUserConflict
<1>5. ASSUME NEW r \in Requests, CommitRegister(r) PROVE TypeOK'
  BY <1>5 DEF CommitRegister
<1>6. ASSUME NEW r \in Requests, SendMail(r) PROVE TypeOK'
  <2>1. mailed' \in BOOLEAN
    BY <1>6, MailedTyped
  <2> QED
    BY <1>6, <2>1 DEF SendMail
<1>7. ASSUME NEW r \in Requests, VerifyNoUser(r) PROVE TypeOK'
  BY <1>7 DEF VerifyNoUser
<1>8. ASSUME NEW r \in Requests, VerifyAgain(r) PROVE TypeOK'
  BY <1>8 DEF VerifyAgain
<1>9. ASSUME NEW r \in Requests, VerifyStart(r) PROVE TypeOK'
  BY <1>9 DEF VerifyStart
<1>10. ASSUME NEW r \in Requests, NoActiveOtp(r) PROVE TypeOK'
  BY <1>10 DEF NoActiveOtp
<1>11. ASSUME NEW r \in Requests, OtpExpired(r) PROVE TypeOK'
  BY <1>11 DEF OtpExpired
<1>12. ASSUME NEW r \in Requests, ExpireOtp(r) PROVE TypeOK'
  BY <1>12 DEF ExpireOtp
<1>13. ASSUME NEW r \in Requests, OtpMatches(r) PROVE TypeOK'
  BY <1>13 DEF OtpMatches
<1>14. ASSUME NEW r \in Requests, OtpRefused(r) PROVE TypeOK'
  BY <1>14 DEF OtpRefused
<1>15. ASSUME NEW r \in Requests, MarkUsed(r) PROVE TypeOK'
  BY <1>15 DEF MarkUsed
<1>16. ASSUME NEW r \in Requests, CreateWallet(r) PROVE TypeOK'
  BY <1>16 DEF CreateWallet
<1>17. ASSUME NEW r \in Requests, WalletConflict(r) PROVE TypeOK'
  BY <1>17 DEF WalletConflict
<1>18. ASSUME NEW r \in Requests, CommitVerify(r) PROVE TypeOK'
  BY <1>18 DEF CommitVerify
<1>19. ASSUME NEW r \in Requests, IssueTokens(r) PROVE TypeOK'
  BY <1>19 DEF IssueTokens
<1>20. ASSUME NEW r \in Requests, Fails(r) PROVE TypeOK'
  BY <1>20 DEF Fails
<1>21. CASE TenMinutesPass
  BY <1>21 DEF TenMinutesPass
<1>22. CASE UNCHANGED vars
  BY <1>22 DEF vars
<1> QED
  BY <1>1, <1>2, <1>3, <1>4, <1>5, <1>6, <1>7, <1>8, <1>9, <1>10, <1>11,
     <1>12, <1>13, <1>14, <1>15, <1>16, <1>17, <1>18, <1>19, <1>20, <1>21,
     <1>22
  DEF Next, Register, Verify, Finished

\* Every step leaves the rows of the account together.
LEMMA AccountStep == IInv /\ [Next]_vars => AccountWhole'
<1> SUFFICES ASSUME IInv, [Next]_vars PROVE AccountWhole'
  OBVIOUS
<1> USE NoneAssumption DEF IInv, TypeOK, AccountWhole, RowsInv, LocksInv,
      KindInv, Goto, Step, Answer, Release, rowVars, WalletFree, VerifyRows
<1>1. ASSUME NEW r \in Requests, RegisterExisting(r) PROVE AccountWhole'
  BY <1>1 DEF RegisterExisting
<1>2. ASSUME NEW r \in Requests, RegisterStart(r) PROVE AccountWhole'
  BY <1>2 DEF RegisterStart
<1>3. ASSUME NEW r \in Requests, InsertUser(r) PROVE AccountWhole'
  BY <1>3 DEF InsertUser
<1>4. ASSUME NEW r \in Requests, InsertUserConflict(r) PROVE AccountWhole'
  BY <1>4 DEF InsertUserConflict
<1>5. ASSUME NEW r \in Requests, CommitRegister(r) PROVE AccountWhole'
  BY <1>5 DEF CommitRegister
<1>6. ASSUME NEW r \in Requests, SendMail(r) PROVE AccountWhole'
  BY <1>6 DEF SendMail
<1>7. ASSUME NEW r \in Requests, VerifyNoUser(r) PROVE AccountWhole'
  BY <1>7 DEF VerifyNoUser
<1>8. ASSUME NEW r \in Requests, VerifyAgain(r) PROVE AccountWhole'
  BY <1>8 DEF VerifyAgain
<1>9. ASSUME NEW r \in Requests, VerifyStart(r) PROVE AccountWhole'
  BY <1>9 DEF VerifyStart
<1>10. ASSUME NEW r \in Requests, NoActiveOtp(r) PROVE AccountWhole'
  BY <1>10 DEF NoActiveOtp
<1>11. ASSUME NEW r \in Requests, OtpExpired(r) PROVE AccountWhole'
  BY <1>11 DEF OtpExpired
<1>12. ASSUME NEW r \in Requests, ExpireOtp(r) PROVE AccountWhole'
  BY <1>12 DEF ExpireOtp
<1>13. ASSUME NEW r \in Requests, OtpMatches(r) PROVE AccountWhole'
  BY <1>13 DEF OtpMatches
<1>14. ASSUME NEW r \in Requests, OtpRefused(r) PROVE AccountWhole'
  BY <1>14 DEF OtpRefused
<1>15. ASSUME NEW r \in Requests, MarkUsed(r) PROVE AccountWhole'
  BY <1>15 DEF MarkUsed
<1>16. ASSUME NEW r \in Requests, CreateWallet(r) PROVE AccountWhole'
  BY <1>16 DEF CreateWallet
<1>17. ASSUME NEW r \in Requests, WalletConflict(r) PROVE AccountWhole'
  BY <1>17 DEF WalletConflict
<1>18. ASSUME NEW r \in Requests, CommitVerify(r) PROVE AccountWhole'
  BY <1>18 DEF CommitVerify
<1>19. ASSUME NEW r \in Requests, IssueTokens(r) PROVE AccountWhole'
  BY <1>19 DEF IssueTokens
<1>20. ASSUME NEW r \in Requests, Fails(r) PROVE AccountWhole'
  BY <1>20 DEF Fails
<1>21. CASE TenMinutesPass
  BY <1>21 DEF TenMinutesPass
<1>22. CASE UNCHANGED vars
  BY <1>22 DEF vars
<1> QED
  BY <1>1, <1>2, <1>3, <1>4, <1>5, <1>6, <1>7, <1>8, <1>9, <1>10, <1>11,
     <1>12, <1>13, <1>14, <1>15, <1>16, <1>17, <1>18, <1>19, <1>20, <1>21,
     <1>22
  DEF Next, Register, Verify, Finished

\* Every step preserves who holds which lock.
LEMMA LocksStep == IInv /\ [Next]_vars => LocksInv'
<1> SUFFICES ASSUME IInv, [Next]_vars PROVE LocksInv'
  OBVIOUS
<1> USE NoneAssumption DEF IInv, TypeOK, LocksInv, Goto, Step, Answer,
      Release, rowVars, WalletFree, VerifyRows
<1>1. ASSUME NEW r \in Requests, RegisterExisting(r) PROVE LocksInv'
  BY <1>1 DEF RegisterExisting
<1>2. ASSUME NEW r \in Requests, RegisterStart(r) PROVE LocksInv'
  BY <1>2 DEF RegisterStart
<1>3. ASSUME NEW r \in Requests, InsertUser(r) PROVE LocksInv'
  BY <1>3 DEF InsertUser
<1>4. ASSUME NEW r \in Requests, InsertUserConflict(r) PROVE LocksInv'
  BY <1>4 DEF InsertUserConflict
<1>5. ASSUME NEW r \in Requests, CommitRegister(r) PROVE LocksInv'
  BY <1>5 DEF CommitRegister
<1>6. ASSUME NEW r \in Requests, SendMail(r) PROVE LocksInv'
  BY <1>6 DEF SendMail
<1>7. ASSUME NEW r \in Requests, VerifyNoUser(r) PROVE LocksInv'
  BY <1>7 DEF VerifyNoUser
<1>8. ASSUME NEW r \in Requests, VerifyAgain(r) PROVE LocksInv'
  BY <1>8 DEF VerifyAgain
<1>9. ASSUME NEW r \in Requests, VerifyStart(r) PROVE LocksInv'
  BY <1>9 DEF VerifyStart
<1>10. ASSUME NEW r \in Requests, NoActiveOtp(r) PROVE LocksInv'
  BY <1>10 DEF NoActiveOtp
<1>11. ASSUME NEW r \in Requests, OtpExpired(r) PROVE LocksInv'
  BY <1>11 DEF OtpExpired
<1>12. ASSUME NEW r \in Requests, ExpireOtp(r) PROVE LocksInv'
  BY <1>12 DEF ExpireOtp
<1>13. ASSUME NEW r \in Requests, OtpMatches(r) PROVE LocksInv'
  BY <1>13 DEF OtpMatches
<1>14. ASSUME NEW r \in Requests, OtpRefused(r) PROVE LocksInv'
  BY <1>14 DEF OtpRefused
<1>15. ASSUME NEW r \in Requests, MarkUsed(r) PROVE LocksInv'
  BY <1>15 DEF MarkUsed
<1>16. ASSUME NEW r \in Requests, CreateWallet(r) PROVE LocksInv'
  BY <1>16 DEF CreateWallet
<1>17. ASSUME NEW r \in Requests, WalletConflict(r) PROVE LocksInv'
  BY <1>17 DEF WalletConflict
<1>18. ASSUME NEW r \in Requests, CommitVerify(r) PROVE LocksInv'
  BY <1>18 DEF CommitVerify
<1>19. ASSUME NEW r \in Requests, IssueTokens(r) PROVE LocksInv'
  BY <1>19 DEF IssueTokens
<1>20. ASSUME NEW r \in Requests, Fails(r) PROVE LocksInv'
  BY <1>20 DEF Fails
<1>21. CASE TenMinutesPass
  BY <1>21 DEF TenMinutesPass
<1>22. CASE UNCHANGED vars
  BY <1>22 DEF vars
<1> QED
  BY <1>1, <1>2, <1>3, <1>4, <1>5, <1>6, <1>7, <1>8, <1>9, <1>10, <1>11,
     <1>12, <1>13, <1>14, <1>15, <1>16, <1>17, <1>18, <1>19, <1>20, <1>21,
     <1>22
  DEF Next, Register, Verify, Finished

\* Every step preserves what the requests know of the rows.
LEMMA RowsStep == IInv /\ [Next]_vars => RowsInv'
<1> SUFFICES ASSUME IInv, [Next]_vars PROVE RowsInv'
  OBVIOUS
<1> USE NoneAssumption DEF IInv, TypeOK, AccountWhole, RowsInv, LocksInv,
      RunningInv, KindInv, HasVerified, Goto, Step, Answer, Release,
      rowVars, WalletFree, VerifyRows
<1>1. ASSUME NEW r \in Requests, RegisterExisting(r) PROVE RowsInv'
  BY <1>1 DEF RegisterExisting
<1>2. ASSUME NEW r \in Requests, RegisterStart(r) PROVE RowsInv'
  BY <1>2 DEF RegisterStart
<1>3. ASSUME NEW r \in Requests, InsertUser(r) PROVE RowsInv'
  BY <1>3 DEF InsertUser
<1>4. ASSUME NEW r \in Requests, InsertUserConflict(r) PROVE RowsInv'
  BY <1>4 DEF InsertUserConflict
<1>5. ASSUME NEW r \in Requests, CommitRegister(r) PROVE RowsInv'
  BY <1>5 DEF CommitRegister
<1>6. ASSUME NEW r \in Requests, SendMail(r) PROVE RowsInv'
  BY <1>6 DEF SendMail
<1>7. ASSUME NEW r \in Requests, VerifyNoUser(r) PROVE RowsInv'
  BY <1>7 DEF VerifyNoUser
<1>8. ASSUME NEW r \in Requests, VerifyAgain(r) PROVE RowsInv'
  BY <1>8 DEF VerifyAgain
<1>9. ASSUME NEW r \in Requests, VerifyStart(r) PROVE RowsInv'
  BY <1>9 DEF VerifyStart
<1>10. ASSUME NEW r \in Requests, NoActiveOtp(r) PROVE RowsInv'
  BY <1>10 DEF NoActiveOtp
<1>11. ASSUME NEW r \in Requests, OtpExpired(r) PROVE RowsInv'
  BY <1>11 DEF OtpExpired
<1>12. ASSUME NEW r \in Requests, ExpireOtp(r) PROVE RowsInv'
  BY <1>12 DEF ExpireOtp
<1>13. ASSUME NEW r \in Requests, OtpMatches(r) PROVE RowsInv'
  BY <1>13 DEF OtpMatches
<1>14. ASSUME NEW r \in Requests, OtpRefused(r) PROVE RowsInv'
  BY <1>14 DEF OtpRefused
<1>15. ASSUME NEW r \in Requests, MarkUsed(r) PROVE RowsInv'
  BY <1>15 DEF MarkUsed
<1>16. ASSUME NEW r \in Requests, CreateWallet(r) PROVE RowsInv'
  BY <1>16 DEF CreateWallet
<1>17. ASSUME NEW r \in Requests, WalletConflict(r) PROVE RowsInv'
  BY <1>17 DEF WalletConflict
<1>18. ASSUME NEW r \in Requests, CommitVerify(r) PROVE RowsInv'
  BY <1>18 DEF CommitVerify
<1>19. ASSUME NEW r \in Requests, IssueTokens(r) PROVE RowsInv'
  BY <1>19 DEF IssueTokens
<1>20. ASSUME NEW r \in Requests, Fails(r) PROVE RowsInv'
  BY <1>20 DEF Fails
<1>21. CASE TenMinutesPass
  BY <1>21 DEF TenMinutesPass
<1>22. CASE UNCHANGED vars
  BY <1>22 DEF vars
<1> QED
  BY <1>1, <1>2, <1>3, <1>4, <1>5, <1>6, <1>7, <1>8, <1>9, <1>10, <1>11,
     <1>12, <1>13, <1>14, <1>15, <1>16, <1>17, <1>18, <1>19, <1>20, <1>21,
     <1>22
  DEF Next, Register, Verify, Finished

\* Every step preserves that running requests have no answer and keep their kind.
LEMMA ControlStep == IInv /\ [Next]_vars => (RunningInv /\ KindInv)'
<1> SUFFICES ASSUME IInv, [Next]_vars PROVE (RunningInv /\ KindInv)'
  OBVIOUS
<1> USE NoneAssumption DEF IInv, TypeOK, RunningInv, KindInv, Goto, Step,
      Answer, Release, rowVars, WalletFree, VerifyRows
<1>1. ASSUME NEW r \in Requests, RegisterExisting(r) PROVE (RunningInv /\ KindInv)'
  BY <1>1 DEF RegisterExisting
<1>2. ASSUME NEW r \in Requests, RegisterStart(r) PROVE (RunningInv /\ KindInv)'
  BY <1>2 DEF RegisterStart
<1>3. ASSUME NEW r \in Requests, InsertUser(r) PROVE (RunningInv /\ KindInv)'
  BY <1>3 DEF InsertUser
<1>4. ASSUME NEW r \in Requests, InsertUserConflict(r) PROVE (RunningInv /\ KindInv)'
  BY <1>4 DEF InsertUserConflict
<1>5. ASSUME NEW r \in Requests, CommitRegister(r) PROVE (RunningInv /\ KindInv)'
  BY <1>5 DEF CommitRegister
<1>6. ASSUME NEW r \in Requests, SendMail(r) PROVE (RunningInv /\ KindInv)'
  BY <1>6 DEF SendMail
<1>7. ASSUME NEW r \in Requests, VerifyNoUser(r) PROVE (RunningInv /\ KindInv)'
  BY <1>7 DEF VerifyNoUser
<1>8. ASSUME NEW r \in Requests, VerifyAgain(r) PROVE (RunningInv /\ KindInv)'
  BY <1>8 DEF VerifyAgain
<1>9. ASSUME NEW r \in Requests, VerifyStart(r) PROVE (RunningInv /\ KindInv)'
  BY <1>9 DEF VerifyStart
<1>10. ASSUME NEW r \in Requests, NoActiveOtp(r) PROVE (RunningInv /\ KindInv)'
  BY <1>10 DEF NoActiveOtp
<1>11. ASSUME NEW r \in Requests, OtpExpired(r) PROVE (RunningInv /\ KindInv)'
  BY <1>11 DEF OtpExpired
<1>12. ASSUME NEW r \in Requests, ExpireOtp(r) PROVE (RunningInv /\ KindInv)'
  BY <1>12 DEF ExpireOtp
<1>13. ASSUME NEW r \in Requests, OtpMatches(r) PROVE (RunningInv /\ KindInv)'
  BY <1>13 DEF OtpMatches
<1>14. ASSUME NEW r \in Requests, OtpRefused(r) PROVE (RunningInv /\ KindInv)'
  BY <1>14 DEF OtpRefused
<1>15. ASSUME NEW r \in Requests, MarkUsed(r) PROVE (RunningInv /\ KindInv)'
  BY <1>15 DEF MarkUsed
<1>16. ASSUME NEW r \in Requests, CreateWallet(r) PROVE (RunningInv /\ KindInv)'
  BY <1>16 DEF CreateWallet
<1>17. ASSUME NEW r \in Requests, WalletConflict(r) PROVE (RunningInv /\ KindInv)'
  BY <1>17 DEF WalletConflict
<1>18. ASSUME NEW r \in Requests, CommitVerify(r) PROVE (RunningInv /\ KindInv)'
  BY <1>18 DEF CommitVerify
<1>19. ASSUME NEW r \in Requests, IssueTokens(r) PROVE (RunningInv /\ KindInv)'
  BY <1>19 DEF IssueTokens
<1>20. ASSUME NEW r \in Requests, Fails(r) PROVE (RunningInv /\ KindInv)'
  BY <1>20 DEF Fails
<1>21. CASE TenMinutesPass
  BY <1>21 DEF TenMinutesPass
<1>22. CASE UNCHANGED vars
  BY <1>22 DEF vars
<1> QED
  BY <1>1, <1>2, <1>3, <1>4, <1>5, <1>6, <1>7, <1>8, <1>9, <1>10, <1>11,
     <1>12, <1>13, <1>14, <1>15, <1>16, <1>17, <1>18, <1>19, <1>20, <1>21,
     <1>22
  DEF Next, Register, Verify, Finished

\* Every step preserves that one request has verified the account.
LEMMA VerifiedStep == IInv /\ [Next]_vars => VerifiedOnce'
<1> SUFFICES ASSUME IInv, [Next]_vars PROVE VerifiedOnce'
  OBVIOUS
<1> USE NoneAssumption DEF IInv, TypeOK, AccountWhole, VerifiedOnce,
      RowsInv, LocksInv, RunningInv, KindInv, HasVerified, Goto, Step,
      Answer, Release, rowVars, WalletFree, VerifyRows
<1>1. ASSUME NEW r \in Requests, RegisterExisting(r) PROVE VerifiedOnce'
  BY <1>1 DEF RegisterExisting
<1>2. ASSUME NEW r \in Requests, RegisterStart(r) PROVE VerifiedOnce'
  BY <1>2 DEF RegisterStart
<1>3. ASSUME NEW r \in Requests, InsertUser(r) PROVE VerifiedOnce'
  BY <1>3 DEF InsertUser
<1>4. ASSUME NEW r \in Requests, InsertUserConflict(r) PROVE VerifiedOnce'
  BY <1>4 DEF InsertUserConflict
<1>5. ASSUME NEW r \in Requests, CommitRegister(r) PROVE VerifiedOnce'
  BY <1>5 DEF CommitRegister
<1>6. ASSUME NEW r \in Requests, SendMail(r) PROVE VerifiedOnce'
  BY <1>6 DEF SendMail
<1>7. ASSUME NEW r \in Requests, VerifyNoUser(r) PROVE VerifiedOnce'
  BY <1>7 DEF VerifyNoUser
<1>8. ASSUME NEW r \in Requests, VerifyAgain(r) PROVE VerifiedOnce'
  BY <1>8 DEF VerifyAgain
<1>9. ASSUME NEW r \in Requests, VerifyStart(r) PROVE VerifiedOnce'
  BY <1>9 DEF VerifyStart
<1>10. ASSUME NEW r \in Requests, NoActiveOtp(r) PROVE VerifiedOnce'
  BY <1>10 DEF NoActiveOtp
<1>11. ASSUME NEW r \in Requests, OtpExpired(r) PROVE VerifiedOnce'
  BY <1>11 DEF OtpExpired
<1>12. ASSUME NEW r \in Requests, ExpireOtp(r) PROVE VerifiedOnce'
  BY <1>12 DEF ExpireOtp
<1>13. ASSUME NEW r \in Requests, OtpMatches(r) PROVE VerifiedOnce'
  BY <1>13 DEF OtpMatches
<1>14. ASSUME NEW r \in Requests, OtpRefused(r) PROVE VerifiedOnce'
  BY <1>14 DEF OtpRefused
<1>15. ASSUME NEW r \in Requests, MarkUsed(r) PROVE VerifiedOnce'
  BY <1>15 DEF MarkUsed
<1>16. ASSUME NEW r \in Requests, CreateWallet(r) PROVE VerifiedOnce'
  BY <1>16 DEF CreateWallet
<1>17. ASSUME NEW r \in Requests, WalletConflict(r) PROVE VerifiedOnce'
  BY <1>17 DEF WalletConflict
<1>18. ASSUME NEW r \in Requests, CommitVerify(r) PROVE VerifiedOnce'
  BY <1>18 DEF CommitVerify
<1>19. ASSUME NEW r \in Requests, IssueTokens(r) PROVE VerifiedOnce'
  BY <1>19 DEF IssueTokens
<1>20. ASSUME NEW r \in Requests, Fails(r) PROVE VerifiedOnce'
  BY <1>20 DEF Fails
<1>21. CASE TenMinutesPass
  BY <1>21 DEF TenMinutesPass
<1>22. CASE UNCHANGED vars
  BY <1>22 DEF vars
<1> QED
  BY <1>1, <1>2, <1>3, <1>4, <1>5, <1>6, <1>7, <1>8, <1>9, <1>10, <1>11,
     <1>12, <1>13, <1>14, <1>15, <1>16, <1>17, <1>18, <1>19, <1>20, <1>21,
     <1>22
  DEF Next, Register, Verify, Finished

\* IInv is an invariant of register and verify, for any number of requests.
THEOREM Invariance == Spec => []IInv
<1>1. IInv /\ [Next]_vars => IInv'
  BY TypeStep, AccountStep, LocksStep, RowsStep, ControlStep, VerifiedStep DEF IInv
<1> QED
  BY InitInv, <1>1, PTL DEF Spec

\* Every row, lock and position has its type: at most one wallet and one balance.
THEOREM TypeCorrect == Spec => []TypeOK
<1>1. IInv => TypeOK
  BY DEF IInv
<1> QED
  BY Invariance, <1>1, PTL

\* An account has its code, or its wallet and NGN balance, as its state says.
THEOREM AccountsWhole == Spec => []AccountWhole
<1>1. IInv => AccountWhole
  BY DEF IInv
<1> QED
  BY Invariance, <1>1, PTL

\* At most one request verifies the account and gets tokens.
THEOREM AccountVerifiedOnce == Spec => []VerifiedOnce
<1>1. IInv => VerifiedOnce
  BY DEF IInv
<1> QED
  BY Invariance, <1>1, PTL

\* A code is spent by the commit that makes the wallet, or after it expired.
THEOREM CodesSpentWithWallet == Spec => CodeSpentWithWallet
<1>1. ASSUME IInv, [Next]_vars, otp = "active", otp' = "used"
      PROVE  expired \/ wallets' = 1
  <2>1. ASSUME NEW r \in Requests, ExpireOtp(r) PROVE expired
    BY <1>1, <2>1 DEF ExpireOtp, IInv, RowsInv
  <2>2. ASSUME NEW r \in Requests, CommitVerify(r) PROVE wallets' = 1
    BY <1>1, <2>2 DEF CommitVerify, VerifyRows, Step, IInv, RowsInv
  <2> QED
    BY <1>1, <2>1, <2>2 DEF Next, Register, Verify, Finished, vars, rowVars,
       RegisterExisting, RegisterStart, InsertUser, InsertUserConflict, CommitRegister,
       SendMail, VerifyNoUser, VerifyAgain, VerifyStart, NoActiveOtp, OtpExpired,
       OtpMatches, OtpRefused, MarkUsed, CreateWallet, WalletConflict, IssueTokens,
       Fails, TenMinutesPass
<1> QED
  BY Invariance, <1>1, PTL DEF Spec, CodeSpentWithWallet

=============================================================================
