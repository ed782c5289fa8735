SPECIFICATION Spec
CONSTANTS
  a1 = a1
  a2 = a2
  a3 = a3
  a4 = a4
  alice = alice
  bob = bob
  k1 = k1
  k2 = k2
  Attempts = {a1, a2, a3, a4}
  Users = {alice, bob}
  Keys = {k1, k2}
  NoKey = NoKey
  MaxInFlight = 2
  MaxFaults = 1
  Expiry = TRUE
  LostReplies = TRUE
SYMMETRY Symmetry
INVARIANTS
  TypeOK
  SuccessIsOwn
  ReplaysAgree
  AnsweredNotRerun
  RerunsAccounted
