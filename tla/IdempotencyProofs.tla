------------------------- MODULE IdempotencyProofs -------------------------
(***************************************************************************)
(* What a client may rely on behind the interceptor, for any number of     *)
(* attempts, users, keys and faults; and at-most-once for sequential use.  *)
(***************************************************************************)
EXTENDS Idempotency, FiniteSetTheorems, TLAPS

\* A success has status 201 and names its execution; nothing else does.
LEMMA ResponseKinds ==
  /\ \A a \in Attempts : Success(a).status = 201 /\ Success(a).by = a
  /\ \A a \in Attempts : Success(a) # Missing
  /\ Missing.status = 0
  /\ \A code \in {400, 500} : Error(code).status = code
  BY DEF Success, Missing, Error

\* Attempts share a slot exactly when they are retries of each other.
LEMMA SlotSame ==
  ASSUME TypeOK
  PROVE  \A a, b \in Attempts : SameSlot(a, b) <=> Slot(a) = Slot(b)
  BY DEF TypeOK, SameSlot, Slot

\* The slot of an attempt never changes.
LEMMA SlotKept ==
  ASSUME UNCHANGED request
  PROVE  /\ \A a \in Attempts : Slot(a)' = Slot(a)
         /\ \A a, b \in Attempts : SameSlot(a, b)' <=> SameSlot(a, b)
  BY DEF Slot, SameSlot

\* An attempt that gives a key has a slot.
LEMMA SlotTyped ==
  ASSUME TypeOK, NEW a \in Attempts, request[a].key # NoKey
  PROVE  Slot(a) \in Slots
  BY DEF TypeOK, Slot, Slots

\* Every step preserves the types.
LEMMA TypeStep == TypeOK /\ StoredInv /\ [Next]_vars => TypeOK'
<1> SUFFICES ASSUME TypeOK, StoredInv, [Next]_vars PROVE TypeOK'
  OBVIOUS
<1> USE DEF TypeOK, StoredInv, Fault, Goto, Answer, InFlight
<1>1. ASSUME NEW a \in Attempts, MissingKey(a) PROVE TypeOK'
  BY <1>1 DEF MissingKey
<1>2. ASSUME NEW a \in Attempts, Start(a) PROVE TypeOK'
  BY <1>2 DEF Start
<1>3. ASSUME NEW a \in Attempts, Replay(a) PROVE TypeOK'
  BY <1>3 DEF Replay
<1>4. ASSUME NEW a \in Attempts, Miss(a) PROVE TypeOK'
  BY <1>4 DEF Miss
<1>5. ASSUME NEW a \in Attempts, LookupFails(a) PROVE TypeOK'
  BY <1>5 DEF LookupFails
<1>6. ASSUME NEW a \in Attempts, HandlerCommits(a) PROVE TypeOK'
  BY <1>6 DEF HandlerCommits
<1>7. ASSUME NEW a \in Attempts, HandlerFails(a) PROVE TypeOK'
  BY <1>7 DEF HandlerFails
<1>8. ASSUME NEW a \in Attempts, HandlerReplyLost(a) PROVE TypeOK'
  BY <1>8 DEF HandlerReplyLost
<1>9. ASSUME NEW a \in Attempts, Store(a) PROVE TypeOK'
  BY <1>9 DEF Store, Keep
<1>10. ASSUME NEW a \in Attempts, StoreFails(a) PROVE TypeOK'
  BY <1>10 DEF StoreFails
<1>11. ASSUME NEW a \in Attempts, Crash(a) PROVE TypeOK'
  BY <1>11 DEF Crash
<1>12. ASSUME NEW a \in Attempts, CrashAfterStore(a) PROVE TypeOK'
  BY <1>12 DEF CrashAfterStore, Keep
<1>13. ASSUME NEW s \in Slots, Expire(s) PROVE TypeOK'
  BY <1>13 DEF Expire
<1>14. CASE UNCHANGED vars
  BY <1>14 DEF vars
<1> QED
  BY <1>1, <1>2, <1>3, <1>4, <1>5, <1>6, <1>7, <1>8, <1>9, <1>10, <1>11, <1>12, <1>13, <1>14
  DEF Next, Proceed, Handle, Finished

\* Every step preserves that stored results were executed for their slot.
LEMMA StoredStep == TypeOK /\ StoredInv /\ [Next]_vars => StoredInv'
<1> SUFFICES ASSUME TypeOK, StoredInv, [Next]_vars PROVE StoredInv'
  OBVIOUS
<1> USE DEF TypeOK, StoredInv, SuccessIsOwn, Goto, Answer, InFlight
<1>1. ASSUME NEW a \in Attempts, MissingKey(a) PROVE StoredInv'
  BY <1>1, ResponseKinds, SlotKept DEF MissingKey
<1>2. ASSUME NEW a \in Attempts, Start(a) PROVE StoredInv'
  BY <1>2, SlotKept, SlotTyped DEF Start
<1>3. ASSUME NEW a \in Attempts, Replay(a) PROVE StoredInv'
  BY <1>3, SlotSame, SlotKept DEF Replay
<1>4. ASSUME NEW a \in Attempts, Miss(a) PROVE StoredInv'
  BY <1>4, SlotKept DEF Miss
<1>5. ASSUME NEW a \in Attempts, LookupFails(a) PROVE StoredInv'
  BY <1>5, SlotKept DEF LookupFails
<1>6. ASSUME NEW a \in Attempts, HandlerCommits(a) PROVE StoredInv'
  BY <1>6, SlotKept DEF HandlerCommits
<1>7. ASSUME NEW a \in Attempts, HandlerFails(a) PROVE StoredInv'
  BY <1>7, ResponseKinds, SlotKept DEF HandlerFails
<1>8. ASSUME NEW a \in Attempts, HandlerReplyLost(a) PROVE StoredInv'
  BY <1>8, ResponseKinds, SlotKept DEF HandlerReplyLost
<1>9. ASSUME NEW a \in Attempts, Store(a) PROVE StoredInv'
  BY <1>9, ResponseKinds, SlotSame, SlotKept DEF Store, Keep
<1>10. ASSUME NEW a \in Attempts, StoreFails(a) PROVE StoredInv'
  BY <1>10, ResponseKinds, SlotSame, SlotKept DEF StoreFails
<1>11. ASSUME NEW a \in Attempts, Crash(a) PROVE StoredInv'
  BY <1>11, SlotKept DEF Crash
<1>12. ASSUME NEW a \in Attempts, CrashAfterStore(a) PROVE StoredInv'
  BY <1>12, ResponseKinds, SlotKept DEF CrashAfterStore, Keep
<1>13. ASSUME NEW s \in Slots, Expire(s) PROVE StoredInv'
  BY <1>13, SlotKept DEF Expire
<1>14. CASE UNCHANGED vars
  BY <1>14, SlotKept DEF vars
<1> HIDE DEF TypeOK, StoredInv
<1> QED
  BY <1>1, <1>2, <1>3, <1>4, <1>5, <1>6, <1>7, <1>8, <1>9, <1>10, <1>11, <1>12, <1>13, <1>14
  DEF Next, Proceed, Handle, Finished

\* Every step preserves that replays are what is stored.
LEMMA ReplayStep == TypeOK /\ StoredInv /\ ReplayInv /\ [Next]_vars => ReplayInv'
<1> SUFFICES ASSUME TypeOK, StoredInv, ReplayInv, [Next]_vars PROVE ReplayInv'
  OBVIOUS
<1> USE DEF TypeOK, StoredInv, ReplayInv, Replayed, SuccessIsOwn, Goto, Answer, InFlight
<1>1. ASSUME NEW a \in Attempts, MissingKey(a) PROVE ReplayInv'
  BY <1>1, ResponseKinds, SlotKept DEF MissingKey
<1>2. ASSUME NEW a \in Attempts, Start(a) PROVE ReplayInv'
  BY <1>2, SlotKept DEF Start
<1>3. ASSUME NEW a \in Attempts, Replay(a) PROVE ReplayInv'
  BY <1>3, SlotKept DEF Replay
<1>4. ASSUME NEW a \in Attempts, Miss(a) PROVE ReplayInv'
  BY <1>4, SlotKept DEF Miss
<1>5. ASSUME NEW a \in Attempts, LookupFails(a) PROVE ReplayInv'
  BY <1>5, SlotKept DEF LookupFails
<1>6. ASSUME NEW a \in Attempts, HandlerCommits(a) PROVE ReplayInv'
  BY <1>6, SlotKept DEF HandlerCommits
<1>7. ASSUME NEW a \in Attempts, HandlerFails(a) PROVE ReplayInv'
  BY <1>7, ResponseKinds, SlotKept DEF HandlerFails
<1>8. ASSUME NEW a \in Attempts, HandlerReplyLost(a) PROVE ReplayInv'
  BY <1>8, ResponseKinds, SlotKept DEF HandlerReplyLost
<1>9. ASSUME NEW a \in Attempts, Store(a) PROVE ReplayInv'
  BY <1>9, ResponseKinds, SlotKept DEF Store, Keep
<1>10. ASSUME NEW a \in Attempts, StoreFails(a) PROVE ReplayInv'
  BY <1>10, ResponseKinds, SlotKept DEF StoreFails
<1>11. ASSUME NEW a \in Attempts, Crash(a) PROVE ReplayInv'
  BY <1>11, SlotKept DEF Crash
<1>12. ASSUME NEW a \in Attempts, CrashAfterStore(a) PROVE ReplayInv'
  BY <1>12, ResponseKinds, SlotKept DEF CrashAfterStore, Keep
<1>13. ASSUME NEW s \in Slots, Expire(s) PROVE ReplayInv'
  BY <1>13 DEF Expire
<1>14. CASE UNCHANGED vars
  BY <1>14, SlotKept DEF vars
<1> QED
  BY <1>1, <1>2, <1>3, <1>4, <1>5, <1>6, <1>7, <1>8, <1>9, <1>10, <1>11, <1>12, <1>13, <1>14
  DEF Next, Proceed, Handle, Finished

\* Every step preserves that answered operations stay stored.
LEMMA RerunStep == TypeOK /\ StoredInv /\ RerunInv /\ [Next]_vars => RerunInv'
<1> SUFFICES ASSUME TypeOK, StoredInv, RerunInv, [Next]_vars PROVE RerunInv'
  OBVIOUS
<1> USE DEF TypeOK, StoredInv, RerunInv, SuccessIsOwn, Fault, Goto, Answer, InFlight
<1>1. ASSUME NEW a \in Attempts, MissingKey(a) PROVE RerunInv'
  BY <1>1, ResponseKinds, SlotKept DEF MissingKey
<1>2. ASSUME NEW a \in Attempts, Start(a) PROVE RerunInv'
  BY <1>2, SlotKept DEF Start
<1>3. ASSUME NEW a \in Attempts, Replay(a) PROVE RerunInv'
  BY <1>3, ResponseKinds, SlotKept DEF Replay
<1>4. ASSUME NEW a \in Attempts, Miss(a) PROVE RerunInv'
  BY <1>4, SlotSame, SlotKept DEF Miss
<1>5. ASSUME NEW a \in Attempts, LookupFails(a) PROVE RerunInv'
  BY <1>5 DEF LookupFails
<1>6. ASSUME NEW a \in Attempts, HandlerCommits(a) PROVE RerunInv'
  BY <1>6, SlotKept DEF HandlerCommits
<1>7. ASSUME NEW a \in Attempts, HandlerFails(a) PROVE RerunInv'
  BY <1>7, ResponseKinds, SlotKept DEF HandlerFails
<1>8. ASSUME NEW a \in Attempts, HandlerReplyLost(a) PROVE RerunInv'
  BY <1>8, ResponseKinds, SlotKept DEF HandlerReplyLost
<1>9. ASSUME NEW a \in Attempts, Store(a) PROVE RerunInv'
  BY <1>9, ResponseKinds, SlotKept DEF Store, Keep
<1>10. ASSUME NEW a \in Attempts, StoreFails(a) PROVE RerunInv'
  BY <1>10 DEF StoreFails
<1>11. ASSUME NEW a \in Attempts, Crash(a) PROVE RerunInv'
  BY <1>11 DEF Crash
<1>12. ASSUME NEW a \in Attempts, CrashAfterStore(a) PROVE RerunInv'
  BY <1>12 DEF CrashAfterStore, Keep
<1>13. ASSUME NEW s \in Slots, Expire(s) PROVE RerunInv'
  BY <1>13 DEF Expire
<1>14. CASE UNCHANGED vars
  BY <1>14, SlotKept DEF vars
<1> QED
  BY <1>1, <1>2, <1>3, <1>4, <1>5, <1>6, <1>7, <1>8, <1>9, <1>10, <1>11, <1>12, <1>13, <1>14
  DEF Next, Proceed, Handle, Finished

\* Every step preserves that a sequential client executes once.
LEMMA SequentialStep == Sequential /\ TypeOK /\ StoredInv /\ SequentialInv /\ [Next]_vars =>
      SequentialInv'
<1> SUFFICES ASSUME Sequential, TypeOK, StoredInv, SequentialInv, [Next]_vars PROVE SequentialInv'
  OBVIOUS
<1> USE DEF TypeOK, Sequential, StoredInv, SequentialInv, AtMostOnce, Fault, Goto, Answer, InFlight
<1>1. ASSUME NEW a \in Attempts, MissingKey(a) PROVE SequentialInv'
  BY <1>1, SlotKept DEF MissingKey
<1>2. ASSUME NEW a \in Attempts, Start(a) PROVE SequentialInv'
  <2>1. InFlight = {}
    <3>1. IsFiniteSet(InFlight) /\ Cardinality(InFlight) \in Nat
      BY AttemptsAssumption, FS_Subset, FS_CardinalityType DEF InFlight
    <3>2. Cardinality(InFlight) = 0
      BY <1>2, <3>1 DEF Start, Sequential
    <3> QED
      BY <3>1, <3>2, FS_EmptySet
  <2>2. InFlight' = {a}
    BY <1>2, <2>1 DEF Start
  <2> QED
    BY <1>2, <2>1, <2>2, SlotKept DEF Start
<1>3. ASSUME NEW a \in Attempts, Replay(a) PROVE SequentialInv'
  BY <1>3, SlotKept DEF Replay
<1>4. ASSUME NEW a \in Attempts, Miss(a) PROVE SequentialInv'
  BY <1>4, SlotSame, SlotKept DEF Miss
<1>5. ASSUME NEW a \in Attempts, LookupFails(a) PROVE SequentialInv'
  BY <1>5 DEF LookupFails
<1>6. ASSUME NEW a \in Attempts, HandlerCommits(a) PROVE SequentialInv'
  BY <1>6, SlotSame, SlotKept DEF HandlerCommits
<1>7. ASSUME NEW a \in Attempts, HandlerFails(a) PROVE SequentialInv'
  BY <1>7, SlotKept DEF HandlerFails
<1>8. ASSUME NEW a \in Attempts, HandlerReplyLost(a) PROVE SequentialInv'
  BY <1>8 DEF HandlerReplyLost
<1>9. ASSUME NEW a \in Attempts, Store(a) PROVE SequentialInv'
  BY <1>9, ResponseKinds, SlotKept DEF Store, Keep
<1>10. ASSUME NEW a \in Attempts, StoreFails(a) PROVE SequentialInv'
  BY <1>10 DEF StoreFails
<1>11. ASSUME NEW a \in Attempts, Crash(a) PROVE SequentialInv'
  BY <1>11 DEF Crash
<1>12. ASSUME NEW a \in Attempts, CrashAfterStore(a) PROVE SequentialInv'
  BY <1>12 DEF CrashAfterStore, Keep
<1>13. ASSUME NEW s \in Slots, Expire(s) PROVE SequentialInv'
  BY <1>13 DEF Expire
<1>14. CASE UNCHANGED vars
  BY <1>14, SlotKept DEF vars
<1> QED
  BY <1>1, <1>2, <1>3, <1>4, <1>5, <1>6, <1>7, <1>8, <1>9, <1>10, <1>11, <1>12, <1>13, <1>14
  DEF Next, Proceed, Handle, Finished

\* A commit whose reply arrives is the only step that adds to what ran, and adds itself.
LEMMA RanStep ==
  ASSUME TypeOK, StoredInv, [Next]_vars
  PROVE  \/ \A s \in Slots : Ran(s)' = Ran(s)
         \/ \E a \in Attempts :
              /\ HandlerCommits(a)
              /\ \A s \in Slots : Ran(s)' = IF Slot(a) = s THEN Ran(s) \cup {a} ELSE Ran(s)
<1> USE SlotKept DEF TypeOK, StoredInv, Goto, Answer, Ran, InFlight
<1>1. ASSUME NEW a \in Attempts, MissingKey(a) PROVE \A s \in Slots : Ran(s)' = Ran(s)
  BY <1>1 DEF MissingKey
<1>2. ASSUME NEW a \in Attempts, Start(a) PROVE \A s \in Slots : Ran(s)' = Ran(s)
  BY <1>2 DEF Start
<1>3. ASSUME NEW a \in Attempts, Replay(a) PROVE \A s \in Slots : Ran(s)' = Ran(s)
  BY <1>3 DEF Replay
<1>4. ASSUME NEW a \in Attempts, Miss(a) \/ LookupFails(a)
      PROVE  \A s \in Slots : Ran(s)' = Ran(s)
  BY <1>4 DEF Miss, LookupFails
<1>5. ASSUME NEW a \in Attempts, HandlerCommits(a)
      PROVE  \A s \in Slots : Ran(s)' = IF Slot(a) = s THEN Ran(s) \cup {a} ELSE Ran(s)
  <2>1. response[a].status # 500
    BY <1>5, ResponseKinds DEF HandlerCommits
  <2> QED
    BY <1>5, <2>1 DEF HandlerCommits
<1>6. ASSUME NEW a \in Attempts, HandlerFails(a) PROVE \A s \in Slots : Ran(s)' = Ran(s)
  BY <1>6 DEF HandlerFails
<1>7. ASSUME NEW a \in Attempts, HandlerReplyLost(a) PROVE \A s \in Slots : Ran(s)' = Ran(s)
  BY <1>7, ResponseKinds DEF HandlerReplyLost
<1>8. ASSUME NEW a \in Attempts, Store(a) \/ StoreFails(a)
      PROVE  \A s \in Slots : Ran(s)' = Ran(s)
  <2>1. response[a].status # 500 /\ response'[a].status # 500
    BY <1>8, ResponseKinds DEF Store, StoreFails
  <2>2. executed' = executed
    BY <1>8 DEF Store, StoreFails
  <2>3. \A b \in Attempts : b # a => response'[b] = response[b]
    BY <1>8 DEF Store, StoreFails
  <2>4. executed \subseteq Attempts /\ \A b \in Attempts : Slot(b)' = Slot(b)
    BY <1>8, SlotKept DEF Store, StoreFails
  <2> HIDE DEF TypeOK, StoredInv, Goto, Answer, InFlight
  <2> QED
    BY <2>1, <2>2, <2>3, <2>4
<1>9. ASSUME NEW a \in Attempts, Crash(a) \/ CrashAfterStore(a)
      PROVE  \A s \in Slots : Ran(s)' = Ran(s)
  BY <1>9 DEF Crash, CrashAfterStore
<1>10. ASSUME NEW t \in Slots, Expire(t) PROVE \A s \in Slots : Ran(s)' = Ran(s)
  BY <1>10 DEF Expire
<1>11. CASE UNCHANGED vars
  BY <1>11 DEF vars
<1> HIDE DEF Ran
<1> QED
  BY <1>1, <1>2, <1>3, <1>4, <1>5, <1>6, <1>7, <1>8, <1>9, <1>10, <1>11
  DEF Next, Proceed, Handle, Finished

\* Who is in flight is a finite set, and never more than MaxInFlight.
LEMMA FlightStep ==
  ASSUME TypeOK, Cardinality(InFlight) <= MaxInFlight, [Next]_vars
  PROVE  Cardinality(InFlight') <= MaxInFlight
<1>0. IsFiniteSet(InFlight) /\ Cardinality(InFlight) \in Nat /\ MaxInFlight \in Nat
  BY AttemptsAssumption, BoundsAssumption, FS_Subset, FS_CardinalityType DEF InFlight
<1>1. ASSUME InFlight' \subseteq InFlight PROVE Cardinality(InFlight') <= MaxInFlight
  <2>1. Cardinality(InFlight') \in Nat /\ Cardinality(InFlight') <= Cardinality(InFlight)
    BY <1>0, <1>1, FS_Subset, FS_CardinalityType
  <2> QED
    BY <1>0, <2>1
<1>2. ASSUME NEW a \in Attempts, Start(a) PROVE Cardinality(InFlight') <= MaxInFlight
  <2>1. InFlight' = InFlight \cup {a} /\ Cardinality(InFlight) < MaxInFlight
    BY <1>2 DEF Start, Goto, InFlight, TypeOK
  <2>2. \/ Cardinality(InFlight \cup {a}) = Cardinality(InFlight)
        \/ Cardinality(InFlight \cup {a}) = Cardinality(InFlight) + 1
    BY <1>0, FS_AddElement
  <2> QED
    BY <1>0, <2>1, <2>2
<1> USE DEF TypeOK, InFlight, Goto, Answer
<1>3. ASSUME NEW a \in Attempts,
             \/ MissingKey(a) \/ Replay(a) \/ Miss(a) \/ LookupFails(a) \/ HandlerCommits(a)
             \/ HandlerFails(a) \/ HandlerReplyLost(a) \/ Store(a) \/ StoreFails(a)
             \/ Crash(a) \/ CrashAfterStore(a)
      PROVE  InFlight' \subseteq InFlight
  BY <1>3 DEF MissingKey, Replay, Miss, LookupFails, HandlerCommits, HandlerFails,
    HandlerReplyLost, Store, StoreFails, Crash, CrashAfterStore
<1>4. ASSUME NEW s \in Slots, Expire(s) PROVE InFlight' \subseteq InFlight
  BY <1>4 DEF Expire
<1>5. CASE UNCHANGED vars
  BY <1>5 DEF vars
<1> QED
  BY <1>1, <1>2, <1>3, <1>4, <1>5 DEF Next, Proceed, Handle, Finished

\* A step that leaves what got past SET and what may run as it was, or gives each at
\* most one attempt more, for a failure.
Paid ==
  /\ expired' = expired
  /\ \A s \in Slots : cache'[s] = Missing => cache[s] = Missing
  /\ \/ /\ faults' = faults
        /\ \A s \in Slots : /\ MayRun(s)' \subseteq MayRun(s)
                            /\ cache'[s] = Missing => Over(s)' \subseteq Over(s)
     \/ /\ faults' = faults + 1
        /\ \E a \in Attempts : \A s \in Slots :
             /\ MayRun(s)' \subseteq MayRun(s) \cup {a}
             /\ cache'[s] = Missing => Over(s)' \subseteq Over(s) \cup {a}

\* Every step is of that kind, begins a handler after a miss, or lets a result expire.
LEMMA StepPaid ==
  ASSUME TypeOK, StoredInv, [Next]_vars
  PROVE  Paid \/ (\E a \in Attempts : Miss(a)) \/ expired'
<1>1. (\E a \in Attempts : HandlerCommits(a)) \/ \A s \in Slots : Ran(s)' = Ran(s)
  BY RanStep
<1>2. \A s \in Slots : Ran(s) \subseteq executed /\ \A b \in Ran(s) : Slot(b) = s
  BY DEF Ran
<1>3. \A b \in executed : b \in Attempts /\ pc[b] \in {"store", "done", "dead"}
  BY DEF StoredInv, TypeOK
<1> USE SlotKept DEF TypeOK, Goto, Answer, Fault, Paid, Over, MayRun
<1>4. ASSUME NEW a \in Attempts, MissingKey(a) \/ Start(a) \/ Replay(a),
             \A s \in Slots : Ran(s)' = Ran(s)
      PROVE  Paid
  BY <1>2, <1>3, <1>4 DEF MissingKey, Start, Replay
<1>5. ASSUME NEW a \in Attempts, LookupFails(a), \A s \in Slots : Ran(s)' = Ran(s) PROVE Paid
  BY <1>2, <1>3, <1>5 DEF LookupFails
<1>6. ASSUME NEW a \in Attempts, HandlerFails(a) \/ HandlerReplyLost(a),
             \A s \in Slots : Ran(s)' = Ran(s)
      PROVE  Paid
  BY <1>2, <1>3, <1>6 DEF HandlerFails, HandlerReplyLost
<1>7. ASSUME NEW a \in Attempts, Store(a), \A s \in Slots : Ran(s)' = Ran(s) PROVE Paid
  BY <1>2, <1>3, <1>7, ResponseKinds DEF Store, Keep, StoredInv
<1>8. ASSUME NEW a \in Attempts, StoreFails(a) \/ Crash(a), \A s \in Slots : Ran(s)' = Ran(s)
      PROVE  Paid
  BY <1>2, <1>3, <1>8 DEF StoreFails, Crash
<1>9. ASSUME NEW a \in Attempts, CrashAfterStore(a), \A s \in Slots : Ran(s)' = Ran(s)
      PROVE  Paid
  BY <1>2, <1>3, <1>9, ResponseKinds DEF CrashAfterStore, Keep, StoredInv
<1>10. ASSUME NEW a \in Attempts, HandlerCommits(a) PROVE Paid
  <2>1. PICK b \in Attempts : \/ \A s \in Slots : Ran(s)' = Ran(s)
                              \/ /\ HandlerCommits(b)
                                 /\ \A s \in Slots :
                                      Ran(s)' = IF Slot(b) = s THEN Ran(s) \cup {b} ELSE Ran(s)
    BY RanStep, <1>10
  <2>2. HandlerCommits(b) => b = a
    BY <1>10 DEF HandlerCommits
  <2> QED
    BY <1>2, <1>3, <1>10, <2>1, <2>2 DEF HandlerCommits
<1>11. ASSUME NEW s \in Slots, Expire(s) PROVE expired'
  BY <1>11 DEF Expire
<1>12. CASE UNCHANGED vars
  <2>1. \A s \in Slots : Ran(s)' = Ran(s)
    BY <1>12 DEF vars, Ran
  <2> QED
    BY <1>12, <2>1 DEF vars
<1> QED
  BY <1>1, <1>4, <1>5, <1>6, <1>7, <1>8, <1>9, <1>10, <1>11, <1>12
  DEF Next, Proceed, Handle, Finished

\* A part of a finite set, or of one with one member more, is no larger.
LEMMA NoLarger ==
  ASSUME NEW S, IsFiniteSet(S), NEW T, NEW a
  PROVE  /\ Cardinality(S) \in Nat
         /\ T \subseteq S =>
              IsFiniteSet(T) /\ Cardinality(T) \in Nat /\ Cardinality(T) <= Cardinality(S)
         /\ T \subseteq S \cup {a} =>
              IsFiniteSet(T) /\ Cardinality(T) \in Nat /\ Cardinality(T) <= Cardinality(S) + 1
<1>1. Cardinality(S) \in Nat
  BY FS_CardinalityType
<1>2. /\ IsFiniteSet(S \cup {a})
      /\ Cardinality(S \cup {a}) \in {Cardinality(S), Cardinality(S) + 1}
  BY FS_AddElement
<1>3. ASSUME T \subseteq S
      PROVE  IsFiniteSet(T) /\ Cardinality(T) \in Nat /\ Cardinality(T) <= Cardinality(S)
  BY <1>3, FS_Subset, FS_CardinalityType
<1>4. ASSUME T \subseteq S \cup {a}
      PROVE  IsFiniteSet(T) /\ Cardinality(T) \in Nat /\ Cardinality(T) <= Cardinality(S) + 1
  <2>1. IsFiniteSet(T) /\ Cardinality(T) \in Nat /\ Cardinality(T) <= Cardinality(S \cup {a})
    BY <1>2, <1>4, FS_Subset, FS_CardinalityType
  <2> QED
    BY <1>1, <1>2, <2>1
<1> QED
  BY <1>1, <1>3, <1>4

\* What got past SET and what may run are finite sets.
LEMMA AccountsFinite ==
  ASSUME TypeOK, NEW s
  PROVE  IsFiniteSet(Over(s)) /\ IsFiniteSet(MayRun(s)) /\ IsFiniteSet(InFlight)
<1>1. Over(s) \subseteq Attempts /\ MayRun(s) \subseteq Attempts /\ InFlight \subseteq Attempts
  BY DEF Over, MayRun, Ran, InFlight, TypeOK
<1> QED
  BY <1>1, AttemptsAssumption, FS_Subset

\* Every step preserves that executions are paid for.
LEMMA AccountedStep ==
  TypeOK /\ StoredInv /\ AccountedInv /\ [Next]_vars => AccountedInv'
<1> SUFFICES ASSUME TypeOK, StoredInv, AccountedInv, [Next]_vars PROVE AccountedInv'
  OBVIOUS
<1>0. Cardinality(InFlight') <= MaxInFlight
  BY FlightStep DEF AccountedInv
<1>t. MaxInFlight \in Nat /\ faults \in Nat
  BY BoundsAssumption DEF TypeOK
<1>1. CASE expired'
  BY <1>0, <1>1 DEF AccountedInv
<1>2. ASSUME Paid, NEW s \in Slots, ~expired'
      PROVE  /\ cache'[s] = Missing => Cardinality(Over(s)') <= faults'
             /\ Cardinality(MayRun(s)') <= MaxInFlight + faults'
  <2>1. /\ cache[s] = Missing => Cardinality(Over(s)) <= faults
        /\ Cardinality(MayRun(s)) <= MaxInFlight + faults
        /\ cache'[s] = Missing => cache[s] = Missing
    BY <1>2 DEF Paid, AccountedInv
  <2>2. IsFiniteSet(Over(s)) /\ IsFiniteSet(MayRun(s))
    BY AccountsFinite
  <2>3. CASE /\ faults' = faults
             /\ MayRun(s)' \subseteq MayRun(s)
             /\ cache'[s] = Missing => Over(s)' \subseteq Over(s)
    <3>1. /\ Cardinality(MayRun(s)) \in Nat /\ Cardinality(MayRun(s)') \in Nat
          /\ Cardinality(MayRun(s)') <= Cardinality(MayRun(s))
      BY <2>2, <2>3, NoLarger
    <3>2. cache'[s] = Missing =>
            /\ Cardinality(Over(s)) \in Nat /\ Cardinality(Over(s)') \in Nat
            /\ Cardinality(Over(s)') <= Cardinality(Over(s))
      BY <2>2, <2>3, NoLarger
    <3> QED
      BY <1>t, <2>1, <2>3, <3>1, <3>2
  <2>4. ASSUME NEW a \in Attempts, faults' = faults + 1,
               MayRun(s)' \subseteq MayRun(s) \cup {a},
               cache'[s] = Missing => Over(s)' \subseteq Over(s) \cup {a}
        PROVE  /\ cache'[s] = Missing => Cardinality(Over(s)') <= faults'
               /\ Cardinality(MayRun(s)') <= MaxInFlight + faults'
    <3>1. /\ Cardinality(MayRun(s)) \in Nat /\ Cardinality(MayRun(s)') \in Nat
          /\ Cardinality(MayRun(s)') <= Cardinality(MayRun(s)) + 1
      BY <2>2, <2>4, NoLarger
    <3>2. cache'[s] = Missing =>
            /\ Cardinality(Over(s)) \in Nat /\ Cardinality(Over(s)') \in Nat
            /\ Cardinality(Over(s)') <= Cardinality(Over(s)) + 1
      BY <2>2, <2>4, NoLarger
    <3> QED
      BY <1>t, <2>1, <2>4, <3>1, <3>2
  <2> QED
    BY <1>2, <2>3, <2>4 DEF Paid
<1>3. ASSUME NEW a \in Attempts, Miss(a), NEW s \in Slots, ~expired'
      PROVE  /\ cache'[s] = Missing => Cardinality(Over(s)') <= faults'
             /\ Cardinality(MayRun(s)') <= MaxInFlight + faults'
  <2>1. /\ UNCHANGED <<executed, request, response, cache, faults, expired>>
        /\ pc' = [pc EXCEPT ![a] = "handle"] /\ pc[a] = "lookup" /\ cache[Slot(a)] = Missing
        /\ a \in InFlight /\ Slot(a)' = Slot(a)
    BY <1>3, SlotKept DEF Miss, Goto, InFlight
  <2>2. /\ Ran(s)' = Ran(s)
        /\ \A b \in Ran(s) : b \in Attempts /\ pc[b] \in {"store", "done", "dead"}
    BY <2>1, SlotKept DEF Ran, StoredInv, TypeOK
  <2>3. /\ cache[s] = Missing => Cardinality(Over(s)) <= faults
        /\ Cardinality(MayRun(s)) <= MaxInFlight + faults
        /\ Cardinality(InFlight) <= MaxInFlight
    BY <1>3, <2>1 DEF AccountedInv
  <2>4. Over(s)' = Over(s)
    BY <2>1, <2>2 DEF Over, TypeOK
  <2>5. IsFiniteSet(Over(s)) /\ IsFiniteSet(MayRun(s)) /\ IsFiniteSet(InFlight)
    BY AccountsFinite
  <2>6. CASE Slot(a) # s
    <3>1. MayRun(s)' = MayRun(s)
      BY <2>1, <2>2, <2>6, SlotKept DEF MayRun, TypeOK
    <3> QED
      BY <2>1, <2>3, <2>4, <3>1
  <2>7. CASE Slot(a) = s
    <3>1. MayRun(s)' \subseteq Over(s) \cup InFlight
      BY <2>1, <2>2, <2>7 DEF MayRun, Over, InFlight, TypeOK
    <3>2. /\ IsFiniteSet(Over(s) \cup InFlight)
          /\ Cardinality(Over(s) \cup InFlight)
               = Cardinality(Over(s)) + Cardinality(InFlight) - Cardinality(Over(s) \cap InFlight)
      BY <2>5, FS_Union
    <3>3. /\ Cardinality(Over(s)) \in Nat /\ Cardinality(InFlight) \in Nat
          /\ Cardinality(Over(s) \cap InFlight) \in Nat
      BY <2>5, FS_Intersection, FS_CardinalityType
    <3>4. /\ Cardinality(MayRun(s)') \in Nat
          /\ Cardinality(MayRun(s)') <= Cardinality(Over(s) \cup InFlight)
      BY <3>1, <3>2, NoLarger
    <3>5. Cardinality(Over(s)) <= faults /\ faults' = faults
      BY <2>1, <2>3, <2>7
    <3> QED
      BY <1>t, <2>3, <2>4, <3>2, <3>3, <3>4, <3>5
  <2> QED
    BY <2>6, <2>7
<1>4. ASSUME NEW s \in Slots, ~expired'
      PROVE  /\ cache'[s] = Missing => Cardinality(Over(s)') <= faults'
             /\ Cardinality(MayRun(s)') <= MaxInFlight + faults'
  BY <1>2, <1>3, <1>4, StepPaid
<1> QED
  BY <1>0, <1>1, <1>4 DEF AccountedInv

-----------------------------------------------------------------------------
\* The initial state satisfies every part of the invariant.
LEMMA InitInv == Init => TypeOK /\ StoredInv /\ ReplayInv /\ RerunInv /\ SequentialInv
<1> SUFFICES ASSUME Init
             PROVE  TypeOK /\ StoredInv /\ ReplayInv /\ RerunInv /\ SequentialInv
  OBVIOUS
<1> USE DEF Init
<1>1. \A a \in Attempts : response[a].status = 0
  BY ResponseKinds
<1>2. TypeOK
  BY DEF TypeOK
<1>3. StoredInv /\ ReplayInv /\ RerunInv
  BY <1>1 DEF StoredInv, SuccessIsOwn, ReplayInv, Replayed, RerunInv, InFlight
<1>4. SequentialInv
  BY DEF SequentialInv, InFlight, AtMostOnce
<1> QED
  BY <1>2, <1>3, <1>4

\* The parts hold together in every reachable state.
THEOREM Invariance == Spec => [](TypeOK /\ StoredInv /\ ReplayInv /\ RerunInv)
<1>1. TypeOK /\ StoredInv /\ ReplayInv /\ RerunInv /\ [Next]_vars
        => (TypeOK /\ StoredInv /\ ReplayInv /\ RerunInv)'
  BY TypeStep, StoredStep, ReplayStep, RerunStep
<1> QED
  BY InitInv, <1>1, PTL DEF Spec

\* Only results are stored and answered: an error of one attempt never becomes the
\* stored response of an operation.
THEOREM TypeCorrect == Spec => []TypeOK
  BY Invariance, PTL

\* A success reports a committed execution of the same user's operation.
THEOREM SuccessesOwn == Spec => []SuccessIsOwn
<1>1. StoredInv => SuccessIsOwn
  BY DEF StoredInv
<1> QED
  BY Invariance, <1>1, PTL

\* While nothing expires, all replays of an operation agree.
THEOREM ReplaysConsistent == Spec => []ReplaysAgree
<1>1. TypeOK /\ ReplayInv => ReplaysAgree
  BY SlotSame DEF ReplayInv, ReplaysAgree
<1> QED
  BY Invariance, <1>1, PTL

\* With a dependable Redis, what was answered with success is not run again.
THEOREM AnsweredOnce == Spec => []AnsweredNotRerun
<1>1. TypeOK /\ RerunInv => AnsweredNotRerun
  BY DEF TypeOK, RerunInv, AnsweredNotRerun
<1> QED
  BY Invariance, <1>1, PTL

\* A client that has one attempt in flight at a time, on services that never
\* fail, executes each operation at most once.
THEOREM SequentialOnce == ASSUME Sequential PROVE Spec => []AtMostOnce
<1>1. TypeOK /\ StoredInv /\ SequentialInv /\ [Next]_vars => SequentialInv'
  BY SequentialStep
<1>2. SequentialInv => AtMostOnce
  BY DEF SequentialInv
<1> QED
  BY InitInv, Invariance, <1>1, <1>2, PTL DEF Spec

\* However many attempts are in flight and whatever fails: an operation is executed at
\* most as often as that many race, and once more for each failure.
THEOREM RerunsArePaidFor == Spec => []RerunsAccounted
<1>1. Init => AccountedInv
  <2> SUFFICES ASSUME Init PROVE AccountedInv
    OBVIOUS
  <2>1. InFlight = {} /\ \A s \in Slots : Over(s) = {} /\ MayRun(s) = {}
    BY DEF Init, InFlight, Over, MayRun, Ran
  <2>2. /\ Cardinality(InFlight) = 0
        /\ \A s \in Slots : Cardinality(Over(s)) = 0 /\ Cardinality(MayRun(s)) = 0
    BY <2>1, FS_EmptySet
  <2>3. faults = 0 /\ 0 <= MaxInFlight /\ 0 <= MaxInFlight + faults
    BY BoundsAssumption DEF Init
  <2> QED
    BY <2>2, <2>3 DEF AccountedInv
<1>2. TypeOK /\ StoredInv /\ AccountedInv /\ [Next]_vars => AccountedInv'
  BY AccountedStep
<1>3. TypeOK /\ AccountedInv => RerunsAccounted
  <2> SUFFICES ASSUME TypeOK, AccountedInv, ~expired, NEW s \in Slots
               PROVE  Cardinality(Ran(s)) <= MaxInFlight + faults
    BY DEF RerunsAccounted
  <2>1. Ran(s) \subseteq MayRun(s) /\ IsFiniteSet(MayRun(s))
    BY AccountsFinite DEF MayRun
  <2>2. /\ Cardinality(Ran(s)) \in Nat /\ Cardinality(MayRun(s)) \in Nat
        /\ Cardinality(Ran(s)) <= Cardinality(MayRun(s))
    BY <2>1, NoLarger
  <2>3. Cardinality(MayRun(s)) <= MaxInFlight + faults
    BY DEF AccountedInv
  <2> QED
    BY <2>2, <2>3, BoundsAssumption DEF TypeOK
<1> QED
  BY Invariance, <1>1, <1>2, <1>3, PTL DEF Spec

=============================================================================
