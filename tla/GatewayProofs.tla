--------------------------- MODULE GatewayProofs ---------------------------
(***************************************************************************)
(* Proofs about RateLimiter and RateWindow, for any number of requests,    *)
(* limit and durations, and about Gateway: the limiter keeps its           *)
(* guarantees in front of the guard, and no bad token gets past it.        *)
(***************************************************************************)
EXTENDS Gateway, FiniteSetTheorems, TLAPS

-----------------------------------------------------------------------------
\* The limiter

\* Sets of requests are finite.
LEMMA HitSets ==
  ASSUME NEW S \in SUBSET Hits
  PROVE  IsFiniteSet(S) /\ Cardinality(S) \in Nat
  BY HitsAssumption, FS_Subset, FS_CardinalityType

\* Types are preserved.
LEMMA TypeStep == TypeOK /\ [Next]_vars => TypeOK'
<1> SUFFICES ASSUME TypeOK, [Next]_vars PROVE TypeOK'
  OBVIOUS
<1> USE LimitsAssumption DEF TypeOK, Forever, Goto, Answer, Incr, Expire, NewTtl, Verdict
<1>1. ASSUME NEW h \in Hits, Increment(h) PROVE TypeOK'
  BY <1>1 DEF Increment
<1>2. ASSUME NEW h \in Hits, IncrementFails(h) PROVE TypeOK'
  BY <1>2 DEF IncrementFails
<1>3. ASSUME NEW h \in Hits, IncrementReplyLost(h) PROVE TypeOK'
  BY <1>3 DEF IncrementReplyLost
<1>4. ASSUME NEW h \in Hits, SetExpiry(h) PROVE TypeOK'
  BY <1>4 DEF SetExpiry
<1>5. ASSUME NEW h \in Hits, SetExpiryFails(h) PROVE TypeOK'
  BY <1>5 DEF SetExpiryFails
<1>6. ASSUME NEW h \in Hits, SetExpiryReplyLost(h) PROVE TypeOK'
  BY <1>6 DEF SetExpiryReplyLost
<1>7. ASSUME NEW h \in Hits, Crash(h) PROVE TypeOK'
  BY <1>7 DEF Crash
<1>8. CASE Tick
  BY <1>8 DEF Tick
<1>9. CASE UNCHANGED vars
  BY <1>9 DEF vars
<1> QED
  BY <1>1, <1>2, <1>3, <1>4, <1>5, <1>6, <1>7, <1>8, <1>9 DEF Next, Request, Finished

\* INCR makes the key count one more request of its life, or begins one.
LEMMA IncrCounts ==
  ASSUME TypeOK, CountInv, NEW h \in Hits, pc[h] = "idle", Incr(h)
  PROVE  /\ count' > 0 /\ life' > 0 /\ count' = Cardinality(CountedIn(life)')
         /\ \A l \in Nat \ {0} : /\ Cardinality(CountedIn(l)) \in Nat
                                 /\ Cardinality(CountedIn(l)') \in Nat
                                 /\ Cardinality(CountedIn(l)) <= Cardinality(CountedIn(l)')
         /\ counted'[h] = life'
         /\ \A g \in Hits \ {h} :
              /\ counted'[g] = counted[g]
              /\ seen[g] > 0 /\ counted[g] = life' => seen[g] < count'
<1> USE DEF TypeOK, CountInv, Incr
<1>1. counted[h] = 0 /\ counted'[h] = life'
  OBVIOUS
<1>2. \A g \in Hits \ {h} : counted'[g] = counted[g] /\ counted[g] \in 0..life
  OBVIOUS
<1>3. ASSUME NEW l \in Nat \ {0}
      PROVE  /\ Cardinality(CountedIn(l)) \in Nat
             /\ Cardinality(CountedIn(l)') \in Nat
             /\ Cardinality(CountedIn(l)) <= Cardinality(CountedIn(l)')
  <2>1. CountedIn(l) \subseteq CountedIn(l)'
    BY <1>1, <1>2 DEF CountedIn
  <2>2. CountedIn(l) \in SUBSET Hits /\ CountedIn(l)' \in SUBSET Hits
    BY DEF CountedIn
  <2> QED
    BY <2>1, <2>2, HitSets, FS_Subset
<1>4. CASE count = 0
  <2>1. count' = 1 /\ life' = life + 1
    BY <1>4
  <2>2. CountedIn(life)' = {h}
    BY <1>1, <1>2, <2>1 DEF CountedIn
  <2>3. Cardinality({h}) = 1
    BY FS_Singleton
  <2> QED
    BY <1>1, <1>2, <1>3, <2>1, <2>2, <2>3
<1>5. CASE count > 0
  <2>1. count' = count + 1 /\ life' = life /\ life > 0
    BY <1>5
  <2>2. CountedIn(life)' = CountedIn(life) \cup {h} /\ h \notin CountedIn(life)
    BY <1>1, <1>2, <2>1 DEF CountedIn
  <2>3. Cardinality(CountedIn(life)') = Cardinality(CountedIn(life)) + 1
    <3>1. IsFiniteSet(CountedIn(life))
      BY HitSets DEF CountedIn
    <3> QED
      BY <2>2, <3>1, FS_AddElement
  <2> QED
    BY <1>1, <1>2, <1>3, <1>5, <2>1, <2>3
<1> QED
  BY <1>4, <1>5

\* Counting is preserved.
LEMMA CountStep == TypeOK /\ CountInv /\ [Next]_vars => CountInv'
<1> SUFFICES ASSUME TypeOK, CountInv, [Next]_vars PROVE CountInv'
  OBVIOUS
<1> USE LimitsAssumption DEF TypeOK, CountInv, Goto, Answer, Verdict
<1>1. ASSUME NEW h \in Hits, Increment(h) PROVE CountInv'
  <2>1. pc[h] = "idle" /\ Incr(h)
    BY <1>1 DEF Increment
  <2>2. count' \in Nat
    BY <2>1 DEF Incr
  <2>3. seen'[h] = count' /\ \A g \in Hits \ {h} : seen'[g] = seen[g]
    BY <1>1 DEF Increment
  <2>4. /\ \A g \in Hits \ {h} : pc'[g] = pc[g] /\ answer'[g] = answer[g]
        /\ \/ pc'[h] = "expire" /\ answer'[h] = "none"
           \/ pc'[h] = "done" /\ answer'[h] = Verdict(count')
    BY <1>1 DEF Increment
  <2>5. \A g \in Hits : seen'[g] > 0 =>
          /\ counted'[g] > 0
          /\ seen'[g] <= Cardinality(CountedIn(counted[g])')
          /\ counted'[g] = life' => seen'[g] <= count'
    BY <2>1, <2>2, <2>3, IncrCounts
  <2> QED
    BY <2>1, <2>2, <2>3, <2>4, <2>5, IncrCounts
<1>2. ASSUME NEW h \in Hits, IncrementFails(h) PROVE CountInv'
  BY <1>2 DEF IncrementFails, CountedIn
<1>3. ASSUME NEW h \in Hits, IncrementReplyLost(h) PROVE CountInv'
  <2>1. pc[h] = "idle" /\ Incr(h) /\ UNCHANGED seen
    BY <1>3 DEF IncrementReplyLost
  <2>2. \A g \in Hits : seen'[g] > 0 =>
          /\ counted'[g] > 0
          /\ seen'[g] <= Cardinality(CountedIn(counted[g])')
          /\ counted'[g] = life' => seen'[g] <= count'
    BY <2>1, IncrCounts
  <2> QED
    BY <1>3, <2>1, <2>2, IncrCounts DEF IncrementReplyLost
<1>4. ASSUME NEW h \in Hits, SetExpiry(h) PROVE CountInv'
  BY <1>4 DEF SetExpiry, CountedIn
<1>5. ASSUME NEW h \in Hits, SetExpiryFails(h) PROVE CountInv'
  BY <1>5 DEF SetExpiryFails, CountedIn
<1>6. ASSUME NEW h \in Hits, SetExpiryReplyLost(h) PROVE CountInv'
  BY <1>6 DEF SetExpiryReplyLost, CountedIn
<1>7. ASSUME NEW h \in Hits, Crash(h) PROVE CountInv'
  BY <1>7 DEF Crash, CountedIn
<1>8. CASE Tick
  <2>1. UNCHANGED <<life, pc, seen, counted, answer>> /\ count' \in {0, count}
    BY <1>8 DEF Tick
  <2>2. \A l : CountedIn(l)' = CountedIn(l)
    BY <2>1 DEF CountedIn
  <2> QED
    BY <2>1, <2>2
<1>9. CASE UNCHANGED vars
  BY <1>9 DEF vars, CountedIn
<1> QED
  BY <1>1, <1>2, <1>3, <1>4, <1>5, <1>6, <1>7, <1>8, <1>9 DEF Next, Request, Finished

\* A request that joins those owing an EXPIRE adds one to them, one that leaves them
\* takes one away at most.
LEMMA OwingSizes ==
  /\ Owing \in SUBSET Hits /\ Owing' \in SUBSET Hits
  /\ Cardinality(Owing) \in Nat /\ Cardinality(Owing') \in Nat
  /\ Owing \subseteq Owing' => Cardinality(Owing) <= Cardinality(Owing')
  /\ \A h : h \notin Owing /\ h \in Owing' /\ Owing \subseteq Owing' =>
       Cardinality(Owing) + 1 <= Cardinality(Owing')
  /\ \A h : Owing \ {h} \subseteq Owing' => Cardinality(Owing) <= Cardinality(Owing') + 1
<1>1. Owing \in SUBSET Hits /\ Owing' \in SUBSET Hits
  BY DEF Owing, CountedIn
<1>2. /\ IsFiniteSet(Owing) /\ IsFiniteSet(Owing')
      /\ Cardinality(Owing) \in Nat /\ Cardinality(Owing') \in Nat
  BY <1>1, HitSets
<1>3. Owing \subseteq Owing' => Cardinality(Owing) <= Cardinality(Owing')
  BY <1>2, FS_Subset
<1>4. ASSUME NEW h, h \notin Owing, h \in Owing', Owing \subseteq Owing'
      PROVE  Cardinality(Owing) + 1 <= Cardinality(Owing')
  <2>1. Cardinality(Owing \cup {h}) = Cardinality(Owing) + 1
    BY <1>2, <1>4, FS_AddElement
  <2>2. Owing \cup {h} \subseteq Owing'
    BY <1>4
  <2> QED
    BY <1>2, <2>1, <2>2, FS_Subset
<1>5. ASSUME NEW h, Owing \ {h} \subseteq Owing'
      PROVE  Cardinality(Owing) <= Cardinality(Owing') + 1
  <2>1. Cardinality(Owing) <= Cardinality(Owing \ {h}) + 1
    BY <1>2, FS_RemoveElement
  <2>2. Cardinality(Owing \ {h}) <= Cardinality(Owing')
    BY <1>2, <1>5, FS_Subset
  <2>3. Cardinality(Owing \ {h}) \in Nat
    BY <1>1, HitSets
  <2> QED
    BY <1>2, <2>1, <2>2, <2>3
<1> QED
  BY <1>1, <1>2, <1>3, <1>4, <1>5

\* The EXPIREs owed are preserved.
LEMMA OwingStep == TypeOK /\ CountInv /\ OwingInv /\ [Next]_vars => OwingInv'
<1> SUFFICES ASSUME TypeOK, CountInv, OwingInv, [Next]_vars, left' = Forever
             PROVE  /\ Cardinality(Owing') + lost' >= 1
                    /\ count' > Limit => Cardinality(Owing') + lost' >= 2
  BY DEF OwingInv
<1> USE LimitsAssumption DEF TypeOK, OwingInv, Forever
<1>1. ASSUME NEW h \in Hits, pc[h] = "idle", Incr(h),
             \/ h \in Owing' /\ lost' = lost
             \/ lost' = lost + 1
             \/ ~SetsExpiry(count') /\ lost' = lost,
             \A g \in Hits \ {h} : pc'[g] = pc[g]
      PROVE  /\ Cardinality(Owing') + lost' >= 1
             /\ count' > Limit => Cardinality(Owing') + lost' >= 2
  <2>1. h \notin Owing
    BY <1>1 DEF Owing
  <2>2. CASE count = 0
    <3>1. count' = 1
      BY <1>1, <2>2 DEF Incr
    <3>2. h \in Owing' => Cardinality(Owing') >= 1
      BY OwingSizes, FS_EmptySet, HitSets
    <3> QED
      BY <1>1, <2>2, <3>1, <3>2, OwingSizes DEF SetsExpiry
  <2>3. CASE count > 0
    <3>1. count' = count + 1 /\ life' = life /\ left = Forever
      BY <1>1, <2>3 DEF Incr
    <3>2. Owing \subseteq Owing'
      BY <1>1, <2>1, <3>1 DEF Owing, CountedIn, Incr
    <3>3. Cardinality(Owing) <= Cardinality(Owing')
      BY <3>2, OwingSizes
    <3>4. h \in Owing' => Cardinality(Owing) + 1 <= Cardinality(Owing')
      BY <2>1, <3>2, OwingSizes
    <3>5. ~SetsExpiry(count') /\ count' > Limit => count > Limit
      BY <3>1 DEF SetsExpiry
    <3> QED
      BY <1>1, <3>1, <3>3, <3>4, <3>5, OwingSizes
  <2> QED
    BY <2>2, <2>3
<1>2. ASSUME NEW h \in Hits, Increment(h)
      PROVE  /\ Cardinality(Owing') + lost' >= 1
             /\ count' > Limit => Cardinality(Owing') + lost' >= 2
  <2>1. SetsExpiry(count') => h \in Owing'
    BY <1>2 DEF Increment, Goto, Incr, Owing, CountedIn
  <2>2. /\ pc[h] = "idle" /\ Incr(h) /\ lost' = lost
        /\ \A g \in Hits \ {h} : pc'[g] = pc[g]
    BY <1>2 DEF Increment, Goto, Answer
  <2> QED
    BY <1>1, <2>1, <2>2
<1>3. ASSUME NEW h \in Hits, IncrementReplyLost(h)
      PROVE  /\ Cardinality(Owing') + lost' >= 1
             /\ count' > Limit => Cardinality(Owing') + lost' >= 2
  BY <1>1, <1>3 DEF IncrementReplyLost, Goto, Answer
<1>4. ASSUME NEW h \in Hits, SetExpiryFails(h) \/ Crash(h)
      PROVE  /\ Cardinality(Owing') + lost' >= 1
             /\ count' > Limit => Cardinality(Owing') + lost' >= 2
  <2>1. lost' = lost + 1 /\ UNCHANGED <<count, left, life, counted>>
    BY <1>4 DEF SetExpiryFails, Crash
  <2>2. Owing \ {h} \subseteq Owing'
    BY <1>4, <2>1 DEF SetExpiryFails, Crash, Goto, Answer, Owing, CountedIn
  <2>3. /\ Cardinality(Owing) <= Cardinality(Owing') + 1
        /\ Cardinality(Owing) \in Nat /\ Cardinality(Owing') \in Nat
    BY <2>2, OwingSizes
  <2> QED
    BY <2>1, <2>3
<1>5. ASSUME NEW h \in Hits, SetExpiry(h) \/ SetExpiryReplyLost(h)
      PROVE  FALSE
  BY <1>5 DEF SetExpiry, SetExpiryReplyLost, Expire, NewTtl
<1>6. ASSUME NEW h \in Hits, IncrementFails(h)
      PROVE  UNCHANGED <<count, left, lost>> /\ Owing \subseteq Owing'
  BY <1>6 DEF IncrementFails, Answer, Goto, Owing, CountedIn
<1>7. ~Tick
  BY DEF Tick
<1>8. UNCHANGED vars => UNCHANGED <<count, left, lost>> /\ Owing \subseteq Owing'
  BY DEF vars, Owing, CountedIn
<1>9. ASSUME UNCHANGED <<count, left, lost>>, Owing \subseteq Owing'
      PROVE  /\ Cardinality(Owing') + lost' >= 1
             /\ count' > Limit => Cardinality(Owing') + lost' >= 2
  BY <1>9, OwingSizes
<1> QED
  BY <1>2, <1>3, <1>4, <1>5, <1>6, <1>7, <1>8, <1>9 DEF Next, Request, Finished

-----------------------------------------------------------------------------
\* Before the first request nothing is counted.
LEMMA InitInv == Init => TypeOK /\ CountInv /\ OwingInv
  BY LimitsAssumption DEF Init, TypeOK, CountInv, OwingInv, Forever

\* The inductive invariant of the limiter.
THEOREM Invariance == Spec => [](TypeOK /\ CountInv /\ OwingInv)
<1>1. TypeOK /\ CountInv /\ OwingInv /\ [Next]_vars => (TypeOK /\ CountInv /\ OwingInv)'
  BY TypeStep, CountStep, OwingStep
<1> QED
  BY InitInv, <1>1, PTL DEF Spec

\* Requests of one life are told different counts, so fewer than Limit of them are
\* told less than Limit.
LEMMA LifeAdmits ==
  ASSUME TypeOK, CountInv, NEW l
  PROVE  /\ IsFiniteSet(AdmittedIn(CountedIn(l)))
         /\ Cardinality(AdmittedIn(CountedIn(l))) \in Nat
         /\ Cardinality(AdmittedIn(CountedIn(l))) <= Limit - 1
<1> DEFINE S == AdmittedIn(CountedIn(l))
           T == 1..(Limit - 1)
           told == [h \in S |-> seen[h]]
<1>1. IsFiniteSet(S) /\ Cardinality(S) \in Nat
  <2>1. S \in SUBSET Hits
    BY DEF AdmittedIn, CountedIn
  <2> QED
    BY <2>1, HitSets
<1>2. told \in [S -> T]
  BY DEF AdmittedIn, CountedIn, CountInv
<1>3. \A g, h \in S : told[g] = told[h] => g = h
  BY <1>2 DEF AdmittedIn, CountedIn, CountInv
<1>4. IsFiniteSet(T) /\ Cardinality(T) = Limit - 1
  <2>1. Limit - 1 \in Int /\ (IF 1 > Limit - 1 THEN 0 ELSE (Limit - 1) - 1 + 1) = Limit - 1
    BY LimitsAssumption
  <2>2. IsFiniteSet(T) /\ Cardinality(T) = IF 1 > Limit - 1 THEN 0 ELSE (Limit - 1) - 1 + 1
    BY <2>1, FS_Interval
  <2> QED
    BY <2>1, <2>2
<1>5. ASSUME Cardinality(T) < Cardinality(S) PROVE FALSE
  <2>1. IsFiniteSet(S) /\ IsFiniteSet(T) /\ told \in [S -> T]
    BY <1>1, <1>2, <1>4
  <2> HIDE DEF S, T, told
  <2>2. \E x, y \in S : x # y /\ told[x] = told[y]
    BY <1>5, <2>1, FS_PigeonHole
  <2> QED
    BY <1>3, <2>2
<1> QED
  BY <1>1, <1>4, <1>5, LimitsAssumption

\* While fewer than two EXPIREs are lost, a block without expiry has a request that is
\* about to set one.
LEMMA BlockHasEnd == TypeOK /\ OwingInv => BlockEnds
<1> SUFFICES ASSUME TypeOK, OwingInv, count > Limit, left = Forever, lost < 2
             PROVE  \E h \in Hits : pc[h] = "expire"
  BY DEF BlockEnds
<1>1. Cardinality(Owing) \in Nat /\ Owing \in SUBSET Hits
  BY OwingSizes
<1>2. Cardinality(Owing) # 0
  BY <1>1 DEF OwingInv, TypeOK
<1>3. Owing # {}
  BY <1>2, FS_EmptySet
<1> QED
  BY <1>1, <1>3 DEF Owing

\* No client is refused for ever by the loss of one EXPIRE.
THEOREM BlocksEnd == Spec => []BlockEnds
  BY Invariance, BlockHasEnd, PTL

-----------------------------------------------------------------------------
\* The window

\* Every step of the window is a step of the limiter or leaves it alone.
LEMMA WindowStep == [WindowNext]_windowVars => [Next]_vars
  BY DEF WindowNext, WindowRequest, WindowTick, windowVars, Next

\* A request that is counted joins the key there is, or creates one when the last has
\* gone; others leave counts and lives alone and at most give the key Ttl or more.
LEMMA RequestClock ==
  ASSUME TypeOK, CountInv, NEW h \in Hits, Request(h)
  PROVE  \/ /\ pc[h] = "idle" /\ counted[h] = 0 /\ Incr(h)
         \/ /\ UNCHANGED <<counted, life>>
            /\ left' = left \/ (left' >= Ttl /\ left' # Forever)
<1> USE LimitsAssumption DEF TypeOK, CountInv, Forever, Expire, NewTtl
<1>1. CASE Increment(h) \/ IncrementReplyLost(h)
  BY <1>1 DEF Increment, IncrementReplyLost
<1>2. CASE SetExpiry(h) \/ SetExpiryReplyLost(h)
  BY <1>2 DEF SetExpiry, SetExpiryReplyLost
<1>3. CASE IncrementFails(h) \/ SetExpiryFails(h) \/ Crash(h)
  BY <1>3 DEF IncrementFails, SetExpiryFails, Crash
<1> QED
  BY <1>1, <1>2, <1>3 DEF Request

\* The clocks are preserved.
LEMMA AgeStep == TypeOK /\ CountInv /\ AgeInv /\ [WindowNext]_windowVars => AgeInv'
<1> SUFFICES ASSUME TypeOK, CountInv, AgeInv, [WindowNext]_windowVars PROVE AgeInv'
  OBVIOUS
<1> USE LimitsAssumption DEF TypeOK, AgeInv, Forever
<1>1. ASSUME NEW h \in Hits, WindowRequest(h), counted[h] = 0, Incr(h) PROVE AgeInv'
  <2>1. counted'[h] = life' /\ life' > 0 /\ counted' # counted
    BY <1>1 DEF Incr, CountInv
  <2>2. /\ age' = [age EXCEPT ![h] = 0] /\ counted' = [counted EXCEPT ![h] = life']
        /\ born' = IF life' = life THEN born ELSE 0
    BY <1>1, <2>1 DEF WindowRequest, Stamp, Incr
  <2>3. CASE count = 0
    <3>1. life' = life + 1 /\ left = 0 /\ left' = Forever /\ born = Ttl /\ born' = 0
      BY <1>1, <2>2, <2>3 DEF Incr
    <3> QED
      BY <1>1, <2>1, <2>2, <3>1
  <2>4. CASE count # 0
    <3>1. life' = life /\ left' = left /\ born' = born
      BY <1>1, <2>2, <2>4 DEF Incr
    <3> QED
      BY <1>1, <2>1, <2>2, <3>1
  <2> QED
    BY <2>3, <2>4
<1>2. ASSUME NEW h \in Hits, WindowRequest(h), UNCHANGED <<counted, life>>,
             left' = left \/ (left' >= Ttl /\ left' # Forever)
      PROVE  AgeInv'
  <2>1. UNCHANGED <<counted, life, age, born>>
    BY <1>2 DEF WindowRequest, Stamp
  <2>2. left' \in Int
    BY WindowStep, TypeStep
  <2>3. born' \in Nat /\ Ttl \in Nat
    BY <2>1
  <2>4. CASE left' = left
    BY <2>1, <2>4
  <2>5. CASE left' >= Ttl /\ left' # Forever
    <3>1. \A b \in Nat, l \in Int, t \in Nat : l >= t => b + l >= t
      OBVIOUS
    <3>2. born' + left' >= Ttl
      <4> HIDE DEF TypeOK, AgeInv
      <4> QED
        BY <2>2, <2>3, <2>5, <3>1
    <3> QED
      BY <2>1, <3>2
  <2> QED
    BY <1>2, <2>4, <2>5
<1>3. CASE WindowTick
  <2>1. /\ UNCHANGED <<counted, life>>
        /\ age' = [h \in Hits |-> Older(age[h])] /\ born' = Older(born)
    BY <1>3 DEF WindowTick, Tick, vars
  <2>2. (left > 0 /\ left' = left - 1) \/ (left <= 0 /\ left' = left)
    BY <1>3 DEF WindowTick, Tick, vars
  <2> QED
    BY <2>1, <2>2 DEF Older
<1>4. CASE UNCHANGED windowVars
  BY <1>4 DEF windowVars, vars
<1> QED
  BY <1>1, <1>2, <1>3, <1>4, RequestClock DEF WindowNext, WindowRequest

\* The requests of the last Ttl ticks were counted by the last two keys.
LEMMA TwoLives == TypeOK /\ CountInv /\ AgeInv => RateBounded
<1> SUFFICES ASSUME TypeOK, CountInv, AgeInv PROVE RateBounded
  OBVIOUS
<1> DEFINE S == AdmittedIn(CountedIn(life))
           T == AdmittedIn(CountedIn(life - 1))
           R == AdmittedIn(Recent)
<1>1. R \subseteq S \cup T
  BY LimitsAssumption DEF AdmittedIn, Recent, CountedIn, AgeInv, TypeOK
<1>2. /\ IsFiniteSet(S) /\ Cardinality(S) \in Nat /\ Cardinality(S) <= Limit - 1
      /\ IsFiniteSet(T) /\ Cardinality(T) \in Nat /\ Cardinality(T) <= Limit - 1
  BY LifeAdmits
<1> HIDE DEF S, T
<1>3. /\ IsFiniteSet(S \cup T)
      /\ Cardinality(S \cup T) = Cardinality(S) + Cardinality(T) - Cardinality(S \cap T)
  BY <1>2, FS_Union
<1>4. Cardinality(S \cap T) \in Nat
  BY <1>2, FS_Intersection, FS_CardinalityType
<1>5. Cardinality(R) \in Nat /\ Cardinality(R) <= Cardinality(S \cup T)
  BY <1>1, <1>3, FS_Subset, FS_CardinalityType
<1> QED
  BY <1>2, <1>3, <1>4, <1>5, LimitsAssumption DEF RateBounded

\* For every limit, duration and number of requests: no stretch of Ttl ticks admits
\* more than two windows do, however late or lost the EXPIREs are.
THEOREM RateIsBounded == WindowSpec => []RateBounded
<1>1. WindowInit => TypeOK /\ CountInv /\ OwingInv /\ AgeInv
  <2>1. WindowInit => Init
    BY DEF WindowInit
  <2>2. WindowInit => AgeInv
    BY LimitsAssumption DEF WindowInit, Init, AgeInv, Forever
  <2> QED
    BY <2>1, <2>2, InitInv
<1>2. TypeOK /\ CountInv /\ OwingInv /\ AgeInv /\ [WindowNext]_windowVars =>
        (TypeOK /\ CountInv /\ OwingInv /\ AgeInv)'
  BY WindowStep, TypeStep, CountStep, OwingStep, AgeStep
<1> QED
  BY <1>1, <1>2, TwoLives, PTL DEF WindowSpec

-----------------------------------------------------------------------------
\* The gateway

\* Every step of the gateway is a step of the limiter and its clocks or leaves them
\* alone.
LEMMA LimiterStep == [GatewayNext]_gatewayVars => [WindowNext]_windowVars
<1> SUFFICES ASSUME [GatewayNext]_gatewayVars PROVE [WindowNext]_windowVars
  OBVIOUS
<1>1. ASSUME NEW h \in Hits, Arrive(h) PROVE WindowNext
  BY <1>1 DEF Arrive, WindowNext, WindowRequest, Request
<1>2. ASSUME NEW h \in Hits, SecondCommand(h) PROVE WindowNext
  BY <1>2 DEF SecondCommand, WindowNext, WindowRequest, Request
<1>3. ASSUME NEW h \in Hits, BlacklistHit(h) \/ BlacklistMiss(h) \/ BlacklistReadFails(h)
      PROVE  UNCHANGED windowVars
  BY <1>3 DEF BlacklistHit, BlacklistMiss, BlacklistReadFails, Leave
<1>4. ASSUME NEW u \in Users, TokenExpires(u) \/ Revoke(u) PROVE UNCHANGED windowVars
  BY <1>4 DEF TokenExpires, Revoke
<1>5. CASE TimePasses
  BY <1>5 DEF TimePasses, WindowNext
<1>6. CASE GatewayFinished \/ UNCHANGED gatewayVars
  BY <1>6 DEF GatewayFinished, gatewayVars
<1> QED
  BY <1>1, <1>2, <1>3, <1>4, <1>5, <1>6 DEF GatewayNext

\* The guarantees of the limiter hold in front of the guard.
THEOREM LimiterHolds == GatewaySpec => [](TypeOK /\ BlockEnds /\ RateBounded)
<1>1. GatewaySpec => WindowSpec
  <2>1. GatewayInit => WindowInit
    BY DEF GatewayInit
  <2> QED
    BY <2>1, LimiterStep, PTL DEF GatewaySpec, WindowSpec
<1>2. WindowSpec => Spec
  <2>1. WindowInit => Init
    BY DEF WindowInit
  <2> QED
    BY <2>1, WindowStep, PTL DEF WindowSpec, Spec
<1> QED
  BY <1>1, <1>2, Invariance, BlocksEnd, RateIsBounded, PTL

\* Only a request that has just been let through by the limiter is looked at, with
\* the token it has now.
LEMMA Enters ==
  ASSUME TypeOK, CountInv, GatewayTypeOK, NEW h \in Hits,
         Arrive(h) \/ SecondCommand(h)
  PROVE  /\ guard[h] = "before" /\ ~Passed(h)
         /\ \A g \in Hits \ {h} :
              pc'[g] = pc[g] /\ answer'[g] = answer[g] /\ guard'[g] = guard[g]
         /\ pc'[h] = "expire" => answer'[h] = "none" /\ Arrive(h)
         /\ answer'[h] \in {"none", "admitted", "refused", "open"}
         /\ \/ ~Passed(h)' /\ guard'[h] = "before"
            \/ Passed(h)' /\ guard'[h] = "unauthorized"
            \/ /\ Passed(h)' /\ guard'[h] = "lookup"
               /\ Standing(sender[h]) \in {"valid", "revoked"}
<1> USE DEF GatewayTypeOK, Goto, Answer
<1>1. guard[h] = "before" /\ ~Passed(h)
  BY DEF Arrive, SecondCommand, Increment, IncrementFails, IncrementReplyLost, SetExpiry,
    SetExpiryFails, SetExpiryReplyLost, Crash, CountInv, Passed
<1>2. /\ \A g \in Hits \ {h} : pc'[g] = pc[g] /\ answer'[g] = answer[g]
      /\ pc'[h] = "expire" => answer'[h] = "none" /\ Arrive(h)
      /\ answer'[h] \in {"none", "admitted", "refused", "open"}
  <2>1. CASE Arrive(h)
    BY <2>1 DEF Arrive, TypeOK, CountInv, Increment, IncrementFails, IncrementReplyLost,
      Verdict
  <2>2. CASE SecondCommand(h)
    BY <2>2 DEF SecondCommand, TypeOK, CountInv, SetExpiry, SetExpiryFails,
      SetExpiryReplyLost, Crash, Verdict
  <2> QED
    BY <2>1, <2>2
<1>3. Enter(h)
  BY DEF Arrive, SecondCommand
<1>4. Standing(sender[h]) \in {"none", "expired", "valid", "revoked"}
  BY DEF Standing
<1> QED
  BY <1>1, <1>2, <1>3, <1>4 DEF Enter

\* The invariant is preserved.
LEMMA EntryStep ==
  TypeOK /\ CountInv /\ GatewayTypeOK /\ EntryInv /\ NoLateEntry
    /\ [GatewayNext]_gatewayVars => GatewayTypeOK' /\ EntryInv' /\ NoLateEntry'
<1> SUFFICES ASSUME TypeOK, CountInv, GatewayTypeOK, EntryInv, NoLateEntry,
                    [GatewayNext]_gatewayVars
             PROVE  GatewayTypeOK' /\ EntryInv' /\ NoLateEntry'
  OBVIOUS
<1>0. TypeOK'
  BY LimiterStep, WindowStep, TypeStep
<1> USE DEF GatewayTypeOK, EntryInv, NoLateEntry
<1>1. ASSUME NEW h \in Hits, Arrive(h) PROVE GatewayTypeOK' /\ EntryInv' /\ NoLateEntry'
  <2>1. /\ UNCHANGED <<sender, expired, revoked, unread>>
        /\ standing' = [standing EXCEPT ![h] = Standing(sender[h])]
        /\ guard' \in [Hits -> {"before", "lookup", "handler", "unauthorized"}]
    BY <1>1 DEF Arrive, Enter
  <2>2. \A g \in Hits \ {h} : Passed(g)' <=> Passed(g)
    BY <1>1, Enters DEF Passed
  <2> QED
    BY <1>0, <1>1, <2>1, <2>2, Enters DEF Standing
<1>2. ASSUME NEW h \in Hits, SecondCommand(h)
      PROVE  GatewayTypeOK' /\ EntryInv' /\ NoLateEntry'
  <2>1. /\ UNCHANGED <<sender, expired, revoked, unread, standing>>
        /\ pc[h] = "expire"
        /\ guard' \in [Hits -> {"before", "lookup", "handler", "unauthorized"}]
    BY <1>2 DEF SecondCommand, Enter, SetExpiry, SetExpiryFails, SetExpiryReplyLost, Crash
  <2>2. \A g \in Hits \ {h} : Passed(g)' <=> Passed(g)
    BY <1>2, Enters DEF Passed
  <2>3. ~Arrive(h)
    BY <2>1 DEF Arrive, Increment, IncrementFails, IncrementReplyLost
  <2> QED
    BY <1>0, <1>2, <2>1, <2>2, <2>3, Enters, NobodyAssumption DEF Standing
<1>3. ASSUME NEW h \in Hits, BlacklistHit(h) \/ BlacklistMiss(h) \/ BlacklistReadFails(h)
      PROVE  GatewayTypeOK' /\ EntryInv' /\ NoLateEntry'
  BY <1>0, <1>3 DEF BlacklistHit, BlacklistMiss, BlacklistReadFails, Leave, Passed, windowVars, vars
<1>4. ASSUME NEW u \in Users, TokenExpires(u) \/ Revoke(u)
      PROVE  GatewayTypeOK' /\ EntryInv' /\ NoLateEntry'
  BY <1>0, <1>4 DEF TokenExpires, Revoke, Passed, windowVars, vars
<1>5. CASE TimePasses
  BY <1>0, <1>5 DEF TimePasses, WindowTick, Tick, vars, guardVars, Passed
<1>6. CASE GatewayFinished \/ UNCHANGED gatewayVars
  BY <1>0, <1>6 DEF GatewayFinished, gatewayVars, guardVars, windowVars, vars, Passed
<1> QED
  BY <1>1, <1>2, <1>3, <1>4, <1>5, <1>6 DEF GatewayNext

\* The invariant of the gateway.
THEOREM GatewayInvariance == GatewaySpec => [](GatewayTypeOK /\ EntryInv /\ NoLateEntry)
<1>1. GatewayInit => TypeOK /\ CountInv /\ OwingInv
  BY InitInv DEF GatewayInit, WindowInit
<1>2. GatewayInit => GatewayTypeOK /\ EntryInv /\ NoLateEntry
  BY <1>1 DEF GatewayInit, WindowInit, Init, GatewayTypeOK, EntryInv, NoLateEntry, Passed
<1>3. TypeOK /\ CountInv /\ OwingInv /\ [GatewayNext]_gatewayVars =>
        (TypeOK /\ CountInv /\ OwingInv)'
  BY LimiterStep, WindowStep, TypeStep, CountStep, OwingStep
<1> QED
  BY <1>1, <1>2, <1>3, EntryStep, PTL DEF GatewaySpec

\* What was refused with 429 is not looked at by the guard, and the types.
THEOREM GatewayTypesCorrect == GatewaySpec => []GatewayTypeOK
  BY GatewayInvariance, PTL

\* No token that was expired or missing on arrival reaches a handler, nor one that
\* was on the blacklist unless the blacklist could not be read, whatever happens
\* between the checks.
THEOREM BadTokensKeptOut == GatewaySpec => []NoLateEntry
  BY GatewayInvariance, PTL

=============================================================================
