------------------------- MODULE LoginAttemptsProofs -------------------------
(***************************************************************************)
(* Theorems about LoginAttempts, for any number of keys and of logins in   *)
(* flight, and whatever the limits are.                                    *)
(***************************************************************************)
EXTENDS LoginAttempts, FiniteSetTheorems, SequenceTheorems, TLAPS

Points == {"free", "check", "verify", "succeed", "fail", "recheck"}
Answers == {"none", "locked", "ok", "unauthorized", "error"}

LoginTypeOK ==
  /\ redisEnabled \in BOOLEAN
  /\ failures \in [Keys -> 0 .. CountBound]
  /\ age \in [Keys -> 0 .. Old]
  /\ counterTtl \in [Keys -> Nat]
  /\ lockLeft \in [Keys -> 0 .. MaxLock]
  /\ pc \in [Requests -> Points]
  /\ key \in [Requests -> Keys \cup {NoKey}]
  /\ answer \in [Requests -> Answers]
  /\ recent \in [Keys -> Seq(0 .. Old)]
  /\ unbroken \in [Keys -> 0 .. MaxFailures]
  /\ \A k \in Keys : Len(recent[k]) <= MaxFailures
  /\ \A r \in Requests : pc[r] # "free" => key[r] \in Keys

-----------------------------------------------------------------------------
\* Powers of two, as numbers of subsets.
LEMMA Powers ==
  ASSUME NEW m \in Nat
  PROVE  2 ^ m \in Nat /\ 2 ^ m > 0 /\ 2 ^ m <= 2 ^ (m + 1)
<1> DEFINE S == 1 .. m
           T == 1 .. m + 1
<1>1. IsFiniteSet(S) /\ Cardinality(S) = m
  BY FS_Interval
<1>2. IsFiniteSet(T) /\ Cardinality(T) = m + 1
  BY FS_Interval
<1>3. IsFiniteSet(SUBSET S) /\ Cardinality(SUBSET S) = 2 ^ m
  BY <1>1, FS_SUBSET
<1>4. IsFiniteSet(SUBSET T) /\ Cardinality(SUBSET T) = 2 ^ (m + 1)
  BY <1>2, FS_SUBSET
<1>5. S \subseteq T
  OBVIOUS
<1> HIDE DEF S, T
<1>6. Cardinality(SUBSET S) <= Cardinality(SUBSET T)
  <2>1. SUBSET S \subseteq SUBSET T
    BY <1>5
  <2> QED BY <1>4, <2>1, FS_Subset
<1>7. Cardinality(SUBSET S) \in Nat /\ Cardinality(SUBSET S) # 0
  <2>1. S \in SUBSET S
    OBVIOUS
  <2>2. SUBSET S # {}
    BY <2>1
  <2> QED BY <1>3, <2>2, FS_CardinalityType, FS_EmptySet
<1> QED BY <1>3, <1>4, <1>6, <1>7

\* A lock lasts a while, at most MaxLock, and the longer the more failures.
LEMMA LockLengths ==
  ASSUME NEW n \in Nat, n >= MaxFailures
  PROVE  /\ LockLength(n) \in 1 .. MaxLock
         /\ LockLength(n) <= LockLength(n + 1)
<1>1. PICK m \in Nat : m = n - MaxFailures
  BY LoginAssumption
<1>2. (n + 1) - MaxFailures = m + 1
  BY <1>1, LoginAssumption
<1>3. 2 ^ m \in Nat /\ 2 ^ m > 0 /\ 2 ^ m <= 2 ^ (m + 1) /\ 2 ^ (m + 1) \in Nat
  BY Powers
<1>4. PICK a \in Nat, b \in Nat :
        a = 2 ^ m /\ b = 2 ^ (m + 1) /\ a > 0 /\ a <= b
  BY <1>3
<1>5. /\ BaseLock * a \in Nat /\ BaseLock * b \in Nat
      /\ BaseLock * a >= 1 /\ BaseLock * a <= BaseLock * b
  BY <1>4, LoginAssumption
<1>6. /\ LockLength(n) = Smaller(BaseLock * a, MaxLock)
      /\ LockLength(n + 1) = Smaller(BaseLock * b, MaxLock)
  BY <1>1, <1>2, <1>4 DEF LockLength
<1> HIDE DEF LockLength
<1> QED BY <1>5, <1>6, LoginAssumption DEF Smaller

-----------------------------------------------------------------------------
\* What a step may do to the entry of one key.
Fails(k) ==
  /\ failures'[k] = Counted(k) /\ age'[k] = 0
  /\ \E late \in Lateness : lockLeft'[k] = LockAfter(k, Counted(k), late)
  /\ recent'[k] = Latest(Append(recent[k], 0))
  /\ unbroken'[k] = Smaller(unbroken[k] + 1, MaxFailures)

Clears(k) ==
  /\ failures'[k] = 0 /\ age'[k] = Old /\ lockLeft'[k] = 0
  /\ recent'[k] = <<>> /\ unbroken'[k] = 0

Drops(k) ==
  /\ failures'[k] = 0
  /\ ~redisEnabled /\ ~Locked(k) /\ age[k] > Window
  /\ UNCHANGED <<age, lockLeft, recent, unbroken>>

GrowsOld(k) ==
  /\ failures'[k] = failures[k] \/ (redisEnabled /\ failures'[k] = 0)
  /\ age'[k] = Smaller(age[k] + 1, Old) /\ lockLeft'[k] = Decreased(lockLeft[k])
  /\ recent'[k] = [i \in DOMAIN recent[k] |-> Smaller(recent[k][i] + 1, Old)]
  /\ unbroken'[k] = unbroken[k]

Keeps(k) ==
  /\ failures'[k] = failures[k] /\ age'[k] = age[k] /\ lockLeft'[k] = lockLeft[k]
  /\ recent'[k] = recent[k] /\ unbroken'[k] = unbroken[k]

LEMMA RecordFailureFails ==
  ASSUME LoginTypeOK, NEW r \in Requests, RecordFailure(r), NEW k \in Keys
  PROVE  IF k = key[r] THEN Fails(k) ELSE Keeps(k)
<1>1. key[r] \in Keys
  BY DEF LoginTypeOK, RecordFailure
<1> QED BY <1>1 DEF LoginTypeOK, RecordFailure, Fails, Keeps

LEMMA RecordSuccessClears ==
  ASSUME LoginTypeOK, NEW r \in Requests, RecordSuccess(r), NEW k \in Keys
  PROVE  IF k = key[r] THEN Clears(k) ELSE Keeps(k)
<1>1. key[r] \in Keys
  BY DEF LoginTypeOK, RecordSuccess
<1> QED BY <1>1 DEF LoginTypeOK, RecordSuccess, Clears, Keeps, ClearedLock

LEMMA AssertDrops ==
  ASSUME LoginTypeOK, NEW r \in Requests, AssertNotLocked(r), NEW k \in Keys
  PROVE  Drops(k) \/ Keeps(k)
<1>1. key[r] \in Keys
  BY DEF LoginTypeOK, AssertNotLocked
<1>2. UNCHANGED <<age, recent, unbroken, lockLeft>>
  BY DEF AssertNotLocked, Refused, LoginTypeOK, history
<1>3. CASE UNCHANGED failures
  BY <1>2, <1>3 DEF Keeps
<1>4. CASE ~Locked(key[r]) /\ DropStale(key[r])
  BY <1>1, <1>2, <1>3, <1>4 DEF DropStale, Drops, Keeps, LoginTypeOK
<1> QED BY <1>3, <1>4 DEF AssertNotLocked

LEMMA TickGrowsOld ==
  ASSUME LoginTypeOK, Tick, NEW k \in Keys
  PROVE  GrowsOld(k)
<1>1. recent'[k] = [i \in DOMAIN recent[k] |-> Smaller(recent[k][i] + 1, Old)]
  BY Zenon DEF Tick
<1>2. /\ failures'[k] = failures[k] \/ (redisEnabled /\ failures'[k] = 0)
      /\ age'[k] = Smaller(age[k] + 1, Old) /\ lockLeft'[k] = Decreased(lockLeft[k])
      /\ unbroken'[k] = unbroken[k]
  BY DEF Tick
<1> QED BY <1>1, <1>2 DEF GrowsOld

LEMMA KeyEffect ==
  ASSUME LoginTypeOK, [Next]_vars, NEW k \in Keys
  PROVE  /\ UNCHANGED redisEnabled
         /\ \/ Tick /\ GrowsOld(k)
            \/ \E r \in Requests : RecordFailure(r) /\ key[r] = k /\ Fails(k)
            \/ \E r \in Requests : RecordSuccess(r) /\ key[r] = k /\ Clears(k)
            \/ Drops(k) \/ Keeps(k)
<1>1. ASSUME NEW r \in Requests, Step(r)
      PROVE  \/ RecordFailure(r) /\ key[r] = k /\ Fails(k)
             \/ RecordSuccess(r) /\ key[r] = k /\ Clears(k)
             \/ Drops(k) \/ Keeps(k)
  <2>1. CASE Verify(r) \/ Recheck(r) \/ RedisFails(r)
    BY <2>1 DEF Verify, Recheck, RedisFails, Keeps, store, history
  <2> QED BY <1>1, <2>1, AssertDrops, RecordFailureFails, RecordSuccessClears DEF Step
<1>2. ASSUME NEW r \in Requests, NEW x \in Keys, Submit(r, x) PROVE Keeps(k)
  BY <1>2 DEF Submit, Keeps, store, history
<1>3. CASE UNCHANGED vars
  BY <1>3 DEF vars, store, history, Keeps
<1>4. UNCHANGED redisEnabled
  BY DEF Next, Tick, vars
<1> QED BY <1>1, <1>2, <1>3, <1>4, TickGrowsOld DEF Next

-----------------------------------------------------------------------------
\* The numbers a failure leads to.
LEMMA CountedRange ==
  ASSUME LoginTypeOK, NEW k \in Keys
  PROVE  /\ Counted(k) \in 1 .. CountBound /\ CountBound \in Nat
         /\ CountBound >= MaxFailures
         /\ Counted(k) <= failures[k] + 1
         /\ redisEnabled \/ age[k] <= Window =>
              Counted(k) = failures[k] + 1 \/ (Counted(k) = failures[k] /\ failures[k] = CountBound)
<1>1. /\ failures[k] \in 0 .. CountBound /\ age[k] \in 0 .. Old
      /\ redisEnabled \in BOOLEAN
  BY DEF LoginTypeOK
<1>2. CountBound \in Nat /\ CountBound >= MaxFailures /\ CountBound >= 1 /\ Old \in Nat
  BY LoginAssumption DEF CountBound, Old
<1> QED BY <1>1, <1>2, LoginAssumption DEF Counted, Smaller

\* The latest failures after one more: beyond so many the eldest is forgotten.
Forgotten(s) == IF Len(s) < MaxFailures THEN 0 ELSE 1

LEMMA LatestAppended ==
  ASSUME NEW s \in Seq(0 .. Old), Len(s) <= MaxFailures
  PROVE  LET t == Latest(Append(s, 0))
             d == Forgotten(s)
         IN /\ t \in Seq(0 .. Old) /\ Len(t) = Len(s) + 1 - d /\ Len(t) <= MaxFailures
            /\ \A i \in 1 .. Len(t) : t[i] = IF i + d <= Len(s) THEN s[i + d] ELSE 0
<1>1. Len(s) \in Nat /\ MaxFailures \in Nat /\ 0 \in 0 .. Old
  BY LoginAssumption, LenProperties DEF Old
<1> DEFINE a == Append(s, 0)
<1>2. /\ a \in Seq(0 .. Old) /\ a # <<>> /\ Len(a) = Len(s) + 1
      /\ \A i \in 1 .. Len(s) : a[i] = s[i]
      /\ a[Len(s) + 1] = 0
  BY <1>1, AppendProperties
<1>3. Latest(Append(s, 0)) = IF Len(a) > MaxFailures THEN Tail(a) ELSE a
  BY DEF Latest
<1> HIDE DEF a
<1>4. CASE Len(a) > MaxFailures
  <2>1. /\ Tail(a) \in Seq(0 .. Old) /\ Len(Tail(a)) = Len(a) - 1
        /\ \A i \in 1 .. Len(Tail(a)) : Tail(a)[i] = a[i + 1]
    BY <1>2, HeadTailProperties
  <2> DEFINE t == Tail(a)
  <2>2. Len(t) = Len(s) /\ \A i \in 1 .. Len(s) : t[i] = a[i + 1]
    BY <1>1, <1>2, <2>1
  <2>3. t \in Seq(0 .. Old) /\ Forgotten(s) = 1 /\ Latest(Append(s, 0)) = t
    BY <1>1, <1>2, <1>3, <1>4, <2>1 DEF Forgotten
  <2> HIDE DEF t
  <2> QED BY <1>1, <1>2, <2>2, <2>3
<1>5. CASE ~(Len(a) > MaxFailures)
  <2>1. Forgotten(s) = 0 /\ Latest(Append(s, 0)) = a
    BY <1>1, <1>2, <1>3, <1>5 DEF Forgotten
  <2> QED BY <1>1, <1>2, <1>5, <2>1
<1> QED BY <1>4, <1>5

\* The latest failures a tick later.
Aged(s) == [i \in DOMAIN s |-> Smaller(s[i] + 1, Old)]

LEMMA AgedSequence ==
  ASSUME NEW s \in Seq(0 .. Old)
  PROVE  /\ Aged(s) \in Seq(0 .. Old) /\ Len(Aged(s)) = Len(s)
         /\ \A i \in 1 .. Len(s) : Aged(s)[i] = Smaller(s[i] + 1, Old)
<1>1. Len(s) \in Nat /\ DOMAIN s = 1 .. Len(s) /\ Old \in Nat
  BY LoginAssumption, LenProperties DEF Old
<1>2. \A i \in 1 .. Len(s) : s[i] \in 0 .. Old
  BY ElementOfSeq
<1>3. \A i \in 1 .. Len(s) : Smaller(s[i] + 1, Old) \in 0 .. Old
  BY <1>1, <1>2 DEF Smaller
<1>4. Aged(s) = [i \in 1 .. Len(s) |-> Smaller(s[i] + 1, Old)]
  BY <1>1 DEF Aged
<1> QED BY <1>1, <1>3, <1>4

\* What becomes of a lock with a failure; of the lock in Redis only its bounds.
LEMMA LockSet ==
  ASSUME LoginTypeOK, NEW k \in Keys, Fails(k)
  PROVE  /\ lockLeft'[k] \in 0 .. MaxLock
         /\ Counted(k) < MaxFailures => lockLeft'[k] = lockLeft[k]
         /\ Counted(k) >= MaxFailures /\ ~redisEnabled =>
              lockLeft'[k] = LockLength(Counted(k))
<1>1. PICK late \in Lateness : lockLeft'[k] = LockAfter(k, Counted(k), late)
  BY DEF Fails
<1>2. /\ Counted(k) \in Nat /\ MaxFailures \in Nat /\ MaxLock \in Nat
      /\ lockLeft[k] \in 0 .. MaxLock
  BY CountedRange, LoginAssumption DEF LoginTypeOK, CountBound
<1>3. late \in 0 .. MaxLock /\ (~redisEnabled => late = 0)
  BY <1>2 DEF Lateness
<1>4. CASE Counted(k) >= MaxFailures
  <2>1. PICK length \in 1 .. MaxLock : length = LockLength(Counted(k))
    BY <1>2, <1>4, LockLengths
  <2>2. lockLeft'[k] = length - Smaller(late, length)
    BY <1>1, <1>4, <2>1 DEF LockAfter
  <2> QED BY <1>2, <1>3, <1>4, <2>1, <2>2 DEF Smaller
<1>5. CASE Counted(k) < MaxFailures
  BY <1>1, <1>2, <1>5 DEF LockAfter
<1> QED BY <1>2, <1>4, <1>5

LEMMA KeyTypes ==
  ASSUME LoginTypeOK, [Next]_vars, NEW k \in Keys
  PROVE  /\ failures'[k] \in 0 .. CountBound /\ age'[k] \in 0 .. Old
         /\ lockLeft'[k] \in 0 .. MaxLock /\ unbroken'[k] \in 0 .. MaxFailures
         /\ recent'[k] \in Seq(0 .. Old) /\ Len(recent'[k]) <= MaxFailures
<1>1. /\ failures[k] \in 0 .. CountBound /\ age[k] \in 0 .. Old
      /\ lockLeft[k] \in 0 .. MaxLock /\ unbroken[k] \in 0 .. MaxFailures
      /\ recent[k] \in Seq(0 .. Old) /\ Len(recent[k]) <= MaxFailures
  BY DEF LoginTypeOK
<1>2. CountBound \in Nat /\ Old \in Nat /\ MaxLock \in Nat /\ MaxFailures \in Nat
  BY LoginAssumption DEF CountBound, Old
<1>3. CASE Fails(k)
  <2>1. Counted(k) \in 1 .. CountBound
    BY CountedRange
  <2>2. lockLeft'[k] \in 0 .. MaxLock
    BY <1>1, <1>3, LockSet
  <2>3. recent'[k] \in Seq(0 .. Old) /\ Len(recent'[k]) <= MaxFailures
    BY <1>1, <1>3, LatestAppended DEF Fails
  <2>4. Smaller(unbroken[k] + 1, MaxFailures) \in 0 .. MaxFailures
    BY <1>1, <1>2 DEF Smaller
  <2>5. /\ failures'[k] = Counted(k) /\ age'[k] = 0
        /\ unbroken'[k] = Smaller(unbroken[k] + 1, MaxFailures)
    BY <1>3 DEF Fails
  <2>6. failures'[k] \in 0 .. CountBound /\ age'[k] \in 0 .. Old
    BY <1>2, <2>1, <2>5
  <2>7. lockLeft'[k] \in 0 .. MaxLock /\ unbroken'[k] \in 0 .. MaxFailures
    BY <2>2, <2>4, <2>5
  <2> QED BY <2>3, <2>6, <2>7
<1>4. CASE GrowsOld(k)
  <2>1. recent'[k] \in Seq(0 .. Old) /\ Len(recent'[k]) <= MaxFailures
    BY <1>1, <1>4, AgedSequence DEF GrowsOld, Aged
  <2>2. Smaller(age[k] + 1, Old) \in 0 .. Old /\ Decreased(lockLeft[k]) \in 0 .. MaxLock
    <3>1. Smaller(age[k] + 1, Old) \in 0 .. Old
      BY <1>1, <1>2 DEF Smaller
    <3>2. Decreased(lockLeft[k]) \in 0 .. MaxLock
      BY <1>1, <1>2 DEF Decreased
    <3> QED BY <3>1, <3>2
  <2>3. /\ failures'[k] = failures[k] \/ failures'[k] = 0
        /\ age'[k] = Smaller(age[k] + 1, Old) /\ lockLeft'[k] = Decreased(lockLeft[k])
        /\ unbroken'[k] = unbroken[k]
    BY <1>4 DEF GrowsOld
  <2>4. failures'[k] \in 0 .. CountBound
    BY <1>1, <1>2, <2>3
  <2> QED BY <1>1, <2>1, <2>2, <2>3, <2>4
<1>5. CASE Clears(k)
  <2>1. <<>> \in Seq(0 .. Old) /\ Len(<<>>) = 0
    BY EmptySeq
  <2> QED BY <1>2, <1>5, <2>1 DEF Clears
<1>6. CASE Drops(k) \/ Keeps(k)
  BY <1>1, <1>2, <1>6 DEF Drops, Keeps
<1> QED BY <1>3, <1>4, <1>5, <1>6, KeyEffect

\* The tables keep a row for each key.
LEMMA TablesNext ==
  ASSUME LoginTypeOK, [Next]_vars
  PROVE  /\ failures' = [k \in Keys |-> failures'[k]] /\ age' = [k \in Keys |-> age'[k]]
         /\ lockLeft' = [k \in Keys |-> lockLeft'[k]] /\ recent' = [k \in Keys |-> recent'[k]]
         /\ unbroken' = [k \in Keys |-> unbroken'[k]] /\ counterTtl' \in [Keys -> Nat]
<1> DEFINE Goal ==
      /\ failures' = [k \in Keys |-> failures'[k]] /\ age' = [k \in Keys |-> age'[k]]
      /\ lockLeft' = [k \in Keys |-> lockLeft'[k]] /\ recent' = [k \in Keys |-> recent'[k]]
      /\ unbroken' = [k \in Keys |-> unbroken'[k]] /\ counterTtl' \in [Keys -> Nat]
<1>1. CASE UNCHANGED <<store, history>>
  BY <1>1 DEF store, history, LoginTypeOK
<1>2. ASSUME NEW r \in Requests, AssertNotLocked(r) PROVE Goal
  <2>1. UNCHANGED <<age, counterTtl, recent, unbroken>>
    BY <1>2 DEF AssertNotLocked, history
  <2>2. lockLeft' = [k \in Keys |-> lockLeft'[k]] /\ failures' = [k \in Keys |-> failures'[k]]
    BY <1>2 DEF AssertNotLocked, DropStale, LoginTypeOK
  <2> QED BY <2>1, <2>2 DEF LoginTypeOK
<1>3. ASSUME NEW r \in Requests, RecordSuccess(r) PROVE Goal
  BY <1>3 DEF RecordSuccess, LoginTypeOK
<1>4. ASSUME NEW r \in Requests, RecordFailure(r) PROVE Goal
  <2>1. Window \in Nat
    BY LoginAssumption
  <2>2. counterTtl' \in [Keys -> Nat]
    BY <1>4, <2>1 DEF RecordFailure, LoginTypeOK
  <2> QED BY <1>4, <2>2 DEF RecordFailure, LoginTypeOK
<1>5. CASE Tick
  <2>1. counterTtl' \in [Keys -> Nat]
    BY <1>5 DEF Tick, LoginTypeOK, Decreased
  <2>2. recent' = [k \in Keys |-> Aged(recent[k])]
    BY <1>5 DEF Tick, Aged
  <2>3. /\ failures' = [k \in Keys |-> failures'[k]] /\ age' = [k \in Keys |-> age'[k]]
        /\ lockLeft' = [k \in Keys |-> lockLeft'[k]] /\ unbroken' = [k \in Keys |-> unbroken'[k]]
    BY <1>5 DEF Tick, LoginTypeOK
  <2> QED BY <2>1, <2>2, <2>3
<1>6. CASE UNCHANGED vars \/ \E r \in Requests : \/ Verify(r) \/ Recheck(r) \/ RedisFails(r)
                                               \/ \E k \in Keys : Submit(r, k)
  BY <1>1, <1>6 DEF vars, Verify, Recheck, RedisFails, Submit
<1> QED BY <1>2, <1>3, <1>4, <1>5, <1>6 DEF Next, Step

LEMMA TypeNext == LoginTypeOK /\ [Next]_vars => LoginTypeOK'
<1> SUFFICES ASSUME LoginTypeOK, [Next]_vars PROVE LoginTypeOK'
  OBVIOUS
<1>1. /\ redisEnabled' \in BOOLEAN /\ counterTtl' \in [Keys -> Nat]
      /\ failures' \in [Keys -> 0 .. CountBound] /\ age' \in [Keys -> 0 .. Old]
      /\ lockLeft' \in [Keys -> 0 .. MaxLock] /\ unbroken' \in [Keys -> 0 .. MaxFailures]
      /\ recent' \in [Keys -> Seq(0 .. Old)]
      /\ \A k \in Keys : Len(recent'[k]) <= MaxFailures
  <2>1. redisEnabled' \in BOOLEAN
    BY DEF LoginTypeOK, Next, Tick, vars
  <2> QED BY <2>1, TablesNext, KeyTypes
<1>2. /\ pc' \in [Requests -> Points] /\ key' \in [Requests -> Keys \cup {NoKey}]
      /\ answer' \in [Requests -> Answers]
      /\ \A r \in Requests : pc'[r] # "free" => key'[r] \in Keys
  <2>1. ASSUME NEW r \in Requests, Step(r)
        PROVE  /\ pc' \in [Requests -> Points] /\ UNCHANGED key /\ pc[r] # "free"
               /\ answer' \in [Requests -> Answers]
               /\ \A p \in Requests : p # r => pc'[p] = pc[p]
    <3>1. /\ pc \in [Requests -> Points] /\ answer \in [Requests -> Answers]
      BY DEF LoginTypeOK
    <3>2. CASE AssertNotLocked(r) \/ Recheck(r)
      BY <3>1, <3>2 DEF AssertNotLocked, Recheck, GoTo, Answer, Points, Answers
    <3>3. CASE Verify(r)
      BY <3>1, <3>3 DEF Verify, GoTo, Answer, Points, Answers
    <3>4. CASE RecordSuccess(r) \/ RecordFailure(r)
      BY <3>1, <3>4 DEF RecordSuccess, RecordFailure, GoTo, Answer, Points, Answers
    <3>5. CASE pc[r] # "free" /\ RedisFails(r)
      BY <3>1, <3>5 DEF RedisFails, Answer, Points, Answers
    <3> QED BY <2>1, <3>2, <3>3, <3>4, <3>5 DEF Step
  <2>2. ASSUME NEW r \in Requests, NEW k \in Keys, Submit(r, k)
        PROVE  /\ pc' \in [Requests -> Points] /\ key' \in [Requests -> Keys \cup {NoKey}]
               /\ answer' \in [Requests -> Answers]
               /\ \A p \in Requests : pc'[p] # "free" => key'[p] \in Keys
    BY <2>2 DEF Submit, LoginTypeOK, Points, Answers
  <2>3. CASE Tick \/ UNCHANGED vars
    BY <2>3 DEF Tick, vars, LoginTypeOK
  <2> QED BY <2>1, <2>2, <2>3 DEF Next, LoginTypeOK
<1> QED BY <1>1, <1>2 DEF LoginTypeOK

LEMMA TypeInit == Init => LoginTypeOK
<1> SUFFICES ASSUME Init PROVE LoginTypeOK
  OBVIOUS
<1>1. CountBound \in Nat /\ Old \in Nat /\ MaxLock \in Nat /\ MaxFailures \in Nat
  BY LoginAssumption DEF CountBound, Old
<1>2. <<>> \in Seq(0 .. Old) /\ Len(<<>>) = 0
  BY EmptySeq
<1>3. recent \in [Keys -> Seq(0 .. Old)] /\ \A k \in Keys : Len(recent[k]) <= MaxFailures
  BY <1>1, <1>2 DEF Init
<1>4. redisEnabled \in BOOLEAN
  BY LoginAssumption DEF Init
<1>5. /\ failures \in [Keys -> 0 .. CountBound]
      /\ age \in [Keys -> 0 .. Old] /\ counterTtl \in [Keys -> Nat]
      /\ lockLeft \in [Keys -> 0 .. MaxLock] /\ unbroken \in [Keys -> 0 .. MaxFailures]
  BY <1>1 DEF Init
<1> QED BY <1>3, <1>4, <1>5 DEF Init, LoginTypeOK, Points, Answers

-----------------------------------------------------------------------------
\* The inductive invariant, part by part.

\* No failure is counted that did not happen, and a lock had all of them.
Earned(k) ==
  /\ failures[k] <= unbroken[k] \/ unbroken[k] = MaxFailures
  /\ Locked(k) => unbroken[k] = MaxFailures

\* The process has not forgotten a failure that is within the window: the last
\* failure is the youngest, and those since any recent one are all counted.
Remembered(k) ==
  ~redisEnabled =>
    \A i \in 1 .. Len(recent[k]) :
      /\ age[k] <= recent[k][i]
      /\ recent[k][i] <= Window => failures[k] >= Len(recent[k]) - i + 1

\* Only a request to Redis leaves anything between the two.
NoRecheck == ~redisEnabled => \A r \in Requests : pc[r] # "recheck"

LoginInv == LoginTypeOK /\ NoRecheck /\ \A k \in Keys : Earned(k) /\ Remembered(k)

\* What is left of a lock is what its last failure set, less the time since,
\* unless the count was given up; a lock within the window keeps its count.
Counting(k) ==
  ~redisEnabled /\ Locked(k) =>
    /\ failures[k] >= MaxFailures => lockLeft[k] + age[k] <= LockLength(failures[k])
    /\ MaxLock <= Window => failures[k] >= MaxFailures

LEMMA EarnedNext ==
  ASSUME LoginTypeOK, [Next]_vars, NEW k \in Keys, Earned(k)
  PROVE  Earned(k)'
<1>1. /\ failures[k] \in Nat /\ unbroken[k] \in 0 .. MaxFailures
      /\ lockLeft[k] \in Nat /\ MaxFailures \in Nat
  BY LoginAssumption DEF LoginTypeOK, CountBound
<1>2. CASE Fails(k)
  <2>1. Counted(k) <= failures[k] + 1 /\ Counted(k) \in Nat
    BY CountedRange
  <2>2. lockLeft'[k] > 0 => unbroken'[k] = MaxFailures
    BY <1>1, <1>2, <2>1, LockSet DEF Fails, Earned, Locked, Smaller
  <2> QED BY <1>1, <1>2, <2>1, <2>2 DEF Fails, Earned, Locked, Smaller
<1>3. CASE Clears(k) \/ Drops(k) \/ Keeps(k)
  BY <1>1, <1>3 DEF Clears, Drops, Keeps, Earned, Locked
<1>4. CASE GrowsOld(k)
  BY <1>1, <1>4 DEF GrowsOld, Earned, Locked, Decreased
<1> QED BY <1>2, <1>3, <1>4, KeyEffect

LEMMA RememberedNext ==
  ASSUME LoginTypeOK, [Next]_vars, NEW k \in Keys, Remembered(k)
  PROVE  Remembered(k)'
<1>1. /\ failures[k] \in 0 .. CountBound /\ age[k] \in 0 .. Old
      /\ recent[k] \in Seq(0 .. Old) /\ Len(recent[k]) <= MaxFailures /\ Len(recent[k]) \in Nat
      /\ \A i \in 1 .. Len(recent[k]) : recent[k][i] \in 0 .. Old
  BY LenProperties, ElementOfSeq DEF LoginTypeOK
<1>2. /\ CountBound \in Nat /\ Old = Window + 1 /\ MaxFailures \in Nat /\ Window \in Nat
      /\ UNCHANGED redisEnabled
  BY LoginAssumption, KeyEffect DEF CountBound, Old
<1> DEFINE s == recent[k]
           t == recent'[k]
<1>3. CASE Fails(k)
  <2> DEFINE d == Forgotten(s)
  <2>1. /\ d \in {0, 1} /\ Len(t) = Len(s) + 1 - d /\ Len(t) <= MaxFailures
        /\ \A i \in 1 .. Len(t) : t[i] = IF i + d <= Len(s) THEN s[i + d] ELSE 0
    <3>1. t = Latest(Append(s, 0))
      BY <1>3 DEF Fails
    <3>2. d \in {0, 1}
      BY DEF Forgotten
    <3>3. s \in Seq(0 .. Old) /\ Len(s) <= MaxFailures
      BY <1>1
    <3> HIDE DEF s, t, d
    <3>4. /\ Len(t) = Len(s) + 1 - Forgotten(s) /\ Len(t) <= MaxFailures
          /\ \A i \in 1 .. Len(t) :
               t[i] = IF i + Forgotten(s) <= Len(s) THEN s[i + Forgotten(s)] ELSE 0
      BY <3>1, <3>3, LatestAppended
    <3> QED BY <3>2, <3>4 DEF d
  <2> HIDE DEF d
  <2>6. d \in Nat /\ Len(t) \in Nat /\ Len(s) \in Nat
    BY <1>1, <2>1
  <2>2. SUFFICES ASSUME ~redisEnabled, NEW i \in 1 .. Len(t)
                 PROVE  0 <= t[i] /\ (t[i] <= Window => Counted(k) >= Len(t) - i + 1)
    BY <1>2, <1>3 DEF Remembered, Fails
  <2>3. /\ Counted(k) \in 1 .. CountBound /\ CountBound >= MaxFailures
        /\ age[k] <= Window =>
             Counted(k) = failures[k] + 1 \/ (Counted(k) = failures[k] /\ failures[k] = CountBound)
    BY CountedRange
  <2>4. CASE i + d <= Len(s)
    <3>1. t[i] = s[i + d] /\ i + d \in 1 .. Len(s)
      BY <1>1, <2>1, <2>4
    <3>2. /\ s[i + d] \in 0 .. Old /\ age[k] <= s[i + d]
          /\ s[i + d] <= Window => failures[k] >= Len(s) - (i + d) + 1
      BY <1>1, <2>2, <3>1 DEF Remembered
    <3> HIDE DEF s, t
    <3>3. Len(s) - (i + d) + 1 = Len(t) - i /\ Len(t) - i + 1 <= CountBound
      BY <1>2, <2>1, <2>3, <2>6
    <3>4. failures[k] \in Nat /\ age[k] \in Nat /\ t[i] \in Nat /\ i \in Nat
      BY <1>1, <1>2, <2>6, <3>1, <3>2
    <3>5. t[i] <= Window => failures[k] >= Len(t) - i
      BY <3>1, <3>2, <3>3
    <3>6. t[i] <= Window => age[k] <= Window
      BY <1>2, <3>1, <3>2, <3>4
    <3>7. ASSUME t[i] <= Window  PROVE Counted(k) >= Len(t) - i + 1
      <4>1. \/ Counted(k) = failures[k] + 1
            \/ Counted(k) = failures[k] /\ failures[k] = CountBound
        BY <2>3, <3>6, <3>7
      <4>2. failures[k] >= Len(t) - i /\ Len(t) - i \in Int
        BY <2>6, <3>4, <3>5, <3>7
      <4>3. CASE Counted(k) = failures[k] + 1
        BY <3>4, <4>2, <4>3
      <4>4. CASE Counted(k) = failures[k] /\ failures[k] = CountBound
        BY <3>3, <4>4
      <4> QED BY <4>1, <4>3, <4>4
    <3> QED BY <3>4, <3>7
  <2>5. CASE ~(i + d <= Len(s))
    <3> HIDE DEF s, t
    <3>1. t[i] = 0 /\ Len(t) - i + 1 <= 1
      BY <2>1, <2>5, <2>6
    <3> QED BY <1>1, <1>2, <2>3, <3>1
  <2> QED BY <2>4, <2>5
<1>4. CASE GrowsOld(k)
  <2>1. /\ Len(t) = Len(s)
        /\ \A i \in 1 .. Len(s) : t[i] = Smaller(s[i] + 1, Old)
        /\ age'[k] = Smaller(age[k] + 1, Old)
        /\ ~redisEnabled => failures'[k] = failures[k]
    BY <1>1, <1>4, AgedSequence DEF GrowsOld, Aged
  <2>2. SUFFICES ASSUME ~redisEnabled, NEW i \in 1 .. Len(s)
                 PROVE  /\ age'[k] <= t[i]
                        /\ t[i] <= Window => failures[k] >= Len(s) - i + 1
    BY <1>2, <2>1 DEF Remembered
  <2>3. /\ age[k] <= s[i] /\ s[i] \in 0 .. Old
        /\ s[i] <= Window => failures[k] >= Len(s) - i + 1
    BY <1>1, <2>2 DEF Remembered
  <2>4. t[i] = Smaller(s[i] + 1, Old)
    BY <2>1
  <2> HIDE DEF s, t
  <2> QED BY <1>1, <1>2, <2>1, <2>3, <2>4 DEF Smaller
<1>5. CASE Clears(k)
  <2>1. Len(t) = 0
    BY <1>5, EmptySeq DEF Clears
  <2> QED BY <2>1 DEF Remembered
<1>6. CASE Drops(k)
  <2>1. \A i \in 1 .. Len(s) : ~redisEnabled => ~(s[i] <= Window)
    <3>1. ~redisEnabled /\ age[k] > Window
      BY <1>6 DEF Drops
    <3>2. \A i \in 1 .. Len(s) : age[k] <= s[i]
      BY <3>1 DEF Remembered
    <3>3. \A i \in 1 .. Len(s) : s[i] \in Int
      BY <1>1, <1>2
    <3> HIDE DEF s
    <3> QED BY <1>1, <1>2, <3>1, <3>2, <3>3
  <2>2. /\ t = s /\ ~redisEnabled /\ ~redisEnabled'
    BY <1>2, <1>6 DEF Drops
  <2>3. \A i \in 1 .. Len(t) : age[k] <= t[i] /\ ~(t[i] <= Window) /\ age'[k] = age[k]
    BY <1>6, <2>1, <2>2 DEF Drops, Remembered
  <2> QED BY <2>2, <2>3 DEF Remembered
<1>7. CASE Keeps(k)
  BY <1>2, <1>7 DEF Keeps, Remembered
<1> QED BY <1>3, <1>4, <1>5, <1>6, <1>7, KeyEffect

LEMMA NoRecheckNext ==
  ASSUME LoginTypeOK, NoRecheck, [Next]_vars
  PROVE  NoRecheck'
<1>1. UNCHANGED redisEnabled
  BY DEF Next, Tick, vars
<1>2. ASSUME ~redisEnabled, NEW p \in Requests PROVE pc'[p] # "recheck"
  <2>1. pc[p] # "recheck"
    BY <1>2 DEF NoRecheck
  <2>2. ASSUME NEW r \in Requests, Step(r) PROVE pc'[p] # "recheck"
    BY <1>2, <2>1, <2>2 DEF Step, AssertNotLocked, Verify, RecordSuccess, RecordFailure,
       Recheck, RedisFails, GoTo, Answer, LoginTypeOK
  <2>3. ASSUME NEW r \in Requests, NEW k \in Keys, Submit(r, k) PROVE pc'[p] # "recheck"
    BY <2>1, <2>3 DEF Submit, LoginTypeOK
  <2>4. CASE Tick \/ UNCHANGED vars
    BY <2>1, <2>4 DEF Tick, vars
  <2> QED BY <2>2, <2>3, <2>4 DEF Next
<1> QED BY <1>1, <1>2 DEF NoRecheck

LEMMA LoginAlways == Spec => []LoginInv
<1>1. Init => LoginInv
  <2> SUFFICES ASSUME Init PROVE LoginInv
    OBVIOUS
  <2>1. NoRecheck
    BY DEF Init, NoRecheck
  <2>2. ASSUME NEW k \in Keys PROVE Earned(k) /\ Remembered(k)
    <3>1. recent[k] = <<>> /\ Len(<<>>) = 0
      BY EmptySeq DEF Init
    <3>2. failures[k] = 0 /\ unbroken[k] = 0 /\ ~Locked(k)
      BY DEF Init, Locked
    <3> QED BY <3>1, <3>2 DEF Earned, Remembered
  <2> QED BY <2>1, <2>2, TypeInit DEF LoginInv
<1>2. LoginInv /\ [Next]_vars => LoginInv'
  BY TypeNext, NoRecheckNext, EarnedNext, RememberedNext DEF LoginInv
<1> QED BY <1>1, <1>2, PTL DEF Spec

\* LockFollowsFailures of LoginAttempts: whatever logins are in flight and
\* wherever the failures are counted, a key is locked only after MaxFailures
\* failures without a success.
THEOREM LockIsEarned == Spec => []LockFollowsFailures
<1>1. LoginInv => LockFollowsFailures
  BY DEF LoginInv, Earned, LockFollowsFailures
<1> QED BY <1>1, LoginAlways, PTL

\* LimitLocks of LoginAttempts: the process does not answer 401 to the failure
\* that makes MaxFailures within a window, whichever logins it ran beside.
THEOREM LimitIsNotPassed == Spec => LimitLocks
<1>1. ASSUME LoginInv, LoginInv', [Next]_vars, ~redisEnabled, NEW r \in Requests,
             answer'[r] = "unauthorized", answer[r] # "unauthorized"
      PROVE  ~LimitReached(key[r])
  <2>1. LoginTypeOK /\ MaxFailures \in Nat /\ MaxFailures >= 1
    BY <1>1, LoginAssumption DEF LoginInv
  <2>2. RecordFailure(r)
    <3>1. ASSUME NEW q \in Requests, Step(q) PROVE RecordFailure(r)
      <4>1. ~Recheck(q)
        BY <1>1 DEF Recheck, LoginInv, NoRecheck
      <4> QED BY <1>1, <2>1, <3>1, <4>1 DEF Step, AssertNotLocked, Verify, RecordSuccess,
              RecordFailure, RedisFails, GoTo, Answer, LoginTypeOK
    <3>2. ASSUME NEW q \in Requests, NEW k \in Keys, Submit(q, k) PROVE FALSE
      BY <1>1, <2>1, <3>2 DEF Submit, LoginTypeOK
    <3> QED BY <1>1, <3>1, <3>2 DEF Next, Tick, vars
  <2>3. PICK k \in Keys : k = key[r]
    BY <2>1, <2>2 DEF RecordFailure, LoginTypeOK
  <2>4. lockLeft'[k] = 0 /\ UNCHANGED redisEnabled
    BY <1>1, <2>1, <2>2, <2>3, KeyEffect DEF RecordFailure, GoTo, Answer, LoginTypeOK
  <2>5. Fails(k)
    BY <2>1, <2>2, <2>3, RecordFailureFails
  <2>6. Counted(k) < MaxFailures
    <3>1. Counted(k) >= MaxFailures => LockLength(Counted(k)) > 0
      BY <2>1, CountedRange, LockLengths
    <3> QED BY <1>1, <2>1, <2>4, <2>5, <3>1, CountedRange, LockSet DEF LoginInv
  <2> DEFINE t == recent'[k]
             i == Len(t) - (MaxFailures - 1)
  <2>7. SUFFICES ASSUME LimitReached(k) PROVE FALSE
    BY <2>3
  <2>8. Len(t) \in Nat /\ Len(t) >= MaxFailures
    <3>1. t \in Seq(0 .. Old)
      BY <1>1 DEF LoginInv, LoginTypeOK
    <3> QED BY <2>7, <3>1, LenProperties DEF LimitReached
  <2>9. i \in 1 .. Len(t) /\ Len(t) - i + 1 = MaxFailures
    BY <2>1, <2>8
  <2>10. t[i] <= Window
    <3>1. MaxFailures - 1 \in 0 .. MaxFailures - 1
      BY <2>1
    <3> QED BY <2>7, <3>1 DEF LimitReached
  <2>11. Remembered(k)' /\ failures'[k] = Counted(k)
    BY <1>1, <2>5 DEF LoginInv, Fails
  <2>12. failures'[k] >= Len(t) - i + 1
    BY <1>1, <2>4, <2>9, <2>10, <2>11 DEF Remembered
  <2> QED BY <2>1, <2>6, <2>9, <2>11, <2>12, CountedRange
<1>2. ASSUME LoginInv, LoginInv', [Next]_vars
      PROVE  [~redisEnabled => \A r \in Requests :
                answer'[r] = "unauthorized" /\ answer[r] # "unauthorized"
                  => ~LimitReached(key[r])]_vars
  BY <1>1, <1>2
<1> QED BY <1>2, LoginAlways, PTL DEF Spec, LimitLocks

\* A failure that finds its lock counted sets one as long or longer.
LEMMA CountingNext ==
  ASSUME LoginTypeOK, [Next]_vars, NEW k \in Keys, Counting(k)
  PROVE  /\ Counting(k)'
         /\ Fails(k) /\ ~redisEnabled => \/ lockLeft'[k] >= lockLeft[k]
                                         \/ MaxLock > Window /\ CountRestarted(k)
<1>1. /\ failures[k] \in 0 .. CountBound /\ age[k] \in 0 .. Old /\ lockLeft[k] \in 0 .. MaxLock
      /\ UNCHANGED redisEnabled
  BY KeyEffect DEF LoginTypeOK
<1>2. /\ CountBound \in Nat /\ Old = Window + 1 /\ MaxFailures \in Nat /\ Window \in Nat
      /\ MaxLock \in Nat
  BY LoginAssumption DEF CountBound, Old
<1>3. ASSUME Fails(k)
      PROVE  /\ Counting(k)'
             /\ ~redisEnabled => \/ lockLeft'[k] >= lockLeft[k]
                                 \/ MaxLock > Window /\ CountRestarted(k)
  <2> DEFINE n == Counted(k)
  <2>1. /\ n \in 1 .. CountBound
        /\ age[k] <= Window => n = failures[k] + 1 \/ (n = failures[k] /\ failures[k] = CountBound)
    BY CountedRange
  <2>2. /\ failures'[k] = n /\ age'[k] = 0
        /\ ~redisEnabled =>
             lockLeft'[k] = IF n >= MaxFailures THEN LockLength(n) ELSE lockLeft[k]
    <3>1. failures'[k] = n /\ age'[k] = 0
      BY <1>3 DEF Fails
    <3>2. n \in Nat /\ MaxFailures \in Nat
      BY <1>2, <2>1
    <3> QED BY <1>3, <3>1, <3>2, LockSet
  <2> HIDE DEF n
  <2>3. /\ n >= MaxFailures => LockLength(n) \in 1 .. MaxLock
        /\ lockLeft'[k] \in Nat
    BY <1>2, <1>3, <2>1, LockLengths, LockSet
  <2>4. ASSUME ~redisEnabled, Locked(k), age[k] <= Window, failures[k] >= MaxFailures
        PROVE  n >= MaxFailures /\ LockLength(n) >= lockLeft[k]
    <3>1. /\ lockLeft[k] + age[k] <= LockLength(failures[k])
          /\ LockLength(failures[k]) \in 1 .. MaxLock
          /\ LockLength(failures[k]) <= LockLength(failures[k] + 1)
      BY <1>1, <1>2, <2>4, LockLengths DEF Counting
    <3>2. lockLeft[k] <= LockLength(failures[k])
      BY <1>1, <1>2, <3>1
    <3>3. n = failures[k] + 1 \/ n = failures[k]
      BY <2>1, <2>4
    <3>4. n >= MaxFailures
      BY <1>1, <1>2, <2>4, <3>3
    <3>5. LockLength(n) \in 1 .. MaxLock /\ LockLength(failures[k]) <= LockLength(n)
      BY <2>3, <3>1, <3>3, <3>4
    <3> QED BY <1>1, <1>2, <3>1, <3>2, <3>4, <3>5
  <2>5. ASSUME ~redisEnabled, Locked(k), MaxLock <= Window
        PROVE  age[k] <= Window /\ failures[k] >= MaxFailures
    <3>1. /\ failures[k] >= MaxFailures /\ lockLeft[k] + age[k] <= LockLength(failures[k])
          /\ LockLength(failures[k]) \in 1 .. MaxLock
      BY <1>1, <1>2, <2>5, LockLengths DEF Counting
    <3> QED BY <1>1, <1>2, <2>5, <3>1
  <2>6. ASSUME ~redisEnabled, lockLeft'[k] < lockLeft[k]
        PROVE  MaxLock > Window /\ CountRestarted(k)
    <3>1. Locked(k) /\ n >= MaxFailures /\ LockLength(n) < lockLeft[k]
      BY <1>1, <1>2, <2>1, <2>2, <2>3, <2>6 DEF Locked
    <3>2. ~(age[k] <= Window /\ failures[k] >= MaxFailures)
      BY <1>1, <1>2, <2>3, <2>4, <2>6, <3>1
    <3>3. ~(MaxLock <= Window)
      BY <2>5, <2>6, <3>1, <3>2
    <3> QED BY <1>1, <1>2, <3>2, <3>3 DEF CountRestarted
  <2>7. Counting(k)'
    <3>1. SUFFICES ASSUME Locked(k)', ~redisEnabled
                   PROVE  /\ n >= MaxFailures => lockLeft'[k] + 0 <= LockLength(n)
                          /\ MaxLock <= Window => n >= MaxFailures
      BY <1>1, <2>2 DEF Counting
    <3>2. ~redisEnabled /\ n >= MaxFailures => lockLeft'[k] + 0 <= LockLength(n)
      BY <1>2, <2>2, <2>3
    <3>3. ASSUME MaxLock <= Window, ~(n >= MaxFailures) PROVE FALSE
      <4>1. Locked(k)
        BY <2>2, <3>1, <3>3 DEF Locked
      <4> QED BY <2>4, <2>5, <3>1, <3>3, <4>1
    <3> QED BY <3>1, <3>2, <3>3
  <2>8. ~redisEnabled => \/ lockLeft'[k] >= lockLeft[k]
                         \/ MaxLock > Window /\ CountRestarted(k)
    <3>1. lockLeft'[k] \in Nat
      BY <1>1, <1>2, <2>1, <2>2, <2>3
    <3> QED BY <1>1, <1>2, <2>6, <3>1
  <2> QED BY <2>7, <2>8
<1>4. ASSUME GrowsOld(k) PROVE Counting(k)'
  <2>1. Locked(k)' /\ ~redisEnabled =>
          /\ Locked(k) /\ failures'[k] = failures[k]
          /\ lockLeft'[k] + age'[k] <= lockLeft[k] + age[k]
    BY <1>1, <1>2, <1>4 DEF GrowsOld, Locked, Decreased, Smaller
  <2>2. SUFFICES ASSUME Locked(k)', ~redisEnabled
                 PROVE  /\ failures'[k] >= MaxFailures
                             => lockLeft'[k] + age'[k] <= LockLength(failures'[k])
                        /\ MaxLock <= Window => failures'[k] >= MaxFailures
    BY <1>1 DEF Counting
  <2>3. /\ failures[k] >= MaxFailures => lockLeft[k] + age[k] <= LockLength(failures[k])
        /\ MaxLock <= Window => failures[k] >= MaxFailures
        /\ failures[k] >= MaxFailures => LockLength(failures[k]) \in 1 .. MaxLock
    BY <1>1, <1>2, <2>1, <2>2, LockLengths DEF Counting
  <2>4. lockLeft'[k] \in Nat /\ age'[k] \in Nat
    BY KeyTypes, <1>2
  <2> QED BY <1>1, <1>2, <2>1, <2>2, <2>3, <2>4
<1>5. ASSUME Clears(k) \/ Drops(k) \/ Keeps(k) PROVE Counting(k)'
  BY <1>1, <1>5 DEF Clears, Drops, Keeps, Counting, Locked
<1> QED BY <1>3, <1>4, <1>5, KeyEffect

\* LockIsProgressive of LoginAttempts, for whatever limits: a further failure
\* brings the end of a lock of the process nearer only where a lock may outlive
\* the window, and after the count behind it was given up.
THEOREM LockGrows == Spec => LockIsProgressive
<1> DEFINE Inv == LoginTypeOK /\ \A k \in Keys : Counting(k)
<1>1. Init => Inv
  <2>1. ASSUME Init, NEW k \in Keys PROVE Counting(k)
    <3>1. lockLeft[k] = 0
      BY <2>1 DEF Init
    <3> QED BY <3>1 DEF Counting, Locked
  <2> QED BY <2>1, TypeInit
<1>2. Inv /\ [Next]_vars => Inv'
  BY TypeNext, CountingNext
<1>3. ASSUME Inv, [Next]_vars
      PROVE  [~redisEnabled => \A k \in Keys : lockLeft'[k] < lockLeft[k] =>
                \/ Tick
                \/ \E r \in Requests : RecordSuccess(r) /\ key[r] = k
                \/ MaxLock > Window /\ CountRestarted(k)]_vars
  <2>1. SUFFICES ASSUME ~redisEnabled, NEW k \in Keys, lockLeft'[k] < lockLeft[k]
                 PROVE  \/ Tick
                        \/ \E r \in Requests : RecordSuccess(r) /\ key[r] = k
                        \/ MaxLock > Window /\ CountRestarted(k)
    OBVIOUS
  <2>2. lockLeft[k] \in Nat /\ lockLeft'[k] \in Nat
    BY <1>3, KeyTypes, LoginAssumption DEF LoginTypeOK
  <2>3. ~Drops(k) /\ ~Keeps(k) /\ (Fails(k) => MaxLock > Window /\ CountRestarted(k))
    <3>1. Fails(k) => lockLeft'[k] >= lockLeft[k] \/ (MaxLock > Window /\ CountRestarted(k))
      BY <1>3, <2>1, CountingNext
    <3> QED BY <2>1, <2>2, <3>1 DEF Drops, Keeps
  <2> QED BY <1>3, <2>3, KeyEffect
<1> HIDE DEF Inv
<1> QED BY <1>1, <1>2, <1>3, PTL DEF Spec, LockIsProgressive
=============================================================================
