--------------------------- MODULE RateLimitProofs ---------------------------
(***************************************************************************)
(* Theorems about RateLimit, for any number of processes and of requests,  *)
(* any limit and any window.                                               *)
(***************************************************************************)
EXTENDS RateLimit, FiniteSetTheorems, TLAPS

RateTypeOK ==
  /\ count \in [Stores -> 0 .. CountBound]
  /\ left \in [Stores -> 0 .. Window]
  /\ pc \in [Requests -> {"free", "eval", "reply", "entry"}]
  /\ at \in [Requests -> Instances \cup {Nowhere}]
  /\ counted \in [Requests -> 0 .. CountBound]
  /\ answer \in [Requests -> {"none", "tooMany", "admitted"}]
  /\ elapsed \in [Requests -> 0 .. Window]
  /\ behind \in [Requests -> 0 .. CountBound]
  /\ hits \in [Stores -> [Ages -> 0 .. CountBound]]
  /\ admitted \in [Stores -> [Ages -> Nat]]

\* What a request on its way knows.  The window of an entry does not end
\* between counting and deciding; that of a Redis key may, but what the script
\* returned had its reason when it ran.
Underway(r) ==
  /\ pc[r] # "free" => at[r] \in Instances
  /\ pc[r] = "entry" => elapsed[r] = 0 /\ counted[r] <= count[at[r]]
  /\ pc[r] = "reply" => (counted[r] > Limit => behind[r] > Limit)

\* The requests a store counted at most a ticks ago and may still admit, and
\* with them all it has granted of that age; how long ago its window began.
Passing(s, a) ==
  {r \in Requests : /\ pc[r] \in {"reply", "entry"} /\ StoreOf(r) = s
                    /\ counted[r] <= Limit /\ elapsed[r] <= a}
Granted(s, a) == admitted[s][a] + Cardinality(Passing(s, a))
Since(s) == Window - left[s]

Growing(s) ==
  \A a, b \in Ages : a <= b => admitted[s][a] <= admitted[s][b] /\ hits[s][a] <= hits[s][b]

\* Of the requests counted in the present window no more is granted than were
\* counted and than the limit; of those before it, no more than the limit.
Windowed(s) ==
  /\ Growing(s) /\ \A a \in Ages : IsFiniteSet(Passing(s, a))
  /\ left[s] = 0 => /\ count[s] = 0 /\ Granted(s, 0) = 0
                    /\ Granted(s, Window - 1) <= Limit
  /\ left[s] > 0 =>
       /\ count[s] >= 1
       /\ Granted(s, Since(s)) <= count[s]
       /\ Granted(s, Since(s)) <= Limit
       /\ Granted(s, Window - 1) <= Granted(s, Since(s)) + Limit
       /\ hits[s][Since(s)] >= count[s]

RateInv ==
  /\ RateTypeOK
  /\ \A r \in Requests : Underway(r)
  /\ \A s \in Stores : Windowed(s)

LEMMA Numbers ==
  /\ CountBound \in Nat /\ CountBound = Limit + 1 /\ Limit \in Nat /\ Limit >= 1
  /\ Window \in Nat /\ Window >= 1 /\ 0 \in Ages /\ Window - 1 \in Ages
  /\ Ages \subseteq Nat /\ \A a \in Ages : a <= Window - 1
  BY RateAssumption DEF CountBound, Ages

LEMMA RateInit == Init => RateInv
<1> SUFFICES ASSUME Init PROVE RateInv
  OBVIOUS
<1>1. RateTypeOK
  BY Numbers DEF Init, RateTypeOK
<1>2. ASSUME NEW s \in Stores PROVE Windowed(s)
  <2>1. \A a \in Ages : Passing(s, a) = {}
    BY DEF Init, Passing
  <2>2. \A a \in Ages : admitted[s][a] = 0 /\ hits[s][a] = 0
    BY DEF Init
  <2>3. \A a \in Ages : IsFiniteSet(Passing(s, a)) /\ Granted(s, a) = 0
    BY <2>1, <2>2, FS_EmptySet DEF Granted
  <2>4. left[s] = 0 /\ count[s] = 0
    BY DEF Init
  <2> QED BY <2>2, <2>3, <2>4, Numbers DEF Windowed, Growing
<1> QED BY <1>1, <1>2 DEF Init, RateInv, Underway

\* A request is counted by Redis, before the reply, or by its process.
Counting(r, s, q) ==
  /\ Count(r, s)
  /\ pc' = [pc EXCEPT ![r] = q]
  /\ pc[r] \in {"free", "eval", "reply"}
  /\ \/ q = "reply" /\ s = "redis" /\ pc[r] = "eval" /\ UNCHANGED <<at, answer>>
     \/ q = "entry" /\ s = at[r] /\ pc[r] # "free" /\ s \in Instances /\ UNCHANGED <<at, answer>>
     \/ /\ q = "entry" /\ pc[r] = "free" /\ s \in Instances
        /\ at' = [at EXCEPT ![r] = s] /\ answer' = [answer EXCEPT ![r] = "none"]

\* The steps, by what they do to the stores.
LEMMA Steps ==
  ASSUME RateInv, [Next]_vars
  PROVE  \/ UNCHANGED <<counters, pc, locals, answer, admitted>>
         \/ \E r \in Requests, i \in Instances : SubmitToRedis(r, i)
         \/ \E r \in Requests, s \in Stores, q \in {"reply", "entry"} : Counting(r, s, q)
         \/ \E r \in Requests : pc[r] \in {"reply", "entry"} /\ Decide(r)
         \/ Tick
<1>1. ASSUME NEW r \in Requests, CountInRedis(r)
      PROVE  Counting(r, "redis", "reply")
  BY <1>1 DEF CountInRedis, Counting
<1>2. ASSUME NEW r \in Requests, FallBack(r)
      PROVE  Counting(r, at[r], "entry") /\ at[r] \in Stores
  <2>1. at[r] \in Instances
    BY <1>2 DEF FallBack, RateInv, Underway
  <2> QED BY <1>2, <2>1 DEF FallBack, Counting, Stores
<1>3. ASSUME NEW r \in Requests, NEW i \in Instances, SubmitToProcess(r, i)
      PROVE  Counting(r, i, "entry") /\ i \in Stores
  BY <1>3 DEF SubmitToProcess, Counting, Stores
<1>4. ASSUME NEW r \in Requests, DecideOnReply(r) \/ DecideOnEntry(r)
      PROVE  pc[r] \in {"reply", "entry"} /\ Decide(r)
  BY <1>4 DEF DecideOnReply, DecideOnEntry
<1>5. "redis" \in Stores
  BY DEF Stores
<1>6. CASE UNCHANGED vars
  BY <1>6 DEF vars
<1>7. CASE Next
  BY <1>1, <1>2, <1>3, <1>4, <1>5, <1>7 DEF Next
<1> QED BY <1>6, <1>7

\* What Count writes, for a request r that was no longer or not yet counted.
LEMMA CountWrites ==
  ASSUME RateTypeOK, NEW r \in Requests, NEW s \in Stores, Count(r, s)
  PROVE  \E n \in 1 .. CountBound :
           /\ n >= count[s] /\ n <= count[s] + 1 /\ (n = count[s] + 1 \/ n = Limit + 1)
           /\ count' = [count EXCEPT ![s] = n]
           /\ left' = [left EXCEPT ![s] = IF n = 1 THEN Window ELSE left[s]]
           /\ counted' = [counted EXCEPT ![r] = n]
           /\ elapsed' = [elapsed EXCEPT ![r] = 0]
           /\ \A a \in Ages : hits'[s][a] = Smaller(hits[s][a] + 1, CountBound)
           /\ \A x \in Stores : x # s => hits'[x] = hits[x]
           /\ hits' \in [Stores -> [Ages -> 0 .. CountBound]]
           /\ behind' = [behind EXCEPT ![r] = Total(hits'[s])]
           /\ UNCHANGED admitted
<1> DEFINE n == Smaller(count[s] + 1, CountBound)
<1> DEFINE h == [a \in Ages |-> Smaller(hits[s][a] + 1, CountBound)]
<1>1. /\ n \in 1 .. CountBound /\ n >= count[s] /\ n <= count[s] + 1
      /\ (n = count[s] + 1 \/ n = Limit + 1)
  BY Numbers DEF RateTypeOK, Smaller
<1>2. h \in [Ages -> 0 .. CountBound]
  <2>1. \A a \in Ages : Smaller(hits[s][a] + 1, CountBound) \in 0 .. CountBound
    BY Numbers DEF RateTypeOK, Smaller
  <2> QED BY <2>1
<1>3. /\ count' = [count EXCEPT ![s] = n] /\ left' = [left EXCEPT ![s] = LeftAfter(s, n)]
      /\ hits' = [hits EXCEPT ![s] = h] /\ counted' = [counted EXCEPT ![r] = n]
      /\ elapsed' = [elapsed EXCEPT ![r] = 0] /\ behind' = [behind EXCEPT ![r] = Total(h)]
      /\ UNCHANGED admitted
  BY DEF Count
<1>4. h = [a \in Ages |-> Smaller(hits[s][a] + 1, CountBound)]
  OBVIOUS
<1> HIDE DEF h
<1>5. hits' \in [Stores -> [Ages -> 0 .. CountBound]] /\ hits'[s] = h
  BY <1>2, <1>3 DEF RateTypeOK
<1>6. \A x \in Stores : x # s => hits'[x] = hits[x]
  BY <1>3 DEF RateTypeOK
<1> QED BY <1>1, <1>3, <1>4, <1>5, <1>6 DEF LeftAfter

LEMMA TypeNext == RateInv /\ [Next]_vars => RateTypeOK'
<1> SUFFICES ASSUME RateInv, [Next]_vars PROVE RateTypeOK'
  OBVIOUS
<1>1. RateTypeOK
  BY DEF RateInv
<1>2. ASSUME NEW r \in Requests, NEW i \in Instances, SubmitToRedis(r, i) PROVE RateTypeOK'
  BY <1>1, <1>2 DEF SubmitToRedis, RateTypeOK, counters
<1>3. ASSUME NEW r \in Requests, NEW s \in Stores, NEW q \in {"reply", "entry"},
             Counting(r, s, q)
      PROVE  RateTypeOK'
  <2>1. PICK n \in 1 .. CountBound :
           /\ count' = [count EXCEPT ![s] = n]
           /\ left' = [left EXCEPT ![s] = IF n = 1 THEN Window ELSE left[s]]
           /\ counted' = [counted EXCEPT ![r] = n]
           /\ elapsed' = [elapsed EXCEPT ![r] = 0]
           /\ hits' \in [Stores -> [Ages -> 0 .. CountBound]]
           /\ behind' = [behind EXCEPT ![r] = Total(hits'[s])]
           /\ UNCHANGED admitted
    BY <1>1, <1>3, CountWrites DEF Counting
  <2>2. at' \in [Requests -> Instances \cup {Nowhere}]
        /\ answer' \in [Requests -> {"none", "tooMany", "admitted"}]
        /\ pc' \in [Requests -> {"free", "eval", "reply", "entry"}]
    BY <1>1, <1>3 DEF Counting, RateTypeOK
  <2>3. Total(hits'[s]) \in 0 .. CountBound
    BY <2>1, Numbers DEF Total
  <2>4. count' \in [Stores -> 0 .. CountBound] /\ left' \in [Stores -> 0 .. Window]
    BY <1>1, <2>1, Numbers DEF RateTypeOK
  <2>5. counted' \in [Requests -> 0 .. CountBound] /\ elapsed' \in [Requests -> 0 .. Window]
    BY <1>1, <2>1, Numbers DEF RateTypeOK
  <2>6. behind' \in [Requests -> 0 .. CountBound]
    BY <1>1, <2>1, <2>3 DEF RateTypeOK
  <2> QED BY <1>1, <2>1, <2>2, <2>4, <2>5, <2>6 DEF RateTypeOK
<1>4. ASSUME NEW r \in Requests, pc[r] \in {"reply", "entry"}, Decide(r) PROVE RateTypeOK'
  <2>1. admitted' \in [Stores -> [Ages -> Nat]]
    <3>1. CASE UNCHANGED admitted
      BY <1>1, <3>1 DEF RateTypeOK
    <3>2. CASE admitted' = [admitted EXCEPT ![StoreOf(r)] =
                 [a \in Ages |-> IF a >= elapsed[r] THEN @[a] + 1 ELSE @[a]]]
      <4>1. PICK s \in Stores : s = StoreOf(r)
        BY <1>4 DEF RateInv, Underway, StoreOf, Stores
      <4>2. [a \in Ages |-> IF a >= elapsed[r] THEN admitted[s][a] + 1 ELSE admitted[s][a]]
              \in [Ages -> Nat]
        BY <1>1 DEF RateTypeOK
      <4>3. admitted' = [admitted EXCEPT ![s] =
                [a \in Ages |-> IF a >= elapsed[r] THEN admitted[s][a] + 1 ELSE admitted[s][a]]]
        BY <1>1, <3>2, <4>1 DEF RateTypeOK
      <4> QED BY <1>1, <4>2, <4>3 DEF RateTypeOK
    <3> QED BY <1>4, <3>1, <3>2 DEF Decide
  <2> QED BY <1>1, <1>4, <2>1, Numbers DEF Decide, RateTypeOK, counters
<1>5. CASE Tick
  <2>1. ASSUME NEW h \in [Ages -> Nat], NEW B \in SUBSET Nat, 0 \in B, \A a \in Ages : h[a] \in B
        PROVE  Older(h) \in [Ages -> B]
    BY <2>1, Numbers DEF Older, Ages
  <2>2. \A s \in Stores : Older(admitted[s]) \in [Ages -> Nat]
    BY <1>1, <2>1 DEF RateTypeOK
  <2>3. \A s \in Stores : Older(hits[s]) \in [Ages -> 0 .. CountBound]
    <3>1. SUFFICES ASSUME NEW s \in Stores PROVE Older(hits[s]) \in [Ages -> 0 .. CountBound]
      OBVIOUS
    <3>2. hits[s] \in [Ages -> Nat] /\ \A a \in Ages : hits[s][a] \in 0 .. CountBound
      BY <1>1 DEF RateTypeOK
    <3>3. 0 \in 0 .. CountBound /\ 0 .. CountBound \in SUBSET Nat
      BY Numbers
    <3> QED BY <2>1, <3>2, <3>3
  <2>4. hits' \in [Stores -> [Ages -> 0 .. CountBound]] /\ admitted' \in [Stores -> [Ages -> Nat]]
    BY <1>5, <2>2, <2>3 DEF Tick
  <2>5. count' \in [Stores -> 0 .. CountBound] /\ left' \in [Stores -> 0 .. Window]
    BY <1>1, <1>5, Numbers DEF Tick, RateTypeOK, Decreased
  <2>6. elapsed' \in [Requests -> 0 .. Window]
    BY <1>1, <1>5, Numbers DEF Tick, RateTypeOK, Smaller
  <2> QED BY <1>1, <1>5, <2>4, <2>5, <2>6 DEF Tick, RateTypeOK
<1>6. CASE UNCHANGED <<counters, pc, locals, answer, admitted>>
  BY <1>1, <1>6 DEF RateTypeOK, counters, locals
<1> QED BY <1>2, <1>3, <1>4, <1>5, <1>6, Steps

-----------------------------------------------------------------------------
\* A store that counts nothing: what it has granted goes down by one request at
\* most, of age e; none is of the age Window.
LEMMA Losing ==
  ASSUME RateInv, NEW s \in Stores, Growing(s)',
         count'[s] = count[s], left'[s] = left[s], hits'[s] = hits[s],
         NEW e \in Nat,
         \A a \in Ages : /\ IsFiniteSet(Passing(s, a)')
                         /\ Granted(s, a) \in Nat /\ Granted(s, a)' \in Nat
                         /\ Granted(s, a)' = IF a >= e THEN Granted(s, a) - 1 ELSE Granted(s, a)
  PROVE  Windowed(s)'
<1>1. Windowed(s) /\ left[s] \in 0 .. Window /\ count[s] \in Nat
  BY Numbers DEF RateInv, RateTypeOK
<1>2. CASE left[s] = 0
  BY <1>1, <1>2, Numbers DEF Windowed
<1>3. CASE left[s] > 0
  <2>1. PICK w \in Ages : w = Since(s)
    BY <1>1, <1>3, Numbers DEF Since, Ages
  <2>2. Since(s)' = w
    BY <2>1 DEF Since
  <2>3. w <= Window - 1 /\ Window - 1 \in Ages /\ w \in Nat
    BY Numbers
  <2>4. /\ Granted(s, w) <= count[s] /\ Granted(s, w) <= Limit
        /\ Granted(s, Window - 1) <= Granted(s, w) + Limit
        /\ count[s] >= 1 /\ hits[s][w] >= count[s]
    BY <1>1, <1>3, <2>1 DEF Windowed
  <2>5. /\ Granted(s, w)' <= count[s] /\ Granted(s, w)' <= Limit
        /\ Granted(s, Window - 1)' <= Granted(s, w)' + Limit
    BY <1>1, <2>3, <2>4, Numbers
  <2> QED BY <1>3, <2>2, <2>4, <2>5 DEF Windowed
<1> QED BY <1>1, <1>2, <1>3

LEMMA GrantedType ==
  ASSUME RateInv, NEW s \in Stores, NEW a \in Ages
  PROVE  /\ IsFiniteSet(Passing(s, a)) /\ Cardinality(Passing(s, a)) \in Nat
         /\ admitted[s][a] \in Nat /\ Granted(s, a) \in Nat
<1>1. IsFiniteSet(Passing(s, a)) /\ admitted[s][a] \in Nat
  BY DEF RateInv, RateTypeOK, Windowed
<1> QED BY <1>1, FS_CardinalityType DEF Granted

\* A request that leaves a store, refused or counted anew by its process.
LEMMA LeavingWindowed ==
  ASSUME RateInv, NEW s \in Stores, NEW r \in Requests,
         count'[s] = count[s], left'[s] = left[s], hits'[s] = hits[s],
         admitted'[s] = admitted[s],
         \A a \in Ages : Passing(s, a)' = Passing(s, a) \ {r}
  PROVE  Windowed(s)'
<1>1. Windowed(s) /\ elapsed[r] \in 0 .. Window
  BY DEF RateInv, RateTypeOK
<1>2. Growing(s)'
  BY <1>1 DEF Windowed, Growing
<1>3. \E e \in Nat : \A a \in Ages : r \in Passing(s, a) <=> a >= e
  <2>1. CASE /\ pc[r] \in {"reply", "entry"} /\ StoreOf(r) = s /\ counted[r] <= Limit
    <3>1. elapsed[r] \in Nat /\ \A a \in Ages : r \in Passing(s, a) <=> a >= elapsed[r]
      BY <1>1, <2>1, Numbers DEF Passing
    <3> QED BY <3>1
  <2>2. CASE ~(/\ pc[r] \in {"reply", "entry"} /\ StoreOf(r) = s /\ counted[r] <= Limit)
    <3>1. \A a \in Ages : r \notin Passing(s, a) /\ ~(a >= Window)
      BY <2>2, Numbers DEF Passing
    <3> QED BY <3>1, Numbers
  <2> QED BY <2>1, <2>2
<1>4. PICK e \in Nat : \A a \in Ages : r \in Passing(s, a) <=> a >= e
  BY <1>3
<1>5. ASSUME NEW a \in Ages
      PROVE  /\ IsFiniteSet(Passing(s, a)')
             /\ Granted(s, a) \in Nat /\ Granted(s, a)' \in Nat
             /\ Granted(s, a)' = IF a >= e THEN Granted(s, a) - 1 ELSE Granted(s, a)
  <2>1. /\ IsFiniteSet(Passing(s, a)) /\ Cardinality(Passing(s, a)) \in Nat
        /\ admitted[s][a] \in Nat /\ Granted(s, a) \in Nat
    BY GrantedType
  <2>2. /\ IsFiniteSet(Passing(s, a)') /\ Cardinality(Passing(s, a)') \in Nat
        /\ Cardinality(Passing(s, a)') = IF a >= e THEN Cardinality(Passing(s, a)) - 1
                                                   ELSE Cardinality(Passing(s, a))
    <3>1. Passing(s, a)' = Passing(s, a) \ {r}
      OBVIOUS
    <3>2. /\ IsFiniteSet(Passing(s, a) \ {r})
          /\ Cardinality(Passing(s, a) \ {r}) = IF r \in Passing(s, a)
               THEN Cardinality(Passing(s, a)) - 1 ELSE Cardinality(Passing(s, a))
      BY <2>1, FS_RemoveElement
    <3>3. Cardinality(Passing(s, a) \ {r}) \in Nat
      BY <3>2, FS_CardinalityType
    <3> QED BY <1>4, <3>1, <3>2, <3>3
  <2>3. Granted(s, a)' = admitted[s][a] + Cardinality(Passing(s, a)')
    BY DEF Granted
  <2> QED BY <2>1, <2>2, <2>3 DEF Granted
<1> QED BY <1>2, <1>4, <1>5, Losing

LEMMA CountWindowed ==
  ASSUME RateInv, NEW r \in Requests, NEW s \in Stores, NEW q \in {"reply", "entry"},
         Counting(r, s, q)
  PROVE  Windowed(s)'
<1>1. /\ RateTypeOK /\ Windowed(s) /\ Underway(r)
      /\ count[s] \in 0 .. CountBound /\ left[s] \in 0 .. Window
      /\ \A a \in Ages : admitted[s][a] \in Nat /\ hits[s][a] \in 0 .. CountBound
  BY Numbers DEF RateInv, RateTypeOK
<1>2. PICK n \in 1 .. CountBound :
        /\ n >= count[s] /\ n <= count[s] + 1 /\ (n = count[s] + 1 \/ n = Limit + 1)
        /\ count' = [count EXCEPT ![s] = n]
        /\ left' = [left EXCEPT ![s] = IF n = 1 THEN Window ELSE left[s]]
        /\ counted' = [counted EXCEPT ![r] = n]
        /\ elapsed' = [elapsed EXCEPT ![r] = 0]
        /\ \A a \in Ages : hits'[s][a] = Smaller(hits[s][a] + 1, CountBound)
        /\ UNCHANGED admitted
  BY <1>1, CountWrites DEF Counting
<1>3. count'[s] = n /\ left'[s] = (IF n = 1 THEN Window ELSE left[s])
  BY <1>1, <1>2 DEF RateTypeOK
<1>4. ASSUME NEW a \in Ages
      PROVE  /\ Passing(s, a)' = IF n <= Limit THEN Passing(s, a) \cup {r} ELSE Passing(s, a)
             /\ r \notin Passing(s, a)
  <2>1. pc' = [pc EXCEPT ![r] = q] /\ \A p \in Requests \ {r} : at'[p] = at[p]
    BY <1>1 DEF Counting, RateTypeOK
  <2>2. \A p \in Requests \ {r} : p \in Passing(s, a)' <=> p \in Passing(s, a)
    BY <1>1, <1>2, <2>1 DEF Passing, StoreOf, RateTypeOK
  <2>3. r \notin Passing(s, a)
    <3>1. CASE q = "reply"
      BY <3>1 DEF Counting, Passing
    <3>2. CASE q = "entry"
      BY <3>2, RateAssumption DEF Counting, Passing, StoreOf
    <3> QED BY <3>1, <3>2
  <2>4. r \in Passing(s, a)' <=> n <= Limit
    <3>1. pc'[r] = q /\ counted'[r] = n /\ elapsed'[r] = 0 /\ 0 <= a
      BY <1>1, <1>2, <2>1, Numbers DEF RateTypeOK
    <3>2. StoreOf(r)' = s
      <4>1. CASE q = "reply"
        BY <3>1, <4>1 DEF Counting, StoreOf
      <4>2. CASE q = "entry"
        BY <1>1, <3>1, <4>2 DEF Counting, StoreOf, RateTypeOK
      <4> QED BY <4>1, <4>2
    <3> QED BY <3>1, <3>2 DEF Passing
  <2>5. Passing(s, a) \subseteq Requests /\ Passing(s, a)' \subseteq Requests
    BY DEF Passing
  <2> QED BY <2>2, <2>3, <2>4, <2>5
<1>5. ASSUME NEW a \in Ages
      PROVE  /\ IsFiniteSet(Passing(s, a)') /\ Granted(s, a) \in Nat
             /\ Granted(s, a)' = IF n <= Limit THEN Granted(s, a) + 1 ELSE Granted(s, a)
  <2>1. /\ IsFiniteSet(Passing(s, a)) /\ Cardinality(Passing(s, a)) \in Nat
        /\ admitted[s][a] \in Nat /\ Granted(s, a) \in Nat
    BY GrantedType
  <2>2. /\ IsFiniteSet(Passing(s, a) \cup {r})
        /\ Cardinality(Passing(s, a) \cup {r}) = Cardinality(Passing(s, a)) + 1
    BY <1>4, <2>1, FS_AddElement
  <2>3. Granted(s, a)' = admitted[s][a] + Cardinality(Passing(s, a)')
    BY <1>2 DEF Granted
  <2>4. Granted(s, a) = admitted[s][a] + Cardinality(Passing(s, a))
    BY DEF Granted
  <2>5. CASE n <= Limit
    <3>1. IsFiniteSet(Passing(s, a)') /\ Cardinality(Passing(s, a)') = Cardinality(Passing(s, a)) + 1
      BY <1>4, <2>2, <2>5
    <3> QED BY <2>1, <2>3, <2>4, <2>5, <3>1
  <2>6. CASE ~(n <= Limit)
    BY <1>4, <2>1, <2>3, <2>4, <2>6
  <2> QED BY <2>5, <2>6
<1>6. Growing(s)'
  <2>1. SUFFICES ASSUME NEW a \in Ages, NEW b \in Ages, a <= b
                 PROVE  admitted'[s][a] <= admitted'[s][b] /\ hits'[s][a] <= hits'[s][b]
    BY DEF Growing
  <2>2. admitted[s][a] <= admitted[s][b] /\ hits[s][a] <= hits[s][b]
    BY <1>1, <2>1 DEF Windowed, Growing
  <2>3. hits[s][a] \in Nat /\ hits[s][b] \in Nat
    BY <1>1, Numbers
  <2> QED BY <1>2, <2>2, <2>3, Numbers DEF Smaller
<1>7. n \in Nat /\ n >= 1 /\ n <= Limit + 1 /\ 0 \in Ages /\ Window - 1 \in Ages
  BY Numbers
<1>8. CASE left[s] = 0
  <2>1. count[s] = 0 /\ Granted(s, 0) = 0 /\ Granted(s, Window - 1) <= Limit
    BY <1>1, <1>8 DEF Windowed
  <2>2. n = 1 /\ left'[s] = Window /\ Since(s)' = 0
    BY <1>2, <1>3, <2>1, Numbers DEF Since
  <2>3. hits'[s][0] >= 1
    BY <1>1, <1>2, Numbers DEF Smaller
  <2>4. Granted(s, 0)' = 1 /\ Granted(s, Window - 1)' <= 1 + Limit
    <3>1. /\ Granted(s, Window - 1)' = Granted(s, Window - 1) + 1
          /\ Granted(s, 0)' = Granted(s, 0) + 1 /\ Granted(s, Window - 1) \in Nat
      BY <1>5, <1>7, <2>2, Numbers
    <3> QED BY <2>1, <3>1, Numbers
  <2> QED BY <1>3, <1>5, <1>6, <2>2, <2>3, <2>4, Numbers DEF Windowed
<1>9. CASE left[s] > 0
  <2>1. PICK w \in Ages : w = Since(s)
    BY <1>1, <1>9, Numbers DEF Since, Ages
  <2>2. /\ count[s] >= 1 /\ Granted(s, w) <= count[s] /\ Granted(s, w) <= Limit
        /\ Granted(s, Window - 1) <= Granted(s, w) + Limit /\ hits[s][w] >= count[s]
    BY <1>1, <1>9, <2>1 DEF Windowed
  <2>3. left'[s] = left[s] /\ Since(s)' = w
    BY <1>1, <1>2, <1>3, <1>9, <2>1, <2>2, Numbers DEF Since
  <2>4. hits'[s][w] >= n
    <3>1. hits'[s][w] = Smaller(hits[s][w] + 1, CountBound) /\ hits[s][w] \in Nat
      BY <1>1, <1>2, Numbers
    <3>2. n <= hits[s][w] + 1 /\ n <= CountBound
      BY <1>1, <1>2, <1>7, <2>2, <3>1, Numbers
    <3> QED BY <1>7, <3>1, <3>2, Numbers DEF Smaller
  <2>5. /\ Granted(s, w)' <= n /\ Granted(s, w)' <= Limit
        /\ Granted(s, Window - 1)' <= Granted(s, w)' + Limit
    <3>1. /\ Granted(s, w)' = IF n <= Limit THEN Granted(s, w) + 1 ELSE Granted(s, w)
          /\ Granted(s, Window - 1)' = IF n <= Limit THEN Granted(s, Window - 1) + 1
                                                     ELSE Granted(s, Window - 1)
          /\ Granted(s, w) \in Nat /\ Granted(s, Window - 1) \in Nat /\ count[s] \in Nat
      BY <1>1, <1>5, <1>7, Numbers
    <3> QED BY <1>2, <1>7, <2>2, <3>1, Numbers
  <2> QED BY <1>3, <1>5, <1>6, <1>7, <1>9, <2>3, <2>4, <2>5 DEF Windowed
<1> QED BY <1>1, <1>8, <1>9

\* A decision: an admission is one that was granted when it was counted.
LEMMA DecideReads ==
  ASSUME RateInv, NEW r \in Requests, pc[r] \in {"reply", "entry"}
  PROVE  /\ StoreOf(r) \in Stores
         /\ ~Exceeded(ReadCount(r)) =>
              \A a \in Ages : r \in Passing(StoreOf(r), a) <=> a >= elapsed[r]
<1>1. /\ RateTypeOK /\ at[r] \in Instances
      /\ pc[r] = "entry" => counted[r] <= count[at[r]]
  BY DEF RateInv, Underway
<1>2. StoreOf(r) \in Stores
  BY <1>1 DEF StoreOf, Stores
<1>3. ASSUME ~Exceeded(ReadCount(r)) PROVE counted[r] <= Limit
  <2>1. counted[r] \in Nat /\ count[at[r]] \in Nat
    BY <1>1, Numbers DEF RateTypeOK, Stores
  <2> QED BY <1>1, <1>3, <2>1, Numbers DEF Exceeded, ReadCount
<1>4. elapsed[r] \in Nat
  BY <1>1, Numbers DEF RateTypeOK
<1> QED BY <1>2, <1>3, <1>4, Numbers DEF Passing

LEMMA DecideWindowed ==
  ASSUME RateInv, NEW r \in Requests, pc[r] \in {"reply", "entry"}, Decide(r),
         NEW s \in Stores
  PROVE  Windowed(s)'
<1>1. /\ RateTypeOK /\ Windowed(s) /\ UNCHANGED <<count, left, hits>>
      /\ elapsed[r] \in Nat
  BY Numbers DEF RateInv, RateTypeOK, Decide, counters
<1>2. ASSUME NEW a \in Ages PROVE Passing(s, a)' = Passing(s, a) \ {r}
  BY <1>1 DEF Decide, Passing, StoreOf, RateTypeOK, counters
<1>3. CASE admitted'[s] = admitted[s]
  BY <1>1, <1>2, <1>3, LeavingWindowed
<1>4. CASE admitted'[s] # admitted[s]
  <2>1. ~Exceeded(ReadCount(r)) /\ s = StoreOf(r)
        /\ \A a \in Ages : admitted'[s][a] = IF a >= elapsed[r] THEN admitted[s][a] + 1
                                                               ELSE admitted[s][a]
    <3>1. /\ ~Exceeded(ReadCount(r))
          /\ admitted' = [admitted EXCEPT ![StoreOf(r)] =
               [a \in Ages |-> IF a >= elapsed[r] THEN @[a] + 1 ELSE @[a]]]
      BY <1>4 DEF Decide
    <3>2. s = StoreOf(r)
      BY <1>1, <1>4, <3>1 DEF RateTypeOK
    <3> QED BY <1>1, <3>1, <3>2 DEF RateTypeOK
  <2>2. \A a \in Ages : r \in Passing(s, a) <=> a >= elapsed[r]
    BY <2>1, DecideReads
  <2>3. Growing(s)'
    <3>1. SUFFICES ASSUME NEW a \in Ages, NEW b \in Ages, a <= b
                   PROVE  admitted'[s][a] <= admitted'[s][b] /\ hits'[s][a] <= hits'[s][b]
      BY DEF Growing
    <3>2. /\ admitted[s][a] <= admitted[s][b] /\ hits[s][a] <= hits[s][b]
          /\ admitted[s][a] \in Nat /\ admitted[s][b] \in Nat
      BY <1>1, <3>1 DEF Windowed, Growing, RateTypeOK
    <3>3. a \in Nat /\ b \in Nat
      BY Numbers
    <3> QED BY <1>1, <2>1, <3>1, <3>2, <3>3
  <2>4. ASSUME NEW a \in Ages
        PROVE  /\ IsFiniteSet(Passing(s, a)')
               /\ Granted(s, a) \in Nat /\ Granted(s, a)' = Granted(s, a)
    <3>1. /\ IsFiniteSet(Passing(s, a)) /\ Cardinality(Passing(s, a)) \in Nat
          /\ admitted[s][a] \in Nat /\ Granted(s, a) \in Nat
      BY GrantedType
    <3>2. /\ IsFiniteSet(Passing(s, a) \ {r})
          /\ Cardinality(Passing(s, a) \ {r}) = IF r \in Passing(s, a)
               THEN Cardinality(Passing(s, a)) - 1 ELSE Cardinality(Passing(s, a))
      BY <3>1, FS_RemoveElement
    <3>3. Granted(s, a)' = admitted'[s][a] + Cardinality(Passing(s, a)')
      BY DEF Granted
    <3>4. Granted(s, a) = admitted[s][a] + Cardinality(Passing(s, a))
      BY DEF Granted
    <3>5. CASE a >= elapsed[r]
      <4>1. Cardinality(Passing(s, a)') = Cardinality(Passing(s, a)) - 1
        BY <1>2, <2>2, <3>2, <3>5
      <4>2. admitted'[s][a] = admitted[s][a] + 1
        BY <2>1, <3>5
      <4>3. IsFiniteSet(Passing(s, a)')
        BY <1>2, <3>2
      <4> QED BY <3>1, <3>3, <3>4, <4>1, <4>2, <4>3
    <3>6. CASE ~(a >= elapsed[r])
      <4>1. Cardinality(Passing(s, a)') = Cardinality(Passing(s, a))
        BY <1>2, <2>2, <3>2, <3>6
      <4>2. admitted'[s][a] = admitted[s][a]
        BY <2>1, <3>6
      <4>3. IsFiniteSet(Passing(s, a)')
        BY <1>2, <3>2
      <4> QED BY <3>1, <3>3, <3>4, <4>1, <4>2, <4>3
    <3> QED BY <3>5, <3>6
  <2>5. Window \in Nat /\ \A a \in Ages : ~(a >= Window)
    BY Numbers
  <2> QED BY <1>1, <2>3, <2>4, <2>5, Losing
<1> QED BY <1>3, <1>4

\* Time: what is granted of an age becomes what is granted of the next.
LEMMA GrantedGrows ==
  ASSUME RateInv, NEW s \in Stores, NEW a \in Ages, NEW b \in Ages, a <= b
  PROVE  Granted(s, a) <= Granted(s, b)
<1>1. /\ IsFiniteSet(Passing(s, b)) /\ Cardinality(Passing(s, a)) \in Nat
      /\ Cardinality(Passing(s, b)) \in Nat
      /\ admitted[s][a] \in Nat /\ admitted[s][b] \in Nat
  BY GrantedType
<1>2. Passing(s, a) \subseteq Passing(s, b)
  <2>1. a \in Nat /\ b \in Nat /\ \A r \in Requests : elapsed[r] \in Nat
    BY Numbers DEF RateInv, RateTypeOK
  <2> QED BY <2>1 DEF Passing
<1>3. Cardinality(Passing(s, a)) <= Cardinality(Passing(s, b))
  BY <1>1, <1>2, FS_Subset
<1>4. admitted[s][a] <= admitted[s][b]
  BY DEF RateInv, Windowed, Growing
<1> QED BY <1>1, <1>3, <1>4 DEF Granted

LEMMA TickWindowed ==
  ASSUME RateInv, Tick, NEW s \in Stores
  PROVE  Windowed(s)'
<1>1. /\ RateTypeOK /\ Windowed(s) /\ left[s] \in 0 .. Window /\ count[s] \in Nat
      /\ \A a \in Ages : admitted[s][a] \in Nat /\ hits[s][a] \in Nat
  BY Numbers DEF RateInv, RateTypeOK
<1>2. /\ left'[s] = Decreased(left[s])
      /\ count'[s] = IF left[s] <= 1 THEN 0 ELSE count[s]
      /\ \A a \in Ages : /\ admitted'[s][a] = IF a = 0 THEN 0 ELSE admitted[s][a - 1]
                         /\ hits'[s][a] = IF a = 0 THEN 0 ELSE hits[s][a - 1]
  BY DEF Tick, Older
<1>3. \A a \in Ages : a # 0 => a - 1 \in Ages /\ a - 1 <= Window - 1
  BY Numbers DEF Ages
<1>4. ASSUME NEW a \in Ages
      PROVE  Passing(s, a)' = IF a = 0 THEN {} ELSE Passing(s, a - 1)
  <2>1. ASSUME NEW r \in Requests
        PROVE  /\ pc[r] # "entry" /\ pc'[r] = pc[r] /\ counted'[r] = counted[r]
               /\ StoreOf(r) = "redis" /\ StoreOf(r)' = "redis" /\ elapsed[r] \in Nat
               /\ pc[r] = "reply" => (elapsed'[r] <= a <=> a # 0 /\ elapsed[r] <= a - 1)
    <3>1. pc[r] # "entry" /\ UNCHANGED <<pc, counted>>
      BY DEF Tick
    <3>2. elapsed[r] \in 0 .. Window /\ a \in Nat /\ a <= Window - 1
      BY <1>1, Numbers DEF RateTypeOK
    <3>3. pc[r] = "reply" => elapsed'[r] = Smaller(elapsed[r] + 1, Window)
      BY DEF Tick
    <3>4. pc[r] = "reply" => (elapsed'[r] <= a <=> a # 0 /\ elapsed[r] <= a - 1)
      BY <3>2, <3>3, Numbers DEF Smaller
    <3> QED BY <3>1, <3>2, <3>4, Numbers DEF StoreOf
  <2>2. \A r \in Requests : r \in Passing(s, a)' <=> (a # 0 /\ r \in Passing(s, a - 1))
    BY <2>1 DEF Passing
  <2>3. Passing(s, a)' \subseteq Requests /\ Passing(s, a - 1) \subseteq Requests
    BY DEF Passing
  <2> QED BY <2>2, <2>3
<1>5. ASSUME NEW a \in Ages
      PROVE  /\ IsFiniteSet(Passing(s, a)')
             /\ Granted(s, a)' = IF a = 0 THEN 0 ELSE Granted(s, a - 1)
  <2>1. CASE a = 0
    <3>1. Passing(s, a)' = {} /\ admitted'[s][a] = 0
      BY <1>2, <1>4, <2>1
    <3>2. IsFiniteSet(Passing(s, a)') /\ Cardinality(Passing(s, a)') = 0
      BY <3>1, FS_EmptySet
    <3>3. Granted(s, a)' = admitted'[s][a] + Cardinality(Passing(s, a)')
      BY DEF Granted
    <3> QED BY <2>1, <3>1, <3>2, <3>3
  <2>2. CASE a # 0
    <3>1. a - 1 \in Ages /\ Passing(s, a)' = Passing(s, a - 1)
          /\ admitted'[s][a] = admitted[s][a - 1]
      BY <1>2, <1>3, <1>4, <2>2
    <3>2. IsFiniteSet(Passing(s, a - 1))
      BY <3>1, GrantedType
    <3>3. Granted(s, a)' = admitted'[s][a] + Cardinality(Passing(s, a)')
      BY DEF Granted
    <3> QED BY <2>2, <3>1, <3>2, <3>3 DEF Granted
  <2> QED BY <2>1, <2>2
<1>6. Growing(s)'
  <2>1. SUFFICES ASSUME NEW a \in Ages, NEW b \in Ages, a <= b
                 PROVE  admitted'[s][a] <= admitted'[s][b] /\ hits'[s][a] <= hits'[s][b]
    BY DEF Growing
  <2>2. CASE a = 0 /\ b = 0
    BY <1>2, <2>2, Numbers
  <2>3. CASE a = 0 /\ b # 0
    BY <1>1, <1>2, <1>3, <2>3, Numbers
  <2>4. CASE a # 0 /\ b # 0
    <3>1. a - 1 \in Ages /\ b - 1 \in Ages /\ a - 1 <= b - 1
      BY <1>3, <2>1, <2>4, Numbers
    <3>2. admitted[s][a - 1] <= admitted[s][b - 1] /\ hits[s][a - 1] <= hits[s][b - 1]
      BY <1>1, <3>1 DEF Windowed, Growing
    <3> QED BY <1>2, <2>4, <3>2
  <2> QED BY <2>1, <2>2, <2>3, <2>4, Numbers
<1>7. \A a \in Ages : Granted(s, a) \in Nat
  BY GrantedType
<1>8. Granted(s, Window - 1)' <= Granted(s, Window - 1) /\ Granted(s, 0)' = 0
  <2>1. PICK w \in Ages : w = Window - 1
    BY Numbers
  <2>2. Granted(s, w)' <= Granted(s, w)
    <3>1. CASE w = 0
      BY <1>5, <1>7, <3>1
    <3>2. CASE w # 0
      <4>1. w - 1 \in Ages /\ w - 1 <= w
        BY <1>3, <2>1, <3>2, Numbers
      <4> QED BY <1>5, <3>2, <4>1, GrantedGrows
    <3> QED BY <3>1, <3>2
  <2> QED BY <1>5, <2>1, <2>2, Numbers
<1>9. CASE left[s] <= 1
  <2>1. left'[s] = 0 /\ count'[s] = 0
    BY <1>1, <1>2, <1>9 DEF Decreased
  <2>2. Granted(s, Window - 1) <= Limit
    <3>1. CASE left[s] = 0
      BY <1>1, <3>1 DEF Windowed
    <3>2. CASE left[s] = 1
      <4>1. Since(s) = Window - 1
        BY <3>2 DEF Since
      <4> QED BY <1>1, <3>2, <4>1, Numbers DEF Windowed
    <3> QED BY <1>1, <1>9, <3>1, <3>2
  <2>3. Granted(s, Window - 1)' <= Limit
    <3>1. PICK w \in Ages : w = Window - 1
      BY Numbers
    <3>2. Granted(s, w)' \in Nat /\ Granted(s, w) \in Nat
      BY <1>3, <1>5, <1>7, <3>1
    <3> QED BY <1>8, <2>2, <3>1, <3>2, Numbers
  <2> QED BY <1>5, <1>6, <1>8, <2>1, <2>3 DEF Windowed
<1>10. CASE left[s] > 1
  <2>1. PICK e \in Ages : e = Since(s)
    BY <1>1, <1>10, Numbers DEF Since, Ages
  <2>2. /\ left'[s] = left[s] - 1 /\ left'[s] > 0 /\ count'[s] = count[s]
        /\ Since(s)' = e + 1 /\ e + 1 \in Ages /\ (e + 1) - 1 = e /\ e + 1 # 0
    BY <1>1, <1>2, <1>10, <2>1, Numbers DEF Decreased, Since, Ages
  <2>3. Granted(s, e + 1)' = Granted(s, e) /\ hits'[s][e + 1] = hits[s][e]
    <3>1. PICK d \in Ages : d = e + 1
      BY <2>2
    <3>2. Granted(s, d)' = Granted(s, e) /\ hits'[s][d] = hits[s][e]
      BY <1>2, <1>5, <2>2, <3>1
    <3> QED BY <3>1, <3>2
  <2>4. /\ count[s] >= 1
        /\ Granted(s, e) <= count[s] /\ Granted(s, e) <= Limit
        /\ Granted(s, Window - 1) <= Granted(s, e) + Limit
        /\ hits[s][e] >= count[s] /\ Granted(s, e) \in Nat
    BY <1>1, <1>7, <1>10, <2>1 DEF Windowed
  <2>5. Granted(s, Window - 1)' <= Granted(s, e) + Limit
    <3>1. PICK w \in Ages : w = Window - 1
      BY Numbers
    <3>2. Granted(s, w)' \in Nat /\ Granted(s, w) \in Nat
      BY <1>3, <1>5, <1>7, <3>1
    <3> QED BY <1>8, <2>4, <3>1, <3>2, Numbers
  <2>6. /\ Granted(s, Since(s))' <= count'[s] /\ Granted(s, Since(s))' <= Limit
        /\ Granted(s, Window - 1)' <= Granted(s, Since(s))' + Limit
        /\ (hits[s][Since(s)])' >= count'[s]
    <3>1. Granted(s, Since(s))' = Granted(s, e) /\ (hits[s][Since(s)])' = hits[s][e]
      BY <2>2, <2>3 DEF Granted, Passing
    <3> QED BY <2>2, <2>4, <2>5, <3>1
  <2> QED BY <1>5, <1>6, <2>2, <2>4, <2>6 DEF Windowed
<1> QED BY <1>1, <1>9, <1>10

\* Every step keeps what is granted of every store.
LEMMA WindowedNext ==
  ASSUME RateInv, [Next]_vars, NEW s \in Stores
  PROVE  Windowed(s)'
<1>1. RateTypeOK /\ Windowed(s)
  BY DEF RateInv
<1>2. CASE UNCHANGED <<counters, pc, locals, answer, admitted>>
  BY <1>1, <1>2 DEF Windowed, Growing, Granted, Passing, StoreOf, Since, counters, locals
<1>3. ASSUME NEW r \in Requests, NEW i \in Instances, SubmitToRedis(r, i) PROVE Windowed(s)'
  <2>1. \A a \in Ages : Passing(s, a)' = Passing(s, a) \ {r}
    BY <1>1, <1>3 DEF SubmitToRedis, Passing, StoreOf, RateTypeOK
  <2> QED BY <1>3, <2>1, LeavingWindowed DEF SubmitToRedis, counters
<1>4. ASSUME NEW r \in Requests, NEW x \in Stores, NEW q \in {"reply", "entry"},
             Counting(r, x, q), x # s
      PROVE  Windowed(s)'
  <2>1. /\ count'[s] = count[s] /\ left'[s] = left[s] /\ hits'[s] = hits[s]
        /\ admitted'[s] = admitted[s]
        /\ \E n \in 1 .. CountBound : counted' = [counted EXCEPT ![r] = n]
        /\ elapsed' = [elapsed EXCEPT ![r] = 0]
    BY <1>1, <1>4, CountWrites DEF Counting, RateTypeOK
  <2>2. \A a \in Ages : Passing(s, a)' = Passing(s, a) \ {r}
    <3>1. pc' = [pc EXCEPT ![r] = q] /\ \A p \in Requests \ {r} : at'[p] = at[p]
      BY <1>1, <1>4 DEF Counting, RateTypeOK
    <3>2. StoreOf(r)' = x
      BY <1>1, <1>4, <3>1 DEF Counting, StoreOf, RateTypeOK
    <3> QED BY <1>1, <1>4, <2>1, <3>1, <3>2 DEF Passing, StoreOf, RateTypeOK
  <2> QED BY <2>1, <2>2, LeavingWindowed
<1> QED BY <1>2, <1>3, <1>4, Steps, CountWindowed, DecideWindowed, TickWindowed

\* More than the limit counted in the window has its hits within it.
LEMMA HitsBehind ==
  ASSUME NEW h \in [Ages -> Nat], NEW l \in 1 .. Window, h[Window - l] > Limit,
         \A a, b \in Ages : a <= b => h[a] <= h[b]
  PROVE  Total(h) > Limit
<1>1. PICK e \in Ages : e = Window - l
  BY Numbers DEF Ages
<1>2. PICK w \in Ages : w = Window - 1
  BY Numbers
<1>3. h[e] <= h[w] /\ h[e] \in Nat /\ h[w] \in Nat
  BY <1>1, <1>2, Numbers
<1> QED BY <1>1, <1>2, <1>3, Numbers DEF Total

LEMMA UnderwayNext ==
  ASSUME RateInv, [Next]_vars, NEW p \in Requests
  PROVE  Underway(p)'
<1>1. RateTypeOK /\ Underway(p) /\ RateTypeOK'
  BY TypeNext DEF RateInv
<1>2. CASE UNCHANGED <<counters, pc, locals, answer, admitted>>
  BY <1>1, <1>2 DEF Underway, counters, locals
<1>3. ASSUME NEW r \in Requests, NEW i \in Instances, SubmitToRedis(r, i) PROVE Underway(p)'
  BY <1>1, <1>3 DEF SubmitToRedis, Underway, RateTypeOK, counters
<1>4. ASSUME NEW r \in Requests, NEW s \in Stores, NEW q \in {"reply", "entry"},
             Counting(r, s, q)
      PROVE  Underway(p)'
  <2>1. PICK n \in 1 .. CountBound :
          /\ n >= count[s]
          /\ count' = [count EXCEPT ![s] = n] /\ counted' = [counted EXCEPT ![r] = n]
          /\ elapsed' = [elapsed EXCEPT ![r] = 0]
          /\ behind' = [behind EXCEPT ![r] = Total(hits'[s])]
    BY <1>1, <1>4, CountWrites DEF Counting
  <2>2. pc' = [pc EXCEPT ![r] = q] /\ \A o \in Requests \ {r} : at'[o] = at[o]
    BY <1>1, <1>4 DEF Counting, RateTypeOK
  <2>3. \A x \in Stores : count[x] \in Nat /\ count'[x] \in Nat /\ count[x] <= count'[x]
    BY <1>1, <2>1, Numbers DEF RateTypeOK
  <2>4. CASE p = r
    <3>1. pc'[p] = q /\ counted'[p] = n /\ elapsed'[p] = 0 /\ count'[s] = n
          /\ behind'[p] = Total(hits'[s])
      BY <1>1, <2>1, <2>2, <2>4 DEF RateTypeOK
    <3>2. at'[p] \in Instances /\ (q = "entry" => at'[p] = s)
      <4>1. Underway(r) /\ pc[r] # "free" => at[r] \in Instances
        BY DEF RateInv, Underway
      <4> QED BY <1>1, <1>4, <2>4, <4>1 DEF Counting, RateInv, Underway, RateTypeOK
    <3>3. n > Limit => behind'[p] > Limit
      <4>1. ASSUME count'[s] > Limit PROVE Total(hits[s])' > Limit
        <5>1. Windowed(s)'
          BY <1>4, CountWindowed
        <5>2. /\ hits'[s] \in [Ages -> Nat] /\ count'[s] \in Nat /\ left'[s] \in 0 .. Window
          BY <1>1, Numbers DEF RateTypeOK
        <5>3. /\ left'[s] \in 1 .. Window /\ hits'[s][Window - left'[s]] >= count'[s]
              /\ Window - left'[s] \in Ages
          BY <4>1, <5>1, <5>2, Numbers DEF Windowed, Since, Ages
        <5>4. hits'[s][Window - left'[s]] > Limit
          BY <4>1, <5>2, <5>3, Numbers
        <5>5. \A a, b \in Ages : a <= b => hits'[s][a] <= hits'[s][b]
          BY <5>1 DEF Windowed, Growing
        <5>6. Total(hits'[s]) > Limit
          BY <5>2, <5>3, <5>4, <5>5, HitsBehind
        <5> QED BY <5>6 DEF Total
      <4> QED BY <3>1, <4>1 DEF Total
    <3> QED BY <3>1, <3>2, <3>3, Numbers DEF Underway
  <2>5. CASE p # r
    <3>1. /\ pc'[p] = pc[p] /\ at'[p] = at[p] /\ counted'[p] = counted[p]
          /\ elapsed'[p] = elapsed[p] /\ behind'[p] = behind[p]
      BY <1>1, <2>1, <2>2, <2>5 DEF RateTypeOK
    <3>2. pc[p] = "entry" => counted[p] <= count'[at[p]]
      <4>1. counted[p] \in Nat
        BY <1>1, Numbers DEF RateTypeOK
      <4> QED BY <1>1, <2>3, <4>1 DEF Underway, Stores
    <3> QED BY <1>1, <3>1, <3>2 DEF Underway
  <2> QED BY <2>4, <2>5
<1>5. ASSUME NEW r \in Requests, Decide(r) PROVE Underway(p)'
  BY <1>1, <1>5 DEF Decide, Underway, RateTypeOK, counters
<1>6. CASE Tick
  BY <1>1, <1>6 DEF Tick, Underway
<1> QED BY <1>2, <1>3, <1>4, <1>5, <1>6, Steps

LEMMA RateAlways == Spec => []RateInv
<1>1. RateInv /\ [Next]_vars => RateInv'
  BY WindowedNext, TypeNext, UnderwayNext DEF RateInv, Stores
<1> QED BY <1>1, RateInit, PTL DEF Spec

\* AdmittedBounded of RateLimit: of the requests that reached a store in a
\* stretch of time as long as a window no more than twice the limit are ever
\* admitted, for any number that race and any delay of the replies.
THEOREM AdmissionIsBounded == Spec => []AdmittedBounded
<1>1. RateInv => AdmittedBounded
  <2> SUFFICES ASSUME RateInv, NEW s \in Stores PROVE admitted[s][Window - 1] <= 2 * Limit
    BY DEF AdmittedBounded, Total
  <2>1. Windowed(s) /\ left[s] \in 0 .. Window
    BY DEF RateInv, RateTypeOK
  <2>2. /\ admitted[s][Window - 1] <= Granted(s, Window - 1)
        /\ admitted[s][Window - 1] \in Nat /\ Granted(s, Window - 1) \in Nat
    <3>1. PICK w \in Ages : w = Window - 1
      BY Numbers
    <3>2. /\ Cardinality(Passing(s, w)) \in Nat /\ admitted[s][w] \in Nat
          /\ Granted(s, w) \in Nat
      BY GrantedType
    <3> QED BY <3>1, <3>2 DEF Granted
  <2>3. CASE left[s] = 0
    BY <2>1, <2>2, <2>3, Numbers DEF Windowed
  <2>4. CASE left[s] > 0
    <3>1. Since(s) \in Ages
      BY <2>1, <2>4, Numbers DEF Since, Ages
    <3>2. Granted(s, Since(s)) \in Nat
      BY <3>1, GrantedType
    <3> QED BY <2>1, <2>2, <2>4, <3>2, Numbers DEF Windowed
  <2> QED BY <2>1, <2>3, <2>4, Numbers
<1> QED BY <1>1, RateAlways, PTL

\* RefusedOverLimit of RateLimit: who is refused shares a window with more than
\* Limit counted requests, before its own count in Redis or, in the process,
\* before the decision.
THEOREM RefusalHasReason == Spec => RefusedOverLimit
<1>1. ASSUME RateInv, NEW r \in Requests, pc[r] \in {"reply", "entry"}, Decide(r),
             answer'[r] = "tooMany"
      PROVE  Exceeded(ReadCount(r))
  BY <1>1 DEF Decide, RateInv, RateTypeOK
<1>2. ASSUME RateInv, NEW r \in Requests, DecideOnReply(r), answer'[r] = "tooMany"
      PROVE  behind[r] > Limit
  <2>1. pc[r] = "reply" /\ Exceeded(ReadCount(r))
    BY <1>1, <1>2 DEF DecideOnReply
  <2> QED BY <1>2, <2>1 DEF RateInv, Underway, Exceeded, ReadCount
<1>3. ASSUME RateInv, NEW r \in Requests, DecideOnEntry(r), answer'[r] = "tooMany"
      PROVE  Total(hits[at[r]]) > Limit
  <2>1. pc[r] = "entry" /\ Exceeded(ReadCount(r))
    BY <1>1, <1>3 DEF DecideOnEntry
  <2>2. at[r] \in Stores /\ count[at[r]] > Limit
    BY <1>3, <2>1 DEF RateInv, Underway, Exceeded, ReadCount, Stores
  <2>3. PICK s \in Stores : s = at[r]
    BY <2>2
  <2>4. RateTypeOK /\ Windowed(s)
    BY <1>3 DEF RateInv
  <2>5. hits[s] \in [Ages -> Nat] /\ count[s] \in Nat /\ left[s] \in 0 .. Window
    BY <2>4, Numbers DEF RateTypeOK
  <2>6. left[s] \in 1 .. Window /\ hits[s][Window - left[s]] >= count[s]
        /\ Window - left[s] \in Ages
    BY <2>2, <2>3, <2>4, <2>5, Numbers DEF Windowed, Since, Ages
  <2>7. hits[s][Window - left[s]] > Limit
    BY <2>2, <2>3, <2>5, <2>6, Numbers
  <2>8. \A a, b \in Ages : a <= b => hits[s][a] <= hits[s][b]
    BY <2>4 DEF Windowed, Growing
  <2> QED BY <2>3, <2>5, <2>6, <2>7, <2>8, HitsBehind
<1>4. ASSUME RateInv
      PROVE  [\A r \in Requests :
                /\ DecideOnReply(r) /\ answer'[r] = "tooMany" => behind[r] > Limit
                /\ DecideOnEntry(r) /\ answer'[r] = "tooMany" => Total(hits[at[r]]) > Limit]_vars
  BY <1>2, <1>3, <1>4
<1> QED BY <1>4, RateAlways, PTL DEF RefusedOverLimit
=============================================================================
