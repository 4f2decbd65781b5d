---------------------------- MODULE LoginAttempts ----------------------------
(***************************************************************************)
(* LoginAttemptService and the part of AuthService.login that calls it:    *)
(* the lock of a key (ip and e-mail), kept in the process or in Redis.     *)
(*                                                                         *)
(* Time is counted in ticks and kept relative to now: how long ago the     *)
(* last failure was, how long a lock or a Redis key still lives.  So the   *)
(* model has no last moment, and what must end can be checked to end.      *)
(***************************************************************************)
EXTENDS Naturals, Sequences

CONSTANTS
  Keys, Requests, NoKey,
  RedisUrl,      \* is a Redis url configured?
  MaxFailures, Window, BaseLock, MaxLock

ASSUME LoginAssumption ==
  /\ NoKey \notin Keys
  /\ RedisUrl \in BOOLEAN
  /\ MaxFailures \in Nat \ {0}
  /\ Window \in Nat \ {0} /\ BaseLock \in Nat \ {0} /\ MaxLock \in Nat \ {0}

VARIABLES
  redisEnabled, \* settled when the process starts
  failures,   \* failures counted for a key
  age,        \* memory: ticks since the last failure
  counterTtl, \* redis: ticks the failure counter still lives
  lockLeft,   \* ticks until lockUntil
  pc, key, answer,
  recent,     \* history: ages of the latest failures since the last success
  unbroken    \* history: failures since the last success, up to MaxFailures

store == <<failures, age, counterTtl, lockLeft>>
history == <<recent, unbroken>>
vars == <<redisEnabled, store, history, pc, key, answer>>

Smaller(a, b) == IF a < b THEN a ELSE b

\* The lock doubles with every failure from MaxFailures on, up to MaxLock.
LockWrapped(n) ==
  IF BaseLock * 2 ^ (n - MaxFailures) > MaxLock
  THEN BaseLock ELSE BaseLock * 2 ^ (n - MaxFailures)
LockLength(n) == Smaller(BaseLock * 2 ^ (n - MaxFailures), MaxLock)

\* Bound: beyond so many failures every lock has the maximal length, whatever
\* the exact count.
CountBound == MaxFailures + MaxLock

\* Bound: an age beyond the window is as good as any other.
Old == Window + 1

Locked(k) == lockLeft[k] > 0

\* onModuleInit: without a url, or when connecting fails, the process counts.
Init ==
  /\ redisEnabled \in {FALSE, RedisUrl}
  /\ failures = [k \in Keys |-> 0]
  /\ age = [k \in Keys |-> Old]
  /\ counterTtl = [k \in Keys |-> 0]
  /\ lockLeft = [k \in Keys |-> 0]
  /\ pc = [r \in Requests |-> "free"]
  /\ key = [r \in Requests |-> NoKey]
  /\ answer = [r \in Requests |-> "none"]
  /\ recent = [k \in Keys |-> <<>>]
  /\ unbroken = [k \in Keys |-> 0]

GoTo(r, point) == pc' = [pc EXCEPT ![r] = point] /\ UNCHANGED answer

Answer(r, a) ==
  /\ pc' = [pc EXCEPT ![r] = "free"]
  /\ answer' = [answer EXCEPT ![r] = a]

Submit(r, k) ==
  /\ pc[r] = "free"
  /\ pc' = [pc EXCEPT ![r] = "check"]
  /\ key' = [key EXCEPT ![r] = k]
  /\ answer' = [answer EXCEPT ![r] = "none"]
  /\ UNCHANGED <<store, history>>

\* A Redis command may fail; nothing catches it, the login answers 500.  One
\* that was executed and whose reply is lost is with its effect, below.
RedisFails(r) ==
  /\ redisEnabled
  /\ Answer(r, "error")
  /\ UNCHANGED <<store, history, key>>

\* assertNotLocked also drops a memory entry whose window has passed.
DropStale(k) ==
  IF ~redisEnabled /\ ~Locked(k) /\ age[k] > Window
  THEN failures' = [failures EXCEPT ![k] = 0]
  ELSE UNCHANGED failures

\* An attempt it refuses leaves the lock as it is.
RefusedRenewing(k) == MaxLock
Refused(k) == lockLeft[k]

AssertNotLocked(r) ==
  /\ pc[r] = "check"
  /\ LET k == key[r]
     IN \/ /\ Locked(k)
           /\ lockLeft' = [lockLeft EXCEPT ![k] = Refused(k)]
           /\ Answer(r, "locked")
           /\ UNCHANGED failures
        \/ /\ ~Locked(k)
           /\ DropStale(k)
           /\ GoTo(r, "verify")
           /\ UNCHANGED lockLeft
  /\ UNCHANGED <<age, counterTtl, history, key>>

\* The user is looked up and the password compared.
Verify(r) ==
  /\ pc[r] = "verify"
  /\ GoTo(r, "succeed") \/ GoTo(r, "fail")
  /\ UNCHANGED <<store, history, key>>

\* recordSuccess deletes the entry, or both Redis keys.
ClearedCounterOnly(k) == lockLeft[k]
ClearedLock(k) == 0

RecordSuccess(r) ==
  /\ pc[r] = "succeed"
  /\ LET k == key[r]
     IN /\ failures' = [failures EXCEPT ![k] = 0]
        /\ age' = [age EXCEPT ![k] = Old]
        /\ counterTtl' = [counterTtl EXCEPT ![k] = 0]
        /\ lockLeft' = [lockLeft EXCEPT ![k] = ClearedLock(k)]
        /\ recent' = [recent EXCEPT ![k] = <<>>]
        /\ unbroken' = [unbroken EXCEPT ![k] = 0]
  /\ Answer(r, "ok") \/ (redisEnabled /\ Answer(r, "error"))
  /\ UNCHANGED key

-----------------------------------------------------------------------------
\* recordFailure: how many failures it counts now.  In memory the window runs
\* from the last failure; the Redis counter lives for a window from the first.
Counted(k) ==
  LET n == IF ~redisEnabled
           THEN IF age[k] <= Window THEN failures[k] + 1 ELSE 1
           ELSE failures[k] + 1
  IN Smaller(n, CountBound)

\* A lock in Redis begins when the script was sent, not when it is executed.
Lateness == IF redisEnabled THEN 0 .. MaxLock ELSE {0}

\* The lock that follows: set from MaxFailures on, left alone below.
LockLate(k, n, late) ==
  IF n > MaxFailures THEN LockLength(n) - Smaller(late, LockLength(n)) ELSE lockLeft[k]
LockAfter(k, n, late) ==
  IF n >= MaxFailures THEN LockLength(n) - Smaller(late, LockLength(n)) ELSE lockLeft[k]

Latest(s) == IF Len(s) > MaxFailures THEN Tail(s) ELSE s

\* In memory nothing runs between recordFailure and the second
\* assertNotLocked, so one step answers; with Redis that is another command.
RecordFailure(r) ==
  /\ pc[r] = "fail"
  /\ LET k == key[r]
         n == Counted(k)
     IN /\ failures' = [failures EXCEPT ![k] = n]
        /\ age' = [age EXCEPT ![k] = 0]
        /\ counterTtl' =
             [counterTtl EXCEPT ![k] = IF n = 1 THEN Window ELSE counterTtl[k]]
        /\ \E late \in Lateness :
             lockLeft' = [lockLeft EXCEPT ![k] = LockAfter(k, n, late)]
        /\ recent' = [recent EXCEPT ![k] = Latest(Append(@, 0))]
        /\ unbroken' = [unbroken EXCEPT ![k] = Smaller(@ + 1, MaxFailures)]
        /\ \/ ~redisEnabled /\ lockLeft'[k] > 0 /\ Answer(r, "locked")
           \/ ~redisEnabled /\ lockLeft'[k] = 0 /\ Answer(r, "unauthorized")
           \/ redisEnabled /\ (GoTo(r, "recheck") \/ Answer(r, "error"))
  /\ UNCHANGED key

Recheck(r) ==
  /\ pc[r] = "recheck"
  /\ \/ Locked(key[r]) /\ Answer(r, "locked")
     \/ ~Locked(key[r]) /\ Answer(r, "unauthorized")
  /\ UNCHANGED <<store, history, key>>

Step(r) ==
  \/ AssertNotLocked(r) \/ Verify(r) \/ RecordSuccess(r)
  \/ RecordFailure(r) \/ Recheck(r)
  \/ pc[r] \in {"check", "succeed", "fail", "recheck"} /\ RedisFails(r)

\* Date.now() advances, Redis expires keys.
Decreased(n) == IF n > 0 THEN n - 1 ELSE 0

Tick ==
  /\ age' = [k \in Keys |-> Smaller(age[k] + 1, Old)]
  /\ counterTtl' = [k \in Keys |-> Decreased(counterTtl[k])]
  /\ failures' = [k \in Keys |->
       IF redisEnabled /\ counterTtl[k] = 1 THEN 0 ELSE failures[k]]
  /\ lockLeft' = [k \in Keys |-> Decreased(lockLeft[k])]
  /\ recent' = [k \in Keys |->
       [i \in DOMAIN recent[k] |-> Smaller(recent[k][i] + 1, Old)]]
  /\ UNCHANGED <<redisEnabled, unbroken, pc, key, answer>>

Next ==
  \/ /\ \E r \in Requests : Step(r) \/ \E k \in Keys : Submit(r, k)
     /\ UNCHANGED redisEnabled
  \/ Tick

\* Time goes on; nothing is assumed of the requests.
Spec == Init /\ [][Next]_vars /\ WF_vars(Tick)

-----------------------------------------------------------------------------
\* Properties.

\* In the process the configured number of failures within one window locks: a
\* failed login that is the last of MaxFailures, none older than Window, is not
\* answered with a mere 401.  The Redis counter promises less: it lives for a
\* window from its first failure, whatever follows.
LimitReached(k) ==
  /\ Len(recent'[k]) >= MaxFailures
  /\ \A i \in 0 .. MaxFailures - 1 :
       recent'[k][Len(recent'[k]) - i] <= Window

LimitLocks ==
  [][~redisEnabled => \A r \in Requests :
       answer'[r] = "unauthorized" /\ answer[r] # "unauthorized"
         => ~LimitReached(key[r])]_vars

\* The count behind a lock of the process is given up when a failure comes later
\* than a window after the last one; from then on it is below the limit.
CountRestarted(k) == age[k] > Window \/ failures[k] < MaxFailures

\* The lock of the process is progressive: while it lasts only the passing of
\* time or a successful login brings its end nearer.  A further failure does so
\* in one case only, where a lock may outlive the window: the failures that led
\* to the lock are forgotten while it lasts and counted anew by logins that were
\* past the check.
LockIsProgressive ==
  [][~redisEnabled => \A k \in Keys : lockLeft'[k] < lockLeft[k] =>
       \/ Tick
       \/ \E r \in Requests : RecordSuccess(r) /\ key[r] = k
       \/ MaxLock > Window /\ CountRestarted(k)]_vars

\* Nobody is locked out who did not fail MaxFailures times since the last
\* success, whatever logins were in flight.
LockFollowsFailures == \A k \in Keys : Locked(k) => unbroken[k] = MaxFailures

\* A lock ends, however often clients keep trying.
LockEnds == \A k \in Keys : Locked(k) ~> ~Locked(k)
=============================================================================
