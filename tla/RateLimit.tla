------------------------------ MODULE RateLimit ------------------------------
(***************************************************************************)
(* RateLimitGuard on one decorated route, for one client: its counters in  *)
(* Redis, shared by the instances of the service, and in each process,     *)
(* used when Redis was never there or once it has failed.                  *)
(*                                                                         *)
(* Time is relative, in ticks, as in LoginAttempts: a counter has so many  *)
(* ticks left.  The program points of a request:                           *)
(*                                                                         *)
(*   free -> eval -> reply -> free        counted in Redis                 *)
(*     \       \------\----v                                              *)
(*      \--------------> entry -> free    counted in the process           *)
(*                                                                         *)
(* The script is a round trip: time passes before Redis has executed it    *)
(* ("eval") and before its reply is there ("reply").  An entry of the Map  *)
(* is read one turn of the microtask queue after it was counted up: other  *)
(* requests may count it up in that turn, but it takes no time ("entry").  *)
(***************************************************************************)
EXTENDS Naturals

CONSTANTS
  Instances,     \* processes of the service
  Requests,
  Limit, Window, \* the options of the decorator
  WithRedis,     \* a Redis url is configured and connects at the start
  Nowhere

ASSUME RateAssumption ==
  /\ Limit \in Nat \ {0} /\ Window \in Nat \ {0}
  /\ WithRedis \in BOOLEAN
  /\ "redis" \notin Instances /\ Nowhere \notin Instances

Stores == Instances \cup {"redis"}

VARIABLES
  count, left,   \* each store: the counter and the ticks until it is reset
  redisEnabled,  \* each process
  pc, at, counted, answer,
  elapsed,       \* history of a request: ticks since it was counted,
  behind,        \* and how many its store had counted in the window before that
  \* History of each store, for every age in ticks: the requests so old or younger
  hits,          \* that it counted, and
  admitted       \* that it counted and that were admitted since

counters == <<count, left, hits>>
locals == <<at, counted, elapsed, behind>>
vars == <<counters, redisEnabled, pc, locals, answer, admitted>>

Ages == 0 .. Window - 1

Smaller(a, b) == IF a < b THEN a ELSE b

\* Bound: how far beyond the limit a counter is makes no difference.
CountBound == Limit + 1

Init ==
  /\ count = [s \in Stores |-> 0]
  /\ left = [s \in Stores |-> 0]
  /\ redisEnabled = [i \in Instances |-> WithRedis]
  /\ pc = [r \in Requests |-> "free"]
  /\ at = [r \in Requests |-> Nowhere]
  /\ counted = [r \in Requests |-> 0]
  /\ answer = [r \in Requests |-> "none"]
  /\ elapsed = [r \in Requests |-> 0]
  /\ behind = [r \in Requests |-> 0]
  /\ hits = [s \in Stores |-> [a \in Ages |-> 0]]
  /\ admitted = [s \in Stores |-> [a \in Ages |-> 0]]

Total(h) == h[Window - 1]

LeftSliding(s, n) == Window

\* The window runs from the request that opens it: PEXPIRE when c is 1,
\* resetAt of a new entry.
LeftAfter(s, n) == IF n = 1 THEN Window ELSE left[s]

\* INCR, or the entry of the Map.  An expired entry of the Map is replaced,
\* an expired Redis key is gone: for both count is 0 once left is.
Count(r, s) ==
  LET n == Smaller(count[s] + 1, CountBound)
      h == [a \in Ages |-> Smaller(hits[s][a] + 1, CountBound)]
  IN /\ count' = [count EXCEPT ![s] = n]
     /\ left' = [left EXCEPT ![s] = LeftAfter(s, n)]
     /\ hits' = [hits EXCEPT ![s] = h]
     /\ counted' = [counted EXCEPT ![r] = n]
     /\ elapsed' = [elapsed EXCEPT ![r] = 0]
     /\ behind' = [behind EXCEPT ![r] = Total(h)]
     /\ UNCHANGED admitted

\* Bound: no more than CountBound requests are sent to a store in one tick, for
\* a tick is a stretch of time; enough for one refusal more than is admitted.
Room(s) == hits[s][0] < CountBound

\* A request sent to Redis stays with it, whatever its process learns since.
SubmitToRedis(r, i) ==
  /\ pc[r] = "free"
  /\ redisEnabled[i]
  /\ Room("redis")
  /\ pc' = [pc EXCEPT ![r] = "eval"]
  /\ at' = [at EXCEPT ![r] = i]
  /\ answer' = [answer EXCEPT ![r] = "none"]
  /\ UNCHANGED <<counters, redisEnabled, counted, elapsed, behind, admitted>>

\* Without Redis canActivate counts before its first await.
SubmitToProcess(r, i) ==
  /\ pc[r] = "free"
  /\ ~redisEnabled[i]
  /\ Room(i)
  /\ Count(r, i)
  /\ pc' = [pc EXCEPT ![r] = "entry"]
  /\ at' = [at EXCEPT ![r] = i]
  /\ answer' = [answer EXCEPT ![r] = "none"]
  /\ UNCHANGED redisEnabled

CountInRedis(r) ==
  /\ pc[r] = "eval"
  /\ Count(r, "redis")
  /\ pc' = [pc EXCEPT ![r] = "reply"]
  /\ UNCHANGED <<redisEnabled, at, answer>>

\* The script fails, or its reply is lost after it was executed: the process
\* gives Redis up for good and counts the request itself.
FallBack(r) ==
  /\ pc[r] \in {"eval", "reply"}
  /\ redisEnabled' = [redisEnabled EXCEPT ![at[r]] = FALSE]
  /\ Count(r, at[r])
  /\ pc' = [pc EXCEPT ![r] = "entry"]
  /\ UNCHANGED <<at, answer>>

\* What canActivate reads after the await.  Redis returned a number; the Map's
\* entry was returned itself, and may have been counted up since.
StoreOf(r) == IF pc[r] = "entry" THEN at[r] ELSE "redis"
ReadCount(r) == IF pc[r] = "entry" THEN count[at[r]] ELSE counted[r]

ExceededLate(n) == n > Limit + 1
Exceeded(n) == n > Limit

\* Admissions are entered where the request was counted, however long ago.
Decide(r) ==
  /\ pc' = [pc EXCEPT ![r] = "free"]
  /\ at' = [at EXCEPT ![r] = Nowhere]
  /\ counted' = [counted EXCEPT ![r] = 0]
  /\ elapsed' = [elapsed EXCEPT ![r] = 0]
  /\ behind' = [behind EXCEPT ![r] = 0]
  /\ \/ /\ Exceeded(ReadCount(r))
        /\ answer' = [answer EXCEPT ![r] = "tooMany"]
        /\ UNCHANGED admitted
     \/ /\ ~Exceeded(ReadCount(r))
        /\ answer' = [answer EXCEPT ![r] = "admitted"]
        /\ admitted' = [admitted EXCEPT ![StoreOf(r)] =
             [a \in Ages |-> IF a >= elapsed[r] THEN @[a] + 1 ELSE @[a]]]
  /\ UNCHANGED <<counters, redisEnabled>>

DecideOnReply(r) == pc[r] = "reply" /\ Decide(r)
DecideOnEntry(r) == pc[r] = "entry" /\ Decide(r)

Decreased(n) == IF n > 0 THEN n - 1 ELSE 0
Older(h) == [a \in Ages |-> IF a = 0 THEN 0 ELSE h[a - 1]]

\* Bound: an age of a window is as good as any beyond it.
Tick ==
  /\ \A r \in Requests : pc[r] # "entry"
  /\ left' = [s \in Stores |-> Decreased(left[s])]
  /\ count' = [s \in Stores |-> IF left[s] <= 1 THEN 0 ELSE count[s]]
  /\ hits' = [s \in Stores |-> Older(hits[s])]
  /\ admitted' = [s \in Stores |-> Older(admitted[s])]
  /\ elapsed' = [r \in Requests |->
       IF pc[r] = "reply" THEN Smaller(elapsed[r] + 1, Window) ELSE elapsed[r]]
  /\ UNCHANGED <<redisEnabled, pc, at, counted, behind, answer>>

Next ==
  \/ \E r \in Requests :
       \/ \E i \in Instances : SubmitToRedis(r, i) \/ SubmitToProcess(r, i)
       \/ CountInRedis(r) \/ FallBack(r) \/ DecideOnReply(r) \/ DecideOnEntry(r)
  \/ Tick

\* Time goes on and the microtask queue is emptied; clients and Redis need do
\* nothing.
Spec == Init /\ [][Next]_vars
             /\ WF_vars(Tick) /\ \A r \in Requests : WF_vars(DecideOnEntry(r))

-----------------------------------------------------------------------------
\* Properties.

\* Of the requests that reached one store in a stretch of time as long as a
\* window no more than twice the limit are ever admitted: across the boundary
\* of two windows, whatever is counted between another's count and its
\* decision, and however long the replies take.
AdmittedBounded == \A s \in Stores : Total(admitted[s]) <= 2 * Limit

\* A refusal has its reason within one window: more than Limit requests counted
\* by the store that refuses, not counts left over from before.  For Redis it
\* is the window before the request was counted, for the process, whose entry
\* is read later, the one before the decision.
RefusedOverLimit ==
  [][\A r \in Requests :
       /\ DecideOnReply(r) /\ answer'[r] = "tooMany" => behind[r] > Limit
       /\ DecideOnEntry(r) /\ answer'[r] = "tooMany" => Total(hits[at[r]]) > Limit]_vars

\* A counter beyond the limit is reset, however often the client keeps trying.
CounterResets == \A s \in Stores : count[s] > Limit ~> count[s] = 0
=============================================================================
