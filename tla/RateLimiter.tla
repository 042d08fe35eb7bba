------------------------------ MODULE RateLimiter ------------------------------
(***************************************************************************)
(* The limit on sign-ins and password changes: RedisRateLimiter and        *)
(* MemoryRateLimiter (apps/api/src/lib/rate-limiter.ts), counting in fixed *)
(* windows, the second standing in, process by process, for a call to the  *)
(* first that fails; and the routes that consult them, one key after the   *)
(* other, and answer 429 with a Retry-After (auth.routes.ts).              *)
(*                                                                         *)
(* A counter is kept with the time it has left (PTTL; resetAt less now),   *)
(* so that no clock is needed; time is in ticks, Second of them a second.  *)
(***************************************************************************)
EXTENDS Naturals, FiniteSets, Sequences

LOCAL INSTANCE Functions

CONSTANTS
  Clients,  \* clients that try, are refused and come back
  Routes,    \* the keys a route consumes, in order: the address, then the
             \* address and the e-mail (login); the user (change-password)
  Keys,      \* what is limited: an address, an address and an e-mail, a user
  Limit,     \* RateLimitRule.max of a key
  Window,    \* RateLimitRule.windowSeconds, in ticks
  Second,
  Processes, \* instances of the API
  Redis,
  SweepOver, \* buckets beyond which expired ones are removed (10 000)
  MaxResets  \* bound: restarts of Redis and of the processes

Stores == Processes \cup {Redis}

ASSUME LimiterAssumption ==
  /\ IsFiniteSet(Keys) /\ IsFiniteSet(Processes) /\ Redis \notin Processes
  /\ Limit \in [Keys -> Nat \ {0}]
  /\ {Window, Second} \subseteq Nat \ {0}
  /\ {SweepOver, MaxResets} \subseteq Nat
  /\ Routes \subseteq Seq(Keys) \ {<<>>}

VARIABLES
  counter, \* the counters of Redis, the buckets of each process
  attempt, \* what a request has still to consume, and what it was told
  passed,  \* history: tries each store let through these last ticks, per key
  resets   \* history: restarts of each store

limiterVars == <<counter, attempt, passed, resets>>

(* A counter, and what is left of its window.                              *)
None == [count |-> 0, left |-> 0]
Ages == 0..Window - 1

(* A request: the process that serves it, the keys left to consume, whether*)
(* one was over its limit, the longest wait announced, in ticks, counted   *)
(* down once it is answered; and, for the property, the windows that       *)
(* refused it and still run.                                               *)
NoAttempt(p) == [at |-> p, left |-> <<>>, over |-> FALSE, wait |-> 0, by |-> {}]
Attempt == [at : Processes, left : Seq(Keys), over : BOOLEAN, wait : Nat,
            by : SUBSET (Stores \X Keys)]

LimiterTypeOK ==
  /\ counter \in [Stores -> [Keys -> [count : Nat, left : 0..Window]]]
  /\ attempt \in [Clients -> Attempt]
  /\ passed \in [Stores -> [Keys -> [Ages -> Nat]]]
  /\ resets \in [Stores -> Nat]

LimiterInit ==
  /\ counter = [s \in Stores |-> [k \in Keys |-> None]]
  /\ attempt \in [Clients -> {NoAttempt(p) : p \in Processes}]
  /\ passed = [s \in Stores |-> [k \in Keys |-> [a \in Ages |-> 0]]]
  /\ resets = [s \in Stores |-> 0]

-----------------------------------------------------------------------------
(* One more try: INCR and, for the first of a window, PEXPIRE, in one      *)
(* script; bucket.count += 1 of a bucket made anew when it has expired.  A  *)
(* count beyond the limit stays just beyond it: nothing tells more.        *)
Bumped(c, k) ==
  IF c.left = 0 THEN [count |-> 1, left |-> Window]
  ELSE [c EXCEPT !.count = IF @ > Limit[k] THEN @ ELSE @ + 1]

Allowed(c, k) == c.count <= Limit[k]

(* Math.ceil of the seconds left *)
RetryAfterSeconds(c) == (c.left + Second - 1) \div Second

(* sweep, at the head of MemoryRateLimiter.consume.                        *)
Swept(m) ==
  IF Cardinality({k \in Keys : m[k] # None}) > SweepOver
  THEN [k \in Keys |-> IF m[k].left = 0 THEN None ELSE m[k]] ELSE m

(* passed[s][k][a] counts the tries of this tick and of the a before it.   *)
Pass(s, k, ok) ==
  passed' = IF ok THEN [passed EXCEPT ![s][k] = [a \in Ages |-> @[a] + 1]] ELSE passed

(* The route keeps the longer of the waits its keys are told (the first,   *)
(* wrong on purpose, the last key's).                                      *)
WaitOfTheLast(wait, c) == RetryAfterSeconds(c) * Second
LongerWait(wait, c) ==
  LET w == RetryAfterSeconds(c) * Second IN IF wait > w THEN wait ELSE w

(* A store's answer for the next key: whatever it says, the route goes on  *)
(* to the key after it; at the last it goes through unless one was over.   *)
Told(a, s, k, c) ==
  [a EXCEPT !.left = Tail(@),
            !.over = @ \/ ~Allowed(c, k),
            !.wait = LongerWait(@, c),
            !.by = IF Allowed(c, k) THEN @ ELSE @ \cup {<<s, k>>}]

Hear(r, s, k, c) ==
  LET a == Told(attempt[r], s, k, c) IN
  attempt' = [attempt EXCEPT ![r] =
    IF a.left # <<>> THEN a
    ELSE IF a.over THEN [a EXCEPT !.over = FALSE]
    ELSE NoAttempt(a.at)]

-----------------------------------------------------------------------------
(* A first try, or another, after the wait announced or before its end.    *)
Begin(r) ==
  /\ attempt[r].left = <<>>
  /\ \E p \in Processes, keys \in Routes :
       attempt' = [attempt EXCEPT ![r] = [NoAttempt(p) EXCEPT !.left = keys]]
  /\ UNCHANGED <<counter, passed, resets>>

Consuming(r, k) == attempt[r].left # <<>> /\ k = Head(attempt[r].left)

ConsumeInRedis(r, k) ==
  LET c == Bumped(counter[Redis][k], k) IN
  /\ Consuming(r, k)
  /\ counter' = [counter EXCEPT ![Redis][k] = c]
  /\ Pass(Redis, k, Allowed(c, k))
  /\ Hear(r, Redis, k, c)
  /\ UNCHANGED resets

(* Wrong on purpose: with Redis out of reach, whoever asks goes through.   *)
ConsumeUnlimited(r, k) ==
  /\ Consuming(r, k)
  /\ Pass(attempt[r].at, k, TRUE)
  /\ attempt' = [attempt EXCEPT ![r].left = Tail(@)]
  /\ UNCHANGED <<counter, resets>>

(* Redis did not answer: it may have counted the try all the same.         *)
ConsumeInMemory(r, k) ==
  LET p == attempt[r].at  m == Swept(counter[p])  c == Bumped(m[k], k) IN
  /\ Consuming(r, k)
  /\ \E shared \in {counter[Redis][k], Bumped(counter[Redis][k], k)} :
       counter' = [counter EXCEPT ![p] = [m EXCEPT ![k] = c], ![Redis][k] = shared]
  /\ Pass(p, k, Allowed(c, k))
  /\ Hear(r, p, k, c)
  /\ UNCHANGED resets

StillRunning(by) == {w \in by : counter'[w[1]][w[2]].left > 0}

(* A process loses its buckets and the requests it serves; Redis, with its *)
(* log written every second, the counters begun last.                      *)
Restart(s) ==
  /\ SumFunction(resets) < MaxResets
  /\ resets' = [resets EXCEPT ![s] = @ + 1]
  /\ \E lost \in IF s = Redis THEN SUBSET Keys ELSE {Keys} :
       counter' = [counter EXCEPT ![s] = [k \in Keys |-> IF k \in lost THEN None ELSE @[k]]]
  /\ attempt' = [r \in Clients |->
       IF attempt[r].at = s /\ attempt[r].left # <<>> THEN NoAttempt(s)
       ELSE [attempt[r] EXCEPT !.by = StillRunning(@)]]
  /\ UNCHANGED passed

(* The wait counts from the answer.                                        *)
Waited(a) == IF a.left = <<>> /\ a.wait > 0 THEN a.wait - 1 ELSE a.wait

(* An expired key is gone from Redis; an expired bucket stays in memory.   *)
Aged(s, c) ==
  IF c.left > 1 THEN [c EXCEPT !.left = @ - 1]
  ELSE IF s = Redis THEN None ELSE [c EXCEPT !.left = 0]

LimiterTick ==
  /\ counter' = [s \in Stores |-> [k \in Keys |-> Aged(s, counter[s][k])]]
  /\ attempt' = [r \in Clients |->
       [attempt[r] EXCEPT !.wait = Waited(attempt[r]), !.by = StillRunning(@)]]
  /\ passed' = [s \in Stores |-> [k \in Keys |->
       [a \in Ages |-> IF a = 0 THEN 0 ELSE passed[s][k][a - 1]]]]
  /\ UNCHANGED resets

LimiterNext ==
  \/ \E r \in Clients :
       Begin(r) \/ \E k \in Keys : ConsumeInRedis(r, k) \/ ConsumeInMemory(r, k)
  \/ \E s \in Stores : Restart(s)
  \/ LimiterTick

LimiterSpec == LimiterInit /\ [][LimiterNext]_limiterVars

-----------------------------------------------------------------------------
(* Properties *)

(* "Nunca sem limite": in any stretch as long as a window, wherever it     *)
(* begins, Redis, and each process standing in for it, lets through at     *)
(* most what two windows allow, and what one more does for each time it    *)
(* restarts.                                                               *)
NeverUnlimited ==
  \A s \in Stores, k \in Keys :
    passed[s][k][Window - 1] <= Limit[k] * (2 + resets[s])

(* Whoever was refused and has waited for as long as the answer's          *)
(* Retry-After said finds every window that refused him over, in Redis and *)
(* in the process that stood in for it, however the time of the route's    *)
(* two calls, other requests and restarts fell in between.                 *)
RetryAfterSuffices ==
  \A r \in Clients :
    attempt[r].left = <<>> /\ attempt[r].wait = 0 => attempt[r].by = {}
=============================================================================
