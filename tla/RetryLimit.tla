----------------------------- MODULE RetryLimit -----------------------------
(***************************************************************************)
(* The password retry limiter: RetryLimitHashedCredentialsMatcher and the  *)
(* PasswordRetry counter it keeps per user name in the retry cache.        *)
(*                                                                         *)
(* Every login runs on its own request thread.  The cache (EhCache on the  *)
(* local heap) hands out references, so threads that fetch the entry of    *)
(* one user share one PasswordRetry object; one action below is one access *)
(* to shared state.                                                        *)
(***************************************************************************)
EXTENDS Integers, FiniteSets

CONSTANTS
  Threads,      \* request threads
  Users,        \* user names
  Refs,         \* PasswordRetry objects that can be allocated
  NoRef,        \* a missing cache entry
  RetryLimit,   \* retryLimit: 5 in spring-shiro.xml
  LockTime,     \* lockTime as the code uses it: in units of the clock
  MaxTime,      \* bound on the clock
  MaxAttempts   \* bound on the number of logins

ASSUME RetryLimitAssumption ==
  /\ NoRef \notin Refs
  /\ RetryLimit \in Nat /\ LockTime \in Nat

VARIABLES
  now,        \* System.currentTimeMillis()
  cache,      \* passwordRetryCache: user name -> PasswordRetry or none
  allocated,  \* the PasswordRetry objects created so far
  obj,        \* fields of each PasswordRetry, and the counts it let through
  req,        \* each thread's login: position and local variables
  attempts,   \* logins started
  hist        \* history per user: see Hist

vars == <<now, cache, allocated, obj, req, attempts, hist>>

PasswordRetry == [retryCount : Nat, lastRetryTime : Nat, tried : SUBSET Nat]

\* password: what was submitted; retry, count, now: the locals of the same names.
\* "unlocked" and "locked" are the two branches of the test of lastRetryTime.
Request ==
  [pc : {"idle", "get", "new", "inc", "clock", "test", "unlocked", "locked",
         "match", "remove"},
   user : Users, password : {"right", "wrong"}, retry : Refs \cup {NoRef},
   count : Nat, now : Nat]

\* burst: wrong passwords checked since the user was quiet for LockTime; seen:
\* time of the last login (-1: none); disturbed: whether a login has started while
\* another login of the user was running, and whether the counter was evicted.
Hist == [burst : Nat, seen : Nat \cup {-1}, disturbed : SUBSET {"overlap", "evicted"}]

TypeOK ==
  /\ now \in Nat
  /\ cache \in [Users -> Refs \cup {NoRef}]
  /\ allocated \in SUBSET Refs
  /\ obj \in [Refs -> PasswordRetry]
  /\ req \in [Threads -> Request]
  /\ attempts \in Nat
  /\ hist \in [Users -> Hist]

Init ==
  /\ now = 0
  /\ cache = [u \in Users |-> NoRef]
  /\ allocated = {}
  /\ obj = [r \in Refs |-> [retryCount |-> 0, lastRetryTime |-> 0, tried |-> {}]]
  /\ req \in [Threads -> {[pc |-> "idle", user |-> u, password |-> "wrong",
                           retry |-> NoRef, count |-> 0, now |-> 0] : u \in Users}]
  /\ attempts = 0
  /\ hist = [u \in Users |-> [burst |-> 0, seen |-> -1, disturbed |-> {}]]

(***************************************************************************)
(* doCredentialsMatch                                                      *)
(***************************************************************************)

\* A login of user u reaches the matcher.
Begin(t, u, p) ==
  /\ req[t].pc = "idle"
  /\ attempts < MaxAttempts
  /\ attempts' = attempts + 1
  /\ req' = [req EXCEPT ![t].pc = "get", ![t].user = u, ![t].password = p]
  /\ hist' = [hist EXCEPT ![u].disturbed =
       IF \E s \in Threads : req[s].pc # "idle" /\ req[s].user = u THEN @ \cup {"overlap"} ELSE @]
  /\ UNCHANGED <<now, cache, allocated, obj>>

\* retry = passwordRetryCache.get(username), and the test of retry == null.
CacheGet(t) ==
  LET r == cache[req[t].user] IN
  /\ req[t].pc = "get"
  /\ req' = [req EXCEPT ![t].retry = r, ![t].pc = IF r = NoRef THEN "new" ELSE "inc"]
  /\ UNCHANGED <<now, cache, allocated, obj, attempts, hist>>

\* retry = new PasswordRetry(); passwordRetryCache.put(username, retry): it
\* overwrites an entry another thread has put since CacheGet.
CachePut(t) ==
  /\ req[t].pc = "new"
  /\ \E r \in Refs \ allocated :
       /\ allocated' = allocated \cup {r}
       /\ obj' = [obj EXCEPT ![r].lastRetryTime = now]
       /\ cache' = [cache EXCEPT ![req[t].user] = r]
       /\ req' = [req EXCEPT ![t].retry = r, ![t].pc = "inc"]
  /\ UNCHANGED <<now, attempts, hist>>

(***************************************************************************)
(* PasswordRetry.incrementAndGet(lockTime)                                 *)
(***************************************************************************)

\* Mutant: getAndIncrement() in place of incrementAndGet().
IncrementGetFirst(t) ==
  LET r == req[t].retry IN
  /\ req[t].pc = "inc"
  /\ obj' = [obj EXCEPT ![r].retryCount = @ + 1]
  /\ req' = [req EXCEPT ![t].count = obj[r].retryCount, ![t].pc = "clock"]
  /\ UNCHANGED <<now, cache, allocated, attempts, hist>>

\* count = retryCount.incrementAndGet()
Increment(t) ==
  LET r == req[t].retry IN
  /\ req[t].pc = "inc"
  /\ obj' = [obj EXCEPT ![r].retryCount = @ + 1]
  /\ req' = [req EXCEPT ![t].count = obj[r].retryCount + 1, ![t].pc = "clock"]
  /\ UNCHANGED <<now, cache, allocated, attempts, hist>>

\* Mutant: the local holds the end of the lock window, now - lockTime.
ReadClockShifted(t) ==
  /\ req[t].pc = "clock"
  /\ req' = [req EXCEPT ![t].now = now - LockTime, ![t].pc = "test"]
  /\ UNCHANGED <<now, cache, allocated, obj, attempts, hist>>

\* now = System.currentTimeMillis()
ReadClock(t) ==
  /\ req[t].pc = "clock"
  /\ req' = [req EXCEPT ![t].now = now, ![t].pc = "test"]
  /\ hist' = [hist EXCEPT ![req[t].user] =
                [@ EXCEPT !.seen = now,
                          !.burst = IF now - LockTime > hist[req[t].user].seen THEN 0 ELSE @]]
  /\ UNCHANGED <<now, cache, allocated, obj, attempts>>

\* Mutant: >= in place of >.
TestLockAtBoundary(t) ==
  /\ req[t].pc = "test"
  /\ req' = [req EXCEPT ![t].pc = IF req[t].now - LockTime >= obj[req[t].retry].lastRetryTime
                                  THEN "unlocked" ELSE "locked"]
  /\ UNCHANGED <<now, cache, allocated, obj, attempts, hist>>

\* now - lockTime > lastRetryTime
TestLock(t) ==
  /\ req[t].pc = "test"
  /\ req' = [req EXCEPT ![t].pc = IF req[t].now - LockTime > obj[req[t].retry].lastRetryTime
                                  THEN "unlocked" ELSE "locked"]
  /\ UNCHANGED <<now, cache, allocated, obj, attempts, hist>>

\* What incrementAndGet returns: 0 when the lock time has passed (retryCount
\* keeps its value), the count otherwise.
Returned(t) == IF req[t].pc = "unlocked" THEN 0 ELSE req[t].count

\* lastRetryTime = now in both branches; the caller then refuses the login with
\* ExcessiveAttemptsException when the result is above retryLimit.
StoreTime(t) ==
  LET r == req[t].retry
      refused == Returned(t) > RetryLimit
  IN
  /\ req[t].pc \in {"unlocked", "locked"}
  /\ req' = [req EXCEPT ![t].pc = IF refused THEN "idle" ELSE "match"]
  /\ obj' = [obj EXCEPT ![r].lastRetryTime = req[t].now,
               ![r].tried = IF req[t].pc = "locked" /\ ~refused THEN @ \cup {req[t].count} ELSE @]
  /\ UNCHANGED <<now, cache, allocated, attempts, hist>>

(***************************************************************************)
(* Back in doCredentialsMatch                                              *)
(***************************************************************************)

\* delegate.doCredentialsMatch(token, info)
Match(t) ==
  /\ req[t].pc = "match"
  /\ req' = [req EXCEPT ![t].pc = IF req[t].password = "right" THEN "remove" ELSE "idle"]
  /\ hist' = [hist EXCEPT ![req[t].user].burst = IF req[t].password = "right" THEN @ ELSE @ + 1]
  /\ UNCHANGED <<now, cache, allocated, obj, attempts>>

\* passwordRetryCache.remove(username)
CacheRemove(t) ==
  /\ req[t].pc = "remove"
  /\ cache' = [cache EXCEPT ![req[t].user] = NoRef]
  /\ req' = [req EXCEPT ![t].pc = "idle"]
  /\ hist' = [hist EXCEPT ![req[t].user].burst = 0]
  /\ UNCHANGED <<now, allocated, obj, attempts>>

\* The cache is full: the counter of u gives way to those of other users.
Evict(u) ==
  /\ cache[u] # NoRef
  /\ cache' = [cache EXCEPT ![u] = NoRef]
  /\ hist' = [hist EXCEPT ![u].disturbed = @ \cup {"evicted"}]
  /\ UNCHANGED <<now, allocated, obj, req, attempts>>

\* The wall clock advances.
Tick ==
  /\ now < MaxTime
  /\ now' = now + 1
  /\ UNCHANGED <<cache, allocated, obj, req, attempts, hist>>

DoCredentialsMatch(t) ==
  \/ \E u \in Users, p \in {"right", "wrong"} : Begin(t, u, p)
  \/ CacheGet(t) \/ CachePut(t)
  \/ Increment(t) \/ ReadClock(t) \/ TestLock(t) \/ StoreTime(t)
  \/ Match(t) \/ CacheRemove(t)

Next ==
  \/ Tick
  \/ \E u \in Users : Evict(u)
  \/ \E t \in Threads : DoCredentialsMatch(t)

Spec == Init /\ [][Next]_vars

(***************************************************************************)
(* Properties                                                              *)
(***************************************************************************)

\* The thread's login is counted and not settled yet.
Counted(t) == req[t].pc \in {"clock", "test", "unlocked", "locked"}

\* No two logins that go through the same PasswordRetry object are given the
\* same count, neither two in flight nor one in flight and one that was let
\* through earlier: so one object lets at most RetryLimit logins through on
\* their count, for any number of threads (PasswordRetry.incrementAndGet).
CountsNotShared ==
  /\ \A t \in Threads : Counted(t) => req[t].count \notin obj[req[t].retry].tried
  /\ \A s, t \in Threads :
       s # t /\ Counted(s) /\ Counted(t) /\ req[s].retry = req[t].retry
         => req[s].count # req[t].count
  /\ \A r \in Refs : obj[r].tried \subseteq 1..RetryLimit

\* The limiter's purpose: until a user has been quiet for LockTime, at most
\* RetryLimit wrong passwords of that user are checked (as long as the cache has
\* room for the counter).
BurstLimit ==
  \A u \in Users : "evicted" \notin hist[u].disturbed => hist[u].burst <= RetryLimit

\* It is kept for every user whose logins do not overlap, whichever threads run
\* them, as long as the counter is not evicted (doCredentialsMatch,
\* incrementAndGet).
SerialBurstLimit ==
  \A u \in Users : hist[u].disturbed = {} => hist[u].burst <= RetryLimit
=============================================================================
