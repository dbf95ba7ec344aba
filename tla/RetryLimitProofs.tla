-------------------------- MODULE RetryLimitProofs --------------------------
(***************************************************************************)
(* CountsNotShared, and SerialBurstLimit for users whose logins do not     *)
(* overlap and whose counter stays in the cache, for any number of         *)
(* threads, users and counters.                                            *)
(*                                                                         *)
(* CountsNotShared is not inductive: a thread about to increment must hold *)
(* an allocated object, a counted thread's count must not exceed the       *)
(* object's counter (so that the next increment gives a count nobody       *)
(* holds), and an object that CachePut may still allocate must be          *)
(* untouched.  Bookkeeping and Fresh say so.                               *)
(***************************************************************************)
EXTENDS RetryLimit, TLAPS

\* Threads that hold a reference they will use.
Holding(t) == req[t].pc \in {"inc", "clock", "test", "unlocked", "locked"}

Bookkeeping ==
  /\ \A t \in Threads : Holding(t) => req[t].retry \in allocated
  /\ \A u \in Users : cache[u] # NoRef => cache[u] \in allocated
  /\ \A t \in Threads : Counted(t) => req[t].count \in 1..obj[req[t].retry].retryCount
  /\ \A r \in Refs : obj[r].tried \subseteq 1..obj[r].retryCount

Fresh == \A r \in Refs \ allocated : obj[r].retryCount = 0

IInv == TypeOK /\ Bookkeeping /\ Fresh /\ CountsNotShared

\* The strengthened invariant holds initially: no counter exists yet.
LEMMA InitInv == Init => IInv
<1> SUFFICES ASSUME Init PROVE IInv
  OBVIOUS
<1>1. \A t \in Threads : req[t] \in Request /\ req[t].pc = "idle"
  BY DEF Init, Request
<1>2. TypeOK
  <2>1. req \in [Threads -> Request]
    BY <1>1 DEF Init
  <2>2. obj \in [Refs -> PasswordRetry] /\ hist \in [Users -> Hist]
    BY DEF Init, PasswordRetry, Hist
  <2> QED
    BY <2>1, <2>2 DEF Init, TypeOK
<1> QED
  BY <1>1, <1>2
     DEF Init, IInv, Bookkeeping, Fresh, CountsNotShared, Holding, Counted

\* Every step of a login, the clock and stuttering preserve it.
LEMMA NextInv == IInv /\ [Next]_vars => IInv'
<1> SUFFICES ASSUME IInv, [Next]_vars
             PROVE  IInv'
  OBVIOUS
<1> USE RetryLimitAssumption DEF IInv, TypeOK
<1>1. ASSUME NEW t \in Threads, NEW u \in Users, NEW p \in {"right", "wrong"}, Begin(t, u, p)
      PROVE  IInv'
  <2>1. TypeOK'
    <3>1. req' \in [Threads -> Request]
      <4>1. [req[t] EXCEPT !.pc = "get", !.user = u, !.password = p] \in Request
        BY DEF Request
      <4> QED
        BY <1>1, <4>1 DEF Begin
    <3>2. hist' \in [Users -> Hist]
      <4>1. \A x \in SUBSET {"overlap", "evicted"} : [hist[u] EXCEPT !.disturbed = x] \in Hist
        BY DEF Hist
      <4>2. hist[u].disturbed \in SUBSET {"overlap", "evicted"}
        BY DEF Hist
      <4> QED
        BY <1>1, <4>1, <4>2 DEF Begin
    <3> QED
      BY <1>1, <3>1, <3>2 DEF Begin
  <2>2. (Bookkeeping /\ Fresh /\ CountsNotShared)'
    BY <1>1 DEF Begin, Bookkeeping, Fresh, CountsNotShared, Holding, Counted, Request
  <2> QED
    BY <2>1, <2>2
<1>2. ASSUME NEW t \in Threads, CacheGet(t)
      PROVE  IInv'
  <2>1. TypeOK'
    <3>1. req' \in [Threads -> Request]
      BY <1>2 DEF CacheGet, Request, PasswordRetry, Bookkeeping, Holding
    <3>2. obj' \in [Refs -> PasswordRetry]
      BY <1>2 DEF CacheGet, Request, PasswordRetry
    <3>3. hist' \in [Users -> Hist]
      BY <1>2 DEF CacheGet, Hist, Request
    <3> QED
      BY <1>2, <3>1, <3>2, <3>3 DEF CacheGet, Request
  <2>2. Bookkeeping'
    BY <1>2 DEF CacheGet, Bookkeeping, Fresh, Holding, Counted, Request, PasswordRetry
  <2>3. Fresh'
    BY <1>2 DEF CacheGet, Bookkeeping, Fresh, Holding, Request, PasswordRetry
  <2>4. CountsNotShared'
    BY <1>2 DEF CacheGet, Bookkeeping, CountsNotShared, Holding, Counted, Request, PasswordRetry
  <2> QED
    BY <2>1, <2>2, <2>3, <2>4
<1>3. ASSUME NEW t \in Threads, CachePut(t)
      PROVE  IInv'
  <2>1. TypeOK'
    <3>1. req' \in [Threads -> Request]
      BY <1>3 DEF CachePut, Request, PasswordRetry, Bookkeeping, Holding
    <3>2. obj' \in [Refs -> PasswordRetry]
      BY <1>3 DEF CachePut, Request, PasswordRetry
    <3>3. hist' \in [Users -> Hist]
      BY <1>3 DEF CachePut, Hist, Request
    <3> QED
      BY <1>3, <3>1, <3>2, <3>3 DEF CachePut, Request
  <2>2. Bookkeeping'
    BY <1>3 DEF CachePut, Bookkeeping, Fresh, Holding, Counted, Request, PasswordRetry
  <2>3. Fresh'
    BY <1>3 DEF CachePut, Bookkeeping, Fresh, Holding, Request, PasswordRetry
  <2>4. CountsNotShared'
    BY <1>3 DEF CachePut, Bookkeeping, CountsNotShared, Holding, Counted, Request, PasswordRetry
  <2> QED
    BY <2>1, <2>2, <2>3, <2>4
<1>4. ASSUME NEW t \in Threads, Increment(t)
      PROVE  IInv'
  <2>1. TypeOK'
    <3>1. req' \in [Threads -> Request]
      BY <1>4 DEF Increment, Request, PasswordRetry, Bookkeeping, Holding
    <3>2. obj' \in [Refs -> PasswordRetry]
      BY <1>4 DEF Increment, Request, PasswordRetry
    <3>3. hist' \in [Users -> Hist]
      BY <1>4 DEF Increment, Hist, Request
    <3> QED
      BY <1>4, <3>1, <3>2, <3>3 DEF Increment, Request
  <2>2. PICK r \in Refs :
          /\ r \in allocated /\ req[t].retry = r
          /\ obj'[r].retryCount = obj[r].retryCount + 1
          /\ \A x \in Refs : obj'[x].tried = obj[x].tried /\ (x # r => obj'[x].retryCount = obj[x].retryCount)
    BY <1>4 DEF Increment, Bookkeeping, Holding, PasswordRetry
  <2>3. /\ req'[t].retry = r /\ req'[t].count = obj[r].retryCount + 1
        /\ \A s \in Threads \ {t} : req'[s] = req[s]
    BY <1>4, <2>2 DEF Increment, Request
  <2>4. \A x \in Refs : obj[x].retryCount \in Nat /\ obj[x].tried \subseteq 1..obj[x].retryCount
    BY DEF Bookkeeping, PasswordRetry
  <2>5. \A s \in Threads \ {t} : Counted(s) =>
          req[s].retry \in Refs /\ req[s].count \in 1..obj[req[s].retry].retryCount
    BY DEF Bookkeeping, Counted, Holding
  <2>6. \A s \in Threads \ {t} : (Counted(s)' <=> Counted(s)) /\ (Holding(s)' <=> Holding(s))
    BY <2>3 DEF Counted, Holding
  <2>7. Bookkeeping'
    <3>1. \A s \in Threads : Holding(s)' => req'[s].retry \in allocated
      BY <2>2, <2>3, <2>6 DEF Bookkeeping
    <3>2. \A s \in Threads : Counted(s)' => req'[s].count \in 1..obj'[req'[s].retry].retryCount
      <4>1. ASSUME NEW s \in Threads \ {t}, Counted(s)
            PROVE  req[s].count \in 1..obj'[req[s].retry].retryCount
        BY <4>1, <2>2, <2>4, <2>5
      <4>2. req'[t].count \in 1..obj'[r].retryCount
        BY <2>2, <2>3, <2>4
      <4> QED
        BY <4>1, <4>2, <2>3, <2>6
    <3>3. \A x \in Refs : obj'[x].tried \subseteq 1..obj'[x].retryCount
      BY <2>2, <2>4
    <3>4. cache' = cache /\ allocated' = allocated
      BY <1>4 DEF Increment
    <3> QED
      BY <3>1, <3>2, <3>3, <3>4 DEF Bookkeeping
  <2>8. Fresh'
    BY <1>4 DEF Increment, Bookkeeping, Fresh, Holding, Request, PasswordRetry
  <2>9. CountsNotShared'
    <3>1. ASSUME NEW s \in Threads \ {t}, Counted(s), req[s].retry = r
          PROVE  req[s].count # req'[t].count
      BY <3>1, <2>3, <2>4, <2>5
    <3>2. req'[t].count \notin obj'[r].tried
      BY <2>2, <2>3, <2>4
    <3>3. \A s \in Threads : Counted(s)' => req'[s].count \notin obj'[req'[s].retry].tried
      BY <3>2, <2>2, <2>3, <2>5, <2>6 DEF CountsNotShared
    <3>4. \A s, x \in Threads :
            s # x /\ Counted(s)' /\ Counted(x)' /\ req'[s].retry = req'[x].retry
              => req'[s].count # req'[x].count
      BY <3>1, <2>3, <2>6 DEF CountsNotShared
    <3>5. \A x \in Refs : obj'[x].tried \subseteq 1..RetryLimit
      BY <2>2 DEF CountsNotShared
    <3> QED
      BY <3>3, <3>4, <3>5 DEF CountsNotShared
  <2> QED
    BY <2>1, <2>7, <2>8, <2>9
<1>5. ASSUME NEW t \in Threads, ReadClock(t)
      PROVE  IInv'
  <2>1. TypeOK'
    <3>1. req' \in [Threads -> Request]
      BY <1>5 DEF ReadClock, Request, PasswordRetry, Bookkeeping, Holding
    <3>2. obj' \in [Refs -> PasswordRetry]
      BY <1>5 DEF ReadClock, Request, PasswordRetry
    <3>3. hist' \in [Users -> Hist]
      BY <1>5 DEF ReadClock, Hist, Request
    <3> QED
      BY <1>5, <3>1, <3>2, <3>3 DEF ReadClock, Request
  <2>2. Bookkeeping'
    BY <1>5 DEF ReadClock, Bookkeeping, Fresh, Holding, Counted, Request, PasswordRetry
  <2>3. Fresh'
    BY <1>5 DEF ReadClock, Bookkeeping, Fresh, Holding, Request, PasswordRetry
  <2>4. CountsNotShared'
    BY <1>5 DEF ReadClock, Bookkeeping, CountsNotShared, Holding, Counted, Request, PasswordRetry
  <2> QED
    BY <2>1, <2>2, <2>3, <2>4
<1>6. ASSUME NEW t \in Threads, TestLock(t)
      PROVE  IInv'
  <2>1. TypeOK'
    <3>1. req' \in [Threads -> Request]
      <4>1. \A x \in {"unlocked", "locked"} : [req[t] EXCEPT !.pc = x] \in Request
        BY DEF Request
      <4> QED
        BY <1>6, <4>1 DEF TestLock
    <3>2. obj' \in [Refs -> PasswordRetry]
      BY <1>6 DEF TestLock, Request, PasswordRetry
    <3>3. hist' \in [Users -> Hist]
      BY <1>6 DEF TestLock, Hist, Request
    <3> QED
      BY <1>6, <3>1, <3>2, <3>3 DEF TestLock, Request
  <2>2. Bookkeeping'
    BY <1>6 DEF TestLock, Bookkeeping, Fresh, Holding, Counted, Request, PasswordRetry
  <2>3. Fresh'
    BY <1>6 DEF TestLock, Bookkeeping, Fresh, Holding, Request, PasswordRetry
  <2>4. CountsNotShared'
    BY <1>6 DEF TestLock, Bookkeeping, CountsNotShared, Holding, Counted, Request, PasswordRetry
  <2> QED
    BY <2>1, <2>2, <2>3, <2>4
<1>7. ASSUME NEW t \in Threads, StoreTime(t)
      PROVE  IInv'
  <2>1. TypeOK'
    <3>1. req' \in [Threads -> Request]
      <4>1. \A x \in {"idle", "match"} : [req[t] EXCEPT !.pc = x] \in Request
        BY DEF Request
      <4> QED
        BY <1>7, <4>1 DEF StoreTime
    <3>2. obj' \in [Refs -> PasswordRetry]
      <4> DEFINE r == req[t].retry
      <4>1. r \in Refs /\ req[t].now \in Nat /\ req[t].count \in Nat
        BY <1>7 DEF StoreTime, Bookkeeping, Holding, Request
      <4>2. \A S \in SUBSET Nat :
              [obj[r] EXCEPT !.lastRetryTime = req[t].now, !.tried = S] \in PasswordRetry
        BY <4>1 DEF PasswordRetry
      <4>3. obj[r].tried \in SUBSET Nat /\ obj[r].tried \cup {req[t].count} \in SUBSET Nat
        BY <4>1 DEF PasswordRetry
      <4> QED
        BY <1>7, <4>1, <4>2, <4>3 DEF StoreTime
    <3>3. hist' \in [Users -> Hist]
      BY <1>7 DEF StoreTime, Hist, Request
    <3> QED
      BY <1>7, <3>1, <3>2, <3>3 DEF StoreTime, Request
  <2>2. Bookkeeping'
    BY <1>7 DEF StoreTime, Bookkeeping, Fresh, Holding, Counted, Request, PasswordRetry, Returned
  <2>3. Fresh'
    BY <1>7 DEF StoreTime, Bookkeeping, Fresh, Holding, Request, PasswordRetry
  <2>4. CountsNotShared'
    BY <1>7 DEF StoreTime, Bookkeeping, CountsNotShared, Holding, Counted, Request, PasswordRetry, Returned
  <2> QED
    BY <2>1, <2>2, <2>3, <2>4
<1>8. ASSUME NEW t \in Threads, Match(t)
      PROVE  IInv'
  <2>1. TypeOK'
    <3>1. req' \in [Threads -> Request]
      BY <1>8 DEF Match, Request, PasswordRetry, Bookkeeping, Holding
    <3>2. obj' \in [Refs -> PasswordRetry]
      BY <1>8 DEF Match, Request, PasswordRetry
    <3>3. hist' \in [Users -> Hist]
      <4>1. req[t].user \in Users
        BY DEF Request
      <4>2. \A n \in Nat : [hist[req[t].user] EXCEPT !.burst = n] \in Hist
        BY <4>1 DEF Hist
      <4>3. hist[req[t].user].burst \in Nat /\ hist[req[t].user].burst + 1 \in Nat
        BY <4>1 DEF Hist
      <4> QED
        BY <1>8, <4>1, <4>2, <4>3 DEF Match
    <3> QED
      BY <1>8, <3>1, <3>2, <3>3 DEF Match, Request
  <2>2. Bookkeeping'
    BY <1>8 DEF Match, Bookkeeping, Fresh, Holding, Counted, Request, PasswordRetry
  <2>3. Fresh'
    BY <1>8 DEF Match, Bookkeeping, Fresh, Holding, Request, PasswordRetry
  <2>4. CountsNotShared'
    BY <1>8 DEF Match, Bookkeeping, CountsNotShared, Holding, Counted, Request, PasswordRetry
  <2> QED
    BY <2>1, <2>2, <2>3, <2>4
<1>9. ASSUME NEW t \in Threads, CacheRemove(t)
      PROVE  IInv'
  <2>1. TypeOK'
    <3>1. req' \in [Threads -> Request]
      BY <1>9 DEF CacheRemove, Request
    <3>2. obj' \in [Refs -> PasswordRetry]
      BY <1>9 DEF CacheRemove, Request, PasswordRetry
    <3>3. hist' \in [Users -> Hist]
      BY <1>9 DEF CacheRemove, Hist, Request
    <3> QED
      BY <1>9, <3>1, <3>2, <3>3 DEF CacheRemove, Request
  <2>2. Bookkeeping'
    BY <1>9 DEF CacheRemove, Bookkeeping, Fresh, Holding, Counted, Request, PasswordRetry
  <2>3. Fresh'
    BY <1>9 DEF CacheRemove, Bookkeeping, Fresh, Holding, Request, PasswordRetry
  <2>4. CountsNotShared'
    BY <1>9 DEF CacheRemove, Bookkeeping, CountsNotShared, Holding, Counted, Request, PasswordRetry
  <2> QED
    BY <2>1, <2>2, <2>3, <2>4
<1>10. CASE Tick
  BY <1>10 DEF Tick, Bookkeeping, Fresh, CountsNotShared, Holding, Counted
<1>12. ASSUME NEW u \in Users, Evict(u)
       PROVE  IInv'
  <2>1. TypeOK'
    <3>1. [hist[u] EXCEPT !.disturbed = @ \cup {"evicted"}] \in Hist
      BY DEF Hist
    <3> QED
      BY <1>12, <3>1 DEF Evict
  <2>2. Bookkeeping' /\ Fresh' /\ CountsNotShared'
    BY <1>12 DEF Evict, Bookkeeping, Fresh, CountsNotShared, Holding, Counted
  <2> QED
    BY <2>1, <2>2
<1>11. CASE UNCHANGED vars
  BY <1>11 DEF vars, Bookkeeping, Fresh, CountsNotShared, Holding, Counted
<1> QED
  BY <1>1, <1>2, <1>3, <1>4, <1>5, <1>6, <1>7, <1>8, <1>9, <1>10, <1>11, <1>12
     DEF Next, DoCredentialsMatch

LEMMA Inductive == Spec => []IInv
  BY InitInv, NextInv, PTL DEF Spec

\* Every reachable state of the retry limiter is well typed: the counters, the
\* cache and each thread's locals keep their types in every interleaving.
THEOREM TypeCorrect == Spec => []TypeOK
  BY Inductive, PTL DEF IInv

\* No PasswordRetry object gives two logins the same count, whatever the
\* interleaving: each lets at most RetryLimit logins through on their count.
THEOREM CountsNotSharedAlways == Spec => []CountsNotShared
  BY Inductive, PTL DEF IInv

-----------------------------------------------------------------------------
(***************************************************************************)
(* SerialBurstLimit.  A counter is used for one user only (Apart), so that *)
(* the logins of a user whose logins do not overlap are the only ones that *)
(* change it; the counter then bounds the wrong passwords checked, and its *)
(* lastRetryTime is at least as late as the last login (Between, Within).  *)
(***************************************************************************)

\* User u reaches the counter r, through the cache or through a login in flight.
Uses(u, r) ==
  cache[u] = r \/ \E t \in Threads : Holding(t) /\ req[t].user = u /\ req[t].retry = r

Apart == \A u, v \in Users, r \in Refs : Uses(u, r) /\ Uses(v, r) => u = v

Active(t, u) == req[t].pc # "idle" /\ req[t].user = u

\* The login has read the clock and not stored the time yet.
Timed(t) == req[t].pc \in {"test", "unlocked", "locked"}

\* What holds of user u with counter r between any two steps.
Between(u, r) ==
  /\ hist[u].burst <= RetryLimit /\ hist[u].seen <= now
  /\ r = NoRef => hist[u].burst = 0
  /\ r # NoRef =>
       /\ hist[u].burst <= obj[r].retryCount
       /\ obj[r].lastRetryTime >= hist[u].seen \/ \E t \in Threads : Active(t, u) /\ Timed(t)

\* What holds during login t of user u: a count it was given leaves room for one
\* more wrong password, and the lock is open only after a quiet time.
Within(t, u, r) ==
  /\ req[t].pc = "new" => r = NoRef
  /\ Holding(t) \/ req[t].pc = "match" => r # NoRef /\ req[t].retry = r
  /\ Counted(t) => hist[u].burst + 1 <= req[t].count
  /\ Timed(t) => req[t].now = hist[u].seen
  /\ req[t].pc = "test" /\ req[t].now - LockTime > obj[r].lastRetryTime => hist[u].burst = 0
  /\ req[t].pc = "unlocked" => hist[u].burst = 0
  /\ req[t].pc = "match" => hist[u].burst + 1 <= RetryLimit /\ hist[u].burst + 1 <= obj[r].retryCount

BurstOK(u) ==
  hist[u].disturbed = {} =>
    /\ \A s, t \in Threads : Active(s, u) /\ Active(t, u) => s = t
    /\ Between(u, cache[u])
    /\ \A t \in Threads : Active(t, u) => Within(t, u, cache[u])

BurstInv == Apart /\ \A u \in Users : BurstOK(u)

LEMMA UsedAllocated ==
  ASSUME IInv, NEW u \in Users, NEW r \in Refs, Uses(u, r)
  PROVE  r \in allocated
  BY RetryLimitAssumption DEF IInv, Bookkeeping, Uses

\* A step hands out a counter only to the user of its login, and only its own
\* or a new one.
LEMMA ApartKept ==
  ASSUME IInv, Apart,
         \/ \A u \in Users, r \in Refs : Uses(u, r)' => Uses(u, r)
         \/ \E v \in Users, n \in Refs \ allocated :
              \A u \in Users, r \in Refs : Uses(u, r)' => Uses(u, r) \/ (u = v /\ r = n)
  PROVE  Apart'
  BY UsedAllocated DEF Apart

LEMMA ApartNext == IInv /\ IInv' /\ Apart /\ [Next]_vars => Apart'
<1> SUFFICES ASSUME IInv, IInv', Apart, [Next]_vars PROVE Apart'
  OBVIOUS
<1>0. req \in [Threads -> Request] /\ cache \in [Users -> Refs \cup {NoRef}]
  BY DEF IInv, TypeOK
<1>1. ASSUME NEW t \in Threads, NEW u \in Users, NEW p \in {"right", "wrong"}, Begin(t, u, p)
      PROVE  Apart'
  <2>1. \A x \in Users, r \in Refs : Uses(x, r)' => Uses(x, r)
    BY <1>0, <1>1 DEF Begin, Uses, Holding, Request
  <2> QED
    BY <2>1, ApartKept
<1>2. ASSUME NEW t \in Threads, CacheGet(t)
      PROVE  Apart'
  <2>1. \A x \in Users, r \in Refs : Uses(x, r)' => Uses(x, r)
    BY <1>0, <1>2 DEF CacheGet, Uses, Holding, Request
  <2> QED
    BY <2>1, ApartKept
<1>3. ASSUME NEW t \in Threads, CachePut(t)
      PROVE  Apart'
  <2>1. PICK n \in Refs \ allocated :
          /\ cache' = [cache EXCEPT ![req[t].user] = n]
          /\ req' = [req EXCEPT ![t].retry = n, ![t].pc = "inc"]
    BY <1>3 DEF CachePut
  <2>2. PICK v \in Users : v = req[t].user
    BY <1>0 DEF Request
  <2>3. \A u \in Users, r \in Refs : Uses(u, r)' => Uses(u, r) \/ (u = v /\ r = n)
    BY <1>0, <2>1, <2>2 DEF Uses, Holding, Request
  <2> QED
    BY <2>3, ApartKept
<1>4. ASSUME NEW t \in Threads, Increment(t) \/ ReadClock(t) \/ TestLock(t)
      PROVE  Apart'
  <2>1. /\ req[t].pc \in {"inc", "clock", "test"} /\ cache' = cache
        /\ req'[t].user = req[t].user /\ req'[t].retry = req[t].retry
        /\ \A s \in Threads : s # t => req'[s] = req[s]
    BY <1>0, <1>4 DEF Increment, ReadClock, TestLock, Request
  <2>2. \A x \in Users, r \in Refs : Uses(x, r)' => Uses(x, r)
    BY <2>1 DEF Uses, Holding
  <2> QED
    BY <2>2, ApartKept
<1>5. ASSUME NEW t \in Threads, StoreTime(t) \/ Match(t) \/ CacheRemove(t)
      PROVE  Apart'
  <2>1. /\ req'[t].pc \in {"idle", "match", "remove"}
        /\ cache' = cache \/ cache' = [cache EXCEPT ![req[t].user] = NoRef]
        /\ \A s \in Threads : s # t => req'[s] = req[s]
    BY <1>0, <1>5 DEF StoreTime, Match, CacheRemove, Request
  <2>2. \A x \in Users, r \in Refs : Uses(x, r)' => Uses(x, r)
    BY <1>0, <2>1, RetryLimitAssumption DEF Uses, Holding, Request
  <2> QED
    BY <2>2, ApartKept
<1>6. CASE Tick \/ UNCHANGED vars
  BY <1>6 DEF Tick, vars, Apart, Uses, Holding
<1>7. ASSUME NEW v \in Users, Evict(v)
      PROVE  Apart'
  <2>1. cache' = [cache EXCEPT ![v] = NoRef] /\ req' = req
    BY <1>7 DEF Evict
  <2>2. \A x \in Users, r \in Refs : Uses(x, r)' => Uses(x, r)
    BY <1>0, <2>1, RetryLimitAssumption DEF Uses, Holding
  <2> QED
    BY <2>2, ApartKept
<1> QED
  BY <1>1, <1>2, <1>3, <1>4, <1>5, <1>6, <1>7 DEF Next, DoCredentialsMatch

\* A login leaves the other users alone.
LEMMA OtherUser ==
  ASSUME IInv, NEW u \in Users, BurstOK(u), now' \in Nat, now' >= now,
         hist'[u] = hist[u], cache'[u] = cache[u],
         cache[u] # NoRef => obj'[cache[u]] = obj[cache[u]],
         \A t \in Threads : (Active(t, u) \/ Active(t, u)') => req'[t] = req[t]
  PROVE  BurstOK(u)'
<1> SUFFICES ASSUME hist[u].disturbed = {}
             PROVE  /\ \A s, t \in Threads : Active(s, u)' /\ Active(t, u)' => s = t
                    /\ Between(u, cache[u])'
                    /\ \A t \in Threads : Active(t, u)' => Within(t, u, cache[u])'
  BY DEF BurstOK
<1>1. \A t \in Threads : Active(t, u)' <=> Active(t, u)
  BY DEF Active
<1>2. /\ \A s, t \in Threads : Active(s, u) /\ Active(t, u) => s = t
      /\ Between(u, cache[u])
      /\ \A t \in Threads : Active(t, u) => Within(t, u, cache[u])
  BY DEF BurstOK
<1>3. Between(u, cache[u])'
  <2>1. now \in Nat /\ hist[u].seen \in Int
    BY DEF IInv, TypeOK, Hist
  <2>2. \A t \in Threads : Active(t, u) /\ Timed(t) => (Active(t, u) /\ Timed(t))'
    BY <1>1 DEF Timed
  <2> QED
    BY <1>2, <2>1, <2>2 DEF Between
<1>4. ASSUME NEW t \in Threads, Active(t, u)'
      PROVE  Within(t, u, cache[u])'
  <2>1. Within(t, u, cache[u]) /\ req'[t] = req[t]
    BY <1>1, <1>2, <1>4
  <2> QED
    BY <2>1 DEF Within, Holding, Counted, Timed
<1> QED
  BY <1>1, <1>2, <1>3, <1>4

\* A step of the only login of u: what is left to show.
LEMMA OwnStep ==
  ASSUME NEW u \in Users, NEW t \in Threads, BurstOK(u), hist[u].disturbed = {}, Active(t, u),
         \A s \in Threads : s # t => req'[s] = req[s],
         Between(u, cache[u])', Active(t, u)' => Within(t, u, cache[u])'
  PROVE  BurstOK(u)'
  BY DEF BurstOK, Active

\* The types of what a login of u reads and writes.
LEMMA FieldTypes ==
  ASSUME IInv, NEW t \in Threads, NEW u \in Users, NEW r \in Refs
  PROVE  /\ now \in Nat /\ hist[u].burst \in Nat /\ hist[u].seen \in Int
         /\ obj[r].retryCount \in Nat /\ obj[r].lastRetryTime \in Nat
         /\ req[t].count \in Nat /\ req[t].now \in Nat /\ req[t].user \in Users
         /\ cache[u] \in Refs \cup {NoRef} /\ RetryLimit \in Nat /\ LockTime \in Nat
  BY RetryLimitAssumption DEF IInv, TypeOK, Hist, PasswordRetry, Request

\* The steps of login t that leave the counters alone: only its own user is
\* concerned.
LEMMA StepOfOther ==
  ASSUME IInv, IInv', Apart, NEW t \in Threads, NEW u \in Users, BurstOK(u),
         req[t].user # u, req'[t].user = req[t].user, now' = now,
         \A s \in Threads : s # t => req'[s] = req[s],
         hist'[u] = hist[u], cache'[u] = cache[u],
         \A r \in Refs : obj'[r] # obj[r] => ~Uses(u, r)
  PROVE  BurstOK(u)'
<1>1. now' \in Nat /\ now' >= now
  BY DEF IInv, TypeOK
<1>2. cache[u] # NoRef => obj'[cache[u]] = obj[cache[u]]
  BY DEF IInv, TypeOK, Uses
<1>3. \A s \in Threads : (Active(s, u) \/ Active(s, u)') => req'[s] = req[s]
  BY DEF Active
<1> QED
  BY <1>1, <1>2, <1>3, OtherUser

LEMMA BeginKeeps ==
  ASSUME IInv, IInv', Apart, NEW t \in Threads, NEW v \in Users, NEW p \in {"right", "wrong"},
         Begin(t, v, p), NEW u \in Users, BurstOK(u)
  PROVE  BurstOK(u)'
<1>1. /\ req[t].pc = "idle" /\ req'[t].pc = "get" /\ req'[t].user = v
      /\ \A s \in Threads : s # t => req'[s] = req[s]
      /\ UNCHANGED <<now, cache, obj>>
  BY DEF Begin, IInv, TypeOK, Request
<1>2. CASE u # v
  <2>1. hist'[u] = hist[u] /\ now' \in Nat /\ now' >= now
    BY <1>1, <1>2 DEF Begin, IInv, TypeOK
  <2>2. \A s \in Threads : (Active(s, u) \/ Active(s, u)') => req'[s] = req[s]
    BY <1>1, <1>2 DEF Active
  <2> QED
    BY <1>1, <2>1, <2>2, OtherUser
<1>3. CASE u = v
  <2> SUFFICES ASSUME hist'[u].disturbed = {}
               PROVE  BurstOK(u)'
    BY DEF BurstOK
  <2>1. /\ \A s \in Threads : ~Active(s, u)
        /\ hist[u].disturbed = {} /\ hist'[u].burst = hist[u].burst /\ hist'[u].seen = hist[u].seen
    <3> DEFINE busy == \E s \in Threads : req[s].pc # "idle" /\ req[s].user = u
               d == IF busy THEN hist[u].disturbed \cup {"overlap"} ELSE hist[u].disturbed
    <3>1. hist \in [Users -> Hist] /\ hist' = [hist EXCEPT ![u].disturbed = d]
      BY <1>3 DEF Begin, IInv, TypeOK
    <3>2. hist'[u].disturbed = d /\ hist'[u].burst = hist[u].burst /\ hist'[u].seen = hist[u].seen
      <4> HIDE DEF d
      <4> QED
        BY <3>1 DEF Hist
    <3>3. ~busy /\ hist[u].disturbed = {}
      BY <3>2
    <3> QED
      BY <3>2, <3>3 DEF Active
  <2>2. Between(u, cache[u])
    BY <2>1 DEF BurstOK
  <2>3. Between(u, cache[u])'
    BY <1>1, <2>1, <2>2 DEF Between
  <2>4. Within(t, u, cache[u])'
    BY <1>1 DEF Within, Holding, Counted, Timed
  <2>5. \A s \in Threads : Active(s, u)' => s = t
    BY <1>1, <2>1 DEF Active
  <2> QED
    BY <2>3, <2>4, <2>5 DEF BurstOK
<1> QED
  BY <1>2, <1>3

LEMMA CacheStepsKeep ==
  ASSUME IInv, IInv', Apart, NEW t \in Threads, NEW u \in Users, BurstOK(u),
         CacheGet(t) \/ CachePut(t) \/ CacheRemove(t)
  PROVE  BurstOK(u)'
<1>1. /\ req'[t].user = req[t].user /\ req[t].pc # "idle" /\ now' = now /\ now \in Nat
      /\ req[t].user \in Users
      /\ \A s \in Threads : s # t => req'[s] = req[s]
  <2>1. CASE CacheGet(t)
    BY <2>1 DEF CacheGet, IInv, TypeOK, Request
  <2>2. CASE CachePut(t)
    <3>1. PICK n \in Refs : req' = [req EXCEPT ![t].retry = n, ![t].pc = "inc"]
      BY <2>2 DEF CachePut
    <3> QED
      BY <2>2, <3>1 DEF CachePut, IInv, TypeOK, Request
  <2>3. CASE CacheRemove(t)
    BY <2>3 DEF CacheRemove, IInv, TypeOK, Request
  <2> QED
    BY <2>1, <2>2, <2>3
<1>2. CASE req[t].user # u
  <2>1. hist'[u] = hist[u] /\ cache'[u] = cache[u]
    BY <1>1, <1>2 DEF CacheGet, CachePut, CacheRemove, IInv, TypeOK
  <2>2. \A r \in Refs : obj'[r] # obj[r] => r \notin allocated
    BY DEF CacheGet, CachePut, CacheRemove, IInv, TypeOK
  <2>3. \A r \in Refs : obj'[r] # obj[r] => ~Uses(u, r)
    BY <2>2, UsedAllocated
  <2> QED
    BY <1>1, <1>2, <2>1, <2>3, StepOfOther
<1>3. CASE req[t].user = u
  <2> SUFFICES ASSUME hist'[u].disturbed = {}
               PROVE  BurstOK(u)'
    BY DEF BurstOK
  <2>1. hist[u].disturbed = {} /\ Active(t, u)
    BY <1>1, <1>3 DEF CacheGet, CachePut, CacheRemove, IInv, TypeOK, Hist, Active
  <2>2. Between(u, cache[u]) /\ Within(t, u, cache[u]) /\ \A s \in Threads : Active(s, u) => s = t
    BY <2>1 DEF BurstOK
  <2>3. hist[u].burst \in Nat /\ hist[u].seen \in Int /\ RetryLimit \in Nat
    BY RetryLimitAssumption DEF IInv, TypeOK, Hist
  <2>4. CASE CacheGet(t)
    <3>1. /\ UNCHANGED <<hist, cache, obj>> /\ ~Timed(t)
          /\ req'[t].retry = cache[u] /\ req'[t].pc = (IF cache[u] = NoRef THEN "new" ELSE "inc")
      BY <1>3, <2>4 DEF CacheGet, IInv, TypeOK, Request, Timed
    <3>2. Within(t, u, cache[u])'
      BY <3>1 DEF Within, Holding, Counted, Timed
    <3>3. Between(u, cache[u])'
      BY <1>1, <2>2, <3>1 DEF Between
    <3> QED
      BY <1>1, <2>1, <3>2, <3>3, OwnStep
  <2>5. CASE CachePut(t)
    <3>1. PICK n \in Refs \ allocated :
            /\ obj' = [obj EXCEPT ![n].lastRetryTime = now]
            /\ cache' = [cache EXCEPT ![req[t].user] = n]
            /\ req' = [req EXCEPT ![t].retry = n, ![t].pc = "inc"]
      BY <2>5 DEF CachePut
    <3>2. /\ hist' = hist /\ cache'[u] = n /\ n # NoRef /\ req'[t].retry = n /\ req'[t].pc = "inc"
          /\ obj'[n].lastRetryTime = now /\ obj'[n].retryCount = 0
      <4>1. hist' = hist /\ cache'[u] = n /\ n # NoRef
        BY <1>3, <2>5, <3>1, RetryLimitAssumption DEF CachePut, IInv, TypeOK
      <4>2. req'[t].retry = n /\ req'[t].pc = "inc"
        BY <3>1 DEF IInv, TypeOK, Request
      <4>3. obj'[n].lastRetryTime = now /\ obj'[n].retryCount = 0
        BY <3>1 DEF IInv, TypeOK, PasswordRetry, Fresh
      <4> QED
        BY <4>1, <4>2, <4>3
    <3>3. hist[u].burst = 0 /\ hist[u].seen <= now
      BY <2>2, <2>5 DEF Within, Between, CachePut
    <3>4. Within(t, u, cache[u])'
      BY <3>2 DEF Within, Holding, Counted, Timed
    <3>5. Between(u, cache[u])'
      BY <1>1, <2>3, <3>2, <3>3 DEF Between
    <3> QED
      BY <1>1, <2>1, <3>4, <3>5, OwnStep
  <2>6. CASE CacheRemove(t)
    <3>1. /\ cache'[u] = NoRef /\ req'[t].pc = "idle" /\ hist'[u].burst = 0 /\ hist'[u].seen = hist[u].seen
      BY <1>3, <2>6 DEF CacheRemove, IInv, TypeOK, Request, Hist
    <3>2. Between(u, cache[u])'
      BY <1>1, <2>2, <2>3, <3>1 DEF Between
    <3>3. ~Active(t, u)'
      BY <3>1 DEF Active
    <3> QED
      BY <1>1, <2>1, <3>2, <3>3, OwnStep
  <2> QED
    BY <2>4, <2>5, <2>6
<1> QED
  BY <1>2, <1>3

LEMMA CounterStepsKeep ==
  ASSUME IInv, IInv', Apart, NEW t \in Threads, NEW u \in Users, BurstOK(u), RetryLimit # 0,
         Increment(t) \/ ReadClock(t) \/ TestLock(t) \/ StoreTime(t) \/ Match(t)
  PROVE  BurstOK(u)'
<1>1. /\ req'[t].user = req[t].user /\ req[t].pc # "idle" /\ now' = now /\ now \in Nat
      /\ req[t].user \in Users /\ cache' = cache /\ req'[t].retry = req[t].retry
      /\ \A s \in Threads : s # t => req'[s] = req[s]
  BY DEF Increment, ReadClock, TestLock, StoreTime, Match, IInv, TypeOK, Request
<1>2. CASE req[t].user # u
  <2>1. hist'[u] = hist[u] /\ cache'[u] = cache[u]
    BY <1>1, <1>2 DEF Increment, ReadClock, TestLock, StoreTime, Match, IInv, TypeOK
  <2>2. \A r \in Refs : obj'[r] # obj[r] => r = req[t].retry /\ Holding(t)
    BY DEF Increment, ReadClock, TestLock, StoreTime, Match, IInv, TypeOK, Holding
  <2>3. \A r \in Refs : obj'[r] # obj[r] => ~Uses(u, r)
    BY <1>1, <1>2, <2>2 DEF Apart, Uses
  <2> QED
    BY <1>1, <1>2, <2>1, <2>3, StepOfOther
<1>3. CASE req[t].user = u
  <2> SUFFICES ASSUME hist'[u].disturbed = {}
               PROVE  BurstOK(u)'
    BY DEF BurstOK
  <2>1. hist[u].disturbed = {} /\ Active(t, u)
    <3>1. hist'[u].disturbed = hist[u].disturbed
      <4>1. hist \in [Users -> Hist]
        BY DEF IInv, TypeOK
      <4>2. CASE ReadClock(t)
        BY <1>3, <4>1, <4>2 DEF ReadClock, Hist
      <4>3. CASE Match(t)
        BY <1>3, <4>1, <4>3 DEF Match, Hist
      <4>4. CASE Increment(t) \/ TestLock(t) \/ StoreTime(t)
        BY <4>4 DEF Increment, TestLock, StoreTime
      <4> QED
        BY <4>2, <4>3, <4>4
    <3> QED
      BY <1>1, <1>3, <3>1 DEF Active
  <2>2. Between(u, cache[u]) /\ Within(t, u, cache[u]) /\ \A s \in Threads : Active(s, u) => s = t
    BY <2>1 DEF BurstOK
  <2>0. PICK r \in Refs : r = cache[u] /\ r # NoRef /\ req[t].retry = r
    BY <2>2 DEF Within, Holding, Increment, ReadClock, TestLock, StoreTime, Match, IInv, TypeOK
  <2>3. /\ hist[u].burst \in Nat /\ hist[u].seen \in Int
        /\ obj[r].retryCount \in Nat /\ obj[r].lastRetryTime \in Nat
        /\ req[t].count \in Nat /\ req[t].now \in Nat /\ RetryLimit \in Nat /\ LockTime \in Nat
    BY FieldTypes
  <2>b. /\ hist[u].burst <= RetryLimit /\ hist[u].seen <= now /\ hist[u].burst <= obj[r].retryCount
        /\ obj[r].lastRetryTime >= hist[u].seen \/ Timed(t)
    BY <2>0, <2>2 DEF Between
  <2>4. CASE Increment(t)
    <3>1. /\ hist' = hist /\ req'[t].pc = "clock" /\ req'[t].count = obj[r].retryCount + 1 /\ ~Timed(t)
          /\ obj'[r].retryCount = obj[r].retryCount + 1 /\ obj'[r].lastRetryTime = obj[r].lastRetryTime
      BY <2>0, <2>4 DEF Increment, IInv, TypeOK, Request, PasswordRetry, Timed
    <3>2. Within(t, u, cache[u])'
      BY <1>1, <2>0, <2>3, <2>b, <3>1 DEF Within, Holding, Counted, Timed
    <3>3. Between(u, cache[u])'
      BY <1>1, <2>0, <2>3, <2>b, <3>1 DEF Between
    <3> QED
      BY <1>1, <2>1, <3>2, <3>3, OwnStep
  <2>5. CASE ReadClock(t)
    <3>1. /\ obj' = obj /\ req'[t].pc = "test" /\ req'[t].count = req[t].count /\ req'[t].now = now
          /\ req[t].pc = "clock" /\ hist'[u].seen = now
          /\ hist'[u].burst = IF now - LockTime > hist[u].seen THEN 0 ELSE hist[u].burst
      BY <1>3, <2>5 DEF ReadClock, IInv, TypeOK, Request, Hist
    <3>2. obj[r].lastRetryTime >= hist[u].seen /\ hist[u].burst + 1 <= req[t].count
      BY <2>2, <2>b, <3>1 DEF Within, Timed, Counted
    <3>3. Within(t, u, cache[u])'
      BY <1>1, <2>0, <2>3, <3>1, <3>2 DEF Within, Holding, Counted, Timed
    <3>4. (Active(t, u) /\ Timed(t))'
      BY <1>1, <1>3, <3>1 DEF Active, Timed
    <3>5. Between(u, cache[u])'
      BY <1>1, <2>0, <2>3, <2>b, <3>1, <3>4 DEF Between
    <3> QED
      BY <1>1, <2>1, <3>3, <3>5, OwnStep
  <2>6. CASE TestLock(t)
    <3>1. /\ UNCHANGED <<obj, hist>> /\ req'[t].count = req[t].count /\ req'[t].now = req[t].now
          /\ req[t].pc = "test"
          /\ req'[t].pc = IF req[t].now - LockTime > obj[r].lastRetryTime THEN "unlocked" ELSE "locked"
      BY <2>0, <2>6 DEF TestLock, IInv, TypeOK, Request
    <3>3. Within(t, u, cache[u])'
      BY <1>1, <2>0, <2>2, <2>3, <3>1 DEF Within, Holding, Counted, Timed
    <3>4. (Active(t, u) /\ Timed(t))'
      BY <1>1, <1>3, <3>1 DEF Active, Timed
    <3>5. Between(u, cache[u])'
      BY <1>1, <2>0, <2>3, <2>b, <3>1, <3>4 DEF Between
    <3> QED
      BY <1>1, <2>1, <3>3, <3>5, OwnStep
  <2>7. CASE StoreTime(t)
    <3>1. /\ hist' = hist /\ req[t].pc \in {"unlocked", "locked"}
          /\ req'[t].pc = (IF Returned(t) > RetryLimit THEN "idle" ELSE "match")
          /\ obj'[r].lastRetryTime = req[t].now /\ obj'[r].retryCount = obj[r].retryCount
      BY <2>0, <2>7 DEF StoreTime, IInv, TypeOK, Request, PasswordRetry
    <3>2. /\ req[t].now = hist[u].seen /\ hist[u].burst + 1 <= req[t].count
          /\ req[t].count <= obj[r].retryCount
          /\ req[t].pc = "unlocked" => hist[u].burst = 0
      BY <2>0, <2>2, <3>1 DEF Within, Timed, Counted, IInv, Bookkeeping
    <3>3. ~(Returned(t) > RetryLimit) => hist[u].burst + 1 <= RetryLimit
      BY <2>3, <3>1, <3>2 DEF Returned
    <3>4. Active(t, u)' => Within(t, u, cache[u])'
      BY <1>1, <2>0, <2>3, <3>1, <3>2, <3>3 DEF Within, Holding, Counted, Timed, Active
    <3>5. Between(u, cache[u])'
      BY <1>1, <2>0, <2>3, <2>b, <3>1, <3>2 DEF Between
    <3> QED
      BY <1>1, <2>1, <3>4, <3>5, OwnStep
  <2>8. CASE Match(t)
    <3>1. /\ obj' = obj /\ req[t].pc = "match" /\ req'[t].pc \in {"remove", "idle"}
          /\ hist'[u].burst \in {hist[u].burst, hist[u].burst + 1} /\ hist'[u].seen = hist[u].seen
      BY <1>3, <2>8 DEF Match, IInv, TypeOK, Request, Hist
    <3>2. hist[u].burst + 1 <= RetryLimit /\ hist[u].burst + 1 <= obj[r].retryCount
      BY <2>0, <2>2, <3>1 DEF Within
    <3>4. Active(t, u)' => Within(t, u, cache[u])'
      BY <3>1 DEF Within, Holding, Counted, Timed, Active
    <3>5. Between(u, cache[u])'
      BY <1>1, <2>0, <2>3, <2>b, <3>1, <3>2 DEF Between, Timed
    <3> QED
      BY <1>1, <2>1, <3>4, <3>5, OwnStep
  <2> QED
    BY <2>4, <2>5, <2>6, <2>7, <2>8
<1> QED
  BY <1>2, <1>3

\* The limiter keeps its promise to every user whose logins do not overlap and
\* whose counter is not evicted: at most retryLimit wrong passwords are checked
\* until the user has been quiet for the lock time, whatever the other users do on
\* whichever threads and whichever of their counters are evicted
\* (doCredentialsMatch, incrementAndGet).  A limit of 0 does not refuse the
\* first login after the lock time.
THEOREM SerialBurstLimitAlways ==
  ASSUME RetryLimit # 0
  PROVE  Spec => []SerialBurstLimit
<1>1. Init => BurstInv
  <2> SUFFICES ASSUME Init PROVE Apart /\ \A u \in Users : BurstOK(u)
    BY DEF BurstInv
  <2>1. (\A t \in Threads : req[t].pc = "idle") /\ \A u \in Users : cache[u] = NoRef
    BY DEF Init
  <2>2. Apart
    BY <2>1, RetryLimitAssumption DEF Apart, Uses, Holding
  <2>3. ASSUME NEW u \in Users PROVE BurstOK(u)
    BY <2>1, RetryLimitAssumption DEF BurstOK, Active, Between, Init
  <2> QED
    BY <2>2, <2>3
<1>2. IInv /\ IInv' /\ BurstInv /\ [Next]_vars => BurstInv'
  <2>0. ASSUME IInv, IInv', BurstInv, [Next]_vars PROVE Apart'
    BY <2>0, ApartNext DEF BurstInv
  <2> SUFFICES ASSUME IInv, IInv', Apart, [Next]_vars, NEW u \in Users, BurstOK(u)
               PROVE  BurstOK(u)'
    BY <2>0 DEF BurstInv
  <2>2. ASSUME NEW t \in Threads, DoCredentialsMatch(t)
        PROVE  BurstOK(u)'
    BY <2>2, BeginKeeps, CacheStepsKeep, CounterStepsKeep DEF DoCredentialsMatch
  <2>3. CASE Tick \/ UNCHANGED vars
    <3>1. UNCHANGED <<cache, obj, req, hist>> /\ now' \in Nat /\ now' >= now
      BY <2>3 DEF Tick, vars, IInv, TypeOK
    <3> QED
      BY <3>1, OtherUser DEF Active
  <2>4. ASSUME NEW v \in Users, Evict(v)
        PROVE  BurstOK(u)'
    <3>1. /\ cache' = [cache EXCEPT ![v] = NoRef] /\ UNCHANGED <<now, obj, req>>
          /\ hist' = [hist EXCEPT ![v].disturbed = @ \cup {"evicted"}]
          /\ hist \in [Users -> Hist] /\ now \in Nat /\ cache \in [Users -> Refs \cup {NoRef}]
      BY <2>4 DEF Evict, IInv, TypeOK
    <3>2. CASE u = v
      <4>1. hist'[u].disturbed # {}
        BY <3>1, <3>2 DEF Hist
      <4> QED
        BY <4>1 DEF BurstOK
    <3>3. CASE u # v
      BY <3>1, <3>3, OtherUser DEF Active
    <3> QED
      BY <3>2, <3>3
  <2> QED
    BY <2>2, <2>3, <2>4 DEF Next
<1>3. BurstInv => SerialBurstLimit
  BY DEF BurstInv, BurstOK, Between, SerialBurstLimit
<1> QED
  BY <1>1, <1>2, <1>3, Inductive, PTL DEF Spec
=============================================================================
