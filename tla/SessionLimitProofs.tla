------------------------- MODULE SessionLimitProofs -------------------------
(***************************************************************************)
(* LimitRestored, NoneSlips, OnlineWithinDeques and QueuedPerThread for    *)
(* any number of threads and sessions.                                     *)
(*                                                                         *)
(* They need that a request past the lookup holds an allocated deque and   *)
(* that a session with a request is not new any more (Bookkeeping): a      *)
(* session that logs in after it was admitted could otherwise slip.        *)
(***************************************************************************)
EXTENDS SessionLimit, FiniteSetTheorems, TLAPS

Bookkeeping ==
  /\ cache # None => cache \in allocated
  /\ \A t \in Threads :
       /\ pc[t] # "idle" => session[t] \in Sessions /\ state[session[t]] # "new"
       /\ pc[t] \in {"test", "push", "size", "remove", "kick"} => local[t] \in allocated
  /\ \A s \in admitted : state[s] # "new"

IInv == TypeOK /\ Bookkeeping /\ LimitRestored /\ NoneSlips

\* What the deque calls of LimitedSessionFilter do to the ids a deque holds.
LEMMA PushContains ==
  ASSUME NEW S, NEW q \in Seq(S), NEW s \in S
  PROVE  /\ <<s>> \o q \in Seq(S)
         /\ Contains(<<s>> \o q, s)
         /\ \A x : Contains(q, x) => Contains(<<s>> \o q, x)
<1> DEFINE r == <<s>> \o q
<1>1. r \in Seq(S) /\ Len(r) = Len(q) + 1 /\ r[1] = s /\ Len(q) \in Nat
  OBVIOUS
<1>2. \A i \in 1..Len(q) : r[i + 1] = q[i] /\ i + 1 \in 1..Len(r)
  OBVIOUS
<1>3. Contains(r, s)
  BY <1>1 DEF Contains
<1>4. ASSUME NEW x, Contains(q, x)
      PROVE  Contains(r, x)
  <2>1. PICK i \in 1..Len(q) : q[i] = x
    BY <1>4 DEF Contains
  <2>2. r[i + 1] = x /\ i + 1 \in 1..Len(r)
    BY <1>2, <2>1
  <2> QED
    BY <2>2 DEF Contains
<1> QED
  BY <1>1, <1>3, <1>4

LEMMA RemoveContains ==
  ASSUME NEW S, NEW q \in Seq(S), q # <<>>
  PROVE  /\ Front(q) \in Seq(S) /\ Len(Front(q)) = Len(q) - 1 /\ Last(q) \in S
         /\ Tail(q) \in Seq(S) /\ Len(Tail(q)) = Len(q) - 1 /\ Head(q) \in S
         /\ \A x : Contains(q, x) => Contains(Front(q), x) \/ x = Last(q)
         /\ \A x : Contains(q, x) => Contains(Tail(q), x) \/ x = Head(q)
<1>1. Len(q) \in Nat \ {0}
  OBVIOUS
<1>2. Front(q) = [i \in 1..Len(q) - 1 |-> q[i]] /\ \A i \in 1..Len(q) : q[i] \in S
  BY <1>1 DEF Front
<1>3. Front(q) \in Seq(S) /\ Len(Front(q)) = Len(q) - 1 /\ Last(q) \in S
  BY <1>1, <1>2 DEF Last
<1>4. Tail(q) \in Seq(S) /\ Len(Tail(q)) = Len(q) - 1 /\ Head(q) \in S
  BY <1>1
<1>5. \A i \in 2..Len(q) : Tail(q)[i - 1] = q[i] /\ i - 1 \in 1..Len(q) - 1
  BY <1>1
<1>6. \A x : Contains(q, x) => Contains(Front(q), x) \/ x = Last(q)
  BY <1>1, <1>2, <1>3 DEF Contains, Last
<1>7. \A x : Contains(q, x) => Contains(Tail(q), x) \/ x = Head(q)
  BY <1>1, <1>4, <1>5 DEF Contains
<1> QED
  BY <1>3, <1>4, <1>6, <1>7

\* The strengthened invariant holds initially: there is no deque and no request.
LEMMA InitInv == Init => IInv
  BY SessionLimitAssumption DEF Init, IInv, TypeOK, Bookkeeping, LimitRestored, NoneSlips

\* Every step of a request and every change of a session preserves it.
LEMMA NextInv == IInv /\ [Next]_vars => IInv'
<1> SUFFICES ASSUME IInv, [Next]_vars
             PROVE  IInv'
  OBVIOUS
<1> USE SessionLimitAssumption DEF IInv, TypeOK, Goto, shared
<1>1. ASSUME NEW s \in Sessions, Login(s) \/ Logout(s) \/ Expire(s) \/ Validate(s)
      PROVE  IInv'
  <2>1. /\ state' \in [Sessions -> {"new", "live", "expired", "dead"}]
        /\ state'[s] = "live" => s \notin admitted
        /\ state'[s] # "new"
        /\ \A x \in Sessions : x # s => state'[x] = state[x]
        /\ UNCHANGED <<cache, allocated, deque, kicked, admitted, pc, session, local, victim>>
    BY <1>1 DEF Login, Logout, Expire, Validate, Bookkeeping
  <2>2. TypeOK' /\ Bookkeeping'
    BY <2>1 DEF Bookkeeping
  <2>3. LimitRestored'
    BY <2>1 DEF LimitRestored, Trimming
  <2>4. NoneSlips'
    BY <2>1 DEF NoneSlips
  <2> QED
    BY <2>2, <2>3, <2>4
<1>2. ASSUME NEW t \in Threads, NEW s \in Sessions, Begin(t, s)
      PROVE  IInv'
  <2>4. TypeOK'
    BY <1>2 DEF Begin, Bookkeeping
  <2>5. Bookkeeping'
    BY <1>2 DEF Begin, Bookkeeping
  <2>6. LimitRestored'
    BY <1>2 DEF Begin, Bookkeeping, LimitRestored, Trimming
  <2>7. NoneSlips'
    BY <1>2 DEF Begin, Bookkeeping, NoneSlips
  <2> QED
    BY <2>4, <2>5, <2>6, <2>7
<1>3. ASSUME NEW t \in Threads, DequeGet(t)
      PROVE  IInv'
  <2>4. TypeOK'
    BY <1>3 DEF DequeGet, Bookkeeping
  <2>5. Bookkeeping'
    BY <1>3 DEF DequeGet, Bookkeeping
  <2>6. LimitRestored'
    BY <1>3 DEF DequeGet, Bookkeeping, LimitRestored, Trimming
  <2>7. NoneSlips'
    BY <1>3 DEF DequeGet, Bookkeeping, NoneSlips
  <2> QED
    BY <2>4, <2>5, <2>6, <2>7
<1>4. ASSUME NEW t \in Threads, DequePut(t)
      PROVE  IInv'
  <2>4. TypeOK'
    BY <1>4 DEF DequePut, Bookkeeping
  <2>5. Bookkeeping'
    BY <1>4 DEF DequePut, Bookkeeping
  <2>6. LimitRestored'
    <3>1. deque' = deque /\ pc[t] = "put"
      BY <1>4 DEF DequePut
    <3>2. \A u \in Threads, d \in Deques : Trimming(u, d) => Trimming(u, d)'
      BY <1>4 DEF DequePut, Trimming
    <3> QED
      BY <3>1, <3>2 DEF LimitRestored
  <2>7. NoneSlips'
    BY <1>4 DEF DequePut, Bookkeeping, NoneSlips
  <2> QED
    BY <2>4, <2>5, <2>6, <2>7
<1>5. ASSUME NEW t \in Threads, TestQueued(t)
      PROVE  IInv'
  <2>1. session[t] \in Sessions /\ pc[t] = "test"
    BY <1>5 DEF TestQueued, Bookkeeping
  <2>2. \E p \in {"push", "size"} : pc' = [pc EXCEPT ![t] = p]
    BY <1>5 DEF TestQueued
  <2>3. admitted' \in SUBSET Sessions /\ UNCHANGED <<cache, allocated, deque, state, kicked, session, local, victim>>
    BY <1>5, <2>1 DEF TestQueued
  <2>4. TypeOK'
    BY <2>2, <2>3
  <2>5. Bookkeeping'
    BY <1>5 DEF TestQueued, Bookkeeping
  <2>6. LimitRestored'
    <3>1. \A u \in Threads : pc[u] \in {"size", "remove", "kick"} => pc'[u] = pc[u]
      BY <2>1, <2>2
    <3> QED
      BY <2>3, <3>1 DEF LimitRestored, Trimming
  <2>7. NoneSlips'
    <3>1. admitted' = admitted \/ (admitted' = admitted \cup {session[t]} /\
            (session[t] \in kicked \/ Contains(deque[local[t]], session[t])))
      BY <1>5 DEF TestQueued
    <3>2. local[t] \in allocated
      BY <2>1 DEF Bookkeeping
    <3>3. \A u \in Threads : pc[u] = "kick" => pc'[u] = "kick"
      BY <2>1, <2>2
    <3> QED
      BY <2>3, <3>1, <3>2, <3>3 DEF NoneSlips
  <2> QED
    BY <2>4, <2>5, <2>6, <2>7
<1>6. ASSUME NEW t \in Threads, Push(t)
      PROVE  IInv'
  <2> DEFINE d == local[t]
             s == session[t]
  <2>1. d \in allocated /\ d \in Deques /\ s \in Sessions /\ state[s] # "new"
    BY <1>6 DEF Push, Bookkeeping
  <2>2. /\ <<s>> \o deque[d] \in Seq(Sessions)
        /\ Contains(<<s>> \o deque[d], s)
        /\ \A x : Contains(deque[d], x) => Contains(<<s>> \o deque[d], x)
    BY <2>1, PushContains
  <2>4. TypeOK'
    BY <2>1, <2>2, <1>6 DEF Push, Bookkeeping
  <2>5. Bookkeeping'
    BY <2>1, <2>2, <1>6 DEF Push, Bookkeeping
  <2>6. LimitRestored'
    BY <2>1, <2>2, <1>6 DEF Push, Bookkeeping, LimitRestored, Trimming
  <2>3. \A e \in allocated : \A x : Contains(deque[e], x) => Contains(deque'[e], x)
    BY <2>1, <2>2, <1>6 DEF Push
  <2>8. /\ Contains(deque'[d], s) /\ admitted' = admitted \cup {s}
        /\ UNCHANGED <<allocated, state, kicked, victim>>
        /\ \A u \in Threads : pc[u] = "kick" => pc'[u] = "kick"
    BY <2>1, <2>2, <1>6 DEF Push
  <2>7. NoneSlips'
    <3> SUFFICES ASSUME NEW x \in admitted', state'[x] = "live", x \notin kicked',
                        \A e \in allocated' : ~Contains(deque'[e], x)
                 PROVE  \E u \in Threads : pc'[u] = "kick" /\ victim'[u] = x
      BY DEF NoneSlips
    <3>1. x \in admitted
      BY <2>1, <2>8
    <3>2. PICK u \in Threads : pc[u] = "kick" /\ victim[u] = x
      BY <2>3, <2>8, <3>1 DEF NoneSlips
    <3> QED
      BY <2>8, <3>2
  <2> QED
    BY <2>4, <2>5, <2>6, <2>7
<1>7. ASSUME NEW t \in Threads, TestSize(t)
      PROVE  IInv'
  <2>4. TypeOK'
    BY <1>7 DEF TestSize, Bookkeeping
  <2>5. Bookkeeping'
    BY <1>7 DEF TestSize, Bookkeeping
  <2>6. LimitRestored'
    BY <1>7 DEF TestSize, Bookkeeping, LimitRestored, Trimming
  <2>7. NoneSlips'
    BY <1>7 DEF TestSize, Bookkeeping, NoneSlips
  <2> QED
    BY <2>4, <2>5, <2>6, <2>7
<1>8. ASSUME NEW t \in Threads, RemoveVictim(t)
      PROVE  IInv'
  <2> DEFINE d == local[t]
             q == deque[d]
  <2>1. d \in allocated /\ d \in Deques /\ q \in Seq(Sessions)
    BY <1>8 DEF RemoveVictim, Bookkeeping
  <2>2. \/ q = <<>> /\ Len(q) = 0 /\ Goto(t, "idle") /\ UNCHANGED <<deque, victim>>
        \/ \E r, v :
             /\ r \in Seq(Sessions) /\ Len(r) = Len(q) - 1 /\ v \in Sessions
             /\ \A x : Contains(q, x) => Contains(r, x) \/ x = v
             /\ Goto(t, "kick")
             /\ deque' = [deque EXCEPT ![d] = r]
             /\ victim' = [victim EXCEPT ![t] = v]
    <3>1. CASE q = <<>>
      BY <1>8, <3>1 DEF RemoveVictim
    <3>2. CASE q # <<>> /\ KickOutLast
      <4>1. /\ Tail(q) \in Seq(Sessions) /\ Len(Tail(q)) = Len(q) - 1 /\ Head(q) \in Sessions
            /\ \A x : Contains(q, x) => Contains(Tail(q), x) \/ x = Head(q)
        BY <2>1, <3>2, RemoveContains
      <4>2. /\ Goto(t, "kick")
            /\ deque' = [deque EXCEPT ![d] = Tail(q)]
            /\ victim' = [victim EXCEPT ![t] = Head(q)]
        BY <1>8, <3>2 DEF RemoveVictim
      <4> HIDE DEF q, d
      <4> QED
        BY <4>1, <4>2
    <3>3. CASE q # <<>> /\ ~KickOutLast
      BY <1>8, <2>1, <3>3, RemoveContains DEF RemoveVictim
    <3> QED
      BY <3>1, <3>2, <3>3
  <2>3. /\ \A u \in Threads : pc[u] = "kick" => pc'[u] = "kick" /\ victim'[u] = victim[u]
        /\ \A e \in allocated : \A x \in Sessions : Contains(deque[e], x) =>
             Contains(deque'[e], x) \/ (pc'[t] = "kick" /\ victim'[t] = x)
        /\ UNCHANGED <<cache, allocated, state, kicked, admitted, session, local>>
    <3>1. pc[t] = "remove" /\ UNCHANGED <<cache, allocated, state, kicked, admitted, session, local>>
      BY <1>8 DEF RemoveVictim
    <3>2. CASE UNCHANGED <<deque, victim>> /\ Goto(t, "idle")
      BY <3>1, <3>2
    <3>3. ASSUME NEW r, NEW v,
                 /\ r \in Seq(Sessions) /\ v \in Sessions
                 /\ \A x : Contains(q, x) => Contains(r, x) \/ x = v
                 /\ Goto(t, "kick")
                 /\ deque' = [deque EXCEPT ![d] = r]
                 /\ victim' = [victim EXCEPT ![t] = v]
          PROVE  <2>3!1 /\ <2>3!2
      BY <2>1, <3>1, <3>3
    <3> QED
      BY <2>2, <3>1, <3>2, <3>3
  <2>4. TypeOK'
    <3>1. CASE UNCHANGED <<deque, victim>> /\ Goto(t, "idle")
      BY <2>3, <3>1
    <3>2. ASSUME NEW r \in Seq(Sessions), NEW v \in Sessions,
                 Goto(t, "kick"),
                 deque' = [deque EXCEPT ![d] = r],
                 victim' = [victim EXCEPT ![t] = v]
          PROVE  TypeOK'
      BY <2>1, <2>3, <3>2
    <3> QED
      BY <2>2, <3>1, <3>2
  <2>5. Bookkeeping'
    BY <2>1, <2>2, <1>8 DEF RemoveVictim, Bookkeeping
  <2>6. LimitRestored'
    BY <2>1, <2>2, <1>8 DEF RemoveVictim, Bookkeeping, LimitRestored, Trimming
  <2>7. NoneSlips'
    <3> SUFFICES ASSUME NEW x \in admitted', state'[x] = "live", x \notin kicked',
                        \A e \in allocated' : ~Contains(deque'[e], x)
                 PROVE  \E u \in Threads : pc'[u] = "kick" /\ victim'[u] = x
      BY DEF NoneSlips
    <3>1. x \in Sessions /\ \/ \E e \in allocated : Contains(deque[e], x)
                            \/ \E u \in Threads : pc[u] = "kick" /\ victim[u] = x
      BY <2>3 DEF NoneSlips
    <3> QED
      BY <2>3, <3>1
  <2> QED
    BY <2>4, <2>5, <2>6, <2>7
<1>9. ASSUME NEW t \in Threads, Kick(t)
      PROVE  IInv'
  <2>4. TypeOK'
    BY <1>9 DEF Kick, Bookkeeping
  <2>5. Bookkeeping'
    BY <1>9 DEF Kick, Bookkeeping
  <2>6. LimitRestored'
    BY <1>9 DEF Kick, Bookkeeping, LimitRestored, Trimming
  <2>7. NoneSlips'
    BY <1>9 DEF Kick, Bookkeeping, NoneSlips
  <2> QED
    BY <2>4, <2>5, <2>6, <2>7
<1>10. ASSUME NEW t \in Threads, Inspect(t)
      PROVE  IInv'
  <2>4. TypeOK'
    BY <1>10 DEF Inspect, Bookkeeping
  <2>5. Bookkeeping'
    BY <1>10 DEF Inspect, Bookkeeping
  <2>6. LimitRestored'
    BY <1>10 DEF Inspect, Bookkeeping, LimitRestored, Trimming
  <2>7. NoneSlips'
    BY <1>10 DEF Inspect, Bookkeeping, NoneSlips
  <2> QED
    BY <2>4, <2>5, <2>6, <2>7
<1>11. CASE UNCHANGED vars
  BY <1>11 DEF vars, Bookkeeping, LimitRestored, Trimming, NoneSlips
<1> QED
  BY <1>1, <1>2, <1>3, <1>4, <1>5, <1>6, <1>7, <1>8, <1>9, <1>10, <1>11 DEF Next, Step

LEMMA Inductive == Spec => []IInv
  BY InitInv, NextInv, PTL DEF Spec

\* The session limiter is type correct in every interleaving of its requests.
THEOREM TypeCorrect == Spec => []TypeOK
  BY Inductive, PTL DEF IInv

\* A deque above the limit always has a request that will test its size again,
\* for any number of concurrent requests of LimitedSessionFilter.
THEOREM LimitRestoredAlways == Spec => []LimitRestored
  BY Inductive, PTL DEF IInv

\* A live session that passed the limit filter is queued, kicked or about to be
\* kicked, for any number of threads and sessions.
THEOREM NoneSlipsAlways == Spec => []NoneSlips
  BY Inductive, PTL DEF IInv

-----------------------------------------------------------------------------
\* The deques of an account are created one at a time.
LEMMA AllocatedFinite == Spec => []IsFiniteSet(allocated)
<1>1. Init => IsFiniteSet(allocated)
  BY FS_EmptySet DEF Init
<1>2. IsFiniteSet(allocated) /\ [Next]_vars => IsFiniteSet(allocated)'
  <2> SUFFICES ASSUME IsFiniteSet(allocated), [Next]_vars
               PROVE  IsFiniteSet(allocated')
    OBVIOUS
  <2>1. allocated' = allocated \/ \E d : allocated' = allocated \cup {d}
    BY DEF Next, Step, Login, Logout, Expire, Validate, Begin, DequeGet, DequePut, TestQueued, Push,
           TestSize, RemoveVictim, Kick, Inspect, shared, vars
  <2> QED
    BY <2>1, FS_AddElement
<1> QED
  BY <1>1, <1>2, PTL DEF Spec

\* With no request in the filter, an account has at most maxSession sessions
\* online for each deque it was ever given: an online session is at some place of
\* some deque, two sessions are at different places, and no deque is longer than
\* maxSession once nobody trims it.
THEOREM OnlineWithinDequesAlways == Spec => []OnlineWithinDeques
<1>1. IInv /\ IsFiniteSet(allocated) => OnlineWithinDeques
  <2> SUFFICES ASSUME IInv, IsFiniteSet(allocated), \A t \in Threads : pc[t] = "idle"
               PROVE  Cardinality(Online) <= MaxSession * Cardinality(allocated)
    BY DEF OnlineWithinDeques
  <2> DEFINE Slots == allocated \X (1..MaxSession)
             At(s, x) == deque[x[1]][x[2]] = s
             place == [s \in Online |-> CHOOSE x \in Slots : At(s, x)]
  <2>1. MaxSession \in Nat \ {0} /\ TypeOK
    BY SessionLimitAssumption DEF IInv
  <2>2. ASSUME NEW s \in Online
        PROVE  \E x \in Slots : At(s, x)
    <3>1. s \in admitted /\ state[s] = "live" /\ s \notin kicked
      BY DEF Online
    <3>2. PICK d \in allocated : Contains(deque[d], s)
      BY <3>1 DEF IInv, NoneSlips
    <3>3. d \in Deques /\ deque[d] \in Seq(Sessions)
      BY <2>1 DEF TypeOK
    <3>4. Len(deque[d]) <= MaxSession
      BY <2>1, <3>3 DEF IInv, LimitRestored, Trimming
    <3>5. PICK i \in 1..Len(deque[d]) : deque[d][i] = s
      BY <3>2, <3>3 DEF Contains
    <3>6. <<d, i>> \in Slots /\ At(s, <<d, i>>)
      BY <2>1, <3>3, <3>4, <3>5
    <3> QED
      BY <3>6
  <2>3. place \in Injection(Online, Slots)
    <3>1. \A s \in Online : place[s] \in Slots /\ At(s, place[s])
      BY <2>2
    <3> HIDE DEF place, Slots
    <3>2. place \in [Online -> Slots]
      BY <3>1 DEF place
    <3>3. \A s, u \in Online : place[s] = place[u] => s = u
      BY <3>1
    <3> QED
      BY <3>2, <3>3 DEF Injection, IsInjective
  <2>4. IsFiniteSet(1..MaxSession) /\ Cardinality(1..MaxSession) = MaxSession
    BY <2>1, FS_Interval
  <2>5. IsFiniteSet(Slots) /\ Cardinality(Slots) = Cardinality(allocated) * Cardinality(1..MaxSession)
    BY <2>4, FS_Product
  <2>6. Cardinality(Online) <= Cardinality(Slots)
    BY <2>3, <2>5, FS_Injection
  <2>7. Cardinality(allocated) \in Nat
    BY FS_CardinalityType
  <2>8. Cardinality(allocated) * MaxSession = MaxSession * Cardinality(allocated)
    BY <2>1, <2>7
  <2> QED
    BY <2>4, <2>5, <2>6, <2>8
<1> QED
  BY <1>1, Inductive, AllocatedFinite, PTL

-----------------------------------------------------------------------------
\* The places of x in a queue, and how the calls of the deque count them.
Places(q, x) == {i \in DOMAIN q : q[i] = x}

LEMMA PlacesFinite ==
  ASSUME NEW S, NEW q \in Seq(S), NEW x
  PROVE  IsFiniteSet(Places(q, x)) /\ Places(q, x) \subseteq 1..Len(q) /\ Cardinality(Places(q, x)) \in Nat
<1>1. Len(q) \in Nat /\ Places(q, x) \subseteq 1..Len(q)
  BY DEF Places
<1>2. IsFiniteSet(1..Len(q))
  BY <1>1, FS_Interval
<1> QED
  BY <1>1, <1>2, FS_Subset, FS_CardinalityType

LEMMA ShiftedCount ==
  ASSUME NEW A \in SUBSET Nat, IsFiniteSet(A)
  PROVE  LET B == {i + 1 : i \in A} IN IsFiniteSet(B) /\ Cardinality(B) = Cardinality(A)
<1> DEFINE B == {i + 1 : i \in A}
           f == [i \in A |-> i + 1]
<1>1. f \in Bijection(A, B)
  BY DEF Bijection, Injection, Surjection, IsInjective
<1>2. ExistsBijection(A, B)
  BY <1>1 DEF ExistsBijection
<1> QED
  BY <1>2, FS_Bijection

LEMMA PushCount ==
  ASSUME NEW S, NEW q \in Seq(S), NEW s \in S, NEW x
  PROVE  Cardinality(Places(<<s>> \o q, x)) = Cardinality(Places(q, x)) + IF x = s THEN 1 ELSE 0
<1> DEFINE r == <<s>> \o q
           A == Places(q, x)
           B == {i + 1 : i \in A}
<1>1. r \in Seq(S) /\ Len(r) = Len(q) + 1 /\ r[1] = s /\ Len(q) \in Nat
  OBVIOUS
<1>2. \A i \in 1..Len(q) : r[i + 1] = q[i] /\ i + 1 \in 1..Len(r)
  OBVIOUS
<1>3. IsFiniteSet(A) /\ A \subseteq 1..Len(q) /\ A \in SUBSET Nat /\ Cardinality(A) \in Nat
  BY PlacesFinite, <1>1
<1>4. IsFiniteSet(B) /\ Cardinality(B) = Cardinality(A)
  BY <1>3, ShiftedCount
<1>5. 1 \notin B
  BY <1>3
<1>6. \A i \in Nat : i + 1 \in B <=> i \in A
  BY <1>3
<1>7. Places(r, x) = IF x = s THEN B \cup {1} ELSE B
  <2>1. ASSUME NEW i \in 1..Len(r)
        PROVE  i \in Places(r, x) <=> i \in (IF x = s THEN B \cup {1} ELSE B)
    <3>1. CASE i = 1
      BY <1>1, <1>5, <3>1 DEF Places
    <3>2. CASE i # 1
      <4>1. i - 1 \in 1..Len(q) /\ i = (i - 1) + 1
        BY <1>1, <3>2
      <4>2. r[i] = q[i - 1]
        BY <1>2, <4>1
      <4>3. i \in B <=> i - 1 \in A
        BY <1>6, <4>1
      <4> QED
        BY <1>1, <3>2, <4>1, <4>2, <4>3 DEF Places
    <3> QED
      BY <3>1, <3>2
  <2>2. B \subseteq 1..Len(r)
    BY <1>1, <1>2, <1>3
  <2>3. Places(r, x) \subseteq 1..Len(r) /\ 1 \in 1..Len(r)
    BY <1>1 DEF Places
  <2> QED
    BY <2>1, <2>2, <2>3
<1>8. Cardinality(B \cup {1}) = Cardinality(B) + 1
  BY <1>4, <1>5, FS_AddElement
<1> QED
  BY <1>3, <1>4, <1>7, <1>8

LEMMA RemoveCount ==
  ASSUME NEW S, NEW q \in Seq(S), q # <<>>, NEW x
  PROVE  /\ Cardinality(Places(Front(q), x)) <= Cardinality(Places(q, x))
         /\ Cardinality(Places(Tail(q), x)) <= Cardinality(Places(q, x))
<1>1. Len(q) \in Nat \ {0} /\ IsFiniteSet(Places(q, x))
  BY PlacesFinite
<1>2. Cardinality(Places(Front(q), x)) <= Cardinality(Places(q, x))
  <2>1. Front(q) = [i \in 1..Len(q) - 1 |-> q[i]]
    BY <1>1 DEF Front
  <2>2. Places(Front(q), x) \in SUBSET Places(q, x)
    BY <1>1, <2>1 DEF Places
  <2> QED
    BY <1>1, <2>2, FS_Subset
<1>3. Cardinality(Places(Tail(q), x)) <= Cardinality(Places(q, x))
  <2> DEFINE A == Places(Tail(q), x)
             B == {i + 1 : i \in A}
  <2>1. Tail(q) \in Seq(S) /\ Len(Tail(q)) = Len(q) - 1
    BY <1>1
  <2>2. \A i \in 1..Len(q) - 1 : Tail(q)[i] = q[i + 1]
    BY <1>1
  <2>3. IsFiniteSet(A) /\ A \subseteq 1..Len(q) - 1 /\ A \in SUBSET Nat
    <3>1. IsFiniteSet(A) /\ A \subseteq 1..Len(Tail(q))
      BY <2>1, PlacesFinite
    <3> QED
      BY <1>1, <2>1, <3>1
  <2>4. IsFiniteSet(B) /\ Cardinality(B) = Cardinality(A)
    BY <2>3, ShiftedCount
  <2>5. B \in SUBSET Places(q, x)
    BY <1>1, <2>1, <2>2, <2>3 DEF Places
  <2> QED
    BY <1>1, <2>4, <2>5, FS_Subset
<1> QED
  BY <1>2, <1>3

\* The requests that have found x missing in deque d and are going to push it.
Pushing(d, x) == {t \in Threads : pc[t] = "push" /\ local[t] = d /\ session[t] = x}

\* QueuedPerThread with the pushes to come: a thread goes to push only if the id
\* is not queued at all, and its push moves one from the second count to the first.
CountInv ==
  \A d \in Deques, x \in Sessions :
    Cardinality(Places(deque[d], x)) + Cardinality(Pushing(d, x)) <= Cardinality(Threads)

LEMMA PushingFinite ==
  ASSUME NEW d, NEW x
  PROVE  /\ IsFiniteSet(Pushing(d, x)) /\ Cardinality(Pushing(d, x)) \in Nat
         /\ Cardinality(Pushing(d, x)) <= Cardinality(Threads) /\ Cardinality(Threads) \in Nat
<1>1. Pushing(d, x) \in SUBSET Threads /\ IsFiniteSet(Threads)
  BY SessionLimitAssumption DEF Pushing
<1> QED
  BY <1>1, FS_Subset, FS_CardinalityType

\* The three ways in which a step can keep the sum of d and x within bounds.
LEMMA SumKept ==
  ASSUME NEW a \in Nat, NEW b \in Nat, NEW n \in Nat, a + b <= n,
         NEW aa \in Nat, NEW bb \in Nat,
         (aa <= a /\ bb <= b) \/ (aa = 0 /\ bb <= n) \/ (aa = a + 1 /\ bb = b - 1)
  PROVE  aa + bb <= n
  OBVIOUS

\* A step that queues nothing and sends nobody to push keeps CountInv.
LEMMA CountShrinks ==
  ASSUME TypeOK, TypeOK', CountInv,
         \A d \in Deques, x \in Sessions :
           /\ Cardinality(Places(deque'[d], x)) <= Cardinality(Places(deque[d], x))
           /\ Pushing(d, x)' \subseteq Pushing(d, x)
  PROVE  CountInv'
<1> SUFFICES ASSUME NEW d \in Deques, NEW x \in Sessions
             PROVE  Cardinality(Places(deque'[d], x)) + Cardinality(Pushing(d, x)') <= Cardinality(Threads)
  BY DEF CountInv
<1>1. deque[d] \in Seq(Sessions) /\ deque'[d] \in Seq(Sessions)
  BY DEF TypeOK
<1>2. Cardinality(Places(deque[d], x)) \in Nat /\ Cardinality(Places(deque'[d], x)) \in Nat
  BY <1>1, PlacesFinite
<1>3. /\ IsFiniteSet(Pushing(d, x)) /\ Cardinality(Pushing(d, x)) \in Nat /\ Cardinality(Threads) \in Nat
      /\ Pushing(d, x)' \in SUBSET Pushing(d, x)
  BY PushingFinite
<1>4. Cardinality(Pushing(d, x)') \in Nat /\ Cardinality(Pushing(d, x)') <= Cardinality(Pushing(d, x))
  BY <1>3, FS_Subset, FS_CardinalityType
<1>5. Cardinality(Places(deque[d], x)) + Cardinality(Pushing(d, x)) <= Cardinality(Threads)
  BY DEF CountInv
<1>6. Cardinality(Places(deque'[d], x)) <= Cardinality(Places(deque[d], x))
  OBVIOUS
<1> QED
  BY <1>2, <1>3, <1>4, <1>5, <1>6, SumKept

LEMMA CountNext == IInv /\ IInv' /\ CountInv /\ [Next]_vars => CountInv'
<1> SUFFICES ASSUME IInv, IInv', CountInv, [Next]_vars PROVE CountInv'
  OBVIOUS
<1> USE DEF IInv, Goto, shared
<1>0. TypeOK /\ TypeOK' /\ \A d \in Deques : deque[d] \in Seq(Sessions) /\ deque'[d] \in Seq(Sessions)
  BY DEF TypeOK
<1>1. CASE /\ deque' = deque
           /\ \A t \in Threads : pc'[t] = "push" => pc[t] = "push" /\ local'[t] = local[t] /\ session'[t] = session[t]
  <2>1. \A d \in Deques, x \in Sessions :
          /\ Cardinality(Places(deque'[d], x)) <= Cardinality(Places(deque[d], x))
          /\ Pushing(d, x)' \subseteq Pushing(d, x)
    <3> TAKE d \in Deques, x \in Sessions
    <3>1. Cardinality(Places(deque[d], x)) \in Nat
      BY <1>0, PlacesFinite
    <3>2. Places(deque'[d], x) = Places(deque[d], x)
      BY <1>1
    <3>3. Pushing(d, x)' \subseteq Pushing(d, x)
      BY <1>1 DEF Pushing
    <3> QED
      BY <3>1, <3>2, <3>3
  <2> QED
    BY <1>0, <2>1, CountShrinks
<1>2. ASSUME NEW t \in Threads, TestQueued(t)
      PROVE  CountInv'
  <2> SUFFICES ASSUME NEW d \in Deques, NEW x \in Sessions
               PROVE  Cardinality(Places(deque'[d], x)) + Cardinality(Pushing(d, x)') <= Cardinality(Threads)
    BY DEF CountInv
  <2>1. pc[t] = "test" /\ UNCHANGED <<deque, local, session>>
    BY <1>2 DEF TestQueued
  <2>2. Cardinality(Places(deque[d], x)) \in Nat /\ Places(deque'[d], x) = Places(deque[d], x)
    BY <1>0, <2>1, PlacesFinite
  <2>3. /\ IsFiniteSet(Pushing(d, x)) /\ Cardinality(Pushing(d, x)) \in Nat /\ Cardinality(Threads) \in Nat
        /\ Pushing(d, x)' \in SUBSET Threads /\ IsFiniteSet(Threads)
    <3>1. Pushing(d, x)' \in SUBSET Threads
      BY DEF Pushing
    <3> QED
      BY <3>1, PushingFinite, SessionLimitAssumption
  <2>4. Cardinality(Pushing(d, x)') \in Nat /\ Cardinality(Pushing(d, x)') <= Cardinality(Threads)
    BY <2>3, FS_Subset, FS_CardinalityType
  <2>5. Cardinality(Places(deque[d], x)) + Cardinality(Pushing(d, x)) <= Cardinality(Threads)
    BY DEF CountInv
  <2>6. CASE t \in Pushing(d, x)'
    <3>1. local[t] = d /\ session[t] = x /\ pc'[t] = "push"
      BY <2>1, <2>6 DEF Pushing
    <3>2. ~Contains(deque[d], x)
      BY <1>2, <3>1 DEF TestQueued, TypeOK
    <3>3. Places(deque[d], x) = {}
      BY <1>0, <3>2 DEF Places, Contains
    <3>4. Cardinality(Places(deque[d], x)) = 0
      BY <3>3, FS_EmptySet
    <3> QED
      BY <2>2, <2>3, <2>4, <2>5, <3>4, SumKept
  <2>7. CASE t \notin Pushing(d, x)'
    <3>1. Pushing(d, x)' \in SUBSET Pushing(d, x)
      BY <1>2, <2>1, <2>7 DEF TestQueued, Pushing, TypeOK
    <3>2. Cardinality(Pushing(d, x)') <= Cardinality(Pushing(d, x))
      BY <2>3, <3>1, FS_Subset
    <3>3. Cardinality(Places(deque'[d], x)) <= Cardinality(Places(deque[d], x))
      BY <2>2
    <3> QED
      BY <2>2, <2>3, <2>4, <2>5, <3>2, <3>3, SumKept
  <2> QED
    BY <2>6, <2>7
<1>3. ASSUME NEW t \in Threads, Push(t)
      PROVE  CountInv'
  <2> SUFFICES ASSUME NEW d \in Deques, NEW x \in Sessions
               PROVE  Cardinality(Places(deque'[d], x)) + Cardinality(Pushing(d, x)') <= Cardinality(Threads)
    BY DEF CountInv
  <2>1. PICK e \in Deques, s \in Sessions : e = local[t] /\ s = session[t]
    BY <1>3 DEF Push, Bookkeeping, TypeOK
  <2>2. /\ pc[t] = "push" /\ pc' = [pc EXCEPT ![t] = "size"] /\ UNCHANGED <<local, session>>
        /\ deque' = [deque EXCEPT ![e] = <<s>> \o deque[e]]
    BY <1>3, <2>1 DEF Push
  <2>3. /\ IsFiniteSet(Pushing(d, x)) /\ Cardinality(Pushing(d, x)) \in Nat /\ Cardinality(Threads) \in Nat
    BY PushingFinite
  <2>4. Cardinality(Places(deque[d], x)) \in Nat /\ Cardinality(Places(deque'[d], x)) \in Nat
    BY <1>0, PlacesFinite
  <2>5. Cardinality(Places(deque[d], x)) + Cardinality(Pushing(d, x)) <= Cardinality(Threads)
    BY DEF CountInv
  <2>6. CASE d = e /\ x = s
    <3>1. t \in Pushing(d, x) /\ Pushing(d, x)' = Pushing(d, x) \ {t}
      BY <2>1, <2>2, <2>6 DEF Pushing, TypeOK
    <3>2. Cardinality(Pushing(d, x)') = Cardinality(Pushing(d, x)) - 1 /\ IsFiniteSet(Pushing(d, x)')
      BY <2>3, <3>1, FS_RemoveElement
    <3>3. Cardinality(Pushing(d, x)') \in Nat
      BY <3>2, FS_CardinalityType
    <3>4. deque'[d] = <<s>> \o deque[d]
      BY <2>2, <2>6 DEF TypeOK
    <3>5. Cardinality(Places(deque'[d], x)) = Cardinality(Places(deque[d], x)) + 1
      BY <1>0, <2>6, <3>4, PushCount
    <3> QED
      BY <2>3, <2>4, <2>5, <3>2, <3>3, <3>5, SumKept
  <2>7. CASE ~(d = e /\ x = s)
    <3>1. Pushing(d, x)' = Pushing(d, x)
      BY <2>1, <2>2, <2>7 DEF Pushing, TypeOK
    <3>2. Cardinality(Places(deque'[d], x)) = Cardinality(Places(deque[d], x))
      <4>1. CASE d # e
        BY <2>2, <4>1 DEF TypeOK
      <4>2. CASE d = e
        <5>1. deque'[d] = <<s>> \o deque[d] /\ x # s
          BY <2>2, <2>7, <4>2 DEF TypeOK
        <5>2. Cardinality(Places(deque'[d], x)) = Cardinality(Places(deque[d], x)) + 0
          BY <1>0, <5>1, PushCount
        <5> QED
          BY <2>4, <5>2
      <4> QED
        BY <4>1, <4>2
    <3> QED
      BY <2>5, <3>1, <3>2
  <2> QED
    BY <2>6, <2>7
<1>4. ASSUME NEW t \in Threads, RemoveVictim(t)
      PROVE  CountInv'
  <2>1. PICK e \in Deques : e = local[t]
    BY <1>4 DEF RemoveVictim, Bookkeeping, TypeOK
  <2>2. pc[t] = "remove" /\ \E p \in {"idle", "kick"} : pc' = [pc EXCEPT ![t] = p]
    BY <1>4 DEF RemoveVictim
  <2>3. UNCHANGED <<local, session>>
    BY <1>4 DEF RemoveVictim
  <2>4. \/ deque' = deque
        \/ deque[e] # <<>> /\ deque' = [deque EXCEPT ![e] = Tail(deque[e])]
        \/ deque[e] # <<>> /\ deque' = [deque EXCEPT ![e] = Front(deque[e])]
    BY <1>4, <2>1 DEF RemoveVictim
  <2>5. ASSUME NEW d \in Deques, NEW x \in Sessions
        PROVE  /\ Cardinality(Places(deque'[d], x)) <= Cardinality(Places(deque[d], x))
               /\ Pushing(d, x)' \subseteq Pushing(d, x)
    <3>1. Pushing(d, x)' \subseteq Pushing(d, x)
      BY <2>2, <2>3 DEF Pushing, TypeOK
    <3>2. Cardinality(Places(deque[d], x)) \in Nat
      BY <1>0, PlacesFinite
    <3>3. CASE deque'[d] = deque[d]
      BY <3>1, <3>2, <3>3
    <3>4. CASE deque[d] # <<>> /\ deque'[d] \in {Tail(deque[d]), Front(deque[d])}
      <4>1. /\ Cardinality(Places(Front(deque[d]), x)) <= Cardinality(Places(deque[d], x))
            /\ Cardinality(Places(Tail(deque[d]), x)) <= Cardinality(Places(deque[d], x))
        BY <1>0, <3>4, RemoveCount
      <4> QED
        BY <3>1, <3>4, <4>1
    <3>5. deque'[d] = deque[d] \/ (deque[d] # <<>> /\ deque'[d] \in {Tail(deque[d]), Front(deque[d])})
      BY <2>4 DEF TypeOK
    <3> QED
      BY <3>3, <3>4, <3>5
  <2> QED
    BY <1>0, <2>5, CountShrinks
<1>5. ASSUME NEW s \in Sessions, Login(s) \/ Logout(s) \/ Expire(s) \/ Validate(s)
      PROVE  CountInv'
  BY <1>1, <1>5 DEF Login, Logout, Expire, Validate
<1>6. ASSUME NEW t \in Threads, NEW s \in Sessions, Begin(t, s)
      PROVE  CountInv'
  BY <1>1, <1>6 DEF Begin, TypeOK
<1>7. ASSUME NEW t \in Threads, DequeGet(t) \/ DequePut(t)
      PROVE  CountInv'
  BY <1>1, <1>7 DEF DequeGet, DequePut, TypeOK
<1>8. ASSUME NEW t \in Threads, TestSize(t) \/ Kick(t) \/ Inspect(t)
      PROVE  CountInv'
  BY <1>1, <1>8 DEF TestSize, Kick, Inspect, TypeOK
<1>9. CASE UNCHANGED vars
  BY <1>1, <1>9 DEF vars
<1> QED
  BY <1>2, <1>3, <1>4, <1>5, <1>6, <1>7, <1>8, <1>9 DEF Next, Step

\* contains and push are two calls, so overlapping requests can queue a session
\* more than once, but never more often than there are request threads: for any
\* number of threads, sessions and deques.
THEOREM QueuedPerThreadAlways == Spec => []QueuedPerThread
<1>1. Init => CountInv
  <2> SUFFICES ASSUME Init, NEW d \in Deques, NEW x \in Sessions
               PROVE  Cardinality(Places(deque[d], x)) + Cardinality(Pushing(d, x)) <= Cardinality(Threads)
    BY DEF CountInv
  <2>1. Places(deque[d], x) = {} /\ Pushing(d, x) = {}
    BY DEF Init, Places, Pushing
  <2>2. Cardinality({}) = 0 /\ Cardinality(Threads) \in Nat
    BY FS_EmptySet, PushingFinite
  <2> QED
    BY <2>1, <2>2
<1>2. IInv /\ CountInv => QueuedPerThread
  <2> SUFFICES ASSUME IInv, CountInv, NEW d \in Deques, NEW s \in Sessions
               PROVE  Cardinality(Occurrences(d, s)) <= Cardinality(Threads)
    BY DEF QueuedPerThread
  <2>1. deque[d] \in Seq(Sessions)
    BY DEF IInv, TypeOK
  <2>2. Cardinality(Places(deque[d], s)) \in Nat /\ Occurrences(d, s) = Places(deque[d], s)
    BY <2>1, PlacesFinite DEF Occurrences, Places
  <2>3. Cardinality(Pushing(d, s)) \in Nat /\ Cardinality(Threads) \in Nat
    BY PushingFinite
  <2>4. Cardinality(Places(deque[d], s)) + Cardinality(Pushing(d, s)) <= Cardinality(Threads)
    BY DEF CountInv
  <2> QED
    BY <2>2, <2>3, <2>4
<1> QED
  BY <1>1, <1>2, CountNext, Inductive, PTL DEF Spec
=============================================================================
