--------------------------- MODULE IdWorkerProofs ---------------------------
(***************************************************************************)
(* Increasing for any number of threads, workers and sequence numbers.     *)
(*                                                                         *)
(* It is not inductive: the next id is compared with the worker's fields,  *)
(* not with the ids.  Recent says what the fields know about the ids of    *)
(* the current epoch; while a thread waits in tilNextMillis the sequence   *)
(* number has wrapped, and only the next millisecond bounds them.          *)
(***************************************************************************)
EXTENDS IdWorker, TLAPS

Bookkeeping ==
  /\ \A t \in Threads : /\ pc[t] \in {"next", "wait"} => worker[t] \in Workers
                        /\ pc[t] = "return" => myWorker # None
  /\ \A i \in 1..Len(ids) : ids[i].epoch <= epoch

\* The i-th id was made by w since the clock was last set back.
Made(i, w) == ids[i].worker = w /\ ids[i].epoch = epoch

Recent ==
  \A i \in 1..Len(ids), w \in Workers :
    Made(i, w) => /\ 0 <= lastTimestamp[w] /\ lastTimestamp[w] <= now
                  /\ ids[i].id < Id(lastTimestamp[w] + 1, 0)
                  /\ ~Held(w) => ids[i].id <= Id(lastTimestamp[w], sequence[w])

IInv == TypeOK /\ Bookkeeping /\ Recent /\ Increasing

\* A later millisecond gives a larger id, whatever the sequence numbers.
LEMMA LaterIsLarger ==
  ASSUME NEW m \in Nat, NEW n \in Nat, m < n,
         NEW s \in 0..(SequenceSize - 1), NEW r \in 0..(SequenceSize - 1)
  PROVE  Id(m, s) < Id(n, r)
<1> USE IdWorkerAssumption
<1> DEFINE a == m * WorkerIds + 1
           b == n * WorkerIds + 1
<1>1. PICK d \in Nat : n = m + 1 + d
  <2>1. n - m - 1 \in Nat /\ n = m + 1 + (n - m - 1)
    OBVIOUS
  <2> QED
    BY <2>1
<1>2. n * WorkerIds = m * WorkerIds + WorkerIds + d * WorkerIds
  BY <1>1
<1>3. m * WorkerIds \in Nat /\ n * WorkerIds \in Nat /\ d * WorkerIds \in Nat
  BY <1>1
<1>4. a \in Nat /\ b \in Nat /\ a + 1 <= b
  BY <1>2, <1>3
<1> HIDE DEF a, b
<1>5. PICK e \in Nat : b = a + 1 + e
  <2>1. b - a - 1 \in Nat /\ b = a + 1 + (b - a - 1)
    BY <1>4
  <2> QED
    BY <2>1
<1>6. b * SequenceSize = a * SequenceSize + SequenceSize + e * SequenceSize
  BY <1>4, <1>5
<1>7. a * SequenceSize \in Nat /\ b * SequenceSize \in Nat /\ e * SequenceSize \in Nat
  BY <1>4, <1>5
<1>8. a * SequenceSize + s < b * SequenceSize + r
  BY <1>6, <1>7
<1> QED
  BY <1>8 DEF Id, a, b

\* The ids of one millisecond are ordered by their sequence numbers.
LEMMA SameMillisecond ==
  ASSUME NEW m \in Nat, NEW s \in Nat, NEW r \in Nat
  PROVE  Id(m, s) \in Nat /\ (s < r => Id(m, s) < Id(m, r))
<1> USE IdWorkerAssumption
<1> DEFINE c == (m * WorkerIds + 1) * SequenceSize
<1>1. m * WorkerIds + 1 \in Nat
  OBVIOUS
<1>2. c \in Nat
  BY <1>1
<1> HIDE DEF c
<1>3. c + s \in Nat /\ (s < r => c + s < c + r)
  BY <1>2
<1> QED
  BY <1>3 DEF Id, c

LEMMA AppendFacts ==
  ASSUME NEW S, NEW q \in Seq(S), NEW x \in S
  PROVE  /\ Append(q, x) \in Seq(S)
         /\ Len(Append(q, x)) = Len(q) + 1
         /\ \A i \in 1..Len(q) : Append(q, x)[i] = q[i]
         /\ Append(q, x)[Len(q) + 1] = x
  OBVIOUS

LEMMA ElementOf ==
  ASSUME NEW S, NEW q \in Seq(S), NEW i \in 1..Len(q)
  PROVE  q[i] \in S
  OBVIOUS

LEMMA Fields ==
  ASSUME NEW q \in Seq([worker : Workers, epoch : Nat, id : Nat]), NEW i \in 1..Len(q)
  PROVE  q[i].worker \in Workers /\ q[i].epoch \in Nat /\ q[i].id \in Nat
<1>1. q[i] \in [worker : Workers, epoch : Nat, id : Nat]
  BY ElementOf
<1> QED
  BY <1>1

LEMMA InitInv == Init => IInv
  BY IdWorkerAssumption DEF Init, IInv, TypeOK, Bookkeeping, Recent, Increasing

\* The end of nextId preserves the invariant when the new id is larger than the
\* recent ones of its worker.
LEMMA IssueInv ==
  ASSUME IInv, NEW t \in Threads, pc[t] \in {"next", "wait"},
         NEW seq \in 0..(SequenceSize - 1), Issue(t, now, seq),
         UNCHANGED <<now, myWorker, allocated, worker, epoch>>,
         \A i \in 1..Len(ids) : Made(i, worker[t]) => ids[i].id < Id(now, seq)
  PROVE  IInv'
<1> USE IdWorkerAssumption DEF IInv
<1> DEFINE w == worker[t]
           x == [worker |-> w, epoch |-> epoch, id |-> Id(now, seq)]
           n == Len(ids)
<1>1. w \in Workers /\ now \in Nat /\ epoch \in Nat /\ n \in Nat /\ Id(now, seq) \in Nat
  BY SameMillisecond DEF TypeOK, Bookkeeping
<1>2. x \in [worker : Workers, epoch : Nat, id : Nat]
  BY <1>1
<1>3. /\ ids' \in Seq([worker : Workers, epoch : Nat, id : Nat])
      /\ Len(ids') = n + 1
      /\ \A i \in 1..n : ids'[i] = ids[i]
      /\ ids'[n + 1] = x
  BY <1>2, AppendFacts DEF Issue, TypeOK
<1>4. x.worker = w /\ x.epoch = epoch /\ x.id = Id(now, seq)
  OBVIOUS
<1>5. \A i \in 1..n : ids[i].id \in Nat /\ ids[i].worker \in Workers /\ ids[i].epoch \in Nat
  BY Fields DEF TypeOK
<1>6. /\ lastTimestamp' = [lastTimestamp EXCEPT ![w] = now]
      /\ sequence' = [sequence EXCEPT ![w] = seq]
      /\ pc' = [pc EXCEPT ![t] = "idle"]
  BY DEF Issue, Goto
<1>7. TypeOK'
  BY <1>1, <1>3, <1>6 DEF TypeOK
<1>8. Bookkeeping'
  <2>1. \A u \in Threads : /\ pc'[u] \in {"next", "wait"} => worker'[u] \in Workers
                           /\ pc'[u] = "return" => myWorker' # None
    BY <1>6 DEF Bookkeeping, TypeOK
  <2>2. ASSUME NEW i \in 1..Len(ids')
        PROVE  ids'[i].epoch <= epoch'
    <3> HIDE DEF x, n
    <3>1. CASE i = n + 1
      BY <3>1, <1>1, <1>3, <1>4
    <3>2. CASE i # n + 1
      <4>1. i \in 1..n /\ ids'[i] = ids[i]
        BY <3>2, <1>1, <1>3
      <4> QED
        BY <4>1 DEF Bookkeeping, n
    <3> QED
      BY <3>1, <3>2
  <2> QED
    BY <2>1, <2>2 DEF Bookkeeping
<1> HIDE DEF x, w, n
<1>9. Recent'
  <2> SUFFICES ASSUME NEW i \in 1..Len(ids'), NEW v \in Workers,
                      ids'[i].worker = v, ids'[i].epoch = epoch
               PROVE  /\ 0 <= lastTimestamp'[v] /\ lastTimestamp'[v] <= now
                      /\ ids'[i].id < Id(lastTimestamp'[v] + 1, 0)
                      /\ ~Held(v)' => ids'[i].id <= Id(lastTimestamp'[v], sequence'[v])
    BY DEF Recent, Made
  <2>1. CASE v = w
    <3>1. lastTimestamp'[v] = now /\ sequence'[v] = seq
      BY <2>1, <1>1, <1>6 DEF TypeOK
    <3>2. ids'[i].id <= Id(now, seq)
      <4>1. CASE i = n + 1
        BY <4>1, <1>1, <1>3, <1>4
      <4>2. CASE i # n + 1
        <5>1. i \in 1..n /\ ids'[i] = ids[i]
          BY <4>2, <1>1, <1>3, SMTT(30)
        <5>2. Made(i, worker[t])
          BY <5>1, <2>1 DEF Made, w
        <5>3. ids[i].id < Id(now, seq)
          BY <5>1, <5>2 DEF n
        <5> QED
          BY <5>1, <5>3, <1>1, <1>5
      <4> QED
        BY <4>1, <4>2
    <3>3. Id(now, seq) < Id(now + 1, 0)
      BY <1>1, LaterIsLarger
    <3>4. ids'[i].id \in Nat
      BY <1>3, Fields
    <3>5. Id(now + 1, 0) \in Nat
      <4>1. now + 1 \in Nat /\ 0 \in Nat
        BY <1>1
      <4> QED
        BY <4>1, SameMillisecond
    <3> QED
      BY <1>1, <3>1, <3>2, <3>3, <3>4, <3>5
  <2>2. CASE v # w
    <3>1. i \in 1..n /\ ids'[i] = ids[i]
      BY <2>2, <1>1, <1>3, <1>4
    <3>2. lastTimestamp'[v] = lastTimestamp[v] /\ sequence'[v] = sequence[v]
      BY <2>2, <1>1, <1>6 DEF TypeOK
    <3>3. Held(v)' <=> Held(v)
      BY <2>2, <1>6 DEF Held, TypeOK, w
    <3>4. Made(i, v)
      BY <3>1 DEF Made
    <3> QED
      BY <3>1, <3>2, <3>3, <3>4 DEF Recent, n
  <2> QED
    BY <2>1, <2>2
<1>10. Increasing'
  <2> SUFFICES ASSUME NEW i \in 1..Len(ids'), NEW j \in 1..Len(ids'), i < j,
                      ids'[i].worker = ids'[j].worker, ids'[i].epoch = ids'[j].epoch
               PROVE  ids'[i].id < ids'[j].id
    BY DEF Increasing
  <2>1. i \in 1..n /\ ids'[i] = ids[i]
    <3>1. i \in Int /\ j \in Int /\ 1 <= i /\ j <= n + 1
      BY <1>1, <1>3
    <3>2. i \in 1..n
      BY <1>1, <3>1
    <3> QED
      BY <1>3, <3>2
  <2>2. CASE j = n + 1
    <3>1. Made(i, worker[t])
      BY <2>1, <2>2, <1>3, <1>4 DEF Made, w
    <3>2. ids[i].id < Id(now, seq)
      BY <2>1, <3>1 DEF n
    <3> QED
      BY <2>1, <2>2, <3>2, <1>3, <1>4
  <2>3. CASE j # n + 1
    <3>1. j \in 1..n /\ ids'[j] = ids[j]
      BY <2>3, <1>1, <1>3, SMTT(30)
    <3> QED
      BY <2>1, <3>1 DEF Increasing, n
  <2> QED
    BY <2>2, <2>3
<1> QED
  BY <1>7, <1>8, <1>9, <1>10

LEMMA NextSequenceValue ==
  ASSUME NEW n \in Nat \ {0}, NEW k \in 0..(n - 1), (k + 1) % n # 0
  PROVE  (k + 1) % n = k + 1 /\ k + 1 \in 0..(n - 1)
  OBVIOUS

\* In a later millisecond than the worker's last, every id is larger than the
\* recent ones, also while a thread waits.
LEMMA LaterThanRecent ==
  ASSUME IInv, NEW w \in Workers, lastTimestamp[w] # now,
         NEW i \in 1..Len(ids), Made(i, w)
  PROVE  ids[i].id < Id(now, 0)
<1> USE IdWorkerAssumption DEF IInv
<1> DEFINE last == lastTimestamp[w]
<1>1. last \in Nat /\ now \in Nat /\ last < now /\ ids[i].id < Id(last + 1, 0)
  BY SMTT(30) DEF Recent, TypeOK
<1>2. ids[i].id \in Nat
  BY Fields DEF TypeOK
<1> HIDE DEF last
<1>3. CASE last + 1 = now
  BY <1>1, <1>3
<1>4. CASE last + 1 # now
  <2>1. last + 1 \in Nat /\ last + 1 < now /\ 0 \in 0..(SequenceSize - 1) /\ 0 \in Nat
    BY <1>1, <1>4
  <2>2. Id(last + 1, 0) < Id(now, 0)
    BY <1>1, <2>1, LaterIsLarger
  <2>3. Id(last + 1, 0) \in Nat /\ Id(now, 0) \in Nat
    BY <1>1, <2>1, SameMillisecond
  <2> QED
    BY <1>1, <1>2, <2>2, <2>3
<1> QED
  BY <1>3, <1>4

\* A step that leaves the ids, the fields and the monitors alone.
LEMMA QuietStep ==
  ASSUME IInv, UNCHANGED <<fields, epoch, ids>>, now' \in Nat, now <= now',
         \A v \in Workers : Held(v)' <=> Held(v)
  PROVE  Recent' /\ Increasing'
<1> USE DEF IInv
<1>1. Increasing'
  BY DEF Increasing
<1>2. ASSUME NEW i \in 1..Len(ids'), NEW v \in Workers, Made(i, v)'
      PROVE  /\ 0 <= lastTimestamp'[v] /\ lastTimestamp'[v] <= now'
             /\ ids'[i].id < Id(lastTimestamp'[v] + 1, 0)
             /\ ~Held(v)' => ids'[i].id <= Id(lastTimestamp'[v], sequence'[v])
  <2>1. i \in 1..Len(ids) /\ Made(i, v)
    BY <1>2 DEF Made
  <2>2. /\ 0 <= lastTimestamp[v] /\ lastTimestamp[v] <= now
        /\ ids[i].id < Id(lastTimestamp[v] + 1, 0)
        /\ ~Held(v) => ids[i].id <= Id(lastTimestamp[v], sequence[v])
    BY <2>1 DEF Recent
  <2>3. lastTimestamp'[v] = lastTimestamp[v] /\ sequence'[v] = sequence[v] /\ ids' = ids
    BY DEF fields
  <2>4. lastTimestamp[v] <= now'
    <3>1. lastTimestamp[v] \in Int /\ now \in Int /\ now' \in Int
      BY DEF TypeOK
    <3> QED
      BY <2>2, <3>1
  <2> QED
    BY <2>2, <2>3, <2>4
<1>3. Recent'
  BY <1>2 DEF Recent
<1> QED
  BY <1>1, <1>3

LEMMA NextInv ==
  ASSUME IInv, [Next]_vars
  PROVE  IInv'
<1> USE IdWorkerAssumption DEF IInv
<1>1. ASSUME NEW t \in Threads, GetInstance(t)
      PROVE  IInv'
  <2>1. TypeOK'
    BY <1>1 DEF GetInstance, Goto, TypeOK, fields
  <2>2. Bookkeeping'
    BY <1>1 DEF GetInstance, Goto, TypeOK, Bookkeeping
  <2>3. \A v \in Workers : Held(v)' <=> Held(v)
    BY <1>1 DEF GetInstance, Goto, TypeOK, Held
  <2>4. UNCHANGED <<fields, epoch, ids>> /\ now' \in Nat /\ now <= now'
    BY <1>1 DEF GetInstance, TypeOK
  <2> QED
    BY <2>1, <2>2, <2>3, <2>4, QuietStep
<1>2. ASSUME NEW t \in Threads, NewWorker(t)
      PROVE  IInv'
  <2>1. TypeOK'
    BY <1>2 DEF NewWorker, Goto, TypeOK, fields
  <2>2. Bookkeeping'
    BY <1>2 DEF NewWorker, Goto, TypeOK, Bookkeeping
  <2>3. \A v \in Workers : Held(v)' <=> Held(v)
    BY <1>2 DEF NewWorker, Goto, TypeOK, Held
  <2>4. UNCHANGED <<fields, epoch, ids>> /\ now' \in Nat /\ now <= now'
    BY <1>2 DEF NewWorker, TypeOK
  <2> QED
    BY <2>1, <2>2, <2>3, <2>4, QuietStep
<1>3. ASSUME NEW t \in Threads, ReturnWorker(t)
      PROVE  IInv'
  <2>1. TypeOK'
    BY <1>3 DEF ReturnWorker, Goto, TypeOK, fields
  <2>2. Bookkeeping'
    BY <1>3 DEF ReturnWorker, Goto, TypeOK, Bookkeeping
  <2>3. \A v \in Workers : Held(v)' <=> Held(v)
    BY <1>3 DEF ReturnWorker, Goto, TypeOK, Held
  <2>4. UNCHANGED <<fields, epoch, ids>> /\ now' \in Nat /\ now <= now'
    BY <1>3 DEF ReturnWorker, TypeOK
  <2> QED
    BY <2>1, <2>2, <2>3, <2>4, QuietStep
<1>4. ASSUME NEW t \in Threads, NextId(t)
      PROVE  IInv'
  <2> DEFINE w == worker[t]
  <2>1. /\ w \in Workers /\ pc[t] = "next" /\ ~Held(w)
        /\ UNCHANGED <<now, myWorker, allocated, worker, epoch>>
    BY <1>4 DEF NextId, Bookkeeping
  <2>2. now \in Nat /\ sequence[w] \in 0..(SequenceSize - 1) /\ lastTimestamp[w] \in Int
    BY <2>1 DEF TypeOK
  <2>3. ASSUME ~Wrapped(w), Issue(t, now, NextSequence(w))
        PROVE  IInv'
    <3> DEFINE seq == NextSequence(w)
    <3>1. CASE lastTimestamp[w] = now
      <4>1. seq = sequence[w] + 1 /\ seq \in 0..(SequenceSize - 1)
        BY <2>2, <2>3, <3>1, NextSequenceValue DEF NextSequence, Wrapped
      <4>2. Id(now, sequence[w]) < Id(now, seq)
        <5>1. sequence[w] \in Nat /\ seq \in Nat /\ sequence[w] < seq
          BY <2>2, <4>1
        <5> QED
          BY <2>2, <5>1, SameMillisecond
      <4>3. Id(now, sequence[w]) \in Nat /\ Id(now, seq) \in Nat
        <5>1. sequence[w] \in Nat /\ seq \in Nat
          BY <2>2, <4>1
        <5> QED
          BY <2>2, <5>1, SameMillisecond
      <4> HIDE DEF seq
      <4>4. ASSUME NEW i \in 1..Len(ids), Made(i, w)
            PROVE  ids[i].id < Id(now, seq)
        <5>1. ids[i].id <= Id(now, sequence[w])
          BY <2>1, <3>1, <4>4 DEF Recent
        <5>2. ids[i].id \in Nat
          BY Fields DEF TypeOK
        <5> QED
          BY <4>2, <4>3, <5>1, <5>2
      <4>5. Issue(t, now, seq)
        BY <2>3 DEF seq
      <4> QED
        BY <2>1, <4>1, <4>4, <4>5, IssueInv
    <3>2. CASE lastTimestamp[w] # now
      <4>1. Issue(t, now, 0) /\ 0 \in 0..(SequenceSize - 1)
        BY <2>3, <3>2 DEF NextSequence
      <4>2. \A i \in 1..Len(ids) : Made(i, w) => ids[i].id < Id(now, 0)
        BY <2>1, <3>2, LaterThanRecent
      <4> QED
        BY <2>1, <4>1, <4>2, IssueInv
    <3> QED
      BY <3>1, <3>2
  <2>4. ASSUME sequence' = [sequence EXCEPT ![w] = 0], pc' = [pc EXCEPT ![t] = "wait"],
               UNCHANGED <<lastTimestamp, ids>>
        PROVE  IInv'
    <3>1. TypeOK'
      BY <2>1, <2>4 DEF TypeOK
    <3>2. Bookkeeping'
      BY <2>1, <2>4 DEF Bookkeeping, TypeOK
    <3>3. Increasing'
      BY <2>4 DEF Increasing
    <3>4. ASSUME NEW i \in 1..Len(ids'), NEW v \in Workers, Made(i, v)'
          PROVE  /\ 0 <= lastTimestamp'[v] /\ lastTimestamp'[v] <= now'
                 /\ ids'[i].id < Id(lastTimestamp'[v] + 1, 0)
                 /\ ~Held(v)' => ids'[i].id <= Id(lastTimestamp'[v], sequence'[v])
      <4>1. i \in 1..Len(ids) /\ Made(i, v)
        BY <2>1, <2>4, <3>4 DEF Made
      <4>2. /\ 0 <= lastTimestamp[v] /\ lastTimestamp[v] <= now
            /\ ids[i].id < Id(lastTimestamp[v] + 1, 0)
            /\ ~Held(v) => ids[i].id <= Id(lastTimestamp[v], sequence[v])
        BY <4>1 DEF Recent
      <4>3. CASE v = w
        <5>1. Held(v)'
          BY <2>1, <2>4, <4>3 DEF Held, TypeOK
        <5> QED
          BY <2>1, <2>4, <4>2, <5>1
      <4>4. CASE v # w
        <5>1. Held(v)' <=> Held(v)
          BY <2>1, <2>4, <4>4 DEF Held, TypeOK
        <5>2. sequence'[v] = sequence[v]
          BY <2>1, <2>4, <4>4 DEF TypeOK
        <5> QED
          BY <2>1, <2>4, <4>2, <5>1, <5>2
      <4> QED
        BY <4>3, <4>4
    <3>5. Recent'
      BY <3>4 DEF Recent
    <3> QED
      BY <3>1, <3>2, <3>3, <3>5
  <2> QED
    BY <1>4, <2>3, <2>4 DEF NextId, Goto
<1>5. ASSUME NEW t \in Threads, TilNextMillis(t)
      PROVE  IInv'
  <2> DEFINE w == worker[t]
  <2>1. /\ w \in Workers /\ pc[t] = "wait" /\ now > lastTimestamp[w] /\ Issue(t, now, 0)
        /\ UNCHANGED <<now, myWorker, allocated, worker, epoch>>
    BY <1>5 DEF TilNextMillis, Bookkeeping
  <2>2. lastTimestamp[w] # now /\ 0 \in 0..(SequenceSize - 1)
    BY <2>1 DEF TypeOK
  <2>3. \A i \in 1..Len(ids) : Made(i, w) => ids[i].id < Id(now, 0)
    BY <2>1, <2>2, LaterThanRecent
  <2> QED
    BY <2>1, <2>2, <2>3, IssueInv
<1>6. CASE Tick
  <2>1. TypeOK'
    BY <1>6 DEF Tick, TypeOK, fields
  <2>2. Bookkeeping'
    BY <1>6 DEF Tick, Bookkeeping
  <2>3. \A v \in Workers : Held(v)' <=> Held(v)
    BY <1>6 DEF Tick, Held
  <2>4. UNCHANGED <<fields, epoch, ids>> /\ now' \in Nat /\ now <= now'
    BY <1>6 DEF Tick, TypeOK
  <2> QED
    BY <2>1, <2>2, <2>3, <2>4, QuietStep
<1>7. CASE SetBack
  <2>1. TypeOK'
    BY <1>7 DEF SetBack, TypeOK, fields
  <2>2. \A i \in 1..Len(ids) : ids[i].epoch \in Nat /\ ids[i].epoch <= epoch
    BY Fields DEF TypeOK, Bookkeeping
  <2>3. epoch \in Nat /\ epoch' = epoch + 1 /\ ids' = ids
    BY <1>7 DEF SetBack, TypeOK
  <2>4. \A i \in 1..Len(ids) : ids[i].epoch <= epoch + 1 /\ ids[i].epoch # epoch + 1
    BY <2>2, <2>3
  <2>5. Bookkeeping'
    BY <1>7, <2>3, <2>4 DEF SetBack, Bookkeeping
  <2>6. Recent'
    BY <2>3, <2>4 DEF Recent, Made
  <2>7. Increasing'
    BY <2>3 DEF Increasing
  <2> QED
    BY <2>1, <2>5, <2>6, <2>7
<1>8. CASE UNCHANGED vars
  <2>1. TypeOK' /\ Bookkeeping'
    BY <1>8 DEF vars, fields, TypeOK, Bookkeeping
  <2>2. \A v \in Workers : Held(v)' <=> Held(v)
    BY <1>8 DEF vars, Held
  <2>3. UNCHANGED <<fields, epoch, ids>> /\ now' \in Nat /\ now <= now'
    BY <1>8 DEF vars, TypeOK
  <2> QED
    BY <2>1, <2>2, <2>3, QuietStep
<1> QED
  BY <1>1, <1>2, <1>3, <1>4, <1>5, <1>6, <1>7, <1>8 DEF Next, Step

\* The invariant, of which Increasing is a part, holds always.
THEOREM Inductive == Spec => []IInv
<1>1. Init => IInv
  BY InitInv
<1>2. IInv /\ [Next]_vars => IInv'
  BY NextInv
<1> QED
  BY <1>1, <1>2, PTL DEF Spec

\* nextId: between two adjustments of the clock the ids of one worker increase
\* strictly, for any number of threads, any clock and any size of the sequence.
THEOREM IncreasingAlways == Spec => []Increasing
<1>1. IInv => Increasing
  BY DEF IInv
<1> QED
  BY <1>1, Inductive, PTL
=============================================================================
