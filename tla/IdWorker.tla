------------------------------ MODULE IdWorker ------------------------------
(***************************************************************************)
(* IdWorker: ids made of the time, the worker id and a sequence number.    *)
(*                                                                         *)
(* nextId is synchronized: a thread that waits for the next millisecond    *)
(* (tilNextMillis) keeps the monitor of its worker.  getInstance is not    *)
(* synchronized; every worker it creates has the worker id 1.              *)
(***************************************************************************)
EXTENDS Integers, Sequences

CONSTANTS
  Threads,
  Workers,       \* IdWorker objects that can be allocated
  None,
  WorkerIds,     \* 2^workerIdBits: 32 in the code
  SequenceSize,  \* 2^sequenceBits: 1024 in the code
  MaxBack,       \* bound on how often the clock is set back
  MaxTime,       \* bound on the clock
  MaxIds         \* bound on the number of ids

ASSUME IdWorkerAssumption ==
  /\ None \notin Workers
  /\ WorkerIds \in Nat \ {0} /\ SequenceSize \in Nat \ {0}
  /\ MaxBack \in Nat /\ MaxTime \in Nat /\ MaxIds \in Nat

VARIABLES
  now,            \* System.currentTimeMillis() - twepoch
  myWorker,       \* static field myWorker
  allocated,      \* workers created so far
  lastTimestamp,  \* fields of each worker; -1 before the first id
  sequence,
  pc,             \* where each thread is
  worker,         \* the worker whose nextId it calls
  epoch,          \* history: how often the clock was set back
  ids             \* history: the ids returned, the worker that made them, the epoch

fields == <<lastTimestamp, sequence>>
vars == <<now, myWorker, allocated, fields, pc, worker, epoch, ids>>

\* An id: the bits of the time, of the worker id, which is 1, and of the sequence
\* number.  (The 41 bits of the time fill up in 2080; 64 bits are not exceeded.)
Id(time, seq) == (time * WorkerIds + 1) * SequenceSize + seq

TypeOK ==
  /\ now \in Nat
  /\ myWorker \in Workers \cup {None}
  /\ allocated \in SUBSET Workers
  /\ lastTimestamp \in [Workers -> Nat \cup {-1}]
  /\ sequence \in [Workers -> 0..(SequenceSize - 1)]
  /\ pc \in [Threads -> {"idle", "new", "return", "next", "wait"}]
  /\ worker \in [Threads -> Workers \cup {None}]
  /\ epoch \in Nat
  /\ ids \in Seq([worker : Workers, epoch : Nat, id : Nat])

Init ==
  /\ now = 0
  /\ myWorker = None
  /\ allocated = {}
  /\ lastTimestamp = [w \in Workers |-> -1]
  /\ sequence = [w \in Workers |-> 0]
  /\ pc = [t \in Threads |-> "idle"]
  /\ worker = [t \in Threads |-> None]
  /\ epoch = 0
  /\ ids = <<>>

Goto(t, position) == pc' = [pc EXCEPT ![t] = position]

(***************************************************************************)
(* getInstance                                                             *)
(***************************************************************************)

\* myWorker == null
GetInstance(t) ==
  /\ pc[t] = "idle"
  /\ Goto(t, IF myWorker = None THEN "new" ELSE "return")
  /\ UNCHANGED <<now, myWorker, allocated, fields, worker, epoch, ids>>

\* myWorker = new IdWorker(1)
NewWorker(t) ==
  /\ pc[t] = "new"
  /\ \E w \in Workers \ allocated :
       /\ allocated' = allocated \cup {w}
       /\ myWorker' = w
  /\ Goto(t, "return")
  /\ UNCHANGED <<now, fields, worker, epoch, ids>>

\* return myWorker: the field is read again.
ReturnWorker(t) ==
  /\ pc[t] = "return"
  /\ worker' = [worker EXCEPT ![t] = myWorker]
  /\ Goto(t, "next")
  /\ UNCHANGED <<now, myWorker, allocated, fields, epoch, ids>>

(***************************************************************************)
(* nextId                                                                  *)
(***************************************************************************)

\* The monitor of w is held by a thread in tilNextMillis.
Held(w) == \E t \in Threads : pc[t] = "wait" /\ worker[t] = w

\* lastTimestamp = timestamp, and the id is returned.  A clock that moved back
\* is only reported.
Issue(t, time, seq) ==
  LET w == worker[t] IN
  /\ lastTimestamp' = [lastTimestamp EXCEPT ![w] = time]
  /\ sequence' = [sequence EXCEPT ![w] = seq]
  /\ ids' = Append(ids, [worker |-> w, epoch |-> epoch, id |-> Id(time, seq)])
  /\ Goto(t, "idle")

\* (sequence + 1) & sequenceMask in the millisecond of the last id, 0 otherwise.
NextSequence(w) ==
  IF lastTimestamp[w] = now THEN (sequence[w] + 1) % SequenceSize ELSE 0

\* The sequence of this millisecond is used up.
Wrapped(w) == lastTimestamp[w] = now /\ NextSequence(w) = 0

NextId(t) ==
  LET w == worker[t] IN
  /\ pc[t] = "next"
  /\ Len(ids) < MaxIds
  /\ ~Held(w)
  /\ \/ /\ ~Wrapped(w)
        /\ Issue(t, now, NextSequence(w))
     \/ /\ Wrapped(w)
        /\ sequence' = [sequence EXCEPT ![w] = 0]
        /\ Goto(t, "wait")
        /\ UNCHANGED <<lastTimestamp, ids>>
  /\ UNCHANGED <<now, myWorker, allocated, worker, epoch>>

\* Mutant: the loop ends when the clock reaches lastTimestamp.
TilNextMillisSame(t) ==
  /\ pc[t] = "wait"
  /\ Len(ids) < MaxIds
  /\ now >= lastTimestamp[worker[t]]
  /\ Issue(t, now, 0)
  /\ UNCHANGED <<now, myWorker, allocated, worker, epoch>>

\* tilNextMillis returns, and with it nextId.
TilNextMillis(t) ==
  /\ pc[t] = "wait"
  /\ Len(ids) < MaxIds
  /\ now > lastTimestamp[worker[t]]
  /\ Issue(t, now, 0)
  /\ UNCHANGED <<now, myWorker, allocated, worker, epoch>>

\* The wall clock advances.
Tick ==
  /\ now < MaxTime
  /\ now' = now + 1
  /\ UNCHANGED <<myWorker, allocated, fields, pc, worker, epoch, ids>>

\* The wall clock is set back.
SetBack ==
  /\ epoch < MaxBack
  /\ \E time \in 0..(now - 1) : now' = time
  /\ epoch' = epoch + 1
  /\ UNCHANGED <<myWorker, allocated, fields, pc, worker, ids>>

Step(t) ==
  \/ GetInstance(t) \/ NewWorker(t) \/ ReturnWorker(t)
  \/ NextId(t) \/ TilNextMillis(t)

Next == Tick \/ SetBack \/ \E t \in Threads : Step(t)

Spec == Init /\ [][Next]_vars

(***************************************************************************)
(* Properties                                                              *)
(***************************************************************************)

\* Between two adjustments of the clock the ids of one worker increase strictly,
\* however many threads call nextId, however often the sequence number wraps and
\* wherever lastTimestamp was when the clock was set back.
Increasing ==
  \A i, j \in 1..Len(ids) :
    i < j /\ ids[i].worker = ids[j].worker /\ ids[i].epoch = ids[j].epoch
      => ids[i].id < ids[j].id
=============================================================================
