-------------------------- MODULE SessionStoreProofs --------------------------
(***************************************************************************)
(* Sessions and their rows, for any number of threads and sessions and     *)
(* every configuration of the times: a session that ended is in the        *)
(* history, and one whose requests do not overlap is there once and has no *)
(* row any more.                                                           *)
(***************************************************************************)
EXTENDS SessionStore, TLAPS

\* A thread works on a session from the start of an update to its end.
Works(t, s) == pc[t] # "idle" /\ req[t] = s

\* The session is or was in the database.
Recorded(s) == s \in row \/ archived[s] >= 1

\* The session of a thread is one that has logged in and is not lost; it is gone
\* when the thread ends it, and only such a thread deletes the row.
RequestInv ==
  \A t \in Threads : pc[t] # "idle" =>
    /\ req[t] \in Sessions
    /\ mem[req[t]] \in {"user", "gone"}
    /\ t \in ending => mem[req[t]] = "gone"
    /\ pc[t] = "delete" => t \in ending

\* What a thread has read of a row, and what has been saved, has left its mark in
\* the database; a session that is not marked there is still to be saved, and one
\* that is gone and not archived has a thread that will archive it.
RecordInv ==
  /\ \A t \in Threads :
       /\ pc[t] = "write" /\ t \in found => Recorded(req[t])
       /\ pc[t] = "delete" => Recorded(req[t])
  /\ \A s \in Sessions :
       /\ mem[s] # "new" => s \in changed \/ Recorded(s)
       /\ mem[s] = "gone" /\ archived[s] = 0 => \E t \in ending : Works(t, s)

\* A session in memory has not been idle for longer than the timeout and the
\* interval of the validation job.
TimeInv ==
  /\ \A s \in Sessions : access[s] <= now
  /\ \A s \in Sessions : mem[s] = "user" => now <= access[s] + Timeout + Validation

\* What one thread at a time knows of the session it works on.
Alone(t, s) ==
  /\ \A u \in Threads : Works(u, s) => u = t
  /\ mem[s] = "gone" => t \in ending
  /\ pc[t] \in {"read", "write"} => model[t] = access[s]
  /\ pc[t] = "write" => (t \in found <=> s \in row)

\* A session whose requests do not overlap: a row follows its session closely
\* while that is in memory, and goes for good when it is archived.
Followed(s) ==
  /\ \A t \in Threads : Works(t, s) => Alone(t, s)
  /\ archived[s] # 0 => /\ archived[s] = 1 /\ s \notin row /\ ~Busy(s)
                        /\ mem[s] \in {"lost", "gone"}
  /\ s \in row => mem[s] \in {"user", "lost"} \/ Busy(s)
  /\ synced[s] <= pulse[s]
  /\ mem[s] = "user" /\ ~Busy(s) => s \in row /\ access[s] <= pulse[s] + SyncInterval

SerialInv == \A s \in Sessions \ overlaps : Followed(s)

\* The five ways in which an update of a session starts have in common: a thread
\* that was idle works on a session that is in memory or can be restored, which
\* is accessed now unless it ends.
Starts(t, s, m) ==
  /\ Update(t, s, m = "gone")
  /\ mem[s] \in {"new", "user", "lost"}
  /\ mem' = [mem EXCEPT ![s] = m]
  /\ access' = access \/ access' = [access EXCEPT ![s] = now]
  /\ m = "user" => access'[s] = now
  /\ mem[s] = "lost" => s \in row
  /\ \/ changed' = changed \cup {s}
     \/ changed' = changed /\ mem[s] = "user"
     \/ changed' = changed \ {s} /\ s \in row
  /\ mem[s] = "new" => changed' = changed \cup {s}
  /\ synced' = synced \/ synced' = [synced EXCEPT ![s] = 0]

LEMMA StartsByOne ==
  ASSUME TypeOK, NEW t \in Threads, NEW s \in Sessions,
         Login(t, s) \/ Touch(t, s) \/ Logout(t, s) \/ Expire(t, s) \/ Restore(t, s)
  PROVE  Starts(t, s, "user") \/ Starts(t, s, "gone")
<1> USE DEF Starts
<1>0. access \in [Sessions -> 0..MaxTime] /\ mem \in [Sessions -> {"new", "user", "lost", "gone"}]
  BY DEF TypeOK
<1>1. CASE Login(t, s)
  BY <1>0, <1>1 DEF Login
<1>2. CASE Touch(t, s)
  BY <1>0, <1>2 DEF Touch
<1>3. CASE Logout(t, s)
  BY <1>0, <1>3 DEF Logout
<1>4. CASE Expire(t, s)
  BY <1>0, <1>4 DEF Expire
<1>5. CASE Restore(t, s)
  BY <1>0, <1>5 DEF Restore
<1> QED
  BY <1>1, <1>2, <1>3, <1>4, <1>5

\* The steps of the specification.
LEMMA StepsOfNext ==
  ASSUME TypeOK, [Next]_vars
  PROVE  \/ UNCHANGED vars
         \/ Tick
         \/ Restart
         \/ \E s \in Sessions : Evict(s)
         \/ \E t \in Threads : \/ SaveTest(t) \/ SaveRead(t) \/ SaveWrite(t) \/ DeleteSession(t)
                               \/ ClearExpired(t)
         \/ \E t \in Threads, s \in Sessions, m \in {"user", "gone"} : Starts(t, s, m)
<1>1. CASE \E t \in Threads, s \in Sessions :
             Login(t, s) \/ Touch(t, s) \/ Logout(t, s) \/ Expire(t, s) \/ Restore(t, s)
  BY <1>1, StartsByOne
<1> QED
  BY <1>1, Zenon DEF Next, Step

(***************************************************************************)
(* Types                                                                   *)
(***************************************************************************)

LEMMA StartsTyped ==
  ASSUME TypeOK, NEW t \in Threads, NEW s \in Sessions, NEW m \in {"user", "gone"}, Starts(t, s, m)
  PROVE  TypeOK'
<1> USE SessionStoreAssumption
<1>1. UNCHANGED <<now, row, pulse, archived, found, model>>
  BY DEF Starts, Update, dao
<1>2. mem' \in [Sessions -> {"new", "user", "lost", "gone"}] /\ changed' \in SUBSET Sessions
  BY DEF Starts, TypeOK
<1>3. access' \in [Sessions -> 0..MaxTime] /\ synced' \in [Sessions -> 0..MaxTime]
  BY DEF Starts, TypeOK
<1>4. pc' \in [Threads -> {"idle", "test", "read", "write", "delete"}]
  BY DEF Starts, Update, Goto, TypeOK
<1>5. req' \in [Threads -> Sessions \cup {None}] /\ ending' \in SUBSET Threads
  BY DEF Starts, Update, TypeOK
<1>6. overlaps' \in SUBSET Sessions
  BY DEF Starts, Update, TypeOK
<1> QED
  BY <1>1, <1>2, <1>3, <1>4, <1>5, <1>6 DEF TypeOK

LEMMA SaveTyped ==
  ASSUME TypeOK, RequestInv, NEW t \in Threads,
         SaveTest(t) \/ SaveRead(t) \/ SaveWrite(t) \/ DeleteSession(t)
  PROVE  TypeOK'
<1>0. /\ pc[t] # "idle" /\ req[t] \in Sessions
      /\ UNCHANGED <<now, mem, access, req, ending, overlaps>>
  BY DEF RequestInv, SaveTest, SaveRead, SaveWrite, DeleteSession, memory, locals
<1>1. pc' \in [Threads -> {"idle", "test", "read", "write", "delete"}]
  BY DEF SaveTest, SaveRead, SaveWrite, DeleteSession, Saved, Goto, TypeOK
<1>2. CASE SaveTest(t)
  <2>1. UNCHANGED <<changed, synced, row, pulse, archived, found>>
    BY <1>2 DEF SaveTest, memory, dao
  <2>2. model' \in [Threads -> 0..MaxTime]
    BY <1>0, <1>2 DEF SaveTest, TypeOK
  <2> QED
    BY <1>0, <1>1, <2>1, <2>2 DEF TypeOK
<1>3. CASE SaveRead(t)
  BY <1>0, <1>1, <1>3 DEF SaveRead, memory, dao, TypeOK
<1>4. CASE SaveWrite(t)
  <2>1. UNCHANGED <<archived, found, model>>
    BY <1>4 DEF SaveWrite, locals
  <2>2. row' \in SUBSET Sessions /\ changed' \in SUBSET Sessions
    BY <1>0, <1>4 DEF SaveWrite, TypeOK
  <2>3. pulse' \in [Sessions -> 0..MaxTime]
    BY <1>0, <1>4 DEF SaveWrite, TypeOK
  <2>4. synced' \in [Sessions -> 0..MaxTime]
    BY <1>0, <1>4 DEF SaveWrite, TypeOK
  <2> QED
    BY <1>0, <1>1, <2>1, <2>2, <2>3, <2>4 DEF TypeOK
<1>5. CASE DeleteSession(t)
  <2>1. UNCHANGED <<changed, synced, pulse, found, model>>
    BY <1>5 DEF DeleteSession, memory, locals
  <2>2. row' \in SUBSET Sessions /\ archived' \in [Sessions -> Nat]
    BY <1>0, <1>5 DEF DeleteSession, TypeOK
  <2> QED
    BY <1>0, <1>1, <2>1, <2>2 DEF TypeOK
<1> QED
  BY <1>2, <1>3, <1>4, <1>5

LEMMA ClearTyped ==
  ASSUME TypeOK, NEW t \in Threads, ClearExpired(t)
  PROVE  TypeOK'
<1>1. UNCHANGED <<now, mem, access, changed, synced, pulse, pc, req, ending, found, model>>
  BY DEF ClearExpired, memory, locals
<1>2. row' \in SUBSET Sessions /\ overlaps' \in SUBSET Sessions
  BY DEF ClearExpired, TypeOK
<1>3. archived' \in [Sessions -> Nat]
  BY DEF ClearExpired, TypeOK
<1> QED
  BY <1>1, <1>2, <1>3 DEF TypeOK

LEMMA OtherTyped ==
  ASSUME TypeOK, UNCHANGED vars \/ Tick \/ \E s \in Sessions : Evict(s)
  PROVE  TypeOK'
<1> USE SessionStoreAssumption
<1>1. CASE UNCHANGED vars
  BY <1>1 DEF TypeOK, vars, memory, dao, locals
<1>2. CASE Tick
  BY <1>2 DEF TypeOK, Tick, memory, dao, locals
<1>3. CASE \E s \in Sessions : Evict(s)
  BY <1>3 DEF TypeOK, Evict, dao, locals
<1> QED
  BY <1>1, <1>2, <1>3

(***************************************************************************)
(* Requests                                                                *)
(***************************************************************************)

LEMMA StartsRequest ==
  ASSUME TypeOK, RequestInv,
         NEW t \in Threads, NEW s \in Sessions, NEW m \in {"user", "gone"}, Starts(t, s, m)
  PROVE  RequestInv'
<1> SUFFICES ASSUME NEW u \in Threads, pc'[u] # "idle"
             PROVE  /\ req'[u] \in Sessions
                    /\ mem'[req'[u]] \in {"user", "gone"}
                    /\ u \in ending' => mem'[req'[u]] = "gone"
                    /\ pc'[u] = "delete" => u \in ending'
  BY DEF RequestInv
<1>1. /\ pc \in [Threads -> {"idle", "test", "read", "write", "delete"}]
      /\ req \in [Threads -> Sessions \cup {None}]
      /\ mem \in [Sessions -> {"new", "user", "lost", "gone"}]
  BY DEF TypeOK
<1>2. /\ mem[s] \in {"new", "user", "lost"} /\ mem' = [mem EXCEPT ![s] = m]
      /\ pc[t] = "idle" /\ pc' = [pc EXCEPT ![t] = "test"]
      /\ req' = [req EXCEPT ![t] = s]
      /\ ending' = IF m = "gone" THEN ending \cup {t} ELSE ending \ {t}
  BY DEF Starts, Update, Goto
<1>3. CASE u = t
  BY <1>1, <1>2, <1>3
<1>4. CASE u # t
  <2>1. pc'[u] = pc[u] /\ req'[u] = req[u] /\ (u \in ending' <=> u \in ending)
    BY <1>1, <1>2, <1>4
  <2>2. /\ req[u] \in Sessions
        /\ mem[req[u]] \in {"user", "gone"}
        /\ u \in ending => mem[req[u]] = "gone"
        /\ pc[u] = "delete" => u \in ending
    BY <2>1 DEF RequestInv
  <2>3. mem'[req[u]] = IF req[u] = s THEN m ELSE mem[req[u]]
    BY <1>1, <1>2, <2>2
  <2> QED
    BY <1>2, <2>1, <2>2, <2>3
<1> QED
  BY <1>3, <1>4

LEMMA SaveRequest ==
  ASSUME TypeOK, RequestInv, NEW t \in Threads,
         SaveTest(t) \/ SaveRead(t) \/ SaveWrite(t) \/ DeleteSession(t)
  PROVE  RequestInv'
<1>0. pc[t] # "idle" /\ UNCHANGED <<mem, req, ending>>
  BY DEF SaveTest, SaveRead, SaveWrite, DeleteSession, memory, locals
<1>1. \E p : pc' = [pc EXCEPT ![t] = p] /\ (p = "delete" => t \in ending)
  BY DEF SaveTest, SaveRead, SaveWrite, DeleteSession, Saved, Goto
<1>2. pc \in [Threads -> {"idle", "test", "read", "write", "delete"}]
  BY DEF TypeOK
<1> QED
  BY <1>0, <1>1, <1>2 DEF RequestInv

LEMMA OtherRequest ==
  ASSUME TypeOK, RequestInv,
         \/ UNCHANGED vars \/ Tick
         \/ \E t \in Threads : ClearExpired(t)
         \/ \E s \in Sessions : Evict(s)
  PROVE  RequestInv'
<1>1. CASE UNCHANGED vars \/ Tick \/ \E t \in Threads : ClearExpired(t)
  <2>1. UNCHANGED <<mem, pc, req, ending>>
    BY <1>1 DEF vars, Tick, ClearExpired, memory, locals
  <2> QED
    BY <2>1 DEF RequestInv
<1>2. ASSUME NEW s \in Sessions, Evict(s) PROVE RequestInv'
  <2>1. /\ UNCHANGED <<pc, req, ending>> /\ mem' = [mem EXCEPT ![s] = "lost"]
        /\ \A u \in Threads : pc[u] # "idle" => req[u] # s
    BY <1>2 DEF Evict, locals, Busy
  <2>2. mem \in [Sessions -> {"new", "user", "lost", "gone"}]
    BY DEF TypeOK
  <2> QED
    BY <2>1, <2>2 DEF RequestInv
<1> QED
  BY <1>1, <1>2

(***************************************************************************)
(* Records                                                                 *)
(***************************************************************************)

\* RecordInv of a thread and of a session.
ThreadRecord(t) ==
  /\ pc[t] = "write" /\ t \in found => Recorded(req[t])
  /\ pc[t] = "delete" => Recorded(req[t])
SessionRecord(s) ==
  /\ mem[s] # "new" => s \in changed \/ Recorded(s)
  /\ mem[s] = "gone" /\ archived[s] = 0 => \E t \in ending : Works(t, s)

LEMMA RecordParts ==
  RecordInv <=> (\A t \in Threads : ThreadRecord(t)) /\ (\A s \in Sessions : SessionRecord(s))
  BY DEF RecordInv, ThreadRecord, SessionRecord

LEMMA StartsRecord ==
  ASSUME TypeOK, RequestInv, RecordInv,
         NEW t \in Threads, NEW s \in Sessions, NEW m \in {"user", "gone"}, Starts(t, s, m)
  PROVE  RecordInv'
<1>1. /\ pc \in [Threads -> {"idle", "test", "read", "write", "delete"}]
      /\ req \in [Threads -> Sessions \cup {None}]
      /\ mem \in [Sessions -> {"new", "user", "lost", "gone"}]
      /\ ending \subseteq Threads
  BY DEF TypeOK
<1>2. /\ mem[s] \in {"new", "user", "lost"} /\ mem' = [mem EXCEPT ![s] = m]
      /\ pc[t] = "idle" /\ pc' = [pc EXCEPT ![t] = "test"]
      /\ req' = [req EXCEPT ![t] = s]
      /\ ending' = IF m = "gone" THEN ending \cup {t} ELSE ending \ {t}
      /\ UNCHANGED <<row, archived, found>>
  BY DEF Starts, Update, Goto, dao
<1>3. ASSUME NEW u \in Threads PROVE ThreadRecord(u)'
  <2>1. CASE u = t
    BY <1>1, <1>2, <2>1 DEF ThreadRecord
  <2>2. CASE u # t
    <3>1. pc'[u] = pc[u] /\ req'[u] = req[u] /\ Recorded(req[u])' = Recorded(req[u])
      BY <1>1, <1>2, <2>2 DEF Recorded
    <3> QED
      BY <1>2, <3>1, RecordParts DEF ThreadRecord, Recorded
  <2> QED
    BY <2>1, <2>2
<1>4. ASSUME NEW x \in Sessions PROVE SessionRecord(x)'
  <2>0. Recorded(x)' = Recorded(x) /\ archived' = archived
    BY <1>2 DEF Recorded
  <2>1. CASE x = s
    <3>1. x \in changed' \/ Recorded(x)
      <4>1. CASE changed' = changed \cup {s}
        BY <2>1, <4>1
      <4>2. CASE changed' = changed /\ mem[s] = "user"
        BY <2>1, <4>2, RecordParts DEF SessionRecord
      <4>3. CASE s \in row
        BY <2>1, <4>3 DEF Recorded
      <4> QED
        BY <4>1, <4>2, <4>3 DEF Starts
    <3>2. m = "gone" => t \in ending' /\ Works(t, x)'
      BY <1>1, <1>2, <2>1 DEF Works
    <3>3. mem'[x] = m
      BY <1>1, <1>2, <2>1
    <3> QED
      BY <2>0, <3>1, <3>2, <3>3 DEF SessionRecord
  <2>2. CASE x # s
    <3>1. mem'[x] = mem[x] /\ (x \in changed' <=> x \in changed)
      BY <1>1, <1>2, <2>2 DEF Starts
    <3>2. ASSUME NEW u \in ending, Works(u, x) PROVE u \in ending' /\ Works(u, x)'
      BY <1>1, <1>2, <2>2, <3>2 DEF Works
    <3> QED
      BY <2>0, <3>1, <3>2, RecordParts DEF SessionRecord
  <2> QED
    BY <2>1, <2>2
<1> QED
  BY <1>3, <1>4 DEF RecordInv, ThreadRecord, SessionRecord

\* A step of a save: threads that end their session go on until it is deleted.
LEMMA SaveEnding ==
  ASSUME TypeOK, RequestInv, NEW t \in Threads, SaveTest(t) \/ SaveRead(t) \/ SaveWrite(t),
         NEW x, NEW u \in ending, Works(u, x)
  PROVE  u \in ending' /\ Works(u, x)'
<1>1. UNCHANGED <<req, ending>>
  BY DEF SaveTest, SaveRead, SaveWrite, locals
<1>2. \E p : pc' = [pc EXCEPT ![t] = p] /\ (t \in ending => p # "idle")
  BY DEF SaveTest, SaveRead, SaveWrite, Saved, Goto
<1>3. pc \in [Threads -> {"idle", "test", "read", "write", "delete"}]
  BY DEF TypeOK
<1> QED
  BY <1>1, <1>2, <1>3 DEF Works

LEMMA SaveRecord ==
  ASSUME TypeOK, RequestInv, RecordInv, NEW t \in Threads, SaveTest(t) \/ SaveRead(t) \/ SaveWrite(t)
  PROVE  RecordInv'
<1>1. /\ pc \in [Threads -> {"idle", "test", "read", "write", "delete"}]
      /\ pc[t] # "idle" /\ req[t] \in Sessions /\ mem[req[t]] # "new"
      /\ UNCHANGED <<mem, req, ending, archived>>
  BY DEF TypeOK, RequestInv, SaveTest, SaveRead, SaveWrite, memory, locals, dao
<1>2. CASE SaveTest(t) \/ SaveRead(t)
  <2>1. UNCHANGED <<row, changed>> /\ \A x : Recorded(x)' = Recorded(x)
    BY <1>2 DEF SaveTest, SaveRead, memory, dao, Recorded
  <2>2. ASSUME NEW u \in Threads PROVE ThreadRecord(u)'
    <3>1. CASE u # t
      <4>1. pc'[u] = pc[u] /\ req'[u] = req[u] /\ (u \in found' <=> u \in found)
        BY <1>1, <1>2, <3>1 DEF SaveTest, SaveRead, Saved, Goto
      <4> QED
        BY <2>1, <4>1, RecordParts DEF ThreadRecord
    <3>2. CASE u = t /\ SaveRead(t)
      BY <1>1, <2>1, <3>2 DEF SaveRead, Goto, ThreadRecord, Recorded
    <3>3. CASE u = t /\ SaveTest(t)
      <4>1. pc'[t] = "delete" => req[t] \notin changed
        BY <1>1, <3>3 DEF SaveTest, Saved, Goto
      <4>2. pc'[t] # "write"
        BY <1>1, <3>3 DEF SaveTest, Saved, Goto
      <4>3. req[t] \notin changed => Recorded(req[t])
        BY <1>1, RecordParts DEF SessionRecord
      <4> QED
        BY <1>1, <2>1, <3>3, <4>1, <4>2, <4>3 DEF ThreadRecord
    <3> QED
      BY <1>2, <3>1, <3>2, <3>3
  <2>3. ASSUME NEW x \in Sessions PROVE SessionRecord(x)'
    BY <1>1, <2>1, SaveEnding, RecordParts DEF SessionRecord
  <2> QED
    BY <2>2, <2>3 DEF RecordInv, ThreadRecord, SessionRecord
<1>3. CASE SaveWrite(t)
  <2>1. found' = found /\ row \subseteq row' /\ (\A x : Recorded(x) => Recorded(x)')
    BY <1>3 DEF SaveWrite, locals, Recorded
  <2>2. Recorded(req[t])'
    <3>1. CASE t \in found
      <4>1. Recorded(req[t])
        BY <1>3, <3>1, RecordParts DEF SaveWrite, ThreadRecord
      <4> QED
        BY <1>1, <2>1, <4>1 DEF Recorded
    <3>2. CASE t \notin found
      BY <1>1, <1>3, <3>2 DEF SaveWrite, Recorded
    <3> QED
      BY <3>1, <3>2
  <2>3. ASSUME NEW u \in Threads PROVE ThreadRecord(u)'
    <3>1. CASE u # t
      <4>1. pc'[u] = pc[u]
        BY <1>1, <1>3, <3>1 DEF SaveWrite, Saved, Goto
      <4> QED
        BY <1>1, <2>1, <4>1, RecordParts DEF ThreadRecord, Recorded
    <3>2. CASE u = t
      BY <1>1, <2>2, <3>2 DEF ThreadRecord, Recorded
    <3> QED
      BY <3>1, <3>2
  <2>4. ASSUME NEW x \in Sessions PROVE SessionRecord(x)'
    <3>1. x # req[t] => (x \in changed' <=> x \in changed)
      BY <1>3 DEF SaveWrite
    <3>2. mem'[x] # "new" => x \in changed' \/ Recorded(x)'
      BY <1>1, <2>1, <2>2, <3>1, RecordParts DEF SessionRecord
    <3>3. mem'[x] = "gone" /\ archived'[x] = 0 => \E u \in ending' : Works(u, x)'
      BY <1>1, SaveEnding, RecordParts DEF SessionRecord
    <3> QED
      BY <3>2, <3>3 DEF SessionRecord
  <2> QED
    BY <2>3, <2>4 DEF RecordInv, ThreadRecord, SessionRecord
<1> QED
  BY <1>2, <1>3

LEMMA DeleteRecord ==
  ASSUME TypeOK, RequestInv, RecordInv, NEW t \in Threads, DeleteSession(t)
  PROVE  RecordInv'
<1>1. /\ pc \in [Threads -> {"idle", "test", "read", "write", "delete"}]
      /\ archived \in [Sessions -> Nat]
      /\ pc[t] = "delete" /\ req[t] \in Sessions /\ pc' = [pc EXCEPT ![t] = "idle"]
      /\ UNCHANGED <<mem, req, ending, found, changed>>
  BY DEF TypeOK, RequestInv, DeleteSession, memory, locals, Goto
<1>2. row' = row \ {req[t]} /\ \A x \in Sessions : x # req[t] => archived'[x] = archived[x]
  BY <1>1 DEF DeleteSession
<1>3. archived'[req[t]] >= 1
  <2>1. Recorded(req[t])
    BY <1>1, RecordParts DEF ThreadRecord
  <2>2. archived'[req[t]] = archived[req[t]] + (IF req[t] \in row THEN 1 ELSE 0)
    BY <1>1 DEF DeleteSession
  <2> QED
    BY <1>1, <2>1, <2>2 DEF Recorded
<1>4. ASSUME NEW x \in Sessions, Recorded(x) PROVE Recorded(x)'
  BY <1>2, <1>3, <1>4 DEF Recorded
<1>5. ASSUME NEW u \in Threads PROVE ThreadRecord(u)'
  <2>1. CASE u = t
    BY <1>1, <2>1 DEF ThreadRecord
  <2>2. CASE u # t
    <3>1. pc'[u] = pc[u] /\ (pc[u] # "idle" => req[u] \in Sessions)
      BY <1>1, <2>2 DEF RequestInv
    <3> QED
      BY <1>1, <1>4, <3>1, RecordParts DEF ThreadRecord, Recorded
  <2> QED
    BY <2>1, <2>2
<1>6. ASSUME NEW x \in Sessions PROVE SessionRecord(x)'
  <2>1. CASE x = req[t]
    BY <1>1, <1>3, <2>1 DEF SessionRecord, Recorded
  <2>2. CASE x # req[t]
    <3>1. ASSUME NEW u \in ending, Works(u, x) PROVE u \in ending' /\ Works(u, x)'
      BY <1>1, <2>2, <3>1 DEF Works
    <3> QED
      BY <1>1, <1>2, <1>4, <2>2, <3>1, RecordParts DEF SessionRecord
  <2> QED
    BY <2>1, <2>2
<1> QED
  BY <1>5, <1>6 DEF RecordInv, ThreadRecord, SessionRecord

LEMMA OtherRecord ==
  ASSUME TypeOK, RequestInv, RecordInv,
         \/ UNCHANGED vars \/ Tick
         \/ \E t \in Threads : ClearExpired(t)
         \/ \E s \in Sessions : Evict(s)
  PROVE  RecordInv'
<1>1. UNCHANGED <<pc, req, ending, found, changed>> /\ \A u, x : Works(u, x)' = Works(u, x)
  BY DEF vars, Tick, ClearExpired, Evict, memory, locals, Works
<1>2. ASSUME NEW x \in Sessions
      PROVE  /\ Recorded(x) => Recorded(x)'
             /\ archived'[x] >= archived[x] /\ archived[x] \in Nat /\ archived'[x] \in Nat
             /\ mem'[x] = mem[x] \/ (mem[x] = "user" /\ mem'[x] = "lost")
  <2>0. archived \in [Sessions -> Nat] /\ mem \in [Sessions -> {"new", "user", "lost", "gone"}]
    BY DEF TypeOK
  <2>1. CASE UNCHANGED vars \/ Tick
    BY <2>0, <2>1 DEF vars, Tick, memory, dao, Recorded
  <2>2. CASE \E t \in Threads : ClearExpired(t)
    <3> DEFINE old == {s \in row : pulse[s] + Retention <= now}
    <3>1. /\ row' = row \ old /\ mem' = mem
          /\ archived'[x] = archived[x] + (IF x \in old THEN 1 ELSE 0)
      BY <2>2 DEF ClearExpired, memory
    <3> HIDE DEF old
    <3> QED
      BY <2>0, <3>1 DEF Recorded
  <2>3. CASE \E s \in Sessions : Evict(s)
    BY <2>0, <2>3 DEF Evict, dao, Recorded
  <2> QED
    BY <2>1, <2>2, <2>3
<1>3. ASSUME NEW u \in Threads PROVE ThreadRecord(u)'
  <2>1. pc[u] # "idle" => req[u] \in Sessions
    BY DEF RequestInv
  <2> QED
    BY <1>1, <1>2, <2>1, RecordParts DEF ThreadRecord, Recorded
<1>4. ASSUME NEW x \in Sessions PROVE SessionRecord(x)'
  BY <1>1, <1>2, RecordParts DEF SessionRecord
<1> QED
  BY <1>3, <1>4 DEF RecordInv, ThreadRecord, SessionRecord

(***************************************************************************)
(* A restart                                                               *)
(***************************************************************************)

\* Nobody works any more, and what was in memory is lost.
LEMMA RestartLeaves ==
  ASSUME TypeOK, Restart, NEW x \in Sessions
  PROVE  /\ \A u \in Threads : pc'[u] = "idle" /\ ~Works(u, x)'
         /\ ~Busy(x)'
         /\ mem'[x] = IF mem[x] = "user" \/ Busy(x) THEN "lost" ELSE mem[x]
         /\ UNCHANGED <<now, access, changed, synced, row, pulse, archived, overlaps>>
  BY DEF Restart, Works, Busy, dao

LEMMA RestartTyped ==
  ASSUME TypeOK, Restart
  PROVE  TypeOK'
<1>1. pc' \in [Threads -> {"idle", "test", "read", "write", "delete"}]
  BY DEF Restart
<1>2. mem' \in [Sessions -> {"new", "user", "lost", "gone"}]
  BY DEF Restart, TypeOK
<1>3. UNCHANGED <<now, access, changed, synced, row, pulse, archived, req, ending, found, model, overlaps>>
  BY DEF Restart, dao, locals
<1> QED
  BY <1>1, <1>2, <1>3 DEF TypeOK

LEMMA RestartRecord ==
  ASSUME TypeOK, RequestInv, RecordInv, Restart
  PROVE  RequestInv' /\ RecordInv'
<1>1. \A u \in Threads : pc'[u] = "idle"
  BY DEF Restart
<1>2. RequestInv'
  BY <1>1 DEF RequestInv
<1>3. ASSUME NEW u \in Threads PROVE ThreadRecord(u)'
  BY <1>1 DEF ThreadRecord
<1>4. ASSUME NEW x \in Sessions PROVE SessionRecord(x)'
  <2>1. SessionRecord(x)
    BY RecordParts
  <2>2. Recorded(x)' <=> Recorded(x)
    BY RestartLeaves DEF Recorded
  <2>3. mem'[x] # "new" => x \in changed' \/ Recorded(x)'
    <3>1. mem'[x] # "new" => mem[x] # "new"
      <4>1. Busy(x) => mem[x] # "new"
        BY DEF Busy, RequestInv
      <4> QED
        BY <4>1, RestartLeaves
    <3> QED
      BY <2>1, <2>2, <3>1, RestartLeaves DEF SessionRecord
  <2>4. mem'[x] = "gone" => archived'[x] # 0
    <3>1. mem'[x] = "gone" => mem[x] = "gone" /\ ~Busy(x)
      BY RestartLeaves
    <3>2. mem[x] = "gone" /\ ~Busy(x) => archived[x] # 0
      BY <2>1 DEF SessionRecord, Busy, Works, TypeOK
    <3> QED
      BY <3>1, <3>2, RestartLeaves
  <2> QED
    BY <2>3, <2>4 DEF SessionRecord
<1> QED
  BY <1>2, <1>3, <1>4 DEF RecordInv, ThreadRecord, SessionRecord

\* The strengthening of EndedArchived.
IInv == TypeOK /\ RequestInv /\ RecordInv

LEMMA Inductive == Spec => []IInv
<1>1. Init => IInv
  <2> SUFFICES ASSUME Init PROVE IInv
    OBVIOUS
  <2>1. TypeOK
    BY SessionStoreAssumption DEF Init, TypeOK
  <2>2. RequestInv /\ RecordInv
    BY DEF Init, RequestInv, RecordInv
  <2> QED
    BY <2>1, <2>2 DEF IInv
<1>2. IInv /\ [Next]_vars => IInv'
  <2> SUFFICES ASSUME TypeOK, RequestInv, RecordInv, [Next]_vars PROVE IInv'
    BY DEF IInv
  <2>1. CASE \E t \in Threads, s \in Sessions, m \in {"user", "gone"} : Starts(t, s, m)
    BY <2>1, StartsTyped, StartsRequest, StartsRecord DEF IInv
  <2>2. CASE \E t \in Threads : SaveTest(t) \/ SaveRead(t) \/ SaveWrite(t)
    BY <2>2, SaveTyped, SaveRequest, SaveRecord DEF IInv
  <2>3. CASE \E t \in Threads : DeleteSession(t)
    BY <2>3, SaveTyped, SaveRequest, DeleteRecord DEF IInv
  <2>4. CASE \E t \in Threads : ClearExpired(t)
    BY <2>4, ClearTyped, OtherRequest, OtherRecord DEF IInv
  <2>5. CASE UNCHANGED vars \/ Tick \/ \E s \in Sessions : Evict(s)
    BY <2>5, OtherTyped, OtherRequest, OtherRecord DEF IInv
  <2>6. CASE Restart
    BY <2>6, RestartTyped, RestartRecord DEF IInv
  <2> QED
    BY <2>1, <2>2, <2>3, <2>4, <2>5, <2>6, StepsOfNext, Zenon
<1> QED
  BY <1>1, <1>2, PTL DEF Spec

\* Every variable keeps its type: a thread that saves a session has one.
THEOREM TypeCorrect == Spec => []TypeOK
<1>1. IInv => TypeOK
  BY DEF IInv
<1> QED
  BY <1>1, Inductive, PTL

\* A session that ended by a logout or by expiry is in s_session_his as soon as no
\* thread works on it, whatever other threads save, insert, archive or clear in
\* between (UserSessionDAO, SessionServiceImpl).
THEOREM EndedArchivedAlways == Spec => []EndedArchived
<1>1. IInv => EndedArchived
  <2> SUFFICES ASSUME IInv, NEW s \in Sessions, mem[s] = "gone", ~Busy(s)
               PROVE  archived[s] >= 1
    BY DEF EndedArchived
  <2>1. ending \subseteq Threads /\ archived[s] \in Nat
    BY DEF IInv, TypeOK
  <2>2. archived[s] # 0
    BY <2>1 DEF IInv, RecordInv, Busy, Works
  <2> QED
    BY <2>1, <2>2
<1> QED
  BY <1>1, Inductive, PTL

(***************************************************************************)
(* Sessions whose requests do not overlap                                  *)
(***************************************************************************)

LEMMA TimeKept ==
  ASSUME TypeOK, TimeInv, [Next]_vars
  PROVE  TimeInv'
<1>0. /\ now \in Nat /\ access \in [Sessions -> Nat] /\ Timeout \in Nat /\ Validation \in Nat
      /\ mem \in [Sessions -> {"new", "user", "lost", "gone"}]
  <2>1. now \in 0..MaxTime /\ access \in [Sessions -> 0..MaxTime]
    BY DEF TypeOK
  <2> QED
    BY <2>1, SessionStoreAssumption DEF TypeOK
<1>1. CASE \E t \in Threads, s \in Sessions, m \in {"user", "gone"} : Starts(t, s, m)
  <2> PICK t \in Threads, s \in Sessions, m \in {"user", "gone"} : Starts(t, s, m)
    BY <1>1
  <2>1. /\ now' = now /\ mem' = [mem EXCEPT ![s] = m]
        /\ access' = access \/ access' = [access EXCEPT ![s] = now]
        /\ m = "user" => access'[s] = now
    BY DEF Starts, Update
  <2> QED
    BY <1>0, <2>1 DEF TimeInv
<1>2. CASE Tick
  <2>1. /\ now' = now + 1 /\ UNCHANGED <<mem, access>>
        /\ \A s \in Sessions : mem[s] = "user" => now - access[s] < Timeout + Validation
    BY <1>2 DEF Tick, memory
  <2> QED
    BY <1>0, <2>1 DEF TimeInv
<1>3. CASE \E s \in Sessions : Evict(s)
  BY <1>0, <1>3 DEF Evict, TimeInv
<1>5. CASE Restart
  <2>1. UNCHANGED <<now, access>> /\ \A s \in Sessions : mem'[s] = "user" => mem[s] = "user"
    BY <1>0, <1>5 DEF Restart
  <2> QED
    BY <2>1 DEF TimeInv
<1>4. CASE \/ UNCHANGED vars
           \/ \E t \in Threads : \/ SaveTest(t) \/ SaveRead(t) \/ SaveWrite(t) \/ DeleteSession(t)
                                 \/ ClearExpired(t)
  <2>1. UNCHANGED <<now, mem, access>>
    BY <1>4 DEF vars, SaveTest, SaveRead, SaveWrite, DeleteSession, ClearExpired, memory
  <2> QED
    BY <2>1 DEF TimeInv
<1> QED
  BY <1>1, <1>2, <1>3, <1>4, <1>5, StepsOfNext, Zenon

\* A step that concerns other sessions.
LEMMA FollowedStill ==
  ASSUME NEW x \in Sessions, Followed(x),
         mem'[x] = mem[x], access'[x] = access[x], x \in row' <=> x \in row,
         archived'[x] = archived[x], synced'[x] = synced[x], pulse'[x] = pulse[x],
         \A u \in Threads :
           /\ Works(u, x)' <=> Works(u, x)
           /\ Works(u, x) => /\ pc'[u] = pc[u] /\ model'[u] = model[u]
                             /\ (u \in ending' <=> u \in ending)
                             /\ (u \in found' <=> u \in found)
  PROVE  Followed(x)'
<1>1. Busy(x)' <=> Busy(x)
  BY DEF Busy, Works
<1>2. ASSUME NEW t \in Threads, Works(t, x)' PROVE Alone(t, x)'
  <2>1. Works(t, x) /\ Alone(t, x)
    BY <1>2 DEF Followed
  <2> QED
    BY <2>1 DEF Alone
<1> QED
  BY <1>1, <1>2 DEF Followed

LEMMA StartsFollowed ==
  ASSUME TypeOK, SerialInv,
         NEW t \in Threads, NEW s \in Sessions, NEW m \in {"user", "gone"}, Starts(t, s, m)
  PROVE  SerialInv'
<1>1. /\ pc \in [Threads -> {"idle", "test", "read", "write", "delete"}]
      /\ req \in [Threads -> Sessions \cup {None}]
      /\ mem \in [Sessions -> {"new", "user", "lost", "gone"}]
      /\ access \in [Sessions -> 0..MaxTime] /\ synced \in [Sessions -> 0..MaxTime]
      /\ pulse \in [Sessions -> 0..MaxTime]
  BY DEF TypeOK
<1>2. /\ mem[s] \in {"new", "user", "lost"} /\ mem' = [mem EXCEPT ![s] = m]
      /\ mem[s] = "lost" => s \in row
      /\ pc[t] = "idle" /\ pc' = [pc EXCEPT ![t] = "test"]
      /\ req' = [req EXCEPT ![t] = s]
      /\ ending' = IF m = "gone" THEN ending \cup {t} ELSE ending \ {t}
      /\ overlaps' = IF Busy(s) THEN overlaps \cup {s} ELSE overlaps
      /\ UNCHANGED <<row, pulse, archived, found, model>>
  BY DEF Starts, Update, Goto, dao
<1>3. /\ access' = access \/ access' = [access EXCEPT ![s] = now]
      /\ synced' = synced \/ synced' = [synced EXCEPT ![s] = 0]
  BY DEF Starts
<1> SUFFICES ASSUME NEW x \in Sessions, x \notin overlaps' PROVE Followed(x)'
  BY DEF SerialInv
<1>4. Followed(x)
  BY <1>2 DEF SerialInv
<1>5. CASE x # s
  <2>1. \A u \in Threads :
          /\ Works(u, x)' <=> Works(u, x)
          /\ Works(u, x) => /\ pc'[u] = pc[u] /\ model'[u] = model[u]
                            /\ (u \in ending' <=> u \in ending)
                            /\ (u \in found' <=> u \in found)
    BY <1>1, <1>2, <1>5 DEF Works
  <2>2. mem'[x] = mem[x] /\ access'[x] = access[x] /\ synced'[x] = synced[x]
    BY <1>1, <1>2, <1>3, <1>5
  <2> QED
    BY <1>2, <1>4, <2>1, <2>2, FollowedStill
<1>6. CASE x = s
  <2>1. ~Busy(s)
    BY <1>2, <1>6
  <2>2. Works(t, s)' /\ \A u \in Threads : Works(u, s)' => u = t
    BY <1>1, <1>2, <2>1 DEF Works, Busy
  <2>3. Busy(s)'
    BY <2>2 DEF Busy, Works
  <2>4. Alone(t, s)'
    BY <1>1, <1>2, <2>2 DEF Alone
  <2>5. archived[s] = 0
    BY <1>2, <1>4, <1>6 DEF Followed
  <2>6. synced'[s] <= pulse'[s]
    <3>1. synced[s] <= pulse[s] /\ pulse[s] \in Nat
      BY <1>1, <1>4, <1>6 DEF Followed
    <3> QED
      BY <1>1, <1>2, <1>3, <3>1
  <2> QED
    BY <1>2, <1>6, <2>2, <2>3, <2>4, <2>5, <2>6 DEF Followed
<1> QED
  BY <1>5, <1>6

\* A step of a save leaves the other sessions as they are.
LEMMA OthersFollowed ==
  ASSUME TypeOK, RequestInv, NEW t \in Threads,
         SaveTest(t) \/ SaveRead(t) \/ SaveWrite(t) \/ DeleteSession(t),
         NEW x \in Sessions, x # req[t], Followed(x)
  PROVE  Followed(x)'
<1>1. /\ pc \in [Threads -> {"idle", "test", "read", "write", "delete"}]
      /\ model \in [Threads -> 0..MaxTime]
      /\ synced \in [Sessions -> 0..MaxTime] /\ pulse \in [Sessions -> 0..MaxTime]
      /\ archived \in [Sessions -> Nat]
      /\ pc[t] # "idle" /\ req[t] \in Sessions
      /\ UNCHANGED <<mem, access, req, ending>>
  BY DEF TypeOK, RequestInv, SaveTest, SaveRead, SaveWrite, DeleteSession, memory, locals
<1>2. \A u \in Threads : u # t => /\ pc'[u] = pc[u] /\ model'[u] = model[u]
                                  /\ (u \in found' <=> u \in found)
  <2>1. \A u \in Threads : u # t => pc'[u] = pc[u]
    BY <1>1 DEF SaveTest, SaveRead, SaveWrite, DeleteSession, Saved, Goto
  <2>2. \A u \in Threads : u # t => model'[u] = model[u] /\ (u \in found' <=> u \in found)
    BY <1>1 DEF SaveTest, SaveRead, SaveWrite, DeleteSession, locals
  <2> QED
    BY <2>1, <2>2
<1>3. /\ (x \in row' <=> x \in row) /\ archived'[x] = archived[x]
      /\ synced'[x] = synced[x] /\ pulse'[x] = pulse[x]
  <2>1. CASE SaveTest(t) \/ SaveRead(t)
    BY <2>1 DEF SaveTest, SaveRead, memory, dao
  <2>2. CASE SaveWrite(t)
    BY <1>1, <2>2 DEF SaveWrite
  <2>3. CASE DeleteSession(t)
    BY <1>1, <2>3 DEF DeleteSession, memory
  <2> QED
    BY <2>1, <2>2, <2>3
<1>4. ~Works(t, x) /\ \A u \in Threads : Works(u, x)' <=> Works(u, x)
  BY <1>1, <1>2 DEF Works
<1> QED
  BY <1>1, <1>2, <1>3, <1>4, FollowedStill

\* The end of a save: the thread that was alone goes on to the deletion of a
\* session that is gone, or leaves a row that is recent enough.
LEMMA SavedFollowed ==
  ASSUME TypeOK, NEW t \in Threads, NEW s \in Sessions, Works(t, s), Alone(t, s), Saved(t),
         UNCHANGED <<req, ending, mem>>, mem[s] \in {"user", "gone"},
         archived'[s] = 0, s \in row', synced'[s] <= pulse'[s],
         access'[s] <= pulse'[s] + SyncInterval
  PROVE  Followed(s)'
<1>1. pc \in [Threads -> {"idle", "test", "read", "write", "delete"}]
  BY DEF TypeOK
<1>2. pc' = [pc EXCEPT ![t] = IF t \in ending THEN "delete" ELSE "idle"] /\ req[t] = s
  BY DEF Saved, Goto, Works
<1>3. \A u \in Threads : Works(u, s)' => u = t /\ t \in ending
  BY <1>1, <1>2 DEF Works, Alone
<1>4. ASSUME NEW u \in Threads, Works(u, s)' PROVE Alone(u, s)'
  <2>1. u = t /\ t \in ending
    BY <1>3, <1>4
  <2>2. pc'[t] = "delete"
    BY <1>1, <1>2, <2>1
  <2> QED
    BY <1>3, <2>1, <2>2 DEF Alone
<1>5. mem'[s] = "gone" => Busy(s)'
  BY <1>1, <1>2 DEF Alone, Busy
<1> QED
  BY <1>4, <1>5 DEF Followed

LEMMA SaveFollowed ==
  ASSUME TypeOK, RequestInv, RecordInv, TimeInv, SerialInv, NEW t \in Threads,
         SaveTest(t) \/ SaveRead(t) \/ SaveWrite(t) \/ DeleteSession(t)
  PROVE  SerialInv'
<1> SUFFICES ASSUME NEW x \in Sessions, x \notin overlaps' PROVE Followed(x)'
  BY DEF SerialInv
<1>1. overlaps' = overlaps
  BY DEF SaveTest, SaveRead, SaveWrite, DeleteSession
<1>2. Followed(x)
  BY <1>1 DEF SerialInv
<1>3. CASE x # req[t]
  BY <1>2, <1>3, OthersFollowed
<1>4. CASE x = req[t]
  <2>1. /\ pc \in [Threads -> {"idle", "test", "read", "write", "delete"}]
        /\ model \in [Threads -> 0..MaxTime]
        /\ pc[t] # "idle" /\ mem[x] \in {"user", "gone"}
        /\ pc[t] = "delete" => t \in ending
        /\ t \in ending => mem[x] = "gone"
        /\ UNCHANGED <<mem, access, req, ending>>
    BY <1>4 DEF TypeOK, RequestInv, SaveTest, SaveRead, SaveWrite, DeleteSession, memory, locals
  <2>2. /\ now \in Nat /\ access[x] \in Nat /\ synced[x] \in Nat /\ pulse[x] \in Nat
        /\ SyncInterval \in Nat /\ access[x] <= now
    <3>1. now \in 0..MaxTime /\ access[x] \in 0..MaxTime /\ synced[x] \in 0..MaxTime
          /\ pulse[x] \in 0..MaxTime
      BY DEF TypeOK
    <3> QED
      BY <3>1, SessionStoreAssumption DEF TimeInv
  <2>3. Works(t, x) /\ Alone(t, x) /\ Busy(x) /\ archived[x] = 0 /\ synced[x] <= pulse[x]
    BY <1>2, <1>4, <2>1 DEF Works, Busy, Followed
  <2>4. CASE SaveTest(t) /\ (x \in changed \/ now - synced[x] > SyncInterval)
    <3>1. /\ UNCHANGED <<row, archived, synced, pulse>>
          /\ pc' = [pc EXCEPT ![t] = "read"] /\ model' = [model EXCEPT ![t] = access[x]]
      BY <1>4, <2>4 DEF SaveTest, Goto, memory, dao
    <3>2. Works(t, x)' /\ \A u \in Threads : Works(u, x)' => u = t
      BY <2>1, <2>3, <3>1 DEF Works, Alone
    <3>3. Alone(t, x)'
      BY <2>1, <2>3, <3>1, <3>2 DEF Alone
    <3>4. Busy(x)'
      BY <3>2 DEF Works, Busy
    <3> QED
      BY <2>3, <3>1, <3>2, <3>3, <3>4 DEF Followed
  <2>5. CASE SaveTest(t) /\ ~(x \in changed \/ now - synced[x] > SyncInterval)
    <3>1. UNCHANGED <<row, archived, synced, pulse>> /\ Saved(t)
      BY <1>4, <2>5 DEF SaveTest, memory, dao
    <3>2. x \in row
      BY <2>1, <2>3, <2>5 DEF RecordInv, Recorded
    <3>3. access[x] <= pulse[x] + SyncInterval
      BY <2>2, <2>3, <2>5
    <3> QED
      BY <2>1, <2>3, <3>1, <3>2, <3>3, SavedFollowed
  <2>6. CASE SaveRead(t)
    <3>1. /\ UNCHANGED <<row, archived, synced, pulse, model>>
          /\ pc[t] = "read" /\ pc' = [pc EXCEPT ![t] = "write"]
          /\ found' = IF x \in row THEN found \cup {t} ELSE found \ {t}
      BY <1>4, <2>6 DEF SaveRead, Goto, memory, dao
    <3>2. Works(t, x)' /\ \A u \in Threads : Works(u, x)' => u = t
      BY <2>1, <2>3, <3>1 DEF Works, Alone
    <3>3. Alone(t, x)'
      BY <2>1, <2>3, <3>1, <3>2 DEF Alone
    <3>4. Busy(x)'
      BY <3>2 DEF Works, Busy
    <3> QED
      BY <2>3, <3>1, <3>2, <3>3, <3>4 DEF Followed
  <2>7. CASE SaveWrite(t)
    <3>1. pc[t] = "write" /\ model[t] = access[x] /\ (t \in found <=> x \in row)
      BY <2>3, <2>7 DEF SaveWrite, Alone
    <3>2. /\ x \in row' /\ archived' = archived /\ Saved(t)
          /\ pulse' = [pulse EXCEPT ![x] = model[t]] /\ synced' = [synced EXCEPT ![x] = access[x]]
      BY <1>4, <2>7, <3>1 DEF SaveWrite
    <3>3. pulse'[x] = access[x] /\ synced'[x] = access[x]
      BY <3>1, <3>2 DEF TypeOK
    <3>4. access'[x] <= pulse'[x] + SyncInterval /\ synced'[x] <= pulse'[x] /\ archived'[x] = 0
      BY <2>1, <2>2, <2>3, <3>2, <3>3
    <3> QED
      BY <2>1, <2>3, <3>2, <3>4, SavedFollowed
  <2>8. CASE DeleteSession(t)
    <3>1. /\ row' = row \ {x} /\ pc[t] = "delete" /\ pc' = [pc EXCEPT ![t] = "idle"]
          /\ archived' = [archived EXCEPT ![x] = @ + (IF x \in row THEN 1 ELSE 0)]
          /\ UNCHANGED <<synced, pulse>>
      BY <1>4, <2>8 DEF DeleteSession, Goto, memory
    <3>2. archived'[x] \in {0, 1}
      BY <2>3, <3>1 DEF TypeOK
    <3>3. ~Busy(x)' /\ \A u \in Threads : ~Works(u, x)'
      BY <2>1, <2>3, <3>1 DEF Busy, Works, Alone
    <3> QED
      BY <2>1, <2>3, <3>1, <3>2, <3>3 DEF Followed
  <2> QED
    BY <2>4, <2>5, <2>6, <2>7, <2>8
<1> QED
  BY <1>3, <1>4

\* clearExpiredSessions takes no row of a session in memory, whose requests do not
\* overlap: the row is younger than a day.
LEMMA ClearFollowed ==
  ASSUME TypeOK, TimeInv, SerialInv, RequestInv, NEW t \in Threads, ClearExpired(t)
  PROVE  SerialInv'
<1> DEFINE old == {s \in row : pulse[s] + Retention <= now}
<1>1. /\ row' = row \ old /\ overlaps' = overlaps \cup {s \in old : Busy(s)}
      /\ archived' = [s \in Sessions |-> archived[s] + (IF s \in old THEN 1 ELSE 0)]
      /\ UNCHANGED <<mem, access, synced, pulse, pc, req, ending, found, model>>
  BY DEF ClearExpired, memory, locals
<1> SUFFICES ASSUME NEW x \in Sessions, x \notin overlaps' PROVE Followed(x)'
  BY DEF SerialInv
<1>2. Followed(x)
  BY <1>1 DEF SerialInv
<1>3. \A u : Works(u, x)' <=> Works(u, x)
  BY <1>1 DEF Works
<1>4. CASE x \notin old
  <2>1. archived'[x] = archived[x] /\ (x \in row' <=> x \in row)
    BY <1>1, <1>4 DEF TypeOK
  <2> QED
    BY <1>1, <1>2, <1>3, <2>1, FollowedStill
<1>5. CASE x \in old
  <2>1. x \in row /\ pulse[x] + Retention <= now /\ ~Busy(x)
    BY <1>1, <1>5
  <2>2. archived[x] = 0 /\ mem[x] \in {"user", "lost"}
    BY <1>2, <2>1 DEF Followed
  <2>3. mem[x] # "user"
    <3>1. now \in 0..MaxTime /\ access[x] \in 0..MaxTime /\ pulse[x] \in 0..MaxTime
      BY DEF TypeOK
    <3>2. mem[x] = "user" => /\ access[x] <= pulse[x] + SyncInterval
                             /\ now <= access[x] + Timeout + Validation
      BY <1>2, <2>1 DEF Followed, TimeInv
    <3> QED
      BY <2>1, <3>1, <3>2, SessionStoreAssumption
  <2>4. archived'[x] = 1 /\ x \notin row'
    BY <1>1, <1>5, <2>2
  <2>5. ~Busy(x)' /\ \A u \in Threads : ~Works(u, x)'
    BY <1>3, <2>1 DEF Busy, Works
  <2> QED
    BY <1>1, <1>2, <2>2, <2>3, <2>4, <2>5 DEF Followed
<1> QED
  BY <1>4, <1>5

LEMMA OtherFollowed ==
  ASSUME TypeOK, SerialInv, UNCHANGED vars \/ Tick \/ \E s \in Sessions : Evict(s)
  PROVE  SerialInv'
<1>1. UNCHANGED <<access, changed, synced, row, pulse, archived, pc, req, ending, found, model, overlaps>>
  BY DEF vars, Tick, Evict, memory, dao, locals
<1> SUFFICES ASSUME NEW x \in Sessions, x \notin overlaps' PROVE Followed(x)'
  BY DEF SerialInv
<1>2. Followed(x)
  BY <1>1 DEF SerialInv
<1>3. \A u : Works(u, x)' <=> Works(u, x)
  BY <1>1 DEF Works
<1>4. CASE mem'[x] = mem[x]
  BY <1>1, <1>2, <1>3, <1>4, FollowedStill
<1>5. CASE mem'[x] # mem[x]
  <2>1. mem[x] = "user" /\ mem'[x] = "lost" /\ ~Busy(x)
    BY <1>5 DEF vars, Tick, Evict, memory, TypeOK
  <2>2. ~Busy(x)' /\ \A u \in Threads : ~Works(u, x)'
    BY <1>3, <2>1 DEF Busy, Works
  <2> QED
    BY <1>1, <1>2, <2>1, <2>2 DEF Followed
<1> QED
  BY <1>4, <1>5

LEMMA RestartFollowed ==
  ASSUME TypeOK, SerialInv, Restart
  PROVE  SerialInv'
<1> SUFFICES ASSUME NEW x \in Sessions, x \notin overlaps' PROVE Followed(x)'
  BY DEF SerialInv
<1>1. Followed(x)
  BY RestartLeaves DEF SerialInv
<1>2. /\ \A u \in Threads : ~Works(u, x)'
      /\ ~Busy(x)' /\ mem'[x] # "user" /\ mem'[x] \in {mem[x], "lost"}
      /\ UNCHANGED <<synced, row, pulse, archived>>
  BY RestartLeaves
<1>3. mem[x] = "user" \/ Busy(x) => mem'[x] = "lost"
  BY RestartLeaves
<1>4. /\ archived[x] # 0 => archived[x] = 1 /\ x \notin row /\ mem[x] \in {"lost", "gone"}
      /\ x \in row => mem[x] \in {"user", "lost"} \/ Busy(x)
      /\ synced[x] <= pulse[x]
  BY <1>1 DEF Followed
<1> QED
  BY <1>2, <1>3, <1>4 DEF Followed

LEMMA SerialInductive == Spec => [](TimeInv /\ SerialInv)
<1>1. Init => TimeInv /\ SerialInv
  <2> SUFFICES ASSUME Init PROVE TimeInv /\ SerialInv
    OBVIOUS
  <2>1. TimeInv
    BY DEF Init, TimeInv
  <2>2. ASSUME NEW s \in Sessions PROVE Followed(s)
    <3>1. \A t \in Threads : ~Works(t, s)
      BY DEF Init, Works
    <3> QED
      BY <3>1 DEF Init, Followed
  <2> QED
    BY <2>1, <2>2 DEF SerialInv
<1>2. IInv /\ TimeInv /\ SerialInv /\ [Next]_vars => TimeInv' /\ SerialInv'
  <2> SUFFICES ASSUME TypeOK, RequestInv, RecordInv, TimeInv, SerialInv, [Next]_vars
               PROVE  TimeInv' /\ SerialInv'
    BY DEF IInv
  <2>0. TimeInv'
    BY TimeKept
  <2>1. CASE \E t \in Threads, s \in Sessions, m \in {"user", "gone"} : Starts(t, s, m)
    BY <2>0, <2>1, StartsFollowed
  <2>2. CASE \E t \in Threads : SaveTest(t) \/ SaveRead(t) \/ SaveWrite(t) \/ DeleteSession(t)
    BY <2>0, <2>2, SaveFollowed
  <2>3. CASE \E t \in Threads : ClearExpired(t)
    BY <2>0, <2>3, ClearFollowed
  <2>4. CASE UNCHANGED vars \/ Tick \/ \E s \in Sessions : Evict(s)
    BY <2>0, <2>4, OtherFollowed
  <2>5. CASE Restart
    BY <2>0, <2>5, RestartFollowed
  <2> QED
    BY <2>1, <2>2, <2>3, <2>4, <2>5, StepsOfNext, Zenon
<1> QED
  BY <1>1, <1>2, Inductive, PTL DEF Spec

\* s_session holds rows of logged-in sessions only, but for sessions whose requests
\* overlap (saveSession, deleteSession).
THEOREM SerialRowsLoggedInAlways == Spec => []SerialRowsLoggedIn
<1>1. IInv /\ SerialInv => SerialRowsLoggedIn
  BY DEF IInv, TypeOK, SerialInv, Followed, SerialRowsLoggedIn
<1> QED
  BY <1>1, Inductive, SerialInductive, PTL

\* A session whose requests do not overlap is archived at most once and never has
\* a row afterwards: clearExpiredSessions takes no row of a session in memory,
\* because the timeout, the validation interval and the synchronisation interval
\* together are shorter than the day after which a row is cleared.
THEOREM ArchivedOnceAlways == Spec => []ArchivedOnce
<1>1. SerialInv => ArchivedOnce
  BY DEF SerialInv, Followed, ArchivedOnce
<1> QED
  BY <1>1, SerialInductive, PTL
===============================================================================
