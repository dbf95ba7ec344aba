---------------------------- MODULE SessionStore ----------------------------
(***************************************************************************)
(* Sessions in memory and in the database: UserSessionDAO on top of        *)
(* Shiro's CachingSessionDAO, ShiroServiceBean.saveSession/getSession and  *)
(* SessionServiceImpl.                                                     *)
(*                                                                         *)
(* A session lives in the active-session cache.  Its row in s_session is   *)
(* written now and then, moved to s_session_his when it ends, and used to  *)
(* rebuild a session that the cache has lost.  A SessionServiceImpl call   *)
(* is a transaction; updateSession reads before it writes.                 *)
(***************************************************************************)
EXTENDS Naturals

CONSTANTS
  Threads, Sessions,
  None,
  Timeout,       \* globalSessionTimeout: 5 h
  Validation,    \* sessionValidationInterval: 5 h
  SyncInterval,  \* MAX_SYNC_INTERVAL: 5 min
  Retention,     \* age at which getSession clears a row: 1 day
  MaxTime        \* bound on the clock

\* The configured times: 5 h + 5 h + 5 min is less than a day.
ASSUME SessionStoreAssumption ==
  /\ None \notin Sessions
  /\ Timeout \in Nat /\ Validation \in Nat /\ SyncInterval \in Nat
  /\ Retention \in Nat /\ MaxTime \in Nat \ {0}
  /\ Timeout + Validation + SyncInterval < Retention

VARIABLES
  now,       \* clock
  mem,       \* session -> new, user (logged in), lost (evicted or restart), gone
  access,    \* lastAccessTime
  changed,   \* sessions with attributeChanged
  synced,    \* attribute lastSyncTime
  row,       \* sessions with a row in s_session
  pulse,     \* column pulse_time
  archived,  \* number of rows of the session in s_session_his
  pc,        \* where each thread is
  req,       \* the session it works on
  ending,    \* threads that end their session (logout or expiry)
  found,     \* threads whose updateSession found the row
  model,     \* pulse_time in the value passed to updateSession
  overlaps   \* history: sessions two threads have worked on at the same time

dao == <<row, pulse, archived>>
memory == <<mem, access, changed, synced>>
locals == <<req, ending, found, model>>
vars == <<now, memory, dao, pc, locals, overlaps>>

TypeOK ==
  /\ now \in 0..MaxTime
  /\ mem \in [Sessions -> {"new", "user", "lost", "gone"}]
  /\ access \in [Sessions -> 0..MaxTime]
  /\ changed \in SUBSET Sessions
  /\ synced \in [Sessions -> 0..MaxTime]
  /\ row \in SUBSET Sessions
  /\ pulse \in [Sessions -> 0..MaxTime]
  /\ archived \in [Sessions -> Nat]
  /\ pc \in [Threads -> {"idle", "test", "read", "write", "delete"}]
  /\ req \in [Threads -> Sessions \cup {None}]
  /\ ending \in SUBSET Threads
  /\ found \in SUBSET Threads
  /\ model \in [Threads -> 0..MaxTime]
  /\ overlaps \in SUBSET Sessions

Init ==
  /\ now = 1
  /\ mem = [s \in Sessions |-> "new"]
  /\ access = [s \in Sessions |-> 0]
  /\ changed = {}
  /\ synced = [s \in Sessions |-> 0]
  /\ row = {}
  /\ pulse = [s \in Sessions |-> 0]
  /\ archived = [s \in Sessions |-> 0]
  /\ pc = [t \in Threads |-> "idle"]
  /\ req = [t \in Threads |-> None]
  /\ ending = {}
  /\ found = {}
  /\ model = [t \in Threads |-> 0]
  /\ overlaps = {}

Goto(t, position) == pc' = [pc EXCEPT ![t] = position]
Busy(s) == \E t \in Threads : pc[t] # "idle" /\ req[t] = s
Expired(s) == now - access[s] > Timeout

\* Time passes between requests, which are short, and the validation job ends
\* an expired session no later than Validation after it expired.
Tick ==
  /\ now < MaxTime
  /\ \A t \in Threads : pc[t] = "idle"
  /\ \A s \in Sessions : mem[s] = "user" => now - access[s] < Timeout + Validation
  /\ now' = now + 1
  /\ UNCHANGED <<memory, dao, pc, locals, overlaps>>

\* Thread t starts a sessionDAO.update of s that other code brought about.
Update(t, s, end) ==
  /\ pc[t] = "idle"
  /\ Goto(t, "test")
  /\ req' = [req EXCEPT ![t] = s]
  /\ ending' = IF end THEN ending \cup {t} ELSE ending \ {t}
  /\ overlaps' = IF Busy(s) THEN overlaps \cup {s} ELSE overlaps
  /\ UNCHANGED <<now, dao, found, model>>

(***************************************************************************)
(* What makes the session manager call the DAO                             *)
(***************************************************************************)

\* doCreate, then IndexController.login: initSession writes STAFF_ID last.
Login(t, s) ==
  /\ mem[s] = "new"
  /\ Update(t, s, FALSE)
  /\ mem' = [mem EXCEPT ![s] = "user"]
  /\ access' = [access EXCEPT ![s] = now]
  /\ changed' = changed \cup {s}
  /\ UNCHANGED synced

\* A request touches its session.
Touch(t, s) ==
  /\ mem[s] = "user" /\ ~Expired(s)
  /\ Update(t, s, FALSE)
  /\ access' = [access EXCEPT ![s] = now]
  /\ UNCHANGED <<mem, changed, synced>>

\* Logout stops the session; it is updated once more and then deleted.
Logout(t, s) ==
  /\ mem[s] = "user" /\ ~Expired(s)
  /\ Update(t, s, TRUE)
  /\ mem' = [mem EXCEPT ![s] = "gone"]
  /\ access' = [access EXCEPT ![s] = now]
  /\ UNCHANGED <<changed, synced>>

\* A request or the validation job finds the session expired.
Expire(t, s) ==
  /\ mem[s] = "user" /\ Expired(s)
  /\ Update(t, s, TRUE)
  /\ mem' = [mem EXCEPT ![s] = "gone"]
  /\ UNCHANGED <<access, changed, synced>>

\* The cache drops the session.  It is full and drops the one least recently used,
\* which is not one that a request is working on.
Evict(s) ==
  /\ mem[s] = "user" /\ ~Busy(s)
  /\ mem' = [mem EXCEPT ![s] = "lost"]
  /\ UNCHANGED <<now, access, changed, synced, dao, pc, locals, overlaps>>

\* The server restarts: requests end wherever they are, and all sessions in memory
\* are lost, also one that was ending and not deleted yet.
Restart ==
  /\ pc' = [t \in Threads |-> "idle"]
  /\ mem' = [s \in Sessions |-> IF mem[s] = "user" \/ Busy(s) THEN "lost" ELSE mem[s]]
  /\ UNCHANGED <<now, access, changed, synced, dao, locals, overlaps>>

\* doReadSession misses the cache and getSession finds the row: a new session
\* without lastSyncTime, accessed now.
Restore(t, s) ==
  /\ mem[s] = "lost" /\ s \in row
  /\ Update(t, s, FALSE)
  /\ mem' = [mem EXCEPT ![s] = "user"]
  /\ access' = [access EXCEPT ![s] = now]
  /\ changed' = changed \ {s}
  /\ synced' = [synced EXCEPT ![s] = 0]

\* Mutant: rows are cleared whatever their age.
ClearExpiredAll(t) ==
  /\ pc[t] = "idle"
  /\ row # {}
  /\ row' = {}
  /\ archived' = [s \in Sessions |-> archived[s] + (IF s \in row THEN 1 ELSE 0)]
  /\ overlaps' = overlaps \cup {s \in row : Busy(s)}
  /\ UNCHANGED <<now, memory, pulse, pc, locals>>

\* A request with an id that has no row: getSession calls clearExpiredSessions,
\* which marks the rows that are a day old OFFLINE, archives and deletes them.
\* No other row is OFFLINE: the filter sets that status on sessions that ended.
ClearExpired(t) ==
  LET old == {s \in row : pulse[s] + Retention <= now} IN
  /\ pc[t] = "idle"
  /\ old # {}
  /\ row' = row \ old
  /\ archived' = [s \in Sessions |-> archived[s] + (IF s \in old THEN 1 ELSE 0)]
  /\ overlaps' = overlaps \cup {s \in old : Busy(s)}
  /\ UNCHANGED <<now, memory, pulse, pc, locals>>

(***************************************************************************)
(* ShiroServiceBean.saveSession and deleteSession                          *)
(***************************************************************************)

\* After the save an ending session is deleted, also when the save has thrown.
Saved(t) == Goto(t, IF t \in ending THEN "delete" ELSE "idle")

\* isAttributeChanged() || now - lastSyncTime > MAX_SYNC_INTERVAL, and toModel.
SaveTest(t) ==
  LET s == req[t] IN
  /\ pc[t] = "test"
  /\ IF s \in changed \/ now - synced[s] > SyncInterval
       THEN Goto(t, "read") /\ model' = [model EXCEPT ![t] = access[s]]
       ELSE Saved(t) /\ UNCHANGED model
  /\ UNCHANGED <<now, memory, dao, req, ending, found, overlaps>>

\* updateSession: getSession(id) == null
SaveRead(t) ==
  /\ pc[t] = "read"
  /\ found' = IF req[t] \in row THEN found \cup {t} ELSE found \ {t}
  /\ Goto(t, "write")
  /\ UNCHANGED <<now, memory, dao, req, ending, model, overlaps>>

\* insertSession or updateSession; an insert of a row that is there by now
\* fails, an update of one that is gone does nothing.
SaveWrite(t) ==
  LET s == req[t]
      failed == t \notin found /\ s \in row IN
  /\ pc[t] = "write"
  /\ row' = IF t \in found THEN row ELSE row \cup {s}
  /\ pulse' = IF s \in row' /\ ~failed THEN [pulse EXCEPT ![s] = model[t]] ELSE pulse
  /\ synced' = IF failed THEN synced ELSE [synced EXCEPT ![s] = access[s]]
  /\ changed' = IF failed THEN changed ELSE changed \ {s}
  /\ Saved(t)
  /\ UNCHANGED <<now, mem, access, archived, locals, overlaps>>

\* Mutant: the row is archived and not deleted.
DeleteSessionKeep(t) ==
  /\ pc[t] = "delete"
  /\ archived' = [archived EXCEPT ![req[t]] = @ + (IF req[t] \in row THEN 1 ELSE 0)]
  /\ Goto(t, "idle")
  /\ UNCHANGED <<now, memory, row, pulse, locals, overlaps>>

\* Mutant: the row is deleted and not archived.
DeleteSessionOnly(t) ==
  /\ pc[t] = "delete"
  /\ row' = row \ {req[t]}
  /\ Goto(t, "idle")
  /\ UNCHANGED <<now, memory, archived, pulse, locals, overlaps>>

\* deleteSession: updateSession, archiveSession and deleteSession of the row.
DeleteSession(t) ==
  /\ pc[t] = "delete"
  /\ archived' = [archived EXCEPT ![req[t]] = @ + (IF req[t] \in row THEN 1 ELSE 0)]
  /\ row' = row \ {req[t]}
  /\ Goto(t, "idle")
  /\ UNCHANGED <<now, memory, pulse, locals, overlaps>>

Step(t) == SaveTest(t) \/ SaveRead(t) \/ SaveWrite(t) \/ DeleteSession(t)

Next ==
  \/ Tick \/ Restart
  \/ \E s \in Sessions : Evict(s)
  \/ \E t \in Threads : \/ Step(t) \/ ClearExpired(t)
                        \/ \E s \in Sessions : \/ Login(t, s) \/ Touch(t, s) \/ Logout(t, s)
                                               \/ Expire(t, s) \/ Restore(t, s)

Spec == Init /\ [][Next]_vars

(***************************************************************************)
(* Properties                                                              *)
(***************************************************************************)

\* "Only a session that is logged in is synchronised": s_session holds rows of
\* logged-in sessions only (saveSession, deleteSession), but for sessions whose
\* requests overlap: updateSession inserts the row that a logout has just deleted.
SerialRowsLoggedIn ==
  \A s \in row \ overlaps : mem[s] \in {"user", "lost"} \/ Busy(s)

\* A session whose requests do not overlap is archived at most once, and never
\* while it still has a row: a row that clearExpiredSessions takes away does not
\* come back (saveSession inserts a missing row), because a session ends long
\* before its row is a day old.
ArchivedOnce ==
  \A s \in Sessions \ overlaps : archived[s] <= 1 /\ (archived[s] = 1 => s \notin row)

\* Every session that ended is in the history, however its requests overlap
\* (deleteSession, clearExpiredSessions).  One that was ending when the server
\* stopped has not ended: its row brings it back.
EndedArchived == \A s \in Sessions : mem[s] = "gone" /\ ~Busy(s) => archived[s] >= 1
=============================================================================
