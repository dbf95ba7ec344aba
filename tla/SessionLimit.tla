---------------------------- MODULE SessionLimit ----------------------------
(***************************************************************************)
(* The filter chain that limits the sessions of one account:               *)
(* LimitedSessionFilter ("limit") followed by InspectSessionFilter         *)
(* ("inspect"), for the requests of all sessions of the account.           *)
(*                                                                         *)
(* The deque of session ids lives in the limited-session cache, which      *)
(* hands out references.  ConcurrentLinkedDeque makes each call atomic,    *)
(* but contains/push, size/remove and get/put are separate calls: one      *)
(* action is one access to the shared deque, the cache or a session.       *)
(***************************************************************************)
EXTENDS Integers, Sequences, FiniteSets, SequencesExt

CONSTANTS
  Threads,      \* request threads
  Sessions,     \* session ids of the account
  Deques,       \* ConcurrentLinkedDeque objects that can be allocated
  None,         \* a missing cache entry, an unset local variable
  MaxSession,   \* maxSession: 2 in shiro.properties
  KickOutLast   \* kickOutLast: false in shiro.properties

ASSUME SessionLimitAssumption ==
  /\ None \notin Sessions \cup Deques
  /\ IsFiniteSet(Threads)
  /\ MaxSession \in Nat \ {0}
  /\ KickOutLast \in BOOLEAN

VARIABLES
  cache,      \* the account's entry of the limited-session cache
  allocated,  \* deques created so far
  deque,      \* contents of each deque, most recently pushed first
  state,      \* session -> new, live (logged in), expired (not noticed yet), dead
  kicked,     \* sessions with SESSION_OFFLINE_TYPE = KICKOUT
  pc,         \* where each thread's request is
  session,    \* the session of the request
  local,      \* local variable deque
  victim,     \* local variable kickoutSessionId
  admitted    \* history: sessions that went through the queueing step

shared == <<cache, allocated, deque, state, kicked, admitted>>
vars == <<shared, pc, session, local, victim>>

TypeOK ==
  /\ cache \in Deques \cup {None}
  /\ allocated \in SUBSET Deques
  /\ deque \in [Deques -> Seq(Sessions)]
  /\ state \in [Sessions -> {"new", "live", "expired", "dead"}]
  /\ kicked \in SUBSET Sessions
  /\ pc \in [Threads -> {"idle", "get", "put", "test", "push", "size", "remove",
                        "kick", "inspect"}]
  /\ session \in [Threads -> Sessions \cup {None}]
  /\ local \in [Threads -> Deques \cup {None}]
  /\ victim \in [Threads -> Sessions \cup {None}]
  /\ \A t \in Threads : pc[t] = "kick" => victim[t] \in Sessions
  /\ admitted \in SUBSET Sessions

Init ==
  /\ cache = None
  /\ allocated = {}
  /\ deque = [d \in Deques |-> <<>>]
  /\ state = [s \in Sessions |-> "new"]
  /\ kicked = {}
  /\ pc = [t \in Threads |-> "idle"]
  /\ session = [t \in Threads |-> None]
  /\ local = [t \in Threads |-> None]
  /\ victim = [t \in Threads |-> None]
  /\ admitted = {}

Goto(t, position) == pc' = [pc EXCEPT ![t] = position]

(***************************************************************************)
(* Life of a session.  /login and /logout are outside the filter chain.    *)
(***************************************************************************)

Login(s) ==
  /\ state[s] = "new"
  /\ state' = [state EXCEPT ![s] = "live"]
  /\ UNCHANGED <<cache, allocated, deque, kicked, admitted, pc, session, local, victim>>

Logout(s) ==
  /\ state[s] = "live"
  /\ state' = [state EXCEPT ![s] = "dead"]
  /\ UNCHANGED <<cache, allocated, deque, kicked, admitted, pc, session, local, victim>>

\* The session's timeout elapses.
Expire(s) ==
  /\ state[s] = "live"
  /\ state' = [state EXCEPT ![s] = "expired"]
  /\ UNCHANGED <<cache, allocated, deque, kicked, admitted, pc, session, local, victim>>

\* Shiro's session validation job removes an expired session.
Validate(s) ==
  /\ state[s] = "expired"
  /\ state' = [state EXCEPT ![s] = "dead"]
  /\ UNCHANGED <<cache, allocated, deque, kicked, admitted, pc, session, local, victim>>

(***************************************************************************)
(* LimitedSessionFilter.onAccessDenied                                     *)
(***************************************************************************)

\* A request of an authenticated subject enters the filter.
Begin(t, s) ==
  /\ pc[t] = "idle"
  /\ state[s] = "live"
  /\ Goto(t, "get")
  /\ session' = [session EXCEPT ![t] = s]
  /\ UNCHANGED <<shared, local, victim>>

\* deque = cache.get(username), and the test of deque == null.
DequeGet(t) ==
  /\ pc[t] = "get"
  /\ local' = [local EXCEPT ![t] = cache]
  /\ Goto(t, IF cache = None THEN "put" ELSE "test")
  /\ UNCHANGED <<shared, session, victim>>

\* deque = new ConcurrentLinkedDeque(); cache.put(username, deque): it replaces
\* a deque that another thread has put since DequeGet.
DequePut(t) ==
  /\ pc[t] = "put"
  /\ \E d \in Deques \ allocated :
       /\ allocated' = allocated \cup {d}
       /\ cache' = d
       /\ local' = [local EXCEPT ![t] = d]
  /\ Goto(t, "test")
  /\ UNCHANGED <<deque, state, kicked, admitted, session, victim>>

\* Mutant: only a kicked session is queued.
TestQueuedInverted(t) ==
  LET s == session[t] IN
  /\ pc[t] = "test"
  /\ Goto(t, IF ~Contains(deque[local[t]], s) /\ s \in kicked THEN "push" ELSE "size")
  /\ admitted' = admitted \cup {s}
  /\ UNCHANGED <<cache, allocated, deque, state, kicked, session, local, victim>>

\* Mutant: the deque is not searched for the session id.
TestNotQueued(t) ==
  /\ pc[t] = "test"
  /\ IF session[t] \notin kicked
       THEN Goto(t, "push") /\ UNCHANGED admitted
       ELSE Goto(t, "size") /\ admitted' = admitted \cup {session[t]}
  /\ UNCHANGED <<cache, allocated, deque, state, kicked, session, local, victim>>

\* !deque.contains(sessionId) && the session is not kicked
TestQueued(t) ==
  LET s == session[t] IN
  /\ pc[t] = "test"
  /\ IF ~Contains(deque[local[t]], s) /\ s \notin kicked
       THEN Goto(t, "push") /\ UNCHANGED admitted
       ELSE Goto(t, "size") /\ admitted' = admitted \cup {s}
  /\ UNCHANGED <<cache, allocated, deque, state, kicked, session, local, victim>>

\* deque.push(sessionId)
Push(t) ==
  LET s == session[t] IN
  /\ pc[t] = "push"
  /\ deque' = [deque EXCEPT ![local[t]] = <<s>> \o @]
  /\ Goto(t, "size")
  /\ admitted' = admitted \cup {s}
  /\ UNCHANGED <<cache, allocated, state, kicked, session, local, victim>>

\* Mutant: the limit is off by one.
TestSizeOffByOne(t) ==
  /\ pc[t] = "size"
  /\ Goto(t, IF Len(deque[local[t]]) > MaxSession + 1 THEN "remove" ELSE "inspect")
  /\ UNCHANGED <<shared, session, local, victim>>

\* deque.size() > maxSession
TestSize(t) ==
  /\ pc[t] = "size"
  /\ Goto(t, IF Len(deque[local[t]]) > MaxSession THEN "remove" ELSE "inspect")
  /\ UNCHANGED <<shared, session, local, victim>>

\* Mutant: peekLast() in place of removeLast().
RemovePeek(t) ==
  LET q == deque[local[t]] IN
  /\ pc[t] = "remove"
  /\ q # <<>>
  /\ victim' = [victim EXCEPT ![t] = Last(q)]
  /\ Goto(t, "kick")
  /\ UNCHANGED <<shared, session, local>>

\* Mutant: pollLast() in place of removeLast(): null for an empty deque.
RemovePoll(t) ==
  LET q == deque[local[t]] IN
  /\ pc[t] = "remove"
  /\ Goto(t, "kick")
  /\ deque' = [deque EXCEPT ![local[t]] = IF q = <<>> THEN q ELSE Front(q)]
  /\ victim' = [victim EXCEPT ![t] = IF q = <<>> THEN None ELSE Last(q)]
  /\ UNCHANGED <<cache, allocated, state, kicked, admitted, session, local>>

\* deque.removeFirst() or deque.removeLast().  The deque may have shrunk since
\* TestSize; on an empty one NoSuchElementException ends the request.
RemoveVictim(t) ==
  LET q == deque[local[t]] IN
  /\ pc[t] = "remove"
  /\ \/ /\ q = <<>>
        /\ Goto(t, "idle")
        /\ UNCHANGED <<deque, victim>>
     \/ /\ q # <<>>
        /\ Goto(t, "kick")
        /\ deque' = [deque EXCEPT ![local[t]] = IF KickOutLast THEN Tail(q) ELSE Front(q)]
        /\ victim' = [victim EXCEPT ![t] = IF KickOutLast THEN Head(q) ELSE Last(q)]
  /\ UNCHANGED <<cache, allocated, state, kicked, admitted, session, local>>

\* sessionManager.getSession(victim): a valid session gets
\* SESSION_OFFLINE_TYPE = KICKOUT; for another it throws (ignored), and one
\* found to be expired is removed.
Kick(t) ==
  LET v == victim[t] IN
  /\ pc[t] = "kick"
  /\ kicked' = IF state[v] = "live" THEN kicked \cup {v} ELSE kicked
  /\ state' = [state EXCEPT ![v] = IF @ = "expired" THEN "dead" ELSE @]
  /\ Goto(t, "size")
  /\ UNCHANGED <<cache, allocated, deque, admitted, session, local, victim>>

(***************************************************************************)
(* InspectSessionFilter                                                    *)
(***************************************************************************)

\* An expired or kicked session is logged out (onAccessDenied), a live one goes
\* on to the handler; for a dead one readSession throws.
Inspect(t) ==
  LET s == session[t] IN
  /\ pc[t] = "inspect"
  /\ state' = IF state[s] = "expired" \/ s \in kicked THEN [state EXCEPT ![s] = "dead"]
              ELSE state
  /\ Goto(t, "idle")
  /\ UNCHANGED <<cache, allocated, deque, kicked, admitted, session, local, victim>>

Step(t) ==
  \/ DequeGet(t) \/ DequePut(t)
  \/ TestQueued(t) \/ Push(t)
  \/ TestSize(t) \/ RemoveVictim(t) \/ Kick(t)
  \/ Inspect(t)

Next ==
  \/ \E s \in Sessions : Login(s) \/ Logout(s) \/ Expire(s) \/ Validate(s)
  \/ \E t \in Threads : Step(t) \/ \E s \in Sessions : Begin(t, s)

Spec == Init /\ [][Next]_vars

\* The servlet container runs every request it has started.
FairSpec == Spec /\ \A t \in Threads : WF_vars(Step(t))

(***************************************************************************)
(* Properties                                                              *)
(***************************************************************************)

\* t is in the trimming loop of deque d.
Trimming(t, d) == local[t] = d /\ pc[t] \in {"size", "remove", "kick"}

\* However the requests interleave, a deque that is over the limit has a request
\* that is still going to test its size: once the filter is quiet, no deque
\* holds more than maxSession ids (LimitedSessionFilter's while loop).
LimitRestored ==
  \A d \in Deques : Len(deque[d]) > MaxSession => \E t \in Threads : Trimming(t, d)

\* No session slips through the limit: one that went through the queueing step
\* and is live is in some deque, or kicked, or about to be kicked.
NoneSlips ==
  \A s \in admitted :
    \/ state[s] # "live"
    \/ s \in kicked
    \/ \E d \in allocated : Contains(deque[d], s)
    \/ \E t \in Threads : pc[t] = "kick" /\ victim[t] = s

\* Every request leaves the filter chain: the trimming loop ends.
RequestsFinish == \A t \in Threads : pc[t] # "idle" ~> pc[t] = "idle"

Occurrences(d, s) == {i \in DOMAIN deque[d] : deque[d][i] = s}

\* "If the queue does not hold this sessionId ... put it in the queue": contains
\* and push are separate, so overlapping requests queue an id more than once, but
\* at most once for each thread, however long the session is used; once if
\* requests do not overlap.
QueuedPerThread ==
  \A d \in Deques, s \in Sessions : Cardinality(Occurrences(d, s)) <= Cardinality(Threads)

Online == {s \in admitted : state[s] = "live" /\ s \notin kicked}

\* What is left of maxSession when requests overlap: with no request being
\* filtered, an account has maxSession sessions online for each deque it was ever
\* given.  Only first requests that overlap allocate more than one deque, so
\* without them the limit is exact.
OnlineWithinDeques ==
  (\A t \in Threads : pc[t] = "idle")
    => Cardinality(Online) <= MaxSession * Cardinality(allocated)
=============================================================================
