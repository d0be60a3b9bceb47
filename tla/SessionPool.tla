----------------------------- MODULE SessionPool -----------------------------
(***************************************************************************)
(* The pool of per-user sessions (session/session.go): Get finds or makes  *)
(* the entry of the user, initialises it once, marks it used and now and   *)
(* then removes the sessions that have been idle for too long.             *)
(*                                                                         *)
(* There is no lock.  The entries are in a sync.Map, an entry is           *)
(* initialised in its sync.Once, and the times are atomic integers; each   *)
(* step below is one of those operations.  An entry is a number, in the    *)
(* order in which the entries reach the map, and holds at most one         *)
(* session.  A request whose token names no user is rejected before it     *)
(* touches the pool, and is left out.                                      *)
(***************************************************************************)
EXTENDS Integers, Sequences, FiniteSets

CONSTANTS
  Getter,    \* goroutines that serve requests
  User,      \* the users that the tokens name
  Timeout,   \* poolManager.timeout; 0 is no expiry
  MaxCalls,  \* bound: calls by each goroutine
  MaxTime,   \* bound: the clock runs for so long
  Nobody     \* no user

ASSUME SessionPoolAssumption ==
  /\ Timeout \in Nat /\ MaxCalls \in Nat /\ MaxTime \in Nat
  /\ Nobody \notin User

VARIABLES
  sessions,     \* the sync.Map: [User -> entry], 0 if absent
  entries,      \* the entries made so far: a sequence of [user, state, lastUsed]
  lastCleanup,  \* atomic time of the last cleanup
  now,          \* the clock
  serial,       \* the requests happen to come one after the other; never changes
  pc,           \* [Getter -> label]
  ent,          \* [Getter -> entry], the entry of the call
  stamp,        \* [Getter -> time], the call's reading of the clock
  last,         \* [Getter -> time], the call's reading of lastCleanup
  todo,         \* [Getter -> SUBSET User], keys that Range has yet to visit
  doomed,       \* [Getter -> User], the expired key about to be deleted
  calls,        \* [Getter -> 0..MaxCalls]
  returned,     \* history: the sessions that Get has returned
  cleanups      \* history: the times passed to the cleanups that ran, in order

pool    == <<sessions, entries, lastCleanup>>
locals  == <<ent, stamp, last, todo, doomed, calls, serial>>
history == <<returned, cleanups>>
vars    == <<pool, now, pc, locals, history>>

\* The clock starts long after the zero of the atomic times.
Epoch == Timeout + 1
Time  == 0..(Epoch + MaxTime)

Label == {"idle", "once", "factory", "result", "touch", "last", "cas", "range", "delete"}

\* The variables have the shape the code gives them.
TypeOK ==
  /\ sessions \in [User -> 0..Len(entries)]
  /\ entries \in Seq([user : User, state : {"fresh", "running", "ok", "failed"},
                      lastUsed : Time])
  /\ lastCleanup \in Time
  /\ now \in Time
  /\ serial \in BOOLEAN
  /\ pc \in [Getter -> Label]
  /\ ent \in [Getter -> 0..Len(entries)]
  /\ stamp \in [Getter -> Time]
  /\ last \in [Getter -> Time]
  /\ todo \in [Getter -> SUBSET User]
  /\ doomed \in [Getter -> User \cup {Nobody}]
  /\ calls \in [Getter -> 0..MaxCalls]
  /\ returned \subseteq 1..Len(entries)
  /\ cleanups \in Seq(Time)

Init ==
  /\ sessions = [u \in User |-> 0]
  /\ entries = <<>>
  /\ lastCleanup = 0
  /\ now = Epoch
  /\ serial \in BOOLEAN
  /\ pc = [g \in Getter |-> "idle"]
  /\ ent = [g \in Getter |-> 0]
  /\ stamp = [g \in Getter |-> 0]
  /\ last = [g \in Getter |-> 0]
  /\ todo = [g \in Getter |-> {}]
  /\ doomed = [g \in Getter |-> Nobody]
  /\ calls = [g \in Getter |-> 0]
  /\ returned = {}
  /\ cleanups = <<>>

GoTo(g, label) == pc' = [pc EXCEPT ![g] = label]

\* &entry{}, stored as the entry of user u.
StoreNew(u) ==
  /\ entries' = Append(entries, [user |-> u, state |-> "fresh", lastUsed |-> 0])
  /\ sessions' = [sessions EXCEPT ![u] = Len(entries) + 1]

-----------------------------------------------------------------------------
(* Get.                                                                    *)

LoadOrStore(g) ==
  /\ pc[g] = "idle"
  /\ calls[g] < MaxCalls
  /\ serial => \A h \in Getter : pc[h] = "idle"
  /\ calls' = [calls EXCEPT ![g] = @ + 1]
  /\ \E u \in User :
       /\ IF sessions[u] = 0 THEN StoreNew(u) ELSE UNCHANGED <<sessions, entries>>
       /\ ent' = [ent EXCEPT ![g] = sessions'[u]]
  /\ GoTo(g, "once")
  /\ UNCHANGED <<lastCleanup, now, stamp, last, todo, doomed, serial, history>>

\* The first caller runs the factory; the others wait until it has finished.
OnceBegin(g) ==
  /\ pc[g] = "once"
  /\ entries[ent[g]].state = "fresh"
  /\ entries' = [entries EXCEPT ![ent[g]].state = "running"]
  /\ GoTo(g, "factory")
  /\ UNCHANGED <<sessions, lastCleanup, now, locals, history>>

Factory(g) ==
  /\ pc[g] = "factory"
  /\ \E state \in {"ok", "failed"} : entries' = [entries EXCEPT ![ent[g]].state = state]
  /\ GoTo(g, "result")
  /\ UNCHANGED <<sessions, lastCleanup, now, locals, history>>

OnceDone(g) ==
  /\ pc[g] = "once"
  /\ entries[ent[g]].state \in {"ok", "failed"}
  /\ GoTo(g, "result")
  /\ UNCHANGED <<pool, now, locals, history>>

\* The call's variables go out of scope.
Leave(g) ==
  /\ ent' = [ent EXCEPT ![g] = 0]
  /\ stamp' = [stamp EXCEPT ![g] = 0]
  /\ last' = [last EXCEPT ![g] = 0]
  /\ GoTo(g, "idle")

\* The key of the call is the user of its entry.
UserOf(g) == entries[ent[g]].user

\* (mutant of ReplaceFailed: the fresh entry is stored unconditionally)
ReplaceAny(g) == StoreNew(UserOf(g))

\* CompareAndSwap: a fresh entry in the place of the one that failed.
ReplaceFailed(g) ==
  IF sessions[UserOf(g)] = ent[g] THEN StoreNew(UserOf(g)) ELSE UNCHANGED <<sessions, entries>>

\* (mutant of Fail: the caller tries again on the failed entry)
FailRetry(g) ==
  /\ pc[g] = "result"
  /\ entries[ent[g]].state = "failed"
  /\ GoTo(g, "once")
  /\ UNCHANGED <<pool, now, locals, history>>

Fail(g) ==
  /\ pc[g] = "result"
  /\ entries[ent[g]].state = "failed"
  /\ ReplaceFailed(g)
  /\ Leave(g)
  /\ UNCHANGED <<lastCleanup, now, todo, doomed, calls, serial, history>>

ReadClock(g) ==
  /\ pc[g] = "result"
  /\ entries[ent[g]].state = "ok"
  /\ stamp' = [stamp EXCEPT ![g] = now]
  /\ GoTo(g, "touch")
  /\ UNCHANGED <<pool, now, ent, last, todo, doomed, calls, serial, history>>

Return(g) ==
  /\ returned' = returned \cup {ent[g]}
  /\ Leave(g)

Touch(g) ==
  /\ pc[g] = "touch"
  /\ entries' = [entries EXCEPT ![ent[g]].lastUsed = stamp[g]]
  /\ IF Timeout = 0
       THEN Return(g)
       ELSE GoTo(g, "last") /\ UNCHANGED <<ent, stamp, last, returned>>
  /\ UNCHANGED <<sessions, lastCleanup, now, todo, doomed, calls, serial, cleanups>>

-----------------------------------------------------------------------------
(* maybeCleanup.                                                           *)

LoadLast(g) ==
  /\ pc[g] = "last"
  /\ IF stamp[g] - lastCleanup < Timeout
       THEN Return(g)
       ELSE /\ last' = [last EXCEPT ![g] = lastCleanup]
            /\ GoTo(g, "cas")
            /\ UNCHANGED <<ent, stamp, returned>>
  /\ UNCHANGED <<pool, now, todo, doomed, calls, serial, cleanups>>

\* (mutant of Claims: lastCleanup is stored without the comparison)
ClaimsAlways(g) == TRUE

Claims(g) == lastCleanup = last[g]

CasCleanup(g) ==
  /\ pc[g] = "cas"
  /\ IF Claims(g)
       THEN /\ lastCleanup' = stamp[g]
            /\ cleanups' = Append(cleanups, stamp[g])
            /\ todo' = [todo EXCEPT ![g] = User]
            /\ GoTo(g, "range")
            /\ UNCHANGED <<ent, stamp, last, returned>>
       ELSE /\ Return(g)
            /\ UNCHANGED <<lastCleanup, cleanups, todo>>
  /\ UNCHANGED <<sessions, entries, now, doomed, calls, serial>>


\* (mutant of Expired: never due)
ExpiredTwice(e, time) == entries[e].state = "ok" /\ time - entries[e].lastUsed > 2 * Timeout

\* ent.session # nil, read without synchronising with the once, and idle too long.
Expired(e, time) == entries[e].state = "ok" /\ time - entries[e].lastUsed > Timeout

\* Range has the entry that the key has when it visits it, if it has any.
Visit(g) ==
  /\ pc[g] = "range"
  /\ \E u \in todo[g] :
       LET due == sessions[u] # 0 /\ Expired(sessions[u], stamp[g])
       IN /\ todo' = [todo EXCEPT ![g] = @ \ {u}]
          /\ doomed' = [doomed EXCEPT ![g] = IF due THEN u ELSE Nobody]
          /\ GoTo(g, IF due THEN "delete" ELSE "range")
  /\ UNCHANGED <<pool, now, ent, stamp, last, calls, serial, history>>

\* Delete removes the key, whatever entry it has by now.
Delete(g) ==
  /\ pc[g] = "delete"
  /\ sessions' = [sessions EXCEPT ![doomed[g]] = 0]
  /\ doomed' = [doomed EXCEPT ![g] = Nobody]
  /\ GoTo(g, "range")
  /\ UNCHANGED <<entries, lastCleanup, now, ent, stamp, last, todo, calls, serial, history>>

CleanupDone(g) ==
  /\ pc[g] = "range"
  /\ todo[g] = {}
  /\ Return(g)
  /\ UNCHANGED <<pool, now, todo, doomed, calls, serial, cleanups>>

-----------------------------------------------------------------------------

Tick ==
  /\ now < Epoch + MaxTime
  /\ now' = now + 1
  /\ UNCHANGED <<pool, pc, locals, history>>

\* All calls have been made and have returned.
Quiet ==
  /\ \A g \in Getter : pc[g] = "idle" /\ calls[g] = MaxCalls
  /\ UNCHANGED vars

GetterStep(g) ==
  OnceBegin(g) \/ Factory(g) \/ OnceDone(g) \/ Fail(g) \/ ReadClock(g) \/ Touch(g)
    \/ LoadLast(g) \/ CasCleanup(g) \/ Visit(g) \/ Delete(g) \/ CleanupDone(g)

Next == (\E g \in Getter : LoadOrStore(g) \/ GetterStep(g)) \/ Tick \/ Quiet

Spec == Init /\ [][Next]_vars

\* Goroutines are scheduled fairly, and the factory returns.
FairSpec == Spec /\ \A g \in Getter : WF_vars(GetterStep(g))

-----------------------------------------------------------------------------
(* Properties.                                                             *)

\* No retry displaces a session: while a call has a healthy entry, only an
\* expiry can take it out of the map.
OnlyExpiryRemoves ==
  [][\A u \in User :
       sessions[u] # 0 /\ sessions'[u] # sessions[u] /\ entries[sessions[u]].state = "ok"
         => \E g \in Getter : pc[g] = "delete" /\ doomed[g] = u]_vars

\* Cleanups are a timeout apart, however many requests notice that one is due.
CleanupsSpaced ==
  \A i \in 1..(Len(cleanups) - 1) : cleanups[i + 1] - cleanups[i] >= Timeout

\* "Sessions expire after a configurable timeout of inactivity", exactly, as
\* long as requests do not overlap: a session that is in use stays in the pool
\* until the timeout is over, whichever of the users' requests notices that a
\* cleanup is due ...
ActiveRetainedSerially ==
  serial => \A e \in returned :
    now - entries[e].lastUsed <= Timeout => sessions[entries[e].user] = e

\* ... and a request that returns from a cleanup leaves no session in the pool
\* that has been idle for longer than the timeout.
IdleRemovedSerially ==
  serial => \A g \in Getter :
       pc[g] = "range" /\ pc'[g] = "idle"
         => \A u \in User : sessions[u] = 0
              \/ entries[sessions[u]].state # "ok"
              \/ entries[sessions[u]].lastUsed >= stamp[g] - Timeout

ExpiresSerially == []ActiveRetainedSerially /\ [][IdleRemovedSerially]_vars

\* Every request gets its session or an error.
GetReturns == \A g \in Getter : pc[g] = "once" ~> pc[g] = "idle"

=============================================================================
