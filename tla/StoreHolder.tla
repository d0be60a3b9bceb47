----------------------------- MODULE StoreHolder -----------------------------
(***************************************************************************)
(* A store holder of the engine (engine/stores.go): it creates a store     *)
(* from its configuration on demand, shares it between the requests, and   *)
(* drops it when a query on it fails, to be created again not before the   *)
(* retry interval is over.                                                 *)
(*                                                                         *)
(* The holder's lock is held except during the store's own Get, so that a  *)
(* failing Get may find that another goroutine has dropped or replaced the *)
(* store meanwhile.  Configs, which reports the expanded configuration and *)
(* the last error to the clients, reads the fields without the lock.       *)
(*                                                                         *)
(* A store instance is a number, in the order of creation; whether         *)
(* templates expand, stores connect and queries succeed is left open.      *)
(***************************************************************************)
EXTENDS Integers, Sequences, FiniteSets

CONSTANTS
  Caller,         \* goroutines that call Get and Ensure
  Reader,         \* goroutines that call Configs
  RetryInterval,  \* Tuning.GetStoreRetryInterval() once the tuning is set
  DefaultInterval, \* Tuning.GetStoreRetryInterval() of no tuning
  MaxCalls,       \* bound: calls by each goroutine
  MaxTime,        \* bound: the clock
  None            \* nil

ASSUME StoreHolderAssumption ==
  /\ RetryInterval \in Nat \ {0} /\ DefaultInterval \in Nat \ {0}
  /\ MaxCalls \in Nat /\ MaxTime \in Nat
  /\ None \notin Nat /\ None \notin Caller
  /\ Caller \cap Reader = {}

Goroutine == Caller \cup Reader

VARIABLES
  lock,        \* the caller that holds the lock, or None
  configured,  \* s.Original # nil: the store is created from configuration; never changes
  untuned,     \* the builder's attempt failed before the tuning was set; never changes
  store,       \* s.Store: the current instance, or None
  expanded,    \* s.Expanded # nil
  lastErr,     \* s.LastErr # nil
  errCount,    \* s.ErrCount
  retryAfter,  \* s.retryAfter; 0 is the zero time
  now,         \* the clock
  pc,          \* [Goroutine -> label]
  op,          \* [Caller -> {"get", "ensure"}], the call being made
  inst,        \* [Caller -> instance], the store that ensureLH returned
  failed,      \* [Caller -> BOOLEAN], the store's Get returned an error
  cloned,      \* [Reader -> BOOLEAN], Configs cloned an Expanded that is not nil
  calls,       \* [Goroutine -> 0..MaxCalls], calls made
  created,     \* history: number of instances created
  faulty,      \* history: the instances that failed a query
  closed,      \* history: the instances closed, in order
  attempts     \* history: the times at which a creation was attempted

holder  == <<configured, untuned, store, expanded, lastErr, errCount, retryAfter>>
locals  == <<op, inst, failed, cloned, calls>>
history == <<created, faulty, closed, attempts>>
vars    == <<lock, holder, now, pc, locals, history>>

-----------------------------------------------------------------------------

CallerLabel == {"idle", "lock", "ensure", "expand", "create", "call", "relock", "check",
                "panic"}
ReaderLabel == {"idle", "clone", "report", "panic"}

\* The variables have the shape the code gives them.
TypeOK ==
  /\ lock \in Caller \cup {None}
  /\ configured \in BOOLEAN /\ untuned \in BOOLEAN
  /\ store \in Nat \cup {None}
  /\ expanded \in BOOLEAN
  /\ lastErr \in BOOLEAN
  /\ errCount \in Nat
  /\ retryAfter \in Nat
  /\ now \in 0..MaxTime
  /\ pc \in [Goroutine -> CallerLabel \cup ReaderLabel]
  /\ op \in [Caller -> {"get", "ensure"}]
  /\ inst \in [Caller -> Nat \cup {None}]
  /\ failed \in [Caller -> BOOLEAN]
  /\ cloned \in [Reader -> BOOLEAN]
  /\ calls \in [Goroutine -> 0..MaxCalls]
  /\ created \in Nat
  /\ faulty \subseteq Nat
  /\ closed \in Seq(Nat)
  /\ attempts \in Seq(0..MaxTime)

\* The number of the ready-made store that wrap was given.
ReadyMade == 0

\* How long a failure of the builder's own attempt puts off the next.  The stores
\* of the first source are tried before its tuning is set, those of the sources
\* that it includes after.
FirstWait == IF untuned THEN DefaultInterval ELSE RetryInterval

\* The state that Builder.store leaves behind: its Ensure has connected a
\* configured store or has failed to.
Init ==
  /\ lock = None
  /\ \/ /\ configured = FALSE /\ untuned = FALSE
        /\ store = ReadyMade /\ created = 0 /\ attempts = <<>>
        /\ expanded = FALSE /\ lastErr = FALSE /\ errCount = 0 /\ retryAfter = 0
     \/ /\ configured = TRUE /\ untuned = FALSE
        /\ store = 1 /\ created = 1 /\ attempts = <<0>>
        /\ expanded = TRUE /\ lastErr = FALSE /\ errCount = 0 /\ retryAfter = 0
     \/ /\ configured = TRUE /\ untuned \in BOOLEAN
        /\ store = None /\ created = 0 /\ attempts = <<0>>
        /\ expanded = TRUE /\ lastErr = TRUE /\ errCount = 1 /\ retryAfter = FirstWait
  /\ now = 0
  /\ pc = [g \in Goroutine |-> "idle"]
  /\ op = [g \in Caller |-> "get"]
  /\ inst = [g \in Caller |-> None]
  /\ failed = [g \in Caller |-> FALSE]
  /\ cloned = [r \in Reader |-> FALSE]
  /\ calls = [g \in Goroutine |-> 0]
  /\ faulty = {}
  /\ closed = <<>>

GoTo(g, label) == pc' = [pc EXCEPT ![g] = label]

-----------------------------------------------------------------------------
(* Get and Ensure.                                                         *)

Call(g) ==
  /\ pc[g] = "idle"
  /\ calls[g] < MaxCalls
  /\ calls' = [calls EXCEPT ![g] = @ + 1]
  /\ \E o \in {"get", "ensure"} : op' = [op EXCEPT ![g] = o]
  /\ GoTo(g, "lock")
  /\ UNCHANGED <<lock, holder, now, inst, failed, cloned, history>>

Lock(g) ==
  /\ pc[g] = "lock"
  /\ lock = None
  /\ lock' = g
  /\ GoTo(g, "ensure")
  /\ UNCHANGED <<holder, now, locals, history>>

\* ensureLH has a store for the caller: Ensure returns it, and Get unlocks
\* around the call to the store's Get.
Proceed(g, s) ==
  /\ lock' = None
  /\ inst' = [inst EXCEPT ![g] = s]
  /\ GoTo(g, IF op[g] = "get" THEN "call" ELSE "idle")

\* ensureLH: the store is connected.
Connected(g) ==
  /\ pc[g] = "ensure"
  /\ store # None
  /\ Proceed(g, store)
  /\ UNCHANGED <<holder, now, op, failed, cloned, calls, history>>

\* (mutant of TooSoon: the caller tries again instead of returning)
TooSoonRetry(g) ==
  /\ pc[g] = "ensure"
  /\ store = None /\ configured
  /\ now < retryAfter
  /\ lock' = None
  /\ GoTo(g, "lock")
  /\ UNCHANGED <<holder, now, locals, history>>

\* ensureLH: it is too soon to try again, and the last error is returned.  Were
\* there no last error, the caller would get neither an error nor a store.
TooSoon(g) ==
  /\ pc[g] = "ensure"
  /\ store = None /\ configured
  /\ now < retryAfter
  /\ IF lastErr
       THEN /\ lock' = None
            /\ GoTo(g, "idle")
            /\ UNCHANGED inst
       ELSE Proceed(g, None)
  /\ UNCHANGED <<holder, now, op, failed, cloned, calls, history>>

\* ensureLH: a fresh map of expanded values is filled in, key by key.
StartExpand(g) ==
  /\ pc[g] = "ensure"
  /\ store = None /\ configured
  /\ now >= retryAfter
  /\ expanded' = TRUE
  /\ attempts' = Append(attempts, now)
  /\ GoTo(g, "expand")
  /\ UNCHANGED <<lock, configured, untuned, store, lastErr, errCount, retryAfter, now, locals,
                 created, faulty, closed>>

Expand(g) ==
  /\ pc[g] = "expand"
  /\ GoTo(g, "create")
  /\ UNCHANGED <<lock, holder, now, locals, history>>

\* (mutant of RecordError: LastErr is not set)
RecordErrorCountOnly ==
  /\ errCount' = errCount + 1
  /\ UNCHANGED lastErr

RecordError ==
  /\ lastErr' = TRUE
  /\ errCount' = errCount + 1

\* A template does not expand or the domain cannot create the store.
CreateFails(g) ==
  /\ pc[g] \in {"expand", "create"}
  /\ RecordError
  /\ retryAfter' = now + RetryInterval
  /\ lock' = None
  /\ GoTo(g, "idle")
  /\ UNCHANGED <<configured, untuned, store, expanded, now, locals, history>>

Create(g) ==
  /\ pc[g] = "create"
  /\ store' = created + 1
  /\ created' = created + 1
  /\ Proceed(g, store')
  /\ UNCHANGED <<configured, untuned, expanded, lastErr, errCount, retryAfter, now, op, failed,
                 cloned, calls, faulty, closed, attempts>>

\* The store's Get, without the lock.  A call on no store panics.
StoreGet(g) ==
  /\ pc[g] = "call"
  /\ \E err \in BOOLEAN :
       /\ failed' = [failed EXCEPT ![g] = err]
       /\ faulty' = IF err /\ inst[g] # None THEN faulty \cup {inst[g]} ELSE faulty
  /\ GoTo(g, IF inst[g] # None THEN "relock" ELSE "panic")
  /\ UNCHANGED <<lock, holder, now, op, inst, cloned, calls, created, closed, attempts>>

Relock(g) ==
  /\ pc[g] = "relock"
  /\ lock = None
  /\ lock' = g
  /\ GoTo(g, "check")
  /\ UNCHANGED <<holder, now, locals, history>>

\* Reset only the instance that failed, and only if it can be created again.
MustResetAny(g) == failed[g] /\ store # None /\ configured  \* (mutant)
MustResetReadyMade(g) == failed[g] /\ store = inst[g]       \* (mutant)
MustReset(g) == failed[g] /\ store = inst[g] /\ configured

\* (mutant of Reset: the closed store is kept)
ResetKeep(g) ==
  /\ pc[g] = "check"
  /\ MustReset(g)
  /\ RecordError
  /\ closed' = Append(closed, store)
  /\ retryAfter' = now + RetryInterval
  /\ lock' = None
  /\ GoTo(g, "idle")
  /\ UNCHANGED <<configured, untuned, store, expanded, now, locals, created, faulty, attempts>>

\* (mutant of Reset: retryAfter is not set)
ResetRetry(g) ==
  /\ pc[g] = "check"
  /\ MustReset(g)
  /\ RecordError
  /\ closed' = Append(closed, store)
  /\ store' = None
  /\ lock' = None
  /\ GoTo(g, "idle")
  /\ UNCHANGED <<configured, untuned, expanded, retryAfter, now, locals, created, faulty, attempts>>

Reset(g) ==
  /\ pc[g] = "check"
  /\ MustReset(g)
  /\ RecordError
  /\ closed' = Append(closed, store)
  /\ store' = None
  /\ retryAfter' = now + RetryInterval
  /\ lock' = None
  /\ GoTo(g, "idle")
  /\ UNCHANGED <<configured, untuned, expanded, now, locals, created, faulty, attempts>>

Keep(g) ==
  /\ pc[g] = "check"
  /\ ~MustReset(g)
  /\ lock' = None
  /\ GoTo(g, "idle")
  /\ UNCHANGED <<holder, now, locals, history>>

-----------------------------------------------------------------------------
(* Configs.                                                                *)

CallConfigs(r) ==
  /\ pc[r] = "idle"
  /\ calls[r] < MaxCalls
  /\ calls' = [calls EXCEPT ![r] = @ + 1]
  /\ GoTo(r, "clone")
  /\ UNCHANGED <<lock, holder, now, op, inst, failed, cloned, history>>

\* maps.Clone of Expanded; the clone of nil is nil.
Clone(r) ==
  /\ pc[r] = "clone"
  /\ cloned' = [cloned EXCEPT ![r] = expanded]
  /\ GoTo(r, "report")
  /\ UNCHANGED <<lock, holder, now, op, inst, failed, calls, history>>

\* The runtime may detect that another goroutine is writing the map.
CloneFatal(r) ==
  /\ pc[r] = "clone"
  /\ \E g \in Caller : pc[g] = "expand"
  /\ GoTo(r, "panic")
  /\ UNCHANGED <<lock, holder, now, locals, history>>

\* An error is reported in the clone, which must not be nil then.
Report(r) ==
  /\ pc[r] = "report"
  /\ GoTo(r, IF lastErr /\ ~cloned[r] THEN "panic" ELSE "idle")
  /\ UNCHANGED <<lock, holder, now, locals, history>>

-----------------------------------------------------------------------------

Tick ==
  /\ now < MaxTime
  /\ now' = now + 1
  /\ UNCHANGED <<lock, holder, pc, locals, history>>

\* All calls have been made and have returned, or have crashed the program.
Quiet ==
  /\ \A g \in Goroutine : pc[g] = "panic" \/ (pc[g] = "idle" /\ calls[g] = MaxCalls)
  /\ UNCHANGED vars

CallerStep(g) ==
  Lock(g) \/ Connected(g) \/ TooSoon(g) \/ StartExpand(g) \/ Expand(g) \/ CreateFails(g)
    \/ Create(g) \/ StoreGet(g) \/ Relock(g) \/ Reset(g) \/ Keep(g)

Next ==
  \/ \E g \in Caller : Call(g) \/ CallerStep(g)
  \/ \E r \in Reader : CallConfigs(r) \/ Clone(r) \/ CloneFatal(r) \/ Report(r)
  \/ Tick
  \/ Quiet

Spec == Init /\ [][Next]_vars

\* A sync.Mutex does not starve a goroutine, and a store's Get returns.
FairSpec ==
  /\ Spec
  /\ \A g \in Caller : WF_vars(CallerStep(g)) /\ SF_vars(Lock(g)) /\ SF_vars(Relock(g))

-----------------------------------------------------------------------------
(* Properties.                                                             *)

Distinct(s) == \A i, j \in DOMAIN s : i # j => s[i] # s[j]

\* No Get ever runs on a nil store: ensureLH, which returns LastErr without an
\* attempt while it is too soon, always has an error to return then.
NoNilStore == \A g \in Caller : pc[g] = "call" => inst[g] # None

\* A store is closed at most once, however many Gets fail on it concurrently,
\* and the store that the holder offers is not closed.
ClosedOnce ==
  /\ Distinct(closed)
  /\ \A i \in DOMAIN closed : closed[i] # store

\* A late failure on a dropped store never resets its healthy successor, and a
\* ready-made store, which cannot be created again, is never closed.
OnlyFaultyClosed ==
  \A i \in DOMAIN closed : closed[i] \in faulty /\ closed[i] # ReadyMade

\* The reported count is exact: the failed attempts and the resets, where a
\* store that fails several Gets counts once.
ErrorsCounted ==
  LET attempting == Cardinality({g \in Caller : pc[g] \in {"expand", "create"}})
  IN errCount = (Len(attempts) - created - attempting) + Len(closed)

\* "StoreRetryInterval is the minimum time between store re-creation attempts
\* after an error", also when the attempts are made by different goroutines and
\* a store that connects fails its first query.  The one exception is the wait
\* after the builder's own attempt, which is the default interval when the
\* tuning is set too late (builder.go:186), however long the configured one is.
Spacing(i) == IF i = 1 THEN FirstWait ELSE RetryInterval
AttemptsSpaced ==
  \A i \in 1..(Len(attempts) - 1) : attempts[i + 1] >= attempts[i] + Spacing(i)

\* A ready-made store stays in use after any failure.
ReadyMadeKept == ~configured => store = ReadyMade /\ errCount = 0

\* Every call returns: the lock is released on every path out of Get and Ensure.
CallsReturn == \A g \in Caller : pc[g] = "lock" ~> pc[g] = "idle"

\* "Concurrent safe": a report of the configurations never crashes.
ConfigsSafe == \A r \in Reader : pc[r] # "panic"

=============================================================================
