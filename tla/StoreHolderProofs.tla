-------------------------- MODULE StoreHolderProofs --------------------------
(***************************************************************************)
(* Proofs of the properties of a store holder, for any number of callers   *)
(* and readers, any retry intervals and any number of calls.               *)
(***************************************************************************)
EXTENDS StoreHolder, FiniteSetTheorems, TLAPS

USE DEF GoTo

\* The lock is held by the caller that is between Lock or Relock and Unlock.
Exclusion ==
  \A g \in Caller : pc[g] \in {"ensure", "expand", "create", "check"} => lock = g

\* An instance is being called, or has been: its failure, if any, is known.
InUse ==
  \A g \in Caller :
    /\ pc[g] \in {"call", "relock", "check"} => inst[g] \in Nat
    /\ pc[g] \in {"relock", "check"} /\ failed[g] => inst[g] \in faulty

\* Instances are numbered from 1, except for the ready-made one; the holder's
\* is none of those that it has closed, and there is none while one is created.
Offered ==
  /\ ~configured => store = ReadyMade /\ created = 0 /\ errCount = 0
  /\ configured /\ store # None => store \in 1..created
  /\ \A i \in DOMAIN closed : closed[i] \in 1..created
  /\ \A i \in DOMAIN closed : closed[i] # store
  /\ \A i \in DOMAIN closed : closed[i] \in faulty
  /\ Distinct(closed)
  /\ \A g \in Caller : pc[g] \in {"expand", "create"} => configured /\ store = None

\* A holder that must wait has an error to return, and it waits for the interval
\* that is due from the last attempt.  The default interval is due only until
\* there is an attempt after the builder's.
Waits ==
  /\ retryAfter > 0 => lastErr
  /\ AttemptsSpaced
  /\ \A i \in DOMAIN attempts : attempts[i] <= now
  /\ untuned => Len(attempts) > 0
  /\ untuned /\ Len(attempts) < 2 =>
       store = None /\ \A g \in Caller : pc[g] \notin {"expand", "create"}
  /\ \/ store # None
     \/ \E g \in Caller : pc[g] \in {"expand", "create"}
     \/ \A i \in DOMAIN attempts : i = Len(attempts) => attempts[i] + Spacing(i) <= retryAfter

HolderInv == TypeOK /\ Exclusion /\ InUse /\ Offered /\ Waits

\* Each of the three initial states satisfies the invariant.
LEMMA HolderInit == Init => HolderInv
<1> USE StoreHolderAssumption
<1> SUFFICES ASSUME Init PROVE HolderInv
  OBVIOUS
<1>1. \A g \in Goroutine : pc[g] = "idle"
  BY DEF Init
<1>2. Caller \subseteq Goroutine /\ Reader \subseteq Goroutine
  BY DEF Goroutine
<1>3. closed = <<>> /\ attempts \in Seq(0..MaxTime) /\ now = 0
  <2>1. 0 \in 0..MaxTime OBVIOUS
  <2>2. CASE attempts = <<>>
    BY <2>2 DEF Init
  <2>3. CASE attempts = <<0>>
    <3>1. <<0>> \in Seq(0..MaxTime) BY <2>1
    <3>2. QED BY <2>3, <3>1 DEF Init
  <2>4. attempts = <<>> \/ attempts = <<0>> BY DEF Init
  <2>5. QED BY <2>2, <2>3, <2>4
<1>4. TypeOK
  <2>0. ReadyMade \in Nat /\ FirstWait \in Nat
    BY DEF ReadyMade, FirstWait
  <2>1. configured \in BOOLEAN /\ untuned \in BOOLEAN /\ expanded \in BOOLEAN /\ lastErr \in BOOLEAN
    BY Zenon DEF Init
  <2>2. /\ lock \in Caller \cup {None} /\ store \in Nat \cup {None}
        /\ errCount \in Nat /\ retryAfter \in Nat /\ now \in 0..MaxTime /\ created \in Nat
    BY <1>3, <2>0 DEF Init
  <2>3. /\ pc \in [Goroutine -> CallerLabel \cup ReaderLabel]
        /\ calls \in [Goroutine -> 0..MaxCalls]
    BY DEF Init, CallerLabel
  <2>4. /\ op \in [Caller -> {"get", "ensure"}] /\ inst \in [Caller -> Nat \cup {None}]
        /\ failed \in [Caller -> BOOLEAN] /\ cloned \in [Reader -> BOOLEAN]
        /\ faulty \subseteq Nat
    BY DEF Init
  <2>5. QED BY <1>3, <2>1, <2>2, <2>3, <2>4 DEF TypeOK
<1>5. Exclusion /\ InUse
  BY <1>1, <1>2 DEF Exclusion, InUse
<1>6. Offered
  BY <1>1, <1>2, <1>3 DEF Init, Offered, ReadyMade, Distinct
<1>7. Waits
  <2>1. FirstWait \in Nat \ {0}
    BY DEF FirstWait
  <2>2. AttemptsSpaced /\ \A i \in DOMAIN attempts : i = 1 /\ attempts[i] = 0
    BY DEF Init, AttemptsSpaced
  <2>3. \A g \in Caller : pc[g] \notin {"expand", "create"}
    BY <1>1, <1>2
  <2>4. CASE store # None
    BY <1>3, <2>2, <2>3, <2>4 DEF Init, Waits
  <2>5. CASE store = None
    <3>1. lastErr /\ retryAfter = FirstWait /\ attempts = <<0>>
      BY <2>5 DEF Init, ReadyMade
    <3>2. \A i \in DOMAIN attempts : attempts[i] + Spacing(i) <= retryAfter
      BY <2>1, <2>2, <3>1 DEF Spacing
    <3>3. Len(attempts) > 0
      BY <3>1
    <3>4. QED BY <1>3, <2>2, <2>3, <2>5, <3>1, <3>2, <3>3 DEF Waits
  <2>6. QED BY <2>4, <2>5
<1>8. QED BY <1>4, <1>5, <1>6, <1>7 DEF HolderInv

\* Every step keeps the variables in their types.
LEMMA TypeStep == HolderInv /\ [Next]_vars => TypeOK'
<1> USE StoreHolderAssumption DEF TypeOK, CallerLabel, ReaderLabel, Goroutine
<1> SUFFICES ASSUME HolderInv, [Next]_vars PROVE TypeOK'
  OBVIOUS
<1>a. TypeOK /\ InUse /\ Offered /\ Exclusion
  BY DEF HolderInv
<1>1. ASSUME NEW g \in Caller, Call(g) PROVE TypeOK'
  BY <1>a, <1>1 DEF Call, holder, history
<1>2. ASSUME NEW g \in Caller, Lock(g) \/ Relock(g) PROVE TypeOK'
  BY <1>a, <1>2 DEF Lock, Relock, holder, history, locals
<1>3. ASSUME NEW g \in Caller, Connected(g) PROVE TypeOK'
  BY <1>a, <1>3 DEF Connected, Proceed, holder, history
<1>4. ASSUME NEW g \in Caller, TooSoon(g) PROVE TypeOK'
  <2>1. CASE lastErr
    BY <1>a, <1>4, <2>1 DEF TooSoon, holder, history
  <2>2. CASE ~lastErr
    BY <1>a, <1>4, <2>2 DEF TooSoon, Proceed, holder, history
  <2>3. QED BY <2>1, <2>2
<1>5. ASSUME NEW g \in Caller, StartExpand(g) PROVE TypeOK'
  BY <1>a, <1>5 DEF StartExpand, locals
<1>6. ASSUME NEW g \in Caller, Expand(g) PROVE TypeOK'
  BY <1>a, <1>6 DEF Expand, holder, history, locals
<1>7. ASSUME NEW g \in Caller, CreateFails(g) PROVE TypeOK'
  BY <1>a, <1>7 DEF CreateFails, RecordError, history, locals
<1>8. ASSUME NEW g \in Caller, Create(g) PROVE TypeOK'
  BY <1>a, <1>8 DEF Create, Proceed
<1>9. ASSUME NEW g \in Caller, StoreGet(g) PROVE TypeOK'
  <2>1. faulty' \subseteq Nat
    BY <1>a, <1>9 DEF StoreGet
  <2>2. pc' \in [Goroutine -> CallerLabel \cup ReaderLabel]
    BY <1>a, <1>9 DEF StoreGet
  <2>3. QED BY <1>a, <1>9, <2>1, <2>2 DEF StoreGet, holder
<1>10. ASSUME NEW g \in Caller, Reset(g) PROVE TypeOK'
  <2>1. store \in Nat
    BY <1>a, <1>10 DEF Reset, MustReset, InUse
  <2>2. closed' \in Seq(Nat)
    BY <1>a, <1>10, <2>1 DEF Reset
  <2>3. QED BY <1>a, <1>10, <2>2 DEF Reset, RecordError, locals
<1>11. ASSUME NEW g \in Caller, Keep(g) PROVE TypeOK'
  BY <1>a, <1>11 DEF Keep, holder, history, locals
<1>12. ASSUME NEW r \in Reader,
              CallConfigs(r) \/ Clone(r) \/ CloneFatal(r) \/ Report(r)
       PROVE  TypeOK'
  <2>1. CASE CallConfigs(r) BY <1>a, <2>1 DEF CallConfigs, holder, history
  <2>2. CASE Clone(r) BY <1>a, <2>2 DEF Clone, holder, history
  <2>3. CASE CloneFatal(r) BY <1>a, <2>3 DEF CloneFatal, holder, history, locals
  <2>4. CASE Report(r) BY <1>a, <2>4 DEF Report, holder, history, locals
  <2>5. QED BY <1>12, <2>1, <2>2, <2>3, <2>4
<1>13. CASE Tick
  BY <1>a, <1>13 DEF Tick, holder, history, locals
<1>14. CASE UNCHANGED vars
  BY <1>a, <1>14 DEF vars, holder, history, locals
<1>15. QED
  BY <1>1, <1>2, <1>3, <1>4, <1>5, <1>6, <1>7, <1>8, <1>9, <1>10, <1>11, <1>12, <1>13, <1>14
  DEF Next, CallerStep, Quiet

\* One caller at a time is between acquiring and releasing the lock.
LEMMA ExclusionStep == HolderInv /\ [Next]_vars => Exclusion'
<1> USE StoreHolderAssumption DEF TypeOK, Goroutine, Exclusion
<1> SUFFICES ASSUME HolderInv, [Next]_vars PROVE Exclusion'
  OBVIOUS
<1>a. TypeOK /\ Exclusion
  BY DEF HolderInv
<1>1. ASSUME NEW g \in Caller, Call(g) \/ Lock(g) \/ CallerStep(g) PROVE Exclusion'
  <2>1. CASE Call(g) BY <1>a, <2>1 DEF Call
  <2>2. CASE Lock(g) \/ Relock(g) BY <1>a, <2>2 DEF Lock, Relock
  <2>3. CASE Connected(g) BY <1>a, <2>3 DEF Connected, Proceed
  <2>4. CASE TooSoon(g)
    <3>1. pc[g] = "ensure" /\ lock' = None /\ \E l \in {"idle", "call"} : GoTo(g, l)
      BY <2>4 DEF TooSoon, Proceed
    <3>2. QED BY <1>a, <3>1
  <2>5. CASE StartExpand(g) BY <1>a, <2>5 DEF StartExpand
  <2>6. CASE Expand(g) BY <1>a, <2>6 DEF Expand
  <2>7. CASE CreateFails(g) BY <1>a, <2>7 DEF CreateFails
  <2>8. CASE Create(g) BY <1>a, <2>8 DEF Create, Proceed
  <2>9. CASE StoreGet(g) BY <1>a, <2>9 DEF StoreGet
  <2>10. CASE Reset(g) BY <1>a, <2>10 DEF Reset
  <2>11. CASE Keep(g) BY <1>a, <2>11 DEF Keep
  <2>12. QED
    BY <1>1, <2>1, <2>2, <2>3, <2>4, <2>5, <2>6, <2>7, <2>8, <2>9, <2>10, <2>11 DEF CallerStep
<1>2. ASSUME NEW r \in Reader,
             CallConfigs(r) \/ Clone(r) \/ CloneFatal(r) \/ Report(r)
      PROVE  Exclusion'
  BY <1>a, <1>2 DEF CallConfigs, Clone, CloneFatal, Report
<1>3. CASE Tick \/ UNCHANGED vars
  BY <1>a, <1>3 DEF Tick, vars
<1>4. QED BY <1>1, <1>2, <1>3 DEF Next, Quiet

\* A caller that has a store to call has an instance, and faulty has it if the
\* call failed.
LEMMA InUseStep == HolderInv /\ [Next]_vars => InUse'
<1> USE StoreHolderAssumption DEF TypeOK, Goroutine, InUse
<1> SUFFICES ASSUME HolderInv, [Next]_vars PROVE InUse'
  OBVIOUS
<1>a. TypeOK /\ InUse /\ Offered /\ Waits
  BY DEF HolderInv
<1>1. ASSUME NEW g \in Caller, Call(g) \/ Lock(g) \/ CallerStep(g) PROVE InUse'
  <2>1. CASE Call(g) BY <1>a, <2>1 DEF Call, history
  <2>2. CASE Lock(g) BY <1>a, <2>2 DEF Lock, history, locals
  <2>3. CASE Relock(g) BY <1>a, <2>3 DEF Relock, history, locals
  <2>4. CASE Connected(g) BY <1>a, <2>4 DEF Connected, Proceed, history
  <2>5. CASE TooSoon(g)
    <3>1. lastErr
      BY <1>a, <2>5 DEF TooSoon, Waits
    <3>2. UNCHANGED <<inst, failed, faulty>> /\ GoTo(g, "idle")
      BY <2>5, <3>1 DEF TooSoon, history
    <3>3. QED BY <1>a, <3>2
  <2>6. CASE StartExpand(g) BY <1>a, <2>6 DEF StartExpand, locals
  <2>7. CASE Expand(g) BY <1>a, <2>7 DEF Expand, locals, history
  <2>8. CASE CreateFails(g) BY <1>a, <2>8 DEF CreateFails, locals, history
  <2>9. CASE Create(g)
    <3>1. created + 1 \in Nat /\ inst' = [inst EXCEPT ![g] = created + 1]
      BY <1>a, <2>9 DEF Create, Proceed
    <3>2. UNCHANGED <<failed, faulty>> /\ \E l \in {"idle", "call"} : GoTo(g, l)
      BY <2>9 DEF Create, Proceed
    <3>3. QED BY <1>a, <3>1, <3>2
  <2>10. CASE StoreGet(g)
    <3>1. inst[g] \in Nat /\ pc[g] = "call"
      BY <1>a, <2>10 DEF StoreGet
    <3>2. PICK err \in BOOLEAN :
            /\ failed' = [failed EXCEPT ![g] = err]
            /\ faulty' = IF err THEN faulty \cup {inst[g]} ELSE faulty
      BY <3>1, <2>10 DEF StoreGet
    <3>3. UNCHANGED inst /\ GoTo(g, "relock")
      BY <3>1, <2>10 DEF StoreGet
    <3>4. QED BY <1>a, <3>1, <3>2, <3>3
  <2>11. CASE Reset(g) BY <1>a, <2>11 DEF Reset, locals
  <2>12. CASE Keep(g) BY <1>a, <2>12 DEF Keep, locals, history
  <2>13. QED
    BY <1>1, <2>1, <2>2, <2>3, <2>4, <2>5, <2>6, <2>7, <2>8, <2>9, <2>10, <2>11, <2>12
    DEF CallerStep
<1>2. ASSUME NEW r \in Reader,
             CallConfigs(r) \/ Clone(r) \/ CloneFatal(r) \/ Report(r)
      PROVE  InUse'
  BY <1>a, <1>2 DEF CallConfigs, Clone, CloneFatal, Report, history, locals
<1>3. CASE Tick \/ UNCHANGED vars
  BY <1>a, <1>3 DEF Tick, vars, locals, history
<1>4. QED BY <1>1, <1>2, <1>3 DEF Next, Quiet

\* A step that leaves the holder's store and the history of instances alone,
\* and starts no creation, keeps Offered.
LEMMA OfferedKept ==
  ASSUME Offered,
         UNCHANGED <<configured, store, created, closed>>,
         ~configured => errCount' = errCount,
         faulty \subseteq faulty',
         \A g \in Caller : pc'[g] \in {"expand", "create"} => pc[g] \in {"expand", "create"}
  PROVE  Offered'
BY DEF Offered, Distinct

\* The store on offer is the last instance created and is not closed.
LEMMA OfferedStep == HolderInv /\ [Next]_vars => Offered'
<1> USE StoreHolderAssumption DEF TypeOK, Goroutine
<1> SUFFICES ASSUME HolderInv, [Next]_vars PROVE Offered'
  OBVIOUS
<1>a. TypeOK /\ Exclusion /\ InUse /\ Offered /\ Waits
  BY DEF HolderInv
<1>1. ASSUME NEW g \in Caller, Call(g) \/ Lock(g) \/ CallerStep(g) PROVE Offered'
  <2>1. CASE Call(g) BY <1>a, <2>1, OfferedKept DEF Call, holder, history
  <2>2. CASE Lock(g) BY <1>a, <2>2, OfferedKept DEF Lock, holder, history, locals
  <2>3. CASE Relock(g) BY <1>a, <2>3, OfferedKept DEF Relock, holder, history, locals
  <2>4. CASE Connected(g)
    BY <1>a, <2>4, OfferedKept DEF Connected, Proceed, holder, history
  <2>5. CASE TooSoon(g)
    <3>1. /\ UNCHANGED <<configured, store, created, closed, errCount, faulty>>
          /\ \E l \in {"idle", "call"} : GoTo(g, l)
      BY <2>5 DEF TooSoon, Proceed, holder, history
    <3>2. QED BY <1>a, <3>1, OfferedKept
  <2>6. CASE StartExpand(g)
    <3>1. /\ UNCHANGED <<configured, store, created, closed, errCount, faulty>>
          /\ configured /\ store = None /\ GoTo(g, "expand")
      BY <2>6 DEF StartExpand
    <3>2. \A h \in Caller : pc'[h] \in {"expand", "create"} => configured' /\ store' = None
      BY <1>a, <3>1
    <3>3. QED BY <1>a, <3>1, <3>2 DEF Offered, Distinct
  <2>7. CASE Expand(g)
    BY <1>a, <2>7, OfferedKept DEF Expand, holder, history, locals
  <2>8. CASE CreateFails(g)
    <3>1. configured BY <1>a, <2>8 DEF CreateFails, Offered
    <3>2. QED BY <1>a, <2>8, <3>1, OfferedKept DEF CreateFails, history
  <2>9. CASE Create(g)
    <3>1. /\ configured /\ store = None /\ pc[g] = "create"
          /\ store' = created + 1 /\ created' = created + 1
          /\ UNCHANGED <<configured, closed, faulty, errCount>>
          /\ \E l \in {"idle", "call"} : GoTo(g, l)
      BY <1>a, <2>9 DEF Create, Proceed, Offered
    <3>2. \A i \in DOMAIN closed : closed[i] \in 1..created' /\ closed[i] # store'
      BY <1>a, <3>1 DEF Offered
    <3>3. \A h \in Caller : pc'[h] \notin {"expand", "create"}
      <4>1. \A h \in Caller : h # g => pc[h] \notin {"expand", "create"}
        BY <1>a, <3>1 DEF Exclusion
      <4>2. QED BY <1>a, <3>1, <4>1
    <3>4. store' \in 1..created'
      BY <1>a, <3>1
    <3>5. QED BY <1>a, <3>1, <3>2, <3>3, <3>4 DEF Offered, Distinct
  <2>10. CASE StoreGet(g)
    <3>1. /\ UNCHANGED <<configured, store, created, closed, errCount>>
          /\ faulty \subseteq faulty' /\ \E l \in {"relock", "panic"} : GoTo(g, l)
      BY <2>10 DEF StoreGet, holder
    <3>2. QED BY <1>a, <3>1, OfferedKept
  <2>11. CASE Reset(g)
    <3>1. /\ configured /\ store \in faulty /\ store \in Nat /\ pc[g] = "check"
          /\ closed' = Append(closed, store) /\ store' = None
          /\ UNCHANGED <<configured, created, faulty>> /\ GoTo(g, "idle")
      BY <1>a, <2>11 DEF Reset, MustReset, InUse
    <3>2. store \in 1..created
      BY <1>a, <3>1 DEF Offered
    <3>3. /\ DOMAIN closed' = DOMAIN closed \cup {Len(closed) + 1}
          /\ \A i \in DOMAIN closed : closed'[i] = closed[i]
          /\ closed'[Len(closed) + 1] = store
      BY <1>a, <3>1
    <3>4. \A i \in DOMAIN closed' :
            closed'[i] \in 1..created /\ closed'[i] \in faulty /\ closed'[i] # None
      BY <1>a, <3>1, <3>2, <3>3 DEF Offered
    <3>5. Distinct(closed)'
      BY <1>a, <3>3 DEF Offered, Distinct
    <3>6. \A h \in Caller : pc'[h] \notin {"expand", "create"}
      <4>1. \A h \in Caller : h # g => pc[h] \notin {"expand", "create"}
        BY <1>a, <3>1 DEF Exclusion
      <4>2. QED BY <1>a, <3>1, <4>1
    <3>7. QED BY <1>a, <3>1, <3>4, <3>5, <3>6 DEF Offered
  <2>12. CASE Keep(g)
    BY <1>a, <2>12, OfferedKept DEF Keep, holder, history, locals
  <2>13. QED
    BY <1>1, <2>1, <2>2, <2>3, <2>4, <2>5, <2>6, <2>7, <2>8, <2>9, <2>10, <2>11, <2>12
    DEF CallerStep
<1>2. ASSUME NEW r \in Reader,
             CallConfigs(r) \/ Clone(r) \/ CloneFatal(r) \/ Report(r)
      PROVE  Offered'
  <2>1. UNCHANGED <<configured, store, created, closed, errCount, faulty>>
    BY <1>2 DEF CallConfigs, Clone, CloneFatal, Report, holder, history
  <2>2. \A g \in Caller : pc'[g] = pc[g]
    BY <1>a, <1>2 DEF CallConfigs, Clone, CloneFatal, Report
  <2>3. QED BY <1>a, <2>1, <2>2, OfferedKept
<1>3. CASE Tick \/ UNCHANGED vars
  BY <1>a, <1>3, OfferedKept DEF Tick, vars, holder, history
<1>4. QED BY <1>1, <1>2, <1>3 DEF Next, Quiet

\* An index that is not the last has a successor.
LEMMA Successor ==
  \A n : \A i \in 1..n : n \in Nat /\ i # n => i \in 1..(n - 1) /\ i + 1 \in 1..n
OBVIOUS

\* A step that attempts nothing, moves no deadline and drops no store keeps
\* Waits.
LEMMA WaitsKept ==
  ASSUME TypeOK, Waits, now' \in Nat, now <= now',
         UNCHANGED <<untuned, retryAfter, attempts, store>>,
         lastErr => lastErr',
         \A g \in Caller : pc[g] \in {"expand", "create"} <=> pc'[g] \in {"expand", "create"}
  PROVE  Waits'
<1> USE StoreHolderAssumption DEF TypeOK
<1>0. \A i : Spacing(i)' = Spacing(i)
  BY DEF Spacing, FirstWait
<1>1. (retryAfter > 0 => lastErr)' /\ AttemptsSpaced'
  BY <1>0 DEF Waits, AttemptsSpaced
<1>2. \A i \in DOMAIN attempts' : attempts'[i] <= now'
  <2>1. \A i \in DOMAIN attempts : attempts[i] \in Nat /\ attempts[i] <= now
    BY DEF Waits
  <2>2. QED BY <2>1
<1>3. \/ store' # None
      \/ \E g \in Caller : pc'[g] \in {"expand", "create"}
      \/ \A i \in DOMAIN attempts' : i = Len(attempts') => attempts'[i] + Spacing(i)' <= retryAfter'
  BY <1>0 DEF Waits
<1>4. untuned' /\ Len(attempts') < 2 =>
        store' = None /\ \A g \in Caller : pc'[g] \notin {"expand", "create"}
  BY DEF Waits
<1>5. untuned' => Len(attempts') > 0
  BY DEF Waits
<1>6. QED BY <1>1, <1>2, <1>3, <1>4, <1>5 DEF Waits

\* A step that sets the deadline after an error keeps Waits.
LEMMA WaitsSet ==
  ASSUME TypeOK, Waits, lastErr',
         retryAfter' = now + RetryInterval,
         store # None \/ \E g \in Caller : pc[g] \in {"expand", "create"},
         UNCHANGED <<untuned, now, attempts>>
  PROVE  Waits'
<1> USE StoreHolderAssumption DEF TypeOK
<1>0. \A i : Spacing(i)' = Spacing(i)
  BY DEF Spacing, FirstWait
<1>1. AttemptsSpaced'
  BY <1>0 DEF Waits, AttemptsSpaced
<1>2. \A i \in DOMAIN attempts : attempts[i] \in Nat /\ attempts[i] <= now
  BY DEF Waits
<1>3. ~(untuned /\ Len(attempts) < 2)
  BY DEF Waits
<1>4. ASSUME NEW i \in DOMAIN attempts, i = Len(attempts)
      PROVE  attempts[i] + Spacing(i) <= retryAfter'
  <2>1. Spacing(i) = RetryInterval
    BY <1>3, <1>4 DEF Spacing, FirstWait
  <2>2. QED BY <1>2, <2>1
<1>5. \A i \in DOMAIN attempts' : i = Len(attempts') => attempts'[i] + Spacing(i)' <= retryAfter'
  BY <1>0, <1>4
<1>6. QED BY <1>1, <1>2, <1>3, <1>5 DEF Waits

\* The attempts are spaced, whichever callers make them.
LEMMA WaitsStep == HolderInv /\ [Next]_vars => Waits'
<1> USE StoreHolderAssumption DEF TypeOK, Goroutine
<1> SUFFICES ASSUME HolderInv, [Next]_vars PROVE Waits'
  OBVIOUS
<1>a. TypeOK /\ Exclusion /\ InUse /\ Offered /\ Waits
  BY DEF HolderInv
<1>b. now \in Nat /\ now <= now
  BY <1>a
<1>1. ASSUME NEW g \in Caller, Call(g) \/ Lock(g) \/ CallerStep(g) PROVE Waits'
  <2>1. CASE Call(g) BY <1>a, <1>b, <2>1, WaitsKept DEF Call, holder, history
  <2>2. CASE Lock(g) BY <1>a, <1>b, <2>2, WaitsKept DEF Lock, holder, history, locals
  <2>3. CASE Relock(g) BY <1>a, <1>b, <2>3, WaitsKept DEF Relock, holder, history, locals
  <2>4. CASE Connected(g)
    BY <1>a, <1>b, <2>4, WaitsKept DEF Connected, Proceed, holder, history
  <2>5. CASE TooSoon(g)
    <3>1. /\ UNCHANGED <<untuned, retryAfter, attempts, lastErr, store, now>>
          /\ pc[g] = "ensure" /\ \E l \in {"idle", "call"} : GoTo(g, l)
      BY <2>5 DEF TooSoon, Proceed, holder, history
    <3>2. QED BY <1>a, <1>b, <3>1, WaitsKept
  <2>6. CASE StartExpand(g)
    <3>1. /\ now >= retryAfter /\ store = None /\ pc[g] = "ensure"
          /\ attempts' = Append(attempts, now) /\ GoTo(g, "expand")
          /\ UNCHANGED <<untuned, retryAfter, lastErr, store, now>>
      BY <2>6 DEF StartExpand
    <3>2. \A h \in Caller : pc[h] \notin {"expand", "create"}
      BY <1>a, <3>1 DEF Exclusion
    <3>3. \A i \in DOMAIN attempts : i = Len(attempts) => attempts[i] + Spacing(i) <= retryAfter
      BY <1>a, <3>1, <3>2 DEF Waits
    <3>4. /\ Len(attempts') = Len(attempts) + 1
          /\ \A i \in DOMAIN attempts : attempts'[i] = attempts[i] /\ attempts[i] \in Nat
          /\ attempts'[Len(attempts) + 1] = now
          /\ DOMAIN attempts' = DOMAIN attempts \cup {Len(attempts) + 1}
          /\ DOMAIN attempts = 1..Len(attempts)
          /\ Len(attempts) \in Nat
      BY <1>a, <3>1
    <3>5. \A i : Spacing(i)' = Spacing(i) /\ Spacing(i) \in Nat
      BY <3>1 DEF Spacing, FirstWait
    <3>6. AttemptsSpaced'
      <4>1. SUFFICES ASSUME NEW i \in 1..Len(attempts)
                     PROVE  attempts'[i + 1] >= attempts'[i] + Spacing(i)
        BY <3>4, <3>5 DEF AttemptsSpaced
      <4>2. CASE i = Len(attempts)
        <5>1. attempts[i] + Spacing(i) <= retryAfter /\ attempts[i] \in Nat
          BY <3>3, <3>4, <4>2
        <5>2. Spacing(i) \in Nat /\ retryAfter \in Nat /\ retryAfter <= now
          BY <1>a, <1>b, <3>1, <3>5
        <5>3. attempts[i] + Spacing(i) <= now
          BY <1>b, <5>1, <5>2
        <5>4. attempts'[i] = attempts[i] /\ attempts'[i + 1] = now
          BY <3>4, <4>2
        <5>5. QED BY <5>3, <5>4
      <4>3. CASE i # Len(attempts)
        <5>1. i \in 1..(Len(attempts) - 1) /\ i + 1 \in 1..Len(attempts)
          BY <3>4, <4>3, Successor
        <5>2. i \in DOMAIN attempts /\ i + 1 \in DOMAIN attempts
          BY <3>4, <5>1
        <5>3. attempts[i + 1] >= attempts[i] + Spacing(i)
          BY <1>a, <5>1 DEF Waits, AttemptsSpaced
        <5>4. QED BY <3>4, <5>2, <5>3
      <4>4. QED BY <4>2, <4>3
    <3>7. \A i \in DOMAIN attempts' : attempts'[i] <= now'
      BY <1>a, <1>b, <3>1, <3>4 DEF Waits
    <3>8. pc'[g] = "expand"
      BY <1>a, <3>1
    <3>9. ~(untuned' /\ Len(attempts') < 2)
      <4>1. Len(attempts) # 0 \/ ~untuned
        BY <1>a DEF Waits
      <4>2. QED BY <3>1, <3>4, <4>1
    <3>10. QED BY <1>a, <3>1, <3>6, <3>7, <3>8, <3>9 DEF Waits
  <2>7. CASE Expand(g)
    <3>1. pc[g] = "expand" /\ GoTo(g, "create") /\ UNCHANGED <<holder, now, attempts>>
      BY <2>7 DEF Expand, history
    <3>2. QED BY <1>a, <1>b, <3>1, WaitsKept DEF holder
  <2>8. CASE CreateFails(g)
    <3>1. /\ lastErr' /\ retryAfter' = now + RetryInterval /\ UNCHANGED <<untuned, now, attempts>>
          /\ pc[g] \in {"expand", "create"}
      BY <2>8 DEF CreateFails, RecordError, history
    <3>2. QED BY <1>a, <3>1, WaitsSet
  <2>9. CASE Create(g)
    <3>1. /\ store' = created + 1 /\ pc[g] = "create"
          /\ UNCHANGED <<untuned, lastErr, retryAfter, now, attempts>>
      BY <2>9 DEF Create
    <3>2. store' # None /\ ~(untuned /\ Len(attempts) < 2)
      BY <1>a, <3>1 DEF Waits
    <3>3. AttemptsSpaced'
      BY <1>a, <3>1 DEF Waits, AttemptsSpaced, Spacing, FirstWait
    <3>4. QED BY <1>a, <3>1, <3>2, <3>3 DEF Waits
  <2>10. CASE StoreGet(g)
    <3>1. /\ UNCHANGED <<holder, now, attempts>> /\ pc[g] = "call"
          /\ \E l \in {"relock", "panic"} : GoTo(g, l)
      BY <2>10 DEF StoreGet
    <3>2. QED BY <1>a, <1>b, <3>1, WaitsKept DEF holder
  <2>11. CASE Reset(g)
    <3>1. lastErr' /\ retryAfter' = now + RetryInterval /\ UNCHANGED <<untuned, now, attempts>>
      BY <2>11 DEF Reset, RecordError
    <3>2. store # None
      BY <1>a, <2>11 DEF Reset, MustReset, InUse
    <3>3. QED BY <1>a, <3>1, <3>2, WaitsSet
  <2>12. CASE Keep(g)
    BY <1>a, <1>b, <2>12, WaitsKept DEF Keep, holder, history, locals
  <2>13. QED
    BY <1>1, <2>1, <2>2, <2>3, <2>4, <2>5, <2>6, <2>7, <2>8, <2>9, <2>10, <2>11, <2>12
    DEF CallerStep
<1>2. ASSUME NEW r \in Reader,
             CallConfigs(r) \/ Clone(r) \/ CloneFatal(r) \/ Report(r)
      PROVE  Waits'
  <2>1. UNCHANGED <<holder, now, attempts>>
    BY <1>2 DEF CallConfigs, Clone, CloneFatal, Report, history
  <2>2. \A g \in Caller : pc'[g] = pc[g]
    BY <1>a, <1>2 DEF CallConfigs, Clone, CloneFatal, Report
  <2>3. QED BY <1>a, <1>b, <2>1, <2>2, WaitsKept DEF holder
<1>3. CASE Tick
  BY <1>a, <1>b, <1>3, WaitsKept DEF Tick, holder, history
<1>4. CASE UNCHANGED vars
  BY <1>a, <1>b, <1>4, WaitsKept DEF vars, holder, history
<1>5. QED BY <1>1, <1>2, <1>3, <1>4 DEF Next, Quiet

-----------------------------------------------------------------------------

\* The conjunction is inductive: each part needs the others.
LEMMA HolderInvariant == Spec => []HolderInv
<1>1. HolderInv /\ [Next]_vars => HolderInv'
  BY TypeStep, ExclusionStep, InUseStep, OfferedStep, WaitsStep DEF HolderInv
<1>2. QED BY <1>1, HolderInit, PTL DEF Spec

\* The variables of a holder keep their types.
THEOREM HolderTypeCorrect == Spec => []TypeOK
<1>1. HolderInv => TypeOK
  BY DEF HolderInv
<1>2. QED BY <1>1, HolderInvariant, PTL

\* Get never calls the Get of a nil store: whenever ensureLH must wait it has
\* the last error to return.
THEOREM NoNilStoreAlways == Spec => []NoNilStore
<1>1. HolderInv => NoNilStore
  BY StoreHolderAssumption DEF HolderInv, InUse, NoNilStore
<1>2. QED BY <1>1, HolderInvariant, PTL

\* However many Gets fail on an instance at a time, it is closed once, and the
\* holder never offers a closed one.
THEOREM ClosedOnceAlways == Spec => []ClosedOnce
<1>1. HolderInv => ClosedOnce
  BY DEF HolderInv, Offered, ClosedOnce
<1>2. QED BY <1>1, HolderInvariant, PTL

\* Only an instance on which a Get failed is closed, and never a ready-made one.
THEOREM OnlyFaultyClosedAlways == Spec => []OnlyFaultyClosed
<1>1. HolderInv => OnlyFaultyClosed
  BY DEF HolderInv, TypeOK, Offered, OnlyFaultyClosed, ReadyMade
<1>2. QED BY <1>1, HolderInvariant, PTL

\* A ready-made store, which cannot be created again, stays in use.
THEOREM ReadyMadeKeptAlways == Spec => []ReadyMadeKept
<1>1. HolderInv => ReadyMadeKept
  BY DEF HolderInv, Offered, ReadyMadeKept
<1>2. QED BY <1>1, HolderInvariant, PTL

\* Attempts to create the store are at least the retry interval apart, but for
\* the wait after a builder's attempt that failed before the tuning was set.
THEOREM AttemptsSpacedAlways == Spec => []AttemptsSpaced
<1>1. HolderInv => AttemptsSpaced
  BY DEF HolderInv, Waits
<1>2. QED BY <1>1, HolderInvariant, PTL

-----------------------------------------------------------------------------
(* The error count.                                                        *)

Attempting == {g \in Caller : pc[g] \in {"expand", "create"}}

\* A caller that is attempting to create the store is the only one.
LEMMA AttemptingAlone ==
  ASSUME Exclusion, NEW g \in Caller, pc[g] \in {"ensure", "expand", "create", "check"}
  PROVE  Attempting = IF pc[g] \in {"expand", "create"} THEN {g} ELSE {}
BY DEF Exclusion, Attempting

\* Each step changes the two sides of the count alike.
LEMMA ErrorsCountedStep ==
  HolderInv /\ ErrorsCounted /\ [Next]_vars => ErrorsCounted'
<1> USE StoreHolderAssumption DEF TypeOK, Goroutine
<1> DEFINE Counted == errCount = (Len(attempts) - created - Cardinality(Attempting)) + Len(closed)
<1> SUFFICES ASSUME HolderInv, Counted, [Next]_vars PROVE Counted'
  BY DEF ErrorsCounted, Attempting
<1>a. TypeOK /\ Exclusion
  BY DEF HolderInv
<1>b. errCount \in Nat /\ created \in Nat /\ Len(attempts) \in Nat /\ Len(closed) \in Nat
  BY <1>a
<1>c. Cardinality({}) = 0 /\ \A g : Cardinality({g}) = 1
  BY FS_Singleton, FS_EmptySet
<1> HIDE DEF Counted
<1>d. Counted => errCount = (Len(attempts) - created - Cardinality(Attempting)) + Len(closed)
  BY DEF Counted
<1>e. ASSUME errCount' = (Len(attempts') - created' - Cardinality(Attempting')) + Len(closed')
      PROVE  Counted'
  BY <1>e DEF Counted
<1>1. ASSUME Attempting' = Attempting, UNCHANGED <<errCount, attempts, created, closed>>
      PROVE  Counted'
  BY <1>1, <1>d, <1>e
<1>2. ASSUME NEW g \in Caller, Call(g) \/ Lock(g) \/ CallerStep(g) PROVE Counted'
  <2>1. CASE Call(g)
    BY <1>1, <1>a, <2>1 DEF Call, holder, history, Attempting
  <2>2. CASE Lock(g) \/ Relock(g)
    BY <1>1, <1>a, <2>2 DEF Lock, Relock, holder, history, Attempting
  <2>3. CASE Connected(g)
    BY <1>1, <1>a, <2>3 DEF Connected, Proceed, holder, history, Attempting
  <2>4. CASE TooSoon(g)
    <3>1. /\ pc[g] = "ensure" /\ \E l \in {"idle", "call"} : GoTo(g, l)
          /\ UNCHANGED <<errCount, attempts, created, closed>>
      BY <2>4 DEF TooSoon, Proceed, holder, history
    <3>2. Attempting' = Attempting
      BY <1>a, <3>1 DEF Attempting
    <3>3. QED BY <1>1, <3>1, <3>2
  <2>5. CASE StartExpand(g)
    <3>1. /\ pc[g] = "ensure" /\ GoTo(g, "expand") /\ attempts' = Append(attempts, now)
          /\ UNCHANGED <<errCount, created, closed>>
      BY <2>5 DEF StartExpand
    <3>2. Attempting = {}
      BY <1>a, <3>1, AttemptingAlone
    <3>3. Attempting' = {g}
      BY <1>a, <3>1, <3>2 DEF Attempting
    <3>4. Len(attempts') = Len(attempts) + 1
      BY <1>a, <3>1
    <3>5. Cardinality(Attempting) = 0 /\ Cardinality(Attempting') = 1
      BY <1>c, <3>2, <3>3
    <3>6. errCount = Len(attempts) - created + Len(closed)
      BY <1>b, <1>d, <3>5
    <3>7. QED BY <1>b, <1>e, <3>1, <3>4, <3>5, <3>6
  <2>6. CASE Expand(g)
    BY <1>1, <1>a, <2>6 DEF Expand, holder, history, Attempting
  <2>7. CASE CreateFails(g) \/ Create(g)
    <3>1. /\ pc[g] \in {"expand", "create"}
          /\ UNCHANGED <<attempts, closed>>
          /\ \E l \in {"idle", "call"} : GoTo(g, l)
          /\ \/ errCount' = errCount + 1 /\ UNCHANGED created
             \/ created' = created + 1 /\ UNCHANGED errCount
      BY <2>7 DEF CreateFails, RecordError, Create, Proceed, history
    <3>2. Attempting = {g}
      BY <1>a, <3>1, AttemptingAlone
    <3>3. Attempting' = {}
      BY <1>a, <3>1, <3>2 DEF Attempting
    <3>4. Cardinality(Attempting) = 1 /\ Cardinality(Attempting') = 0
      BY <1>c, <3>2, <3>3
    <3>5. QED BY <1>b, <1>d, <1>e, <3>1, <3>4
  <2>8. CASE StoreGet(g)
    <3>1. /\ pc[g] = "call" /\ \E l \in {"relock", "panic"} : GoTo(g, l)
          /\ UNCHANGED <<errCount, attempts, created, closed>>
      BY <2>8 DEF StoreGet, holder
    <3>2. Attempting' = Attempting
      BY <1>a, <3>1 DEF Attempting
    <3>3. QED BY <1>1, <3>1, <3>2
  <2>9. CASE Reset(g)
    <3>1. /\ pc[g] = "check" /\ GoTo(g, "idle") /\ errCount' = errCount + 1
          /\ closed' = Append(closed, store) /\ UNCHANGED <<attempts, created>>
      BY <2>9 DEF Reset, RecordError
    <3>2. Attempting' = Attempting
      BY <1>a, <3>1 DEF Attempting
    <3>3. Len(closed') = Len(closed) + 1
      BY <1>a, <3>1
    <3>4. Attempting = {} /\ Cardinality(Attempting) = 0
      BY <1>a, <1>c, <3>1, AttemptingAlone
    <3>5. QED BY <1>b, <1>d, <1>e, <3>1, <3>2, <3>3, <3>4
  <2>10. CASE Keep(g)
    BY <1>1, <1>a, <2>10 DEF Keep, holder, history, Attempting
  <2>11. QED
    BY <1>2, <2>1, <2>2, <2>3, <2>4, <2>5, <2>6, <2>7, <2>8, <2>9, <2>10 DEF CallerStep
<1>3. ASSUME NEW r \in Reader,
             CallConfigs(r) \/ Clone(r) \/ CloneFatal(r) \/ Report(r)
      PROVE  Counted'
  <2>1. UNCHANGED <<holder, history>>
    BY <1>3 DEF CallConfigs, Clone, CloneFatal, Report
  <2>2. \A g \in Caller : pc'[g] = pc[g]
    BY <1>a, <1>3 DEF CallConfigs, Clone, CloneFatal, Report
  <2>3. QED BY <1>1, <2>1, <2>2 DEF holder, history, Attempting
<1>4. CASE Tick \/ UNCHANGED vars
  BY <1>1, <1>4 DEF Tick, vars, holder, history, Attempting
<1>5. QED BY <1>2, <1>3, <1>4 DEF Next, Quiet

\* The error count that Configs reports is the number of failed attempts and of
\* resets; concurrent failures of one instance count once.
THEOREM ErrorsCountedAlways == Spec => []ErrorsCounted
<1>1. Init => ErrorsCounted
  <2> SUFFICES ASSUME Init PROVE ErrorsCounted
    OBVIOUS
  <2>1. {g \in Caller : pc[g] \in {"expand", "create"}} = {}
    BY DEF Init, Goroutine
  <2>2. Cardinality({}) = 0
    BY FS_EmptySet
  <2>3. closed = <<>> /\ Len(<<>>) = 0
    BY DEF Init
  <2>4. \/ errCount = 0 /\ Len(attempts) = 0 /\ created = 0
        \/ errCount = 0 /\ Len(attempts) = 1 /\ created = 1
        \/ errCount = 1 /\ Len(attempts) = 1 /\ created = 0
    <3>1. Len(<<0>>) = 1 OBVIOUS
    <3>2. \/ errCount = 0 /\ attempts = <<>> /\ created = 0
          \/ errCount = 0 /\ attempts = <<0>> /\ created = 1
          \/ errCount = 1 /\ attempts = <<0>> /\ created = 0
      BY DEF Init
    <3>3. QED BY <2>3, <3>1, <3>2
  <2>5. errCount = (Len(attempts) - created - 0) + 0
    <3>1. (0 - 0 - 0) + 0 = 0 /\ (1 - 1 - 0) + 0 = 0 /\ (1 - 0 - 0) + 0 = 1 OBVIOUS
    <3>2. QED BY <2>4, <3>1
  <2>6. QED BY <2>1, <2>2, <2>3, <2>5 DEF ErrorsCounted
<1>2. QED BY <1>1, ErrorsCountedStep, HolderInvariant, PTL DEF Spec

=============================================================================
