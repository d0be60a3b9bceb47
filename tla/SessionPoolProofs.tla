--------------------------- MODULE SessionPoolProofs ---------------------------
(***************************************************************************)
(* Proofs of the safety properties of the session pool, for any goroutines,*)
(* users, timeout and number of calls.                                     *)
(***************************************************************************)
EXTENDS SessionPool, SequenceTheorems, TLAPS

USE DEF GoTo

State == {"fresh", "running", "ok", "failed"}
Entry == [user : User, state : State, lastUsed : Time]

\* A call has an entry from LoadOrStore until it leaves, and a key to delete when
\* it is about to delete one.
Holding ==
  \A g \in Getter :
    /\ pc[g] # "idle" => ent[g] \in 1..Len(entries)
    /\ pc[g] = "delete" => doomed[g] \in User

PoolShape == TypeOK /\ Holding

\* A call that is about to claim a cleanup has seen that one is due, and the last
\* cleanup that ran is the one recorded.
Spaced ==
  /\ \A g \in Getter : pc[g] = "cas" => stamp[g] - last[g] >= Timeout
  /\ cleanups # <<>> => lastCleanup = cleanups[Len(cleanups)]
  /\ CleanupsSpaced

\* When the requests come one after the other: at most one call is under way ...
Solo == \A g, h \in Getter : pc[g] # "idle" /\ pc[h] # "idle" => g = h

\* ... a key of the map has an entry of that user ...
Keyed == \A u \in User : sessions[u] # 0 => entries[sessions[u]].user = u

\* ... the entry of the call is the one in the map, and from Touch on it has the
\* time of the call, so that the call's own cleanup does not find it expired ...
Served ==
  \A g \in Getter :
    /\ pc[g] # "idle" => sessions[UserOf(g)] = ent[g]
    /\ pc[g] = "factory" => entries[ent[g]].state = "running"
    /\ pc[g] \in {"touch", "last", "cas", "range", "delete"} =>
         entries[ent[g]].state = "ok" /\ stamp[g] <= now
    /\ pc[g] \in {"last", "cas", "range", "delete"} => entries[ent[g]].lastUsed = stamp[g]

\* ... a key about to be deleted still has the expired entry that Range saw, and
\* of the keys that Range has visited, none has an expired one ...
Swept ==
  \A g \in Getter :
    /\ pc[g] = "delete" => sessions[doomed[g]] # 0 /\ Expired(sessions[doomed[g]], stamp[g])
    /\ pc[g] \in {"range", "delete"} =>
         \A u \in User : \/ u \in todo[g]
                         \/ pc[g] = "delete" /\ u = doomed[g]
                         \/ sessions[u] = 0 \/ ~Expired(sessions[u], stamp[g])

\* ... and a session that has been handed out stays in the map until it expires.
Retained ==
  \A e \in returned :
    /\ entries[e].state = "ok"
    /\ now - entries[e].lastUsed <= Timeout => sessions[entries[e].user] = e

SerialInv == serial => Solo /\ Keyed /\ Served /\ Swept /\ Retained

\* Changing a field of one entry keeps the sequence of entries one.
LEMMA SetState ==
  ASSUME NEW es \in Seq(Entry), NEW i \in 1..Len(es), NEW s \in State
  PROVE  /\ [es EXCEPT ![i].state = s] \in Seq(Entry)
         /\ Len([es EXCEPT ![i].state = s]) = Len(es)
<1>1. es[i] \in Entry BY ElementOfSeq
<1>2. [es[i] EXCEPT !.state = s] \in Entry BY <1>1 DEF Entry
<1>3. [es EXCEPT ![i].state = s] = [es EXCEPT ![i] = [es[i] EXCEPT !.state = s]] OBVIOUS
<1>4. QED BY <1>2, <1>3, ExceptSeq

LEMMA SetLastUsed ==
  ASSUME NEW es \in Seq(Entry), NEW i \in 1..Len(es), NEW t \in Time
  PROVE  /\ [es EXCEPT ![i].lastUsed = t] \in Seq(Entry)
         /\ Len([es EXCEPT ![i].lastUsed = t]) = Len(es)
<1>1. es[i] \in Entry BY ElementOfSeq
<1>2. [es[i] EXCEPT !.lastUsed = t] \in Entry BY <1>1 DEF Entry
<1>3. [es EXCEPT ![i].lastUsed = t] = [es EXCEPT ![i] = [es[i] EXCEPT !.lastUsed = t]] OBVIOUS
<1>4. QED BY <1>2, <1>3, ExceptSeq

\* The initial state has the shape.
LEMMA ShapeInit == Init => PoolShape
<1> USE SessionPoolAssumption
<1>1. 0 \in Time /\ Epoch \in Time BY DEF Time, Epoch
<1>2. QED BY <1>1 DEF Init, PoolShape, TypeOK, Holding, Label

\* Every step keeps the shape.
LEMMA ShapeStep == PoolShape /\ [Next]_vars => PoolShape'
<1> USE SessionPoolAssumption DEF Label
<1> SUFFICES ASSUME PoolShape, [Next]_vars PROVE PoolShape'
  OBVIOUS
<1> USE DEF PoolShape
<1>0. entries \in Seq(Entry) /\ Len(entries) \in Nat BY DEF TypeOK, Entry, State
<1>t. 0 \in Time BY DEF Time, Epoch
\* A new entry for a user.
<1>n. ASSUME NEW u \in User, StoreNew(u)
      PROVE  /\ entries' \in Seq(Entry) /\ Len(entries') = Len(entries) + 1
             /\ sessions' \in [User -> 0..Len(entries')] /\ sessions'[u] \in 1..Len(entries')
  <2>1. [user |-> u, state |-> "fresh", lastUsed |-> 0] \in Entry
    BY <1>t DEF Entry, State
  <2>2. entries' \in Seq(Entry) /\ Len(entries') = Len(entries) + 1
    BY <1>0, <1>n, <2>1 DEF StoreNew
  <2>3. QED BY <1>0, <1>n, <2>2 DEF StoreNew, TypeOK
\* A call that leaves, with or without its session.
<1>l. ASSUME NEW g \in Getter, Leave(g)
      PROVE  /\ pc' \in [Getter -> Label] /\ ent' \in [Getter -> 0..Len(entries)]
             /\ stamp' \in [Getter -> Time] /\ last' \in [Getter -> Time]
             /\ pc'[g] = "idle"
             /\ \A h \in Getter : h # g => pc'[h] = pc[h] /\ ent'[h] = ent[h]
  BY <1>0, <1>t, <1>l DEF Leave, TypeOK
<1>r. ASSUME NEW g \in Getter, Return(g), pc[g] # "idle"
      PROVE  returned' \subseteq 1..Len(entries) /\ Leave(g)
  BY <1>r DEF Return, TypeOK, Holding
<1>1. ASSUME NEW g \in Getter, LoadOrStore(g) PROVE PoolShape'
  <2>1. PICK u \in User :
          /\ IF sessions[u] = 0 THEN StoreNew(u) ELSE UNCHANGED <<sessions, entries>>
          /\ ent' = [ent EXCEPT ![g] = sessions'[u]]
    BY <1>1 DEF LoadOrStore
  <2>2. /\ entries' \in Seq(Entry) /\ Len(entries') \in Nat /\ Len(entries) <= Len(entries')
        /\ sessions' \in [User -> 0..Len(entries')] /\ sessions'[u] \in 1..Len(entries')
    <3>1. CASE sessions[u] = 0 BY <1>0, <1>n, <2>1, <3>1
    <3>2. CASE sessions[u] # 0 BY <1>0, <2>1, <3>2 DEF TypeOK
    <3>3. QED BY <3>1, <3>2
  <2>3. ent' \in [Getter -> 0..Len(entries')] /\ returned' \subseteq 1..Len(entries')
    BY <1>0, <1>1, <2>1, <2>2 DEF LoadOrStore, TypeOK, history
  <2>c. calls' \in [Getter -> 0..MaxCalls] /\ pc' \in [Getter -> Label]
    BY <1>1 DEF LoadOrStore, TypeOK
  <2>4. TypeOK'
    BY <1>1, <2>2, <2>3, <2>c DEF LoadOrStore, TypeOK, history, Entry, State
  <2>5. Holding'
    BY <1>0, <1>1, <2>1, <2>2 DEF LoadOrStore, TypeOK, Holding
  <2>6. QED BY <2>4, <2>5
<1>2. ASSUME NEW g \in Getter, OnceBegin(g) PROVE PoolShape'
  <2>1. entries' \in Seq(Entry) /\ Len(entries') = Len(entries)
    BY <1>0, <1>2, SetState DEF OnceBegin, Holding, State
  <2>2. QED BY <1>0, <1>2, <2>1 DEF OnceBegin, TypeOK, Holding, locals, history, Entry, State
<1>3. ASSUME NEW g \in Getter, Factory(g) PROVE PoolShape'
  <2>1. entries' \in Seq(Entry) /\ Len(entries') = Len(entries)
    <3>1. PICK state \in {"ok", "failed"} : entries' = [entries EXCEPT ![ent[g]].state = state]
      BY <1>3 DEF Factory
    <3>2. state \in State /\ ent[g] \in 1..Len(entries)
      BY <1>3 DEF Factory, Holding, State
    <3>3. QED BY <1>0, <3>1, <3>2, SetState
  <2>2. QED BY <1>0, <1>3, <2>1 DEF Factory, TypeOK, Holding, locals, history, Entry, State
<1>4. ASSUME NEW g \in Getter, OnceDone(g) PROVE PoolShape'
  BY <1>4 DEF OnceDone, TypeOK, Holding, pool, locals, history
<1>5. ASSUME NEW g \in Getter, Fail(g) PROVE PoolShape'
  <2>1. UserOf(g) \in User
    <3>1. ent[g] \in 1..Len(entries) BY <1>5 DEF Fail, Holding
    <3>2. entries[ent[g]] \in Entry BY <1>0, <3>1, ElementOfSeq
    <3>3. QED BY <3>2 DEF UserOf, Entry
  <2>2. /\ entries' \in Seq(Entry) /\ Len(entries') \in Nat /\ Len(entries) <= Len(entries')
        /\ sessions' \in [User -> 0..Len(entries')]
    <3>1. CASE sessions[UserOf(g)] = ent[g]
      BY <1>0, <1>5, <1>n, <2>1, <3>1 DEF Fail, ReplaceFailed
    <3>2. CASE sessions[UserOf(g)] # ent[g]
      BY <1>0, <1>5, <3>2 DEF Fail, ReplaceFailed, TypeOK
    <3>3. QED BY <3>1, <3>2
  <2>3. ent' \in [Getter -> 0..Len(entries')] /\ returned' \subseteq 1..Len(entries')
    BY <1>0, <1>5, <2>2 DEF Fail, Leave, TypeOK, history
  <2>4. TypeOK'
    BY <1>5, <1>t, <2>2, <2>3 DEF Fail, Leave, TypeOK, history, Entry, State
  <2>5. Holding'
    BY <1>0, <1>5, <2>2 DEF Fail, Leave, TypeOK, Holding
  <2>6. QED BY <2>4, <2>5
<1>6. ASSUME NEW g \in Getter, ReadClock(g) PROVE PoolShape'
  BY <1>6 DEF ReadClock, TypeOK, Holding, pool, history
<1>7. ASSUME NEW g \in Getter, Touch(g) PROVE PoolShape'
  <2>0. ent[g] \in 1..Len(entries) BY <1>7 DEF Touch, Holding
  <2>1. entries' \in Seq(Entry) /\ Len(entries') = Len(entries)
    BY <1>0, <1>7, <2>0, SetLastUsed DEF Touch, TypeOK
  <2>2. CASE Timeout = 0
    <3>1. Return(g) BY <1>7, <2>2 DEF Touch
    <3>2. returned' \subseteq 1..Len(entries) /\ Leave(g) BY <1>7, <1>r, <3>1 DEF Touch
    <3>3. TypeOK' BY <1>7, <1>l, <2>1, <3>2 DEF Touch, TypeOK, Entry, State
    <3>4. Holding' BY <1>7, <1>l, <2>1, <3>2 DEF Touch, Holding
    <3>5. QED BY <3>3, <3>4
  <2>3. CASE Timeout # 0
    BY <1>0, <1>7, <2>1, <2>3 DEF Touch, TypeOK, Holding, Entry, State
  <2>4. QED BY <2>2, <2>3
<1>8. ASSUME NEW g \in Getter, LoadLast(g) PROVE PoolShape'
  <2>1. CASE stamp[g] - lastCleanup < Timeout
    <3>1. Return(g) BY <1>8, <2>1 DEF LoadLast
    <3>2. returned' \subseteq 1..Len(entries) /\ Leave(g) BY <1>8, <1>r, <3>1 DEF LoadLast
    <3>3. TypeOK' BY <1>8, <1>l, <3>2 DEF LoadLast, TypeOK, pool
    <3>4. Holding' BY <1>8, <1>l, <3>2 DEF LoadLast, Holding, pool
    <3>5. QED BY <3>3, <3>4
  <2>2. CASE ~(stamp[g] - lastCleanup < Timeout)
    <3>1. /\ UNCHANGED <<sessions, entries, lastCleanup, now, serial, ent, stamp, todo, doomed, calls,
                          returned, cleanups>>
          /\ last' = [last EXCEPT ![g] = lastCleanup] /\ GoTo(g, "cas")
      BY <1>8, <2>2 DEF LoadLast, pool
    <3>2. pc' \in [Getter -> Label] /\ last' \in [Getter -> Time] BY <3>1 DEF GoTo, TypeOK
    <3>3. TypeOK' BY <3>1, <3>2 DEF TypeOK
    <3>4. pc[g] = "last" /\ pc'[g] = "cas" /\ \A h \in Getter \ {g} : pc'[h] = pc[h]
      BY <1>8, <3>1 DEF LoadLast, GoTo, TypeOK
    <3>5. Holding' BY <3>1, <3>4 DEF Holding
    <3>6. QED BY <3>3, <3>5
  <2>3. QED BY <2>1, <2>2
<1>9. ASSUME NEW g \in Getter, CasCleanup(g) PROVE PoolShape'
  <2>1. CASE Claims(g)
    <3>1. cleanups' \in Seq(Time)
      <4>1. stamp[g] \in Time /\ cleanups \in Seq(Time) BY DEF TypeOK
      <4>2. cleanups' = Append(cleanups, stamp[g]) BY <1>9, <2>1 DEF CasCleanup
      <4>3. QED BY <4>1, <4>2, AppendProperties
    <3>2. TypeOK'
      <4>1. todo' \in [Getter -> SUBSET User] /\ pc' \in [Getter -> Label]
        <5>1. todo \in [Getter -> SUBSET User] /\ pc \in [Getter -> Label] BY DEF TypeOK
        <5>2. todo' = [todo EXCEPT ![g] = User] /\ pc' = [pc EXCEPT ![g] = "range"]
          BY <1>9, <2>1 DEF CasCleanup
        <5>3. User \in SUBSET User OBVIOUS
        <5>4. todo' \in [Getter -> SUBSET User] BY <5>1, <5>2, <5>3, Zenon
        <5>5. QED BY <5>1, <5>2, <5>4
      <4>2. lastCleanup' \in Time
        BY <1>9, <2>1 DEF CasCleanup, TypeOK
      <4>3. UNCHANGED <<sessions, entries, now, doomed, calls, serial, ent, stamp, last, returned>>
        BY <1>9, <2>1 DEF CasCleanup
      <4>4. QED BY <3>1, <4>1, <4>2, <4>3 DEF TypeOK
    <3>3. Holding' BY <1>9, <2>1 DEF CasCleanup, TypeOK, Holding
    <3>4. QED BY <3>2, <3>3
  <2>2. CASE ~Claims(g)
    <3>1. Return(g) BY <1>9, <2>2 DEF CasCleanup
    <3>2. returned' \subseteq 1..Len(entries) /\ Leave(g) BY <1>9, <1>r, <3>1 DEF CasCleanup
    <3>3. TypeOK' BY <1>9, <1>l, <2>2, <3>2 DEF CasCleanup, TypeOK
    <3>4. Holding' BY <1>9, <1>l, <2>2, <3>2 DEF CasCleanup, TypeOK, Holding
    <3>5. QED BY <3>3, <3>4
  <2>3. QED BY <2>1, <2>2
<1>10. ASSUME NEW g \in Getter, Visit(g) PROVE PoolShape'
  <2>1. PICK u \in todo[g] :
          LET due == sessions[u] # 0 /\ Expired(sessions[u], stamp[g])
          IN /\ todo' = [todo EXCEPT ![g] = @ \ {u}]
             /\ doomed' = [doomed EXCEPT ![g] = IF due THEN u ELSE Nobody]
             /\ pc' = [pc EXCEPT ![g] = IF due THEN "delete" ELSE "range"]
    BY <1>10 DEF Visit
  <2>2. u \in User BY DEF TypeOK
  <2>3. CASE sessions[u] # 0 /\ Expired(sessions[u], stamp[g])
    BY <1>10, <2>1, <2>2, <2>3 DEF Visit, TypeOK, Holding, pool, history
  <2>4. CASE ~(sessions[u] # 0 /\ Expired(sessions[u], stamp[g]))
    BY <1>10, <2>1, <2>2, <2>4 DEF Visit, TypeOK, Holding, pool, history
  <2>5. QED BY <2>3, <2>4
<1>11. ASSUME NEW g \in Getter, Delete(g) PROVE PoolShape'
  BY <1>0, <1>11 DEF Delete, TypeOK, Holding, history
<1>12. ASSUME NEW g \in Getter, CleanupDone(g) PROVE PoolShape'
  <2>1. returned' \subseteq 1..Len(entries) /\ Leave(g) BY <1>12, <1>r DEF CleanupDone
  <2>2. TypeOK' BY <1>12, <1>l, <2>1 DEF CleanupDone, TypeOK, pool
  <2>3. Holding' BY <1>12, <1>l, <2>1 DEF CleanupDone, Holding, pool
  <2>4. QED BY <2>2, <2>3
<1>13. CASE Tick
  BY <1>13 DEF Tick, TypeOK, Holding, pool, locals, history, Time, Epoch
<1>14. CASE UNCHANGED vars
  BY <1>14 DEF vars, TypeOK, Holding, pool, locals, history
<1>15. QED
  BY <1>1, <1>2, <1>3, <1>4, <1>5, <1>6, <1>7, <1>8, <1>9, <1>10, <1>11, <1>12, <1>13, <1>14
  DEF Next, GetterStep, Quiet
--------------------------------------------------------------------------------
\* The shape of the pool holds throughout.
THEOREM PoolTypeCorrect == Spec => []PoolShape
<1>1. QED BY ShapeInit, ShapeStep, PTL DEF Spec

LEMMA SpacedInit == Init => Spaced
BY SessionPoolAssumption DEF Init, Spaced, CleanupsSpaced

\* Claiming a cleanup compares the last one with what the call has read of it, and
\* nothing but a claim changes it.
LEMMA SpacedStep == PoolShape /\ Spaced /\ [Next]_vars => Spaced'
<1> USE SessionPoolAssumption
<1> SUFFICES ASSUME PoolShape, Spaced, [Next]_vars PROVE Spaced'
  OBVIOUS
<1>0. TypeOK BY DEF PoolShape
<1>t. Time \subseteq Int BY DEF Time, Epoch
\* A step that claims no cleanup and starts no attempt to.
<1>q. ASSUME UNCHANGED <<lastCleanup, cleanups>>,
             \A g \in Getter : pc'[g] = "cas" =>
               pc[g] = "cas" /\ stamp'[g] = stamp[g] /\ last'[g] = last[g]
      PROVE  Spaced'
  BY <1>q DEF Spaced, CleanupsSpaced
<1>1. ASSUME NEW g \in Getter,
             LoadOrStore(g) \/ OnceBegin(g) \/ Factory(g) \/ OnceDone(g) \/ Fail(g) \/ ReadClock(g)
      PROVE  Spaced'
  BY <1>0, <1>1, <1>q
  DEF TypeOK, LoadOrStore, OnceBegin, Factory, OnceDone, Fail, ReadClock, Leave, pool, locals, history
<1>2. ASSUME NEW g \in Getter, Touch(g) PROVE Spaced'
  <2>1. CASE Timeout = 0
    BY <1>0, <1>2, <1>q, <2>1 DEF TypeOK, Touch, Return, Leave
  <2>2. CASE Timeout # 0
    BY <1>0, <1>2, <1>q, <2>2 DEF TypeOK, Touch
  <2>3. QED BY <2>1, <2>2
<1>3. ASSUME NEW g \in Getter, LoadLast(g) PROVE Spaced'
  <2>1. CASE stamp[g] - lastCleanup < Timeout
    BY <1>0, <1>3, <1>q, <2>1 DEF TypeOK, LoadLast, Return, Leave, pool
  <2>2. CASE ~(stamp[g] - lastCleanup < Timeout)
    <3>1. stamp[g] \in Int /\ lastCleanup \in Int BY <1>0, <1>t DEF TypeOK
    <3>2. stamp[g] - lastCleanup >= Timeout BY <2>2, <3>1
    <3>3. \A h \in Getter : pc'[h] = "cas" => stamp'[h] - last'[h] >= Timeout
      BY <1>0, <1>3, <2>2, <3>2 DEF TypeOK, LoadLast, Spaced
    <3>4. UNCHANGED <<lastCleanup, cleanups>> BY <1>3, <2>2 DEF LoadLast, pool
    <3>5. QED BY <3>3, <3>4 DEF Spaced, CleanupsSpaced
  <2>3. QED BY <2>1, <2>2
<1>4. ASSUME NEW g \in Getter, CasCleanup(g) PROVE Spaced'
  <2>1. CASE ~Claims(g)
    BY <1>0, <1>4, <1>q, <2>1 DEF TypeOK, CasCleanup, Return, Leave
  <2>2. CASE Claims(g)
    <3>1. cleanups \in Seq(Time) /\ stamp[g] \in Time /\ lastCleanup \in Time
      BY <1>0 DEF TypeOK
    <3>2. cleanups' = Append(cleanups, stamp[g]) /\ lastCleanup' = stamp[g]
      BY <1>4, <2>2 DEF CasCleanup
    <3>3. /\ Len(cleanups') = Len(cleanups) + 1 /\ cleanups'[Len(cleanups) + 1] = stamp[g]
          /\ \A i \in 1..Len(cleanups) : cleanups'[i] = cleanups[i]
          /\ Len(cleanups) \in Nat
      BY <3>1, <3>2, AppendProperties
    <3>4. stamp[g] - lastCleanup >= Timeout
      BY <1>4, <2>2 DEF CasCleanup, Claims, Spaced
    <3>5. \A i \in 1..(Len(cleanups') - 1) : cleanups'[i + 1] - cleanups'[i] >= Timeout
      <4> SUFFICES ASSUME NEW i \in 1..Len(cleanups)
                   PROVE  cleanups'[i + 1] - cleanups'[i] >= Timeout
        BY <3>3
      <4>1. CASE i = Len(cleanups)
        <5>1. cleanups # <<>> BY <3>1, <4>1
        <5>2. lastCleanup = cleanups[i] BY <4>1, <5>1 DEF Spaced
        <5>3. QED BY <3>3, <3>4, <4>1, <5>2
      <4>2. CASE i # Len(cleanups)
        <5>1. i \in 1..(Len(cleanups) - 1) /\ i + 1 \in 1..Len(cleanups) BY <3>3, <4>2
        <5>2. cleanups[i + 1] - cleanups[i] >= Timeout BY <5>1 DEF Spaced, CleanupsSpaced
        <5>3. QED BY <3>3, <5>1, <5>2
      <4>3. QED BY <4>1, <4>2
    <3>6. \A h \in Getter : pc'[h] = "cas" => stamp'[h] - last'[h] >= Timeout
      BY <1>0, <1>4, <2>2 DEF TypeOK, CasCleanup, Spaced
    <3>7. QED BY <3>2, <3>3, <3>5, <3>6 DEF Spaced, CleanupsSpaced
  <2>3. QED BY <2>1, <2>2
<1>5. ASSUME NEW g \in Getter, Visit(g) \/ Delete(g) \/ CleanupDone(g) PROVE Spaced'
  <2>1. CASE Visit(g) BY <1>0, <1>q, <2>1 DEF TypeOK, Visit, pool, history
  <2>2. CASE Delete(g) BY <1>0, <1>q, <2>2 DEF TypeOK, Delete, history
  <2>3. CASE CleanupDone(g) BY <1>0, <1>q, <2>3 DEF TypeOK, CleanupDone, Return, Leave, pool
  <2>4. QED BY <1>5, <2>1, <2>2, <2>3
<1>6. CASE Tick \/ UNCHANGED vars
  BY <1>6, <1>q DEF Tick, vars, pool, locals, history
<1>7. QED
  BY <1>1, <1>2, <1>3, <1>4, <1>5, <1>6 DEF Next, GetterStep, Quiet

\* Cleanups are a timeout apart, for any number of goroutines that notice at once
\* that one is due.
THEOREM CleanupsSpacedAlways == Spec => []CleanupsSpaced
<1>1. Init => PoolShape /\ Spaced BY ShapeInit, SpacedInit
<1>2. PoolShape /\ Spaced /\ [Next]_vars => PoolShape' /\ Spaced' BY ShapeStep, SpacedStep
<1>3. Spaced => CleanupsSpaced BY DEF Spaced
<1>4. QED BY <1>1, <1>2, <1>3, PTL DEF Spec

\* Only a cleanup that is about to delete the key of a user takes the user's
\* healthy entry out of the map: LoadOrStore stores where there is none, and a
\* failed call replaces its own entry only, which has failed.
THEOREM OnlyExpiryRemovesAlways == Spec => OnlyExpiryRemoves
<1> DEFINE Kept == \A u \in User :
       sessions[u] # 0 /\ sessions'[u] # sessions[u] /\ entries[sessions[u]].state = "ok"
         => \E g \in Getter : pc[g] = "delete" /\ doomed[g] = u
<1>1. PoolShape /\ [Next]_vars => Kept
  <2> SUFFICES ASSUME PoolShape, [Next]_vars, NEW u \in User,
                      sessions[u] # 0, sessions'[u] # sessions[u], entries[sessions[u]].state = "ok"
               PROVE  \E g \in Getter : pc[g] = "delete" /\ doomed[g] = u
    OBVIOUS
  <2>0. sessions \in [User -> 0..Len(entries)] BY DEF PoolShape, TypeOK
  <2>1. ASSUME NEW g \in Getter, LoadOrStore(g) PROVE FALSE
    BY <2>0, <2>1 DEF LoadOrStore, StoreNew
  <2>2. ASSUME NEW g \in Getter, Fail(g) PROVE FALSE
    <3>1. CASE sessions[UserOf(g)] = ent[g]
      BY <2>0, <2>2, <3>1 DEF Fail, ReplaceFailed, StoreNew
    <3>2. CASE sessions[UserOf(g)] # ent[g]
      BY <2>2, <3>2 DEF Fail, ReplaceFailed
    <3>3. QED BY <3>1, <3>2
  <2>3. ASSUME NEW g \in Getter, Delete(g) PROVE pc[g] = "delete" /\ doomed[g] = u
    BY <2>0, <2>3 DEF Delete
  <2>4. ASSUME NEW g \in Getter,
               \/ OnceBegin(g) \/ Factory(g) \/ OnceDone(g) \/ ReadClock(g) \/ Touch(g)
               \/ LoadLast(g) \/ CasCleanup(g) \/ Visit(g) \/ CleanupDone(g)
        PROVE  FALSE
    BY <2>4 DEF OnceBegin, Factory, OnceDone, ReadClock, Touch, LoadLast, CasCleanup, Visit,
                CleanupDone, pool
  <2>5. CASE Tick \/ UNCHANGED vars
    BY <2>5 DEF Tick, vars, pool
  <2>6. QED BY <2>1, <2>2, <2>3, <2>4, <2>5 DEF Next, GetterStep, Quiet
<1>2. Spec => [][Kept]_vars BY <1>1, PoolTypeCorrect, PTL DEF Spec
<1>3. QED BY <1>2 DEF OnlyExpiryRemoves

\* What changing a field of one entry does to the fields of all of them.
LEMMA StateFields ==
  ASSUME NEW es \in Seq(Entry), NEW i \in 1..Len(es), NEW s
  PROVE  \A j \in 1..Len(es) :
           LET new == [es EXCEPT ![i].state = s]
           IN  /\ new[j].user = es[j].user /\ new[j].lastUsed = es[j].lastUsed
               /\ new[j].state = IF j = i THEN s ELSE es[j].state
<1>1. \A j \in 1..Len(es) : es[j] \in Entry BY ElementOfSeq
<1>2. es[i] = [user |-> es[i].user, state |-> es[i].state, lastUsed |-> es[i].lastUsed]
  BY <1>1 DEF Entry
<1>3. QED BY <1>1, <1>2 DEF Entry

LEMMA LastUsedFields ==
  ASSUME NEW es \in Seq(Entry), NEW i \in 1..Len(es), NEW t
  PROVE  \A j \in 1..Len(es) :
           LET new == [es EXCEPT ![i].lastUsed = t]
           IN  /\ new[j].user = es[j].user /\ new[j].state = es[j].state
               /\ new[j].lastUsed = IF j = i THEN t ELSE es[j].lastUsed
<1>1. \A j \in 1..Len(es) : es[j] \in Entry BY ElementOfSeq
<1>2. es[i] = [user |-> es[i].user, state |-> es[i].state, lastUsed |-> es[i].lastUsed]
  BY <1>1 DEF Entry
<1>3. QED BY <1>1, <1>2 DEF Entry

LEMMA SerialInit == Init => SerialInv
BY DEF Init, SerialInv, Solo, Keyed, Served, Swept, Retained

\* While requests do not overlap, the entry of the call under way is the one in the
\* map at every step of it, and Delete removes the entry that Range saw.
LEMMA SerialStep == PoolShape /\ SerialInv /\ [Next]_vars => SerialInv'
<1> USE SessionPoolAssumption
<1> SUFFICES ASSUME PoolShape, SerialInv, [Next]_vars PROVE SerialInv'
  OBVIOUS
<1>0. TypeOK /\ Holding BY DEF PoolShape
<1>s. serial' = serial
  BY DEF Next, GetterStep, LoadOrStore, OnceBegin, Factory, OnceDone, Fail, ReadClock, Touch,
         LoadLast, CasCleanup, Visit, Delete, CleanupDone, Tick, Quiet, vars, locals
<1> SUFFICES ASSUME serial PROVE (Solo /\ Keyed /\ Served /\ Swept /\ Retained)'
  BY <1>s DEF SerialInv
<1>i. Solo /\ Keyed /\ Served /\ Swept /\ Retained BY DEF SerialInv
<1>e. entries \in Seq(Entry) /\ Len(entries) \in Nat /\ returned \subseteq 1..Len(entries)
  BY <1>0 DEF TypeOK, Entry, State
<1>f. \A i \in 1..Len(entries) :
        entries[i].user \in User /\ entries[i].state \in State /\ entries[i].lastUsed \in Int
  <2>1. \A i \in 1..Len(entries) : entries[i] \in Entry BY <1>e, ElementOfSeq
  <2>2. Time \subseteq Int BY DEF Time, Epoch
  <2>3. QED BY <2>1, <2>2 DEF Entry
<1>t. /\ now \in Int /\ \A g \in Getter : stamp[g] \in Int
      /\ sessions \in [User -> 0..Len(entries)]
  BY <1>0 DEF TypeOK, Time, Epoch
<1>p. /\ pc \in [Getter -> Label] /\ ent \in [Getter -> 0..Len(entries)]
      /\ stamp \in [Getter -> Time] /\ todo \in [Getter -> SUBSET User]
      /\ doomed \in [Getter -> User \cup {Nobody}]
  BY <1>0 DEF TypeOK
\* The call under way is alone.
<1>o. ASSUME NEW g \in Getter, pc[g] # "idle"
      PROVE  /\ \A h \in Getter : h # g => pc[h] = "idle"
             /\ ent[g] \in 1..Len(entries) /\ sessions[UserOf(g)] = ent[g]
  BY <1>0, <1>i, <1>o DEF Solo, Holding, Served
\* When all calls are idle, nothing is said of them.
<1>d. ASSUME \A h \in Getter : pc'[h] = "idle" PROVE (Solo /\ Served /\ Swept)'
  BY <1>d DEF Solo, Served, Swept
\* A call that leaves leaves none.
<1>l. ASSUME NEW g \in Getter, pc[g] # "idle", Leave(g) PROVE \A h \in Getter : pc'[h] = "idle"
  BY <1>o, <1>p, <1>l DEF Leave
\* A call that returns with its session.
<1>r. ASSUME NEW g \in Getter, pc[g] # "idle", entries[ent[g]].state = "ok", Return(g),
             UNCHANGED <<entries, sessions, now>>
      PROVE  (Solo /\ Keyed /\ Served /\ Swept /\ Retained)'
  <2>1. (Solo /\ Served /\ Swept)' BY <1>d, <1>l, <1>r DEF Return
  <2>2. Keyed' BY <1>i, <1>r DEF Keyed
  <2>3. Retained' BY <1>i, <1>o, <1>r DEF Return, Retained, UserOf
  <2>4. QED BY <2>1, <2>2, <2>3
\* A new entry for a user who has none that was handed out and is in use.
<1>n. ASSUME NEW u \in User, StoreNew(u), UNCHANGED <<now, returned>>,
             sessions[u] \in returned => entries[sessions[u]].state # "ok"
      PROVE  /\ Keyed' /\ Retained' /\ sessions'[u] = Len(entries) + 1
             /\ entries'[Len(entries) + 1].user = u
             /\ entries'[Len(entries) + 1].state = "fresh"
  <2>1. /\ entries'[Len(entries) + 1] = [user |-> u, state |-> "fresh", lastUsed |-> 0]
        /\ \A i \in 1..Len(entries) : entries'[i] = entries[i]
    BY <1>e, <1>n DEF StoreNew
  <2>2. sessions' = [sessions EXCEPT ![u] = Len(entries) + 1] BY <1>n DEF StoreNew
  <2>3. Keyed'
    <3> SUFFICES ASSUME NEW v \in User, sessions'[v] # 0 PROVE entries'[sessions'[v]].user = v
      BY DEF Keyed
    <3>1. CASE v = u BY <1>t, <2>1, <2>2, <3>1
    <3>2. CASE v # u
      <4>1. sessions'[v] = sessions[v] /\ sessions[v] \in 1..Len(entries) BY <1>e, <1>t, <2>2, <3>2
      <4>2. entries[sessions[v]].user = v BY <1>i, <4>1 DEF Keyed
      <4>3. QED BY <2>1, <4>1, <4>2
    <3>3. QED BY <3>1, <3>2
  <2>4. Retained'
    <3> SUFFICES ASSUME NEW e \in returned
                 PROVE  /\ entries'[e].state = "ok"
                        /\ now - entries'[e].lastUsed <= Timeout => sessions'[entries'[e].user] = e
      BY <1>n DEF Retained
    <3>1. entries'[e] = entries[e] /\ entries[e].user \in User BY <1>e, <1>f, <2>1
    <3>2. /\ entries[e].state = "ok"
          /\ now - entries[e].lastUsed <= Timeout => sessions[entries[e].user] = e
      BY <1>i DEF Retained
    <3>3. sessions[u] # e BY <1>n, <3>2
    <3>4. QED BY <1>t, <2>2, <3>1, <3>2, <3>3
  <2>5. QED BY <1>t, <2>1, <2>2, <2>3, <2>4
<1>1. ASSUME NEW g \in Getter, LoadOrStore(g) PROVE (Solo /\ Keyed /\ Served /\ Swept /\ Retained)'
  <2>1. PICK u \in User :
          /\ IF sessions[u] = 0 THEN StoreNew(u) ELSE UNCHANGED <<sessions, entries>>
          /\ ent' = [ent EXCEPT ![g] = sessions'[u]]
    BY <1>1 DEF LoadOrStore
  <2>2. /\ pc'[g] = "once" /\ \A h \in Getter : h # g => pc'[h] = "idle"
        /\ ent'[g] = sessions'[u] /\ UNCHANGED <<now, returned>>
    BY <1>1, <1>p, <2>1 DEF LoadOrStore, history
  <2>3. Keyed' /\ Retained' /\ entries'[sessions'[u]].user = u
    <3>1. CASE sessions[u] = 0
      <4>1. sessions[u] \notin returned BY <1>e, <3>1
      <4>2. QED BY <1>n, <2>1, <2>2, <3>1, <4>1
    <3>2. CASE sessions[u] # 0
      BY <1>i, <2>1, <2>2, <3>2 DEF Keyed, Retained
    <3>3. QED BY <3>1, <3>2
  <2>4. (Solo /\ Served /\ Swept)' BY <2>2, <2>3 DEF Solo, Served, Swept, UserOf
  <2>5. QED BY <2>3, <2>4
\* The state of the call's entry changes, and the call does not go to a cleanup.
<1>c. ASSUME NEW g \in Getter, pc[g] # "idle", NEW s, s # "running" => pc'[g] = "result",
             pc'[g] \in {"factory", "result"}, pc' = [pc EXCEPT ![g] = pc'[g]],
             entries[ent[g]].state # "ok", entries' = [entries EXCEPT ![ent[g]].state = s],
             UNCHANGED <<sessions, now, ent, returned>>
      PROVE  (Solo /\ Keyed /\ Served /\ Swept /\ Retained)'
  <2>1. \A h \in Getter : h # g => pc'[h] = "idle" BY <1>c, <1>o, <1>p
  <2>2. \A j \in 1..Len(entries) :
          /\ entries'[j].user = entries[j].user /\ entries'[j].lastUsed = entries[j].lastUsed
          /\ entries'[j].state = IF j = ent[g] THEN s ELSE entries[j].state
    BY <1>c, <1>e, <1>o, StateFields
  <2>3. Keyed'
    <3> SUFFICES ASSUME NEW v \in User, sessions[v] # 0 PROVE entries'[sessions[v]].user = v
      BY <1>c DEF Keyed
    <3>1. sessions[v] \in 1..Len(entries) BY <1>e, <1>t
    <3>2. QED BY <1>i, <2>2, <3>1 DEF Keyed
  <2>4. Retained' BY <1>c, <1>e, <1>i, <2>2 DEF Retained
  <2>5. (Solo /\ Swept)' BY <1>c, <2>1 DEF Solo, Swept
  <2>6. Served' BY <1>c, <1>o, <2>1, <2>2 DEF Served, UserOf
  <2>7. QED BY <2>3, <2>4, <2>5, <2>6
<1>2. ASSUME NEW g \in Getter, OnceBegin(g) PROVE (Solo /\ Keyed /\ Served /\ Swept /\ Retained)'
  BY <1>2, <1>c, <1>p DEF OnceBegin, locals, history
<1>3. ASSUME NEW g \in Getter, Factory(g) PROVE (Solo /\ Keyed /\ Served /\ Swept /\ Retained)'
  <2>1. PICK s \in {"ok", "failed"} : entries' = [entries EXCEPT ![ent[g]].state = s]
    BY <1>3 DEF Factory
  <2>2. entries[ent[g]].state # "ok" BY <1>3, <1>i DEF Factory, Served
  <2>3. QED BY <1>3, <1>c, <1>p, <2>1, <2>2 DEF Factory, locals, history
\* A step of the call that changes nothing of the pool and of its entry.
<1>k. ASSUME NEW g \in Getter, pc[g] # "idle", pc' = [pc EXCEPT ![g] = pc'[g]],
             UNCHANGED <<sessions, entries, now, ent, returned>>
      PROVE  (Solo /\ Keyed /\ Retained)' /\ UserOf(g)' = UserOf(g)
             /\ \A h \in Getter : h # g => pc'[h] = "idle"
  <2>1. \A h \in Getter : h # g => pc'[h] = "idle" BY <1>k, <1>o, <1>p
  <2>2. QED BY <1>i, <1>k, <2>1 DEF Solo, Keyed, Retained, UserOf
<1>4. ASSUME NEW g \in Getter, OnceDone(g) PROVE (Solo /\ Keyed /\ Served /\ Swept /\ Retained)'
  <2>1. /\ pc[g] = "once" /\ pc' = [pc EXCEPT ![g] = "result"] /\ pc'[g] = "result"
        /\ UNCHANGED <<sessions, entries, now, ent, returned>>
    BY <1>4, <1>p DEF OnceDone, pool, locals, history
  <2>2. (Solo /\ Keyed /\ Retained)' /\ UserOf(g)' = UserOf(g)
        /\ \A h \in Getter : h # g => pc'[h] = "idle"
    BY <1>k, <2>1
  <2>3. Served' /\ Swept' BY <1>o, <2>1, <2>2 DEF Served, Swept
  <2>4. QED BY <2>2, <2>3
<1>5. ASSUME NEW g \in Getter, Fail(g) PROVE (Solo /\ Keyed /\ Served /\ Swept /\ Retained)'
  <2>1. pc[g] # "idle" /\ entries[ent[g]].state = "failed" /\ Leave(g) /\ ReplaceFailed(g)
        /\ UNCHANGED <<now, returned>>
    BY <1>5 DEF Fail, history
  <2>2. sessions[UserOf(g)] = ent[g] /\ ent[g] \in 1..Len(entries) BY <1>o, <2>1
  <2>3. UserOf(g) \in User BY <1>f, <2>2 DEF UserOf
  <2>4. StoreNew(UserOf(g)) BY <2>1, <2>2 DEF ReplaceFailed
  <2>5. Keyed' /\ Retained' BY <1>n, <2>1, <2>2, <2>3, <2>4
  <2>6. (Solo /\ Served /\ Swept)' BY <1>d, <1>l, <2>1
  <2>7. QED BY <2>5, <2>6
<1>6. ASSUME NEW g \in Getter, ReadClock(g) PROVE (Solo /\ Keyed /\ Served /\ Swept /\ Retained)'
  <2>1. /\ pc[g] = "result" /\ pc' = [pc EXCEPT ![g] = "touch"] /\ pc'[g] = "touch"
        /\ entries[ent[g]].state = "ok" /\ stamp'[g] = now
        /\ UNCHANGED <<sessions, entries, now, ent, returned>>
    BY <1>6, <1>p DEF ReadClock, pool, history
  <2>2. (Solo /\ Keyed /\ Retained)' /\ UserOf(g)' = UserOf(g)
        /\ \A h \in Getter : h # g => pc'[h] = "idle"
    BY <1>k, <2>1
  <2>3. Served' /\ Swept' BY <1>o, <1>t, <2>1, <2>2 DEF Served, Swept
  <2>4. QED BY <2>2, <2>3
\* The rest of the call has a healthy entry and a reading of the clock.
<1>h. ASSUME NEW g \in Getter, pc[g] \in {"touch", "last", "cas", "range", "delete"}
      PROVE  /\ entries[ent[g]].state = "ok" /\ stamp[g] <= now
             /\ pc[g] # "touch" => entries[ent[g]].lastUsed = stamp[g]
  BY <1>h, <1>i DEF Served
<1>7. ASSUME NEW g \in Getter, Touch(g) PROVE (Solo /\ Keyed /\ Served /\ Swept /\ Retained)'
  <2>1. /\ pc[g] = "touch" /\ entries' = [entries EXCEPT ![ent[g]].lastUsed = stamp[g]]
        /\ UNCHANGED <<sessions, now>>
    BY <1>7 DEF Touch
  <2>2. ent[g] \in 1..Len(entries) /\ sessions[UserOf(g)] = ent[g]
        /\ entries[ent[g]].state = "ok" /\ stamp[g] <= now
    BY <1>o, <1>h, <2>1
  <2>3. \A j \in 1..Len(entries) :
          /\ entries'[j].user = entries[j].user /\ entries'[j].state = entries[j].state
          /\ entries'[j].lastUsed = IF j = ent[g] THEN stamp[g] ELSE entries[j].lastUsed
    BY <1>e, <2>1, <2>2, LastUsedFields
  <2>4. Keyed'
    <3> SUFFICES ASSUME NEW v \in User, sessions[v] # 0 PROVE entries'[sessions[v]].user = v
      BY <2>1 DEF Keyed
    <3>1. sessions[v] \in 1..Len(entries) BY <1>e, <1>t
    <3>2. QED BY <1>i, <2>3, <3>1 DEF Keyed
  <2>5. ASSUME returned' \subseteq returned \cup {ent[g]} PROVE Retained'
    <3> SUFFICES ASSUME NEW e \in returned \cup {ent[g]}
                 PROVE  /\ entries'[e].state = "ok"
                        /\ now - entries'[e].lastUsed <= Timeout => sessions[entries'[e].user] = e
      BY <2>1, <2>5 DEF Retained
    <3>1. CASE e = ent[g] BY <2>2, <2>3, <3>1 DEF UserOf
    <3>2. CASE e # ent[g] BY <1>e, <1>i, <2>3, <3>2 DEF Retained
    <3>3. QED BY <3>1, <3>2
  <2>6. CASE Timeout = 0
    <3>1. Return(g) BY <1>7, <2>6 DEF Touch
    <3>2. (Solo /\ Served /\ Swept)' BY <1>d, <1>l, <2>1, <3>1 DEF Return
    <3>3. Retained' BY <2>5, <3>1 DEF Return
    <3>4. QED BY <2>4, <3>2, <3>3
  <2>7. CASE Timeout # 0
    <3>1. /\ pc' = [pc EXCEPT ![g] = "last"] /\ pc'[g] = "last"
          /\ UNCHANGED <<ent, stamp, returned>>
      BY <1>7, <1>p, <2>7 DEF Touch
    <3>2. \A h \in Getter : h # g => pc'[h] = "idle" BY <1>o, <1>p, <2>1, <3>1
    <3>3. (Solo /\ Swept)' BY <3>1, <3>2 DEF Solo, Swept
    <3>4. Served' BY <2>1, <2>2, <2>3, <3>1, <3>2 DEF Served, UserOf
    <3>5. QED BY <2>4, <2>5, <3>1, <3>3, <3>4
  <2>8. QED BY <2>6, <2>7
<1>8. ASSUME NEW g \in Getter, LoadLast(g) PROVE (Solo /\ Keyed /\ Served /\ Swept /\ Retained)'
  <2>1. CASE stamp[g] - lastCleanup < Timeout
    BY <1>8, <1>h, <1>r, <2>1 DEF LoadLast, pool
  <2>2. CASE ~(stamp[g] - lastCleanup < Timeout)
    <3>1. /\ pc[g] = "last" /\ pc' = [pc EXCEPT ![g] = "cas"] /\ pc'[g] = "cas"
          /\ UNCHANGED <<sessions, entries, now, ent, stamp, returned>>
      BY <1>8, <1>p, <2>2 DEF LoadLast, pool
    <3>2. (Solo /\ Keyed /\ Retained)' /\ UserOf(g)' = UserOf(g)
          /\ \A h \in Getter : h # g => pc'[h] = "idle"
      BY <1>k, <3>1
    <3>3. Served' /\ Swept' BY <1>h, <1>o, <3>1, <3>2 DEF Served, Swept
    <3>4. QED BY <3>2, <3>3
  <2>3. QED BY <2>1, <2>2
<1>9. ASSUME NEW g \in Getter, CasCleanup(g) PROVE (Solo /\ Keyed /\ Served /\ Swept /\ Retained)'
  <2>1. CASE ~Claims(g)
    BY <1>9, <1>h, <1>r, <2>1 DEF CasCleanup
  <2>2. CASE Claims(g)
    <3>1. /\ pc[g] = "cas" /\ pc' = [pc EXCEPT ![g] = "range"] /\ pc'[g] = "range"
          /\ todo'[g] = User
          /\ UNCHANGED <<sessions, entries, now, ent, stamp, returned>>
      BY <1>9, <1>p, <2>2 DEF CasCleanup
    <3>2. (Solo /\ Keyed /\ Retained)' /\ UserOf(g)' = UserOf(g)
          /\ \A h \in Getter : h # g => pc'[h] = "idle"
      BY <1>k, <3>1
    <3>3. Served' BY <1>h, <1>o, <3>1, <3>2 DEF Served
    <3>4. Swept' BY <3>1, <3>2 DEF Swept
    <3>5. QED BY <3>2, <3>3, <3>4
  <2>3. QED BY <2>1, <2>2
<1>10. ASSUME NEW g \in Getter, Visit(g) PROVE (Solo /\ Keyed /\ Served /\ Swept /\ Retained)'
  <2>1. PICK u \in todo[g] :
          LET due == sessions[u] # 0 /\ Expired(sessions[u], stamp[g])
          IN /\ todo' = [todo EXCEPT ![g] = @ \ {u}]
             /\ doomed' = [doomed EXCEPT ![g] = IF due THEN u ELSE Nobody]
             /\ pc' = [pc EXCEPT ![g] = IF due THEN "delete" ELSE "range"]
    BY <1>10 DEF Visit
  <2>2. u \in User BY <1>p
  <2>3. /\ pc[g] = "range" /\ pc' = [pc EXCEPT ![g] = pc'[g]]
        /\ pc'[g] \in {"range", "delete"} /\ todo'[g] = todo[g] \ {u}
        /\ UNCHANGED <<sessions, entries, now, ent, stamp, returned>>
    BY <1>10, <1>p, <2>1 DEF Visit, pool, history
  <2>4. (Solo /\ Keyed /\ Retained)' /\ UserOf(g)' = UserOf(g)
        /\ \A h \in Getter : h # g => pc'[h] = "idle"
    BY <1>k, <2>3
  <2>5. Served' BY <1>h, <1>o, <2>3, <2>4 DEF Served
  <2>6. \A v \in User \ todo[g] : sessions[v] = 0 \/ ~Expired(sessions[v], stamp[g])
    BY <1>i, <2>3 DEF Swept
  <2>7. CASE sessions[u] # 0 /\ Expired(sessions[u], stamp[g])
    <3>1. pc'[g] = "delete" /\ doomed'[g] = u BY <1>p, <2>1, <2>7
    <3>2. Swept' BY <2>3, <2>4, <2>6, <2>7, <3>1 DEF Swept, Expired
    <3>3. QED BY <2>4, <2>5, <3>2
  <2>8. CASE ~(sessions[u] # 0 /\ Expired(sessions[u], stamp[g]))
    <3>1. pc'[g] = "range" BY <1>p, <2>1, <2>8
    <3>2. Swept' BY <2>3, <2>4, <2>6, <2>8, <3>1 DEF Swept, Expired
    <3>3. QED BY <2>4, <2>5, <3>2
  <2>9. QED BY <2>7, <2>8
<1>11. ASSUME NEW g \in Getter, Delete(g) PROVE (Solo /\ Keyed /\ Served /\ Swept /\ Retained)'
  <2>1. /\ pc[g] = "delete" /\ pc' = [pc EXCEPT ![g] = "range"] /\ pc'[g] = "range"
        /\ sessions' = [sessions EXCEPT ![doomed[g]] = 0]
        /\ UNCHANGED <<entries, now, ent, stamp, todo, returned>>
    BY <1>11, <1>p DEF Delete, history
  <2>2. doomed[g] \in User BY <1>0, <2>1 DEF Holding
  <2>3. sessions[doomed[g]] # 0 /\ Expired(sessions[doomed[g]], stamp[g])
    BY <1>i, <2>1 DEF Swept
  <2>4. \A h \in Getter : h # g => pc'[h] = "idle" BY <1>o, <1>p, <2>1
  <2>5. Solo' BY <2>1, <2>4 DEF Solo
  <2>6. Keyed' BY <1>i, <1>t, <2>1, <2>2 DEF Keyed
  <2>7. Retained'
    <3> SUFFICES ASSUME NEW e \in returned, now - entries[e].lastUsed <= Timeout
                 PROVE  sessions'[entries[e].user] = e
      BY <1>i, <2>1 DEF Retained
    <3>1. sessions[entries[e].user] = e /\ entries[e].lastUsed \in Int /\ entries[e].user \in User
      BY <1>e, <1>f, <1>i DEF Retained
    <3>2. ~Expired(e, stamp[g]) BY <1>h, <1>t, <2>1, <3>1 DEF Expired
    <3>3. entries[e].user # doomed[g] BY <2>3, <3>1, <3>2
    <3>4. QED BY <1>t, <2>1, <3>1, <3>3
  <2>8. Served'
    <3>1. sessions[UserOf(g)] = ent[g] /\ entries[ent[g]].lastUsed = stamp[g]
          /\ ent[g] \in 1..Len(entries)
      BY <1>h, <1>o, <2>1
    <3>2. ~Expired(ent[g], stamp[g]) BY <1>t, <3>1 DEF Expired
    <3>3. UserOf(g) # doomed[g] BY <2>3, <3>1, <3>2
    <3>4. UserOf(g) \in User BY <1>f, <3>1 DEF UserOf
    <3>5. sessions'[UserOf(g)] = ent[g] BY <1>t, <2>1, <3>1, <3>3, <3>4
    <3>6. QED BY <1>h, <2>1, <2>4, <3>1, <3>5 DEF Served, UserOf
  <2>9. Swept'
    <3>1. \A u \in User : \/ u \in todo[g] \/ sessions'[u] = 0 \/ ~Expired(sessions'[u], stamp[g])
      BY <1>i, <1>t, <2>1, <2>2 DEF Swept
    <3>2. QED BY <2>1, <2>4, <3>1 DEF Swept, Expired
  <2>10. QED BY <2>5, <2>6, <2>7, <2>8, <2>9
<1>12. ASSUME NEW g \in Getter, CleanupDone(g) PROVE (Solo /\ Keyed /\ Served /\ Swept /\ Retained)'
  BY <1>12, <1>h, <1>r DEF CleanupDone, pool
<1>13. CASE Tick
  <2>1. now' = now + 1 /\ UNCHANGED <<sessions, entries, pc, ent, stamp, todo, doomed, returned>>
    BY <1>13 DEF Tick, pool, locals, history
  <2>2. Solo' /\ Keyed' /\ Swept' BY <1>i, <2>1 DEF Solo, Keyed, Swept, Expired
  <2>3. Served' BY <1>i, <1>t, <2>1 DEF Served, UserOf
  <2>4. Retained' BY <1>e, <1>f, <1>i, <1>t, <2>1 DEF Retained
  <2>5. QED BY <2>2, <2>3, <2>4
<1>14. CASE UNCHANGED vars
  BY <1>14, <1>i DEF vars, pool, locals, history, Solo, Keyed, Served, Swept, Retained, UserOf, Expired
<1>15. QED
  BY <1>1, <1>2, <1>3, <1>4, <1>5, <1>6, <1>7, <1>8, <1>9, <1>10, <1>11, <1>12, <1>13, <1>14
  DEF Next, GetterStep, Quiet

\* The invariant of requests that come one after the other holds throughout.
THEOREM SerialInvariant == Spec => [](PoolShape /\ SerialInv)
<1>1. Init => PoolShape /\ SerialInv BY ShapeInit, SerialInit
<1>2. PoolShape /\ SerialInv /\ [Next]_vars => (PoolShape /\ SerialInv)' BY ShapeStep, SerialStep
<1>3. QED BY <1>1, <1>2, PTL DEF Spec

\* Sessions expire after the timeout of inactivity, exactly, for any users and any
\* timeout, as long as requests do not overlap.
THEOREM ExpiresSeriallyAlways == Spec => ExpiresSerially
<1>1. SerialInv => ActiveRetainedSerially BY DEF SerialInv, Retained, ActiveRetainedSerially
<1>2. PoolShape /\ SerialInv /\ [Next]_vars => IdleRemovedSerially
  <2> USE SessionPoolAssumption
  <2> SUFFICES ASSUME PoolShape, SerialInv, [Next]_vars, serial, NEW g \in Getter,
                      pc[g] = "range", pc'[g] = "idle", NEW u \in User, sessions[u] # 0,
                      entries[sessions[u]].state = "ok"
               PROVE  entries[sessions[u]].lastUsed >= stamp[g] - Timeout
    BY DEF IdleRemovedSerially
  <2>0. TypeOK BY DEF PoolShape
  <2>p. pc \in [Getter -> Label] BY <2>0 DEF TypeOK
  <2>1. todo[g] = {}
    <3>1. ASSUME NEW h \in Getter, LoadOrStore(h) \/ GetterStep(h) PROVE todo[g] = {}
      <4>1. CASE h = g
        BY <2>p, <3>1, <4>1 DEF LoadOrStore, GetterStep, OnceBegin, Factory, OnceDone, Fail,
             ReadClock, Touch, LoadLast, CasCleanup, Visit, Delete, CleanupDone
      <4>2. CASE h # g
        <5>1. pc'[g] = pc[g]
          BY <2>p, <3>1, <4>2 DEF LoadOrStore, GetterStep, OnceBegin, Factory, OnceDone, Fail,
               ReadClock, Touch, LoadLast, CasCleanup, Visit, Delete, CleanupDone, Return, Leave
        <5>2. QED BY <5>1
      <4>3. QED BY <4>1, <4>2
    <3>2. CASE Tick \/ UNCHANGED vars BY <3>2 DEF Tick, vars
    <3>3. QED BY <3>1, <3>2 DEF Next, Quiet
  <2>2. ~Expired(sessions[u], stamp[g])
    <3>1. Swept BY DEF SerialInv
    <3>2. QED BY <2>1, <3>1 DEF Swept
  <2>3. stamp[g] \in Int /\ entries[sessions[u]].lastUsed \in Int
    <3>1. entries \in Seq(Entry) /\ sessions[u] \in 1..Len(entries)
      BY <2>0 DEF TypeOK, Entry, State
    <3>2. entries[sessions[u]] \in Entry BY <3>1, ElementOfSeq
    <3>3. QED BY <2>0, <3>2 DEF TypeOK, Entry, Time, Epoch
  <2>4. QED BY <2>2, <2>3 DEF Expired
<1>3. Spec => [][IdleRemovedSerially]_vars BY <1>2, SerialInvariant, PTL
  DEF Spec
<1>4. Spec => []ActiveRetainedSerially BY <1>1, SerialInvariant, PTL
<1>5. QED BY <1>3, <1>4 DEF ExpiresSerially
================================================================================
