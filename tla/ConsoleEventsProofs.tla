------------------------- MODULE ConsoleEventsProofs -------------------------
(***************************************************************************)
(* Proofs of the safety properties of the console's subscription, for any  *)
(* number of consoles and agents and any number of requests.               *)
(***************************************************************************)
EXTENDS ConsoleEvents, FiniteSetTheorems, TLAPS

USE DEF GoTo

\* The flag is set exactly when one console holds it.
Exclusive ==
  /\ \A c, d \in Console : Holds(c) /\ Holds(d) => c = d
  /\ connected <=> \E c \in Console : Holds(c)

\* An update that has been received and not written is being carried by the
\* one listener.
Ordered ==
  /\ \A c \in Console : pc[c] = "send" => accepted = Append(written, carrying[c])
  /\ (\A c \in Console : pc[c] # "send") => accepted = written

\* Only a console that is sending carries an update.
CarriesUpdate == \A c \in Console : pc[c] = "send" => carrying[c] \in Update

\* The derived context is canceled only after the request's.
CancelKnown == \A c \in Console : canceled[c] => request[c] \in {"expired", "gone"}

SlotInv == TypeOK /\ CarriesUpdate /\ CancelKnown /\ Exclusive /\ Ordered

\* No console is subscribed and no update is under way at first.
LEMMA SlotInit == Init => SlotInv
<1> USE ConsoleEventsAssumption
<1> SUFFICES ASSUME Init PROVE SlotInv
  OBVIOUS
<1>1. \A c \in Console : pc[c] = "away"
  BY DEF Init
<1>2. CarriesUpdate /\ CancelKnown /\ Exclusive /\ Ordered
  BY <1>1 DEF Init, CarriesUpdate, CancelKnown, Exclusive, Ordered, Holds
<1>3. TypeOK
  <2>1. connected \in BOOLEAN /\ stray \in BOOLEAN
    BY Zenon DEF Init
  <2>2. /\ fromConsole \in Console \cup {None}
        /\ pc \in [Console -> Label] /\ request \in [Console -> {"open", "expired", "gone"}]
        /\ canceled \in [Console -> BOOLEAN] /\ carrying \in [Console -> Update \cup {None}]
    BY DEF Init, Label
  <2>3. /\ subs \in [Console -> 0..MaxSubs] /\ puts \in [Console -> 0..MaxPuts]
        /\ sends \in [Agent -> 0..MaxSends]
    BY DEF Init
  <2>4. /\ accepted \in Seq(Update) /\ written \in Seq(Update)
        /\ reported \subseteq Console /\ ended \subseteq {"busy", "broken", "expired", "gone"}
    BY DEF Init
  <2>5. QED BY <2>1, <2>2, <2>3, <2>4 DEF TypeOK
<1>4. QED BY <1>2, <1>3 DEF SlotInv

\* Every step keeps the variables in their types.
LEMMA TypeStep == SlotInv /\ [Next]_vars => TypeOK' /\ CarriesUpdate'
<1> USE ConsoleEventsAssumption DEF TypeOK, Label, CarriesUpdate
<1> SUFFICES ASSUME TypeOK, CarriesUpdate, CancelKnown, [Next]_vars PROVE TypeOK' /\ CarriesUpdate'
  BY DEF SlotInv
<1>1. ASSUME NEW c \in Console, Subscribe(c) PROVE TypeOK' /\ CarriesUpdate'
  BY <1>1 DEF Subscribe, history
<1>2. ASSUME NEW c \in Console, Connect(c) \/ Ready(c) PROVE TypeOK' /\ CarriesUpdate'
  BY <1>2 DEF Connect, Ready, counts, history
<1>3. ASSUME NEW c \in Console, Busy(c) PROVE TypeOK' /\ CarriesUpdate'
  BY <1>3 DEF Busy, counts
<1>4. ASSUME NEW c \in Console, Expire(c) \/ Disconnect(c) PROVE TypeOK' /\ CarriesUpdate'
  BY <1>4 DEF Expire, Disconnect, counts, history
<1>5. ASSUME NEW c \in Console, AfterFunc(c) PROVE TypeOK' /\ CarriesUpdate'
  BY <1>5 DEF AfterFunc, counts, history
<1>6. ASSUME NEW c \in Console, Send(c) PROVE TypeOK' /\ CarriesUpdate'
  <2>1. written' \in Seq(Update)
    BY <1>6 DEF Send
  <2>2. carrying' = [carrying EXCEPT ![c] = None] /\ \E l \in {"loop", "release"} : GoTo(c, l)
    BY <1>6 DEF Send
  <2>3. CarriesUpdate'
    BY <2>2
  <2>4. ended' \subseteq {"busy", "broken", "expired", "gone"}
    BY <1>6 DEF Send
  <2>5. QED BY <1>6, <2>1, <2>2, <2>3, <2>4 DEF Send, counts
<1>7. ASSUME NEW c \in Console, TickFails(c) \/ Done(c) PROVE TypeOK' /\ CarriesUpdate'
  <2>1. CASE TickFails(c) BY <2>1 DEF TickFails, counts
  <2>2. CASE Done(c)
    <3>1. request[c] \in {"expired", "gone"}
      BY <2>2 DEF Done, CancelKnown
    <3>2. ended' \subseteq {"busy", "broken", "expired", "gone"}
      BY <2>2, <3>1 DEF Done
    <3>3. QED BY <2>2, <3>2 DEF Done, counts
  <2>3. QED BY <1>7, <2>1, <2>2
<1>8. ASSUME NEW c \in Console, Release(c) PROVE TypeOK' /\ CarriesUpdate'
  BY <1>8 DEF Release, counts
<1>9. ASSUME NEW c \in Console, Clear(c) PROVE TypeOK' /\ CarriesUpdate'
  BY <1>9 DEF Clear, counts, history
<1>10. ASSUME NEW c \in Console, Return(c) PROVE TypeOK' /\ CarriesUpdate'
  BY <1>10 DEF Return, counts, history
<1>11. ASSUME NEW c \in Console, SetConsoleState(c) PROVE TypeOK' /\ CarriesUpdate'
  BY <1>11 DEF SetConsoleState, Holds
<1>12. ASSUME NEW a \in Agent, ShowAccepted(a) PROVE TypeOK' /\ CarriesUpdate'
  <2>1. PICK c \in Console :
          /\ pc[c] = "loop" /\ GoTo(c, "send")
          /\ carrying' = [carrying EXCEPT ![c] = <<a, sends[a] + 1>>]
          /\ accepted' = Append(accepted, <<a, sends[a] + 1>>)
    BY <1>12 DEF ShowAccepted
  <2>2. <<a, sends[a] + 1>> \in Update
    BY <1>12 DEF ShowAccepted, Update
  <2>3. accepted' \in Seq(Update) /\ carrying' \in [Console -> Update \cup {None}]
    BY <2>1, <2>2
  <2>4. sends' \in [Agent -> 0..MaxSends]
    BY <1>12 DEF ShowAccepted
  <2>5. CarriesUpdate'
    BY <2>1, <2>2
  <2>6. pc' \in [Console -> Label]
    BY <2>1
  <2>7. QED BY <1>12, <2>3, <2>4, <2>5, <2>6 DEF ShowAccepted
<1>13. ASSUME NEW a \in Agent, ShowDropped(a) PROVE TypeOK' /\ CarriesUpdate'
  BY <1>13 DEF ShowDropped, history
<1>14. CASE UNCHANGED vars
  BY <1>14 DEF vars, counts, history
<1>15. QED
  BY <1>1, <1>2, <1>3, <1>4, <1>5, <1>6, <1>7, <1>8, <1>9, <1>10, <1>11, <1>12, <1>13, <1>14
  DEF Next, ListenerStep, Quiet

\* A canceled context belongs to a request that is over.
LEMMA CancelStep == SlotInv /\ [Next]_vars => CancelKnown'
<1> USE DEF TypeOK, CancelKnown
<1> SUFFICES ASSUME TypeOK, CancelKnown, [Next]_vars PROVE CancelKnown'
  BY DEF SlotInv
<1>1. CASE UNCHANGED <<canceled, request>>
  BY <1>1
<1>2. ASSUME NEW c \in Console, Expire(c) \/ Disconnect(c) PROVE CancelKnown'
  BY <1>2 DEF Expire, Disconnect
<1>3. ASSUME NEW c \in Console, AfterFunc(c) PROVE CancelKnown'
  BY <1>3 DEF AfterFunc
<1>4. ASSUME NEW c \in Console, Return(c) PROVE CancelKnown'
  BY <1>4 DEF Return
<1>5. ASSUME NEW c \in Console,
             \/ Subscribe(c) \/ Connect(c) \/ Busy(c) \/ Ready(c) \/ Send(c) \/ TickFails(c)
             \/ Done(c) \/ Release(c) \/ Clear(c) \/ SetConsoleState(c)
      PROVE  UNCHANGED <<canceled, request>>
  BY <1>5 DEF Subscribe, Connect, Busy, Ready, Send, TickFails, Done, Release, Clear,
              SetConsoleState
<1>6. ASSUME NEW a \in Agent, ShowAccepted(a) \/ ShowDropped(a)
      PROVE  UNCHANGED <<canceled, request>>
  BY <1>6 DEF ShowAccepted, ShowDropped
<1>7. QED
  BY <1>1, <1>2, <1>3, <1>4, <1>5, <1>6 DEF Next, ListenerStep, Quiet, vars

\* A step that changes neither who holds the flag nor the flag keeps Exclusive.
LEMMA ExclusiveKept ==
  ASSUME Exclusive, UNCHANGED connected, \A c \in Console : Holds(c)' <=> Holds(c)
  PROVE  Exclusive'
BY DEF Exclusive

\* CompareAndSwap lets in one console at a time.
LEMMA ExclusiveStep == SlotInv /\ [Next]_vars => Exclusive'
<1> USE DEF TypeOK
<1> SUFFICES ASSUME TypeOK, Exclusive, [Next]_vars PROVE Exclusive'
  BY DEF SlotInv
<1>1. ASSUME NEW c \in Console, Connect(c) PROVE Exclusive'
  <2>1. /\ ~connected /\ connected' /\ GoTo(c, "ready")
    BY <1>1 DEF Connect, Free
  <2>2. \A d \in Console : Holds(d)' <=> d = c
    BY <2>1 DEF Exclusive, Holds
  <2>3. QED BY <2>1, <2>2 DEF Exclusive
<1>2. ASSUME NEW c \in Console, Release(c) PROVE Exclusive'
  <2>1. pc[c] = "release" /\ ~connected' /\ GoTo(c, "clear")
    BY <1>2 DEF Release
  <2>2. \A d \in Console : ~Holds(d)'
    BY <2>1 DEF Exclusive, Holds
  <2>3. QED BY <2>1, <2>2 DEF Exclusive
<1>3. ASSUME NEW c \in Console,
             \/ Subscribe(c) \/ Busy(c) \/ Ready(c) \/ AfterFunc(c) \/ TickFails(c)
             \/ Done(c) \/ Clear(c) \/ Return(c) \/ Expire(c) \/ Disconnect(c)
             \/ SetConsoleState(c)
      PROVE  Exclusive'
  <2>1. UNCHANGED connected /\ \A d \in Console : Holds(d)' <=> Holds(d)
    BY <1>3 DEF Subscribe, Busy, Ready, AfterFunc, TickFails, Done, Clear, Return, Expire,
                Disconnect, SetConsoleState, Holds
  <2>2. QED BY <2>1, ExclusiveKept
<1>4. ASSUME NEW c \in Console, Send(c) PROVE Exclusive'
  <2>1. /\ UNCHANGED connected /\ pc[c] = "send"
        /\ \E l \in {"loop", "release"} : GoTo(c, l)
    BY <1>4 DEF Send
  <2>2. \A d \in Console : Holds(d)' <=> Holds(d)
    BY <2>1 DEF Holds
  <2>3. QED BY <2>1, <2>2, ExclusiveKept
<1>5. ASSUME NEW a \in Agent, ShowAccepted(a) PROVE Exclusive'
  <2>1. PICK c \in Console : pc[c] = "loop" /\ GoTo(c, "send")
    BY <1>5 DEF ShowAccepted
  <2>2. UNCHANGED connected /\ \A d \in Console : Holds(d)' <=> Holds(d)
    BY <1>5, <2>1 DEF ShowAccepted, Holds
  <2>3. QED BY <2>2, ExclusiveKept
<1>6. ASSUME NEW a \in Agent, ShowDropped(a) PROVE Exclusive'
  BY <1>6, ExclusiveKept DEF ShowDropped, Holds
<1>7. CASE UNCHANGED vars
  BY <1>7, ExclusiveKept DEF vars, Holds
<1>8. QED
  BY <1>1, <1>2, <1>3, <1>4, <1>5, <1>6, <1>7 DEF Next, ListenerStep, Quiet

\* A step that accepts and writes nothing, of no console that is sending, keeps
\* Ordered.
LEMMA OrderedKept ==
  ASSUME Ordered, UNCHANGED <<accepted, written, carrying>>,
         \A c \in Console : pc'[c] = "send" <=> pc[c] = "send"
  PROVE  Ordered'
BY DEF Ordered

\* Updates are accepted one at a time, and written before the next.
LEMMA OrderedStep == SlotInv /\ [Next]_vars => Ordered'
<1> USE DEF TypeOK
<1> SUFFICES ASSUME TypeOK, CarriesUpdate, Exclusive, Ordered, [Next]_vars PROVE Ordered'
  BY DEF SlotInv
<1>1. ASSUME NEW c \in Console, Send(c) PROVE Ordered'
  <2>1. /\ pc[c] = "send" /\ written' = Append(written, carrying[c]) /\ UNCHANGED accepted
        /\ \E l \in {"loop", "release"} : GoTo(c, l)
    BY <1>1 DEF Send
  <2>2. accepted' = written'
    BY <2>1 DEF Ordered
  <2>3. \A d \in Console : pc'[d] # "send"
    BY <2>1 DEF Exclusive, Holds
  <2>4. QED BY <2>2, <2>3 DEF Ordered
<1>2. ASSUME NEW a \in Agent, ShowAccepted(a) PROVE Ordered'
  <2>1. PICK c \in Console :
          /\ pc[c] = "loop" /\ GoTo(c, "send")
          /\ carrying' = [carrying EXCEPT ![c] = <<a, sends[a] + 1>>]
          /\ accepted' = Append(accepted, <<a, sends[a] + 1>>)
    BY <1>2 DEF ShowAccepted
  <2>2. UNCHANGED written
    BY <1>2 DEF ShowAccepted
  <2>3. \A d \in Console : pc[d] # "send"
    BY <2>1 DEF Exclusive, Holds
  <2>4. accepted = written
    BY <2>3 DEF Ordered
  <2>5. accepted' = Append(written', carrying'[c])
    BY <2>1, <2>2, <2>4
  <2>6. \A d \in Console : pc'[d] = "send" => d = c
    BY <2>1, <2>3
  <2>7. pc'[c] = "send"
    BY <2>1
  <2>8. QED BY <2>5, <2>6, <2>7 DEF Ordered
<1>3. ASSUME NEW c \in Console,
             \/ Subscribe(c) \/ Connect(c) \/ Busy(c) \/ Ready(c) \/ AfterFunc(c) \/ TickFails(c)
             \/ Done(c) \/ Release(c) \/ Clear(c) \/ Return(c) \/ Expire(c) \/ Disconnect(c)
             \/ SetConsoleState(c)
      PROVE  Ordered'
  <2>1. /\ UNCHANGED <<accepted, written, carrying>>
        /\ \A d \in Console : pc'[d] = "send" <=> pc[d] = "send"
    BY <1>3 DEF Subscribe, Connect, Busy, Ready, AfterFunc, TickFails, Done, Release, Clear,
                Return, Expire, Disconnect, SetConsoleState, history
  <2>2. QED BY <2>1, OrderedKept
<1>4. ASSUME NEW a \in Agent, ShowDropped(a) PROVE Ordered'
  BY <1>4, OrderedKept DEF ShowDropped, history
<1>5. CASE UNCHANGED vars
  BY <1>5, OrderedKept DEF vars, history
<1>6. QED BY <1>1, <1>2, <1>3, <1>4, <1>5 DEF Next, ListenerStep, Quiet

-----------------------------------------------------------------------------

\* The conjunction is inductive.
LEMMA SlotInvariant == Spec => []SlotInv
<1>1. SlotInv /\ [Next]_vars => SlotInv'
  BY TypeStep, CancelStep, ExclusiveStep, OrderedStep DEF SlotInv
<1>2. QED BY <1>1, SlotInit, PTL DEF Spec

\* The variables of the console's session keep their types.
THEOREM ConsoleTypeCorrect == Spec => []TypeOK
<1>1. SlotInv => TypeOK
  BY DEF SlotInv
<1>2. QED BY <1>1, SlotInvariant, PTL

\* However many consoles subscribe, one at most is between acquiring the flag
\* and releasing it, and the flag is set exactly then.
THEOREM OneListenerAlways == Spec => []OneListener
<1>1. SlotInv => OneListener
  <2> SUFFICES ASSUME Exclusive PROVE OneListener
    BY DEF SlotInv
  <2>1. CASE connected
    <3>1. PICK c \in Console : Holds(c)
      BY <2>1 DEF Exclusive
    <3>2. {d \in Console : Holds(d)} = {c}
      BY <3>1 DEF Exclusive
    <3>3. QED BY <2>1, <3>2, FS_Singleton DEF OneListener
  <2>2. CASE ~connected
    <3>1. {d \in Console : Holds(d)} = {}
      BY <2>2 DEF Exclusive
    <3>2. QED BY <2>2, <3>1, FS_EmptySet DEF OneListener
  <2>3. QED BY <2>1, <2>2
<1>2. QED BY <1>1, SlotInvariant, PTL

\* Accepted updates reach the streams once and in order, also across the end of
\* one subscription and the start of another.
THEOREM UpdatesInOrderAlways == Spec => []UpdatesInOrder
<1>1. SlotInv => UpdatesInOrder
  BY DEF SlotInv, Ordered, UpdatesInOrder
<1>2. QED BY <1>1, SlotInvariant, PTL

-----------------------------------------------------------------------------
(* The reported state.                                                     *)

\* A console that has the flag, or has just given it up and will clear the state.
WillClear(c) == Holds(c) \/ pc[c] = "clear"

\* A state reported by a console with the flag is readable only until the
\* deferred function of some subscription clears it.
StateOwned == fromConsole = None \/ stray \/ \E c \in Console : WillClear(c)

\* Only Clear ends the duty to clear the state, and only reports set it.
LEMMA StateOwnedStep == TypeOK /\ StateOwned /\ [Next]_vars => StateOwned'
<1> USE DEF TypeOK
<1> SUFFICES ASSUME TypeOK, StateOwned, [Next]_vars PROVE StateOwned'
  OBVIOUS
<1>1. ASSUME UNCHANGED <<fromConsole, stray>>,
             \A c \in Console : WillClear(c) => WillClear(c)'
      PROVE  StateOwned'
  BY <1>1 DEF StateOwned
<1>2. ASSUME NEW c \in Console, Clear(c) PROVE StateOwned'
  BY <1>2 DEF Clear, StateOwned
<1>3. ASSUME NEW c \in Console, SetConsoleState(c) PROVE StateOwned'
  <2>1. stray' = ~Holds(c) /\ UNCHANGED pc
    BY <1>3 DEF SetConsoleState
  <2>2. CASE Holds(c)
    BY <2>1, <2>2 DEF StateOwned, WillClear, Holds
  <2>3. CASE ~Holds(c)
    BY <2>1, <2>3 DEF StateOwned
  <2>4. QED BY <2>2, <2>3
<1>4. ASSUME NEW c \in Console,
             \/ Subscribe(c) \/ Connect(c) \/ Busy(c) \/ Ready(c) \/ AfterFunc(c) \/ TickFails(c)
             \/ Done(c) \/ Release(c) \/ Return(c) \/ Expire(c) \/ Disconnect(c)
      PROVE  StateOwned'
  <2>1. /\ UNCHANGED <<fromConsole, stray>>
        /\ \A d \in Console : WillClear(d) => WillClear(d)'
    BY <1>4 DEF Subscribe, Connect, Busy, Ready, AfterFunc, TickFails, Done, Release, Return,
                Expire, Disconnect, history, WillClear, Holds
  <2>2. QED BY <1>1, <2>1
<1>5. ASSUME NEW c \in Console, Send(c) PROVE StateOwned'
  <2>1. /\ pc[c] = "send" /\ UNCHANGED <<fromConsole, stray>>
        /\ \E l \in {"loop", "release"} : GoTo(c, l)
    BY <1>5 DEF Send
  <2>2. \A d \in Console : WillClear(d) => WillClear(d)'
    BY <2>1 DEF WillClear, Holds
  <2>3. QED BY <1>1, <2>1, <2>2
<1>6. ASSUME NEW a \in Agent, ShowAccepted(a) PROVE StateOwned'
  <2>1. PICK c \in Console : pc[c] = "loop" /\ GoTo(c, "send")
    BY <1>6 DEF ShowAccepted
  <2>2. \A d \in Console : WillClear(d) => WillClear(d)'
    BY <2>1 DEF WillClear, Holds
  <2>3. UNCHANGED <<fromConsole, stray>>
    BY <1>6 DEF ShowAccepted
  <2>4. QED BY <1>1, <2>2, <2>3
<1>7. ASSUME NEW a \in Agent, ShowDropped(a) PROVE StateOwned'
  BY <1>1, <1>7 DEF ShowDropped, history, WillClear, Holds
<1>8. CASE UNCHANGED vars
  BY <1>1, <1>8 DEF vars, history, WillClear, Holds
<1>9. QED
  BY <1>2, <1>3, <1>4, <1>5, <1>6, <1>7, <1>8 DEF Next, ListenerStep, Quiet

\* Once every subscription has been wound up nothing is left behind of what the
\* subscribed consoles reported.
THEOREM NoStaleStateAlways == Spec => []NoStaleState
<1>1. Init => StateOwned
  BY DEF Init, StateOwned
<1>2. TypeOK /\ StateOwned => NoStaleState
  <2> SUFFICES ASSUME StateOwned, \A c \in Console : pc[c] \in {"away", "connect", "return"}
               PROVE  fromConsole = None \/ stray
    BY DEF NoStaleState
  <2>1. \A c \in Console : ~WillClear(c)
    BY DEF WillClear, Holds
  <2>2. QED BY <2>1 DEF StateOwned
<1>3. QED BY <1>1, <1>2, StateOwnedStep, ConsoleTypeCorrect, PTL DEF Spec

=============================================================================
