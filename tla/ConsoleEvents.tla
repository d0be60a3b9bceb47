---------------------------- MODULE ConsoleEvents ----------------------------
(***************************************************************************)
(* The coordination of a console and an agent through one session          *)
(* (session/console.go and the console handlers of rest/operations.go).    *)
(*                                                                         *)
(* A console subscribes to the updates with a long-lived request, which    *)
(* ConsoleEvents serves in a loop; it reports its own state with separate  *)
(* requests.  An agent sends updates to whatever console is subscribed and *)
(* reads the reported state.  The parts of the session are an atomic flag, *)
(* an atomic pointer and an unbuffered channel; each step below is one     *)
(* operation on one of them.                                               *)
(*                                                                         *)
(* Several consoles compete for the subscription: browser tabs, or one     *)
(* console that reconnects while its old request is still being wound up.  *)
(***************************************************************************)
EXTENDS Integers, Sequences, FiniteSets

CONSTANTS
  Console,    \* consoles that subscribe; their states are named after them
  Agent,      \* clients that send updates
  HasTimeout, \* the request context has a deadline, Tuning.RequestTimeout
  MaxSubs,    \* bound: subscriptions of each console
  MaxSends,   \* bound: updates of each agent
  MaxPuts,    \* bound: reports of each console
  None        \* nil

ASSUME ConsoleEventsAssumption ==
  /\ HasTimeout \in BOOLEAN
  /\ MaxSubs \in Nat /\ MaxSends \in Nat /\ MaxPuts \in Nat
  /\ None \notin Console

VARIABLES
  connected,    \* the atomic flag
  fromConsole,  \* the atomic pointer: the console whose state it holds, or None
  pc,           \* [Console -> label], the console's subscription request
  request,      \* [Console -> context], the context of that request
  canceled,     \* [Console -> BOOLEAN], the derived context of ConsoleEvents
  carrying,     \* [Console -> update], the update received and not yet sent
  subs,         \* [Console -> 0..MaxSubs]
  puts,         \* [Console -> 0..MaxPuts]
  sends,        \* [Agent -> 0..MaxSends]
  accepted,     \* history: the updates that ShowInConsole accepted, in order
  written,      \* history: the updates written to a stream, or lost to a broken one, in order
  reported,     \* history: consoles that reported their state in this subscription
  ended,       \* history: why the subscriptions ended
  stray        \* history: the last state was reported by a console without the flag

counts  == <<subs, puts, sends>>
history == <<accepted, written, reported, ended, stray>>
vars    == <<connected, fromConsole, pc, request, canceled, carrying, counts, history>>

Label == {"away", "connect", "ready", "loop", "send", "release", "clear", "return"}

Update == Agent \X (1..MaxSends)

\* The variables have the shape the code gives them.
TypeOK ==
  /\ connected \in BOOLEAN
  /\ fromConsole \in Console \cup {None}
  /\ pc \in [Console -> Label]
  /\ request \in [Console -> {"open", "expired", "gone"}]
  /\ canceled \in [Console -> BOOLEAN]
  /\ carrying \in [Console -> Update \cup {None}]
  /\ subs \in [Console -> 0..MaxSubs]
  /\ puts \in [Console -> 0..MaxPuts]
  /\ sends \in [Agent -> 0..MaxSends]
  /\ accepted \in Seq(Update)
  /\ written \in Seq(Update)
  /\ reported \subseteq Console
  /\ ended \subseteq {"busy", "broken", "expired", "gone"}
  /\ stray \in BOOLEAN

Init ==
  /\ connected = FALSE
  /\ fromConsole = None
  /\ pc = [c \in Console |-> "away"]
  /\ request = [c \in Console |-> "open"]
  /\ canceled = [c \in Console |-> FALSE]
  /\ carrying = [c \in Console |-> None]
  /\ subs = [c \in Console |-> 0]
  /\ puts = [c \in Console |-> 0]
  /\ sends = [a \in Agent |-> 0]
  /\ accepted = <<>>
  /\ written = <<>>
  /\ reported = {}
  /\ ended = {}
  /\ stray = FALSE

GoTo(c, label) == pc' = [pc EXCEPT ![c] = label]

-----------------------------------------------------------------------------
(* The subscription request.                                               *)

\* GET /console/events: a context that is canceled when the request's is.
Subscribe(c) ==
  /\ pc[c] = "away"
  /\ subs[c] < MaxSubs
  /\ subs' = [subs EXCEPT ![c] = @ + 1]
  /\ GoTo(c, "connect")
  /\ UNCHANGED <<connected, fromConsole, request, canceled, carrying, puts, sends, history>>

\* (mutant of Free: the flag is not tested)
FreeAlways == TRUE

Free == ~connected

\* CompareAndSwap on the flag.
Connect(c) ==
  /\ pc[c] = "connect"
  /\ Free
  /\ connected' = TRUE
  /\ GoTo(c, "ready")
  /\ UNCHANGED <<fromConsole, request, canceled, carrying, counts, history>>

Busy(c) ==
  /\ pc[c] = "connect"
  /\ ~Free
  /\ ended' = ended \cup {"busy"}
  /\ GoTo(c, "return")
  /\ UNCHANGED <<connected, fromConsole, request, canceled, carrying, counts, accepted,
                 written, reported, stray>>

\* The headers are flushed, and with them the console knows that it is subscribed.
Ready(c) ==
  /\ pc[c] = "ready"
  /\ GoTo(c, "loop")
  /\ UNCHANGED <<connected, fromConsole, request, canceled, carrying, counts, history>>

\* The deadline of the request, if any, or the disconnection of the client.
Expire(c) ==
  /\ HasTimeout
  /\ pc[c] \notin {"away", "return"} /\ request[c] = "open"
  /\ request' = [request EXCEPT ![c] = "expired"]
  /\ UNCHANGED <<connected, fromConsole, pc, canceled, carrying, counts, history>>

Disconnect(c) ==
  /\ pc[c] \notin {"away", "return"} /\ request[c] = "open"
  /\ request' = [request EXCEPT ![c] = "gone"]
  /\ UNCHANGED <<connected, fromConsole, pc, canceled, carrying, counts, history>>

\* AfterFunc of the request's context, in a goroutine of its own.
AfterFunc(c) ==
  /\ pc[c] \notin {"away", "return"}
  /\ request[c] # "open" /\ ~canceled[c]
  /\ canceled' = [canceled EXCEPT ![c] = TRUE]
  /\ UNCHANGED <<connected, fromConsole, pc, request, carrying, counts, history>>

\* The loop: an update has been received.  Writing it fails only if the client
\* has gone, and may succeed even then.
Send(c) ==
  /\ pc[c] = "send"
  /\ written' = Append(written, carrying[c])
  /\ carrying' = [carrying EXCEPT ![c] = None]
  /\ \/ GoTo(c, "loop") /\ UNCHANGED ended
     \/ /\ request[c] = "gone"
        /\ ended' = ended \cup {"broken"}
        /\ GoTo(c, "release")
  /\ UNCHANGED <<connected, fromConsole, request, canceled, counts, accepted, reported, stray>>

\* The loop: writing a keepalive fails because the client has gone.
TickFails(c) ==
  /\ pc[c] = "loop"
  /\ request[c] = "gone"
  /\ ended' = ended \cup {"broken"}
  /\ GoTo(c, "release")
  /\ UNCHANGED <<connected, fromConsole, request, canceled, carrying, counts, accepted,
                 written, reported, stray>>

\* The loop: the context is done.
Done(c) ==
  /\ pc[c] = "loop"
  /\ canceled[c]
  /\ ended' = ended \cup {request[c]}
  /\ GoTo(c, "release")
  /\ UNCHANGED <<connected, fromConsole, request, canceled, carrying, counts, accepted,
                 written, reported, stray>>

\* (mutant of Release: the flag stays set)
ReleaseNot(c) ==
  /\ pc[c] = "release"
  /\ GoTo(c, "clear")
  /\ reported' = reported \ {c}
  /\ UNCHANGED <<connected, fromConsole, request, canceled, carrying, counts, accepted,
                 written, ended, stray>>

\* The deferred function: first the flag is reset ...
Release(c) ==
  /\ pc[c] = "release"
  /\ connected' = FALSE
  /\ reported' = reported \ {c}
  /\ GoTo(c, "clear")
  /\ UNCHANGED <<fromConsole, request, canceled, carrying, counts, accepted, written, ended, stray>>

\* (mutant of Clear: the state is kept)
ClearNot(c) ==
  /\ pc[c] = "clear"
  /\ GoTo(c, "return")
  /\ UNCHANGED <<connected, fromConsole, request, canceled, carrying, counts, history>>

\* ... then the state is cleared, whichever console it is from.
Clear(c) ==
  /\ pc[c] = "clear"
  /\ fromConsole' = None
  /\ GoTo(c, "return")
  /\ UNCHANGED <<connected, request, canceled, carrying, counts, history>>

\* The handler returns, and the contexts of the request go with it.
Return(c) ==
  /\ pc[c] = "return"
  /\ request' = [request EXCEPT ![c] = "open"]
  /\ canceled' = [canceled EXCEPT ![c] = FALSE]
  /\ GoTo(c, "away")
  /\ UNCHANGED <<connected, fromConsole, carrying, counts, history>>

-----------------------------------------------------------------------------
(* The other requests.                                                     *)

\* The console is in its loop.
Subscribed(c) == pc[c] \in {"loop", "send"}

\* The console has the flag.
Holds(c) == pc[c] \in {"ready", "loop", "send", "release"}

\* PUT /console: also by a console that is not subscribed, or no longer.
SetConsoleState(c) ==
  /\ puts[c] < MaxPuts
  /\ puts' = [puts EXCEPT ![c] = @ + 1]
  /\ fromConsole' = c
  /\ reported' = IF Subscribed(c) THEN reported \cup {c} ELSE reported
  /\ stray' = ~Holds(c)
  /\ UNCHANGED <<connected, pc, request, canceled, carrying, subs, sends, accepted, written, ended>>

\* PUT /console/events: the update is received if a console's loop is waiting.
ShowAccepted(a) ==
  /\ sends[a] < MaxSends
  /\ \E c \in Console :
       LET update == <<a, sends[a] + 1>>
       IN /\ pc[c] = "loop"
          /\ GoTo(c, "send")
          /\ carrying' = [carrying EXCEPT ![c] = update]
          /\ accepted' = Append(accepted, update)
  /\ sends' = [sends EXCEPT ![a] = @ + 1]
  /\ UNCHANGED <<connected, fromConsole, request, canceled, subs, puts, written, reported, ended,
                 stray>>

\* Otherwise it is dropped with ErrNoConsole.  The loop may also be writing a
\* keepalive at that moment, so that a drop is always possible.
ShowDropped(a) ==
  /\ sends[a] < MaxSends
  /\ sends' = [sends EXCEPT ![a] = @ + 1]
  /\ UNCHANGED <<connected, fromConsole, pc, request, canceled, carrying, subs, puts, history>>

-----------------------------------------------------------------------------

\* Every client is done.
Quiet ==
  /\ \A c \in Console : subs[c] = MaxSubs /\ pc[c] \in {"away", "loop"}
  /\ UNCHANGED vars

ListenerStep(c) ==
  Connect(c) \/ Busy(c) \/ Ready(c) \/ AfterFunc(c) \/ Send(c) \/ TickFails(c) \/ Done(c)
    \/ Release(c) \/ Clear(c) \/ Return(c)

Next ==
  \/ \E c \in Console : Subscribe(c) \/ ListenerStep(c) \/ Expire(c) \/ Disconnect(c)
                          \/ SetConsoleState(c)
  \/ \E a \in Agent : ShowAccepted(a) \/ ShowDropped(a)
  \/ Quiet

Spec == Init /\ [][Next]_vars

\* The server's goroutines are scheduled fairly.  No client has to do anything.
FairSpec == Spec /\ \A c \in Console : WF_vars(ListenerStep(c))

-----------------------------------------------------------------------------
(* Properties.                                                             *)

\* "Only one console SSE listener can be active per session": from the moment
\* it is connected to the moment it gives up the flag.
OneListener ==
  Cardinality({c \in Console : Holds(c)}) = IF connected THEN 1 ELSE 0

\* Updates that the agents were told were accepted are written to a stream in
\* the order of acceptance, each once; at most one is under way.
UpdatesInOrder ==
  \/ accepted = written
  \/ \E c \in Console : pc[c] = "send" /\ accepted = Append(written, carrying[c])

\* When no console is subscribed, or still leaving, what the consoles reported
\* while they had the flag is not left behind for an agent to read.
NoStaleState ==
  (\A c \in Console : pc[c] \in {"away", "connect", "return"}) => fromConsole = None \/ stray

\* "GET /console/events": the slot of a console whose client has gone, and of
\* one whose request has expired, becomes free for the next one.
SlotFreed ==
  \A c \in Console : (pc[c] = "loop" /\ request[c] # "open") ~> ~connected

\* "Strip the middleware's request timeout - SSE is long-lived": a subscription
\* is not ended by the deadline of its request.
OutlivesTimeout == "expired" \notin ended

=============================================================================
