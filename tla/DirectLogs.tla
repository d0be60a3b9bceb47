------------------------------- MODULE DirectLogs ------------------------------
(***************************************************************************)
(* One Get of the direct log store: the goroutine of the caller lists the  *)
(* pods and starts a reader for each selected container; the readers send  *)
(* their log lines through the channel `out' to one consumer, which        *)
(* appends them to the caller's result.  The limit is shared through an    *)
(* atomic counter.  Listing the pods, decoding a pod, opening a stream and *)
(* reading it may fail, and the caller may cancel the request, at any      *)
(* time.                                                                   *)
(***************************************************************************)
EXTENDS Integers, Sequences, FiniteSets

CONSTANTS
  Container,  \* the selected containers of the selected pods
  Log,        \* container -> its log: each line before, within or after the interval
  Limit       \* Constraint.GetLimit(): 0 for no limit

ASSUME ContainerAssumption == IsFiniteSet(Container)
ASSUME LimitAssumption == Limit \in Nat
ASSUME LogAssumption == Log \in [Container -> Seq({"before", "within", "after"})]

VARIABLES
  main,       \* the goroutine that calls Get
  reader,     \* container -> the goroutine that reads its log
  next,       \* container -> the position of the next line of its stream
  count,      \* the atomic counter of lines taken
  consumer,   \* the goroutine that appends to the result
  item,       \* the line it has received, NoLine when it has none
  closed,     \* `out' is closed
  err,        \* the error of the pods or the first of a reader; Get returns it, but
              \* nil for "notfound", which is not an error
  gone,       \* the caller has cancelled the request
  broken,     \* history: the containers whose own stream failed
  result      \* the caller's result

logsVars == <<main, reader, next, count, consumer, item, closed, err, gone, broken, result>>

NoLine == <<>>
\* PodLogOptions.TailLines: the stream starts at the last Limit lines.
First(c) == IF Limit > 0 /\ Len(Log[c]) > Limit THEN Len(Log[c]) - Limit + 1 ELSE 1
Line(c) == IF next[c] > Len(Log[c]) THEN "end" ELSE Log[c][next[c]]

\* errgroup cancels the context of the readers with the first error.
Cancelled == gone \/ err # "none"

LogsInit ==
  /\ main = "idle"
  /\ reader = [c \in Container |-> "none"]
  /\ next = [c \in Container |-> First(c)]
  /\ count = 0
  /\ consumer = "none"
  /\ item = NoLine
  /\ closed = FALSE
  /\ err = "none"
  /\ gone = FALSE
  /\ broken = {}
  /\ result = <<>>
--------------------------------------------------------------------------------
(* The caller's goroutine *)

Start ==
  /\ main = "idle"
  /\ main' = "pods"
  /\ UNCHANGED <<reader, next, count, consumer, item, closed, err, gone, broken, result>>

Pods ==
  /\ main = "pods"
  /\ ~gone
  /\ main' = "spawn"
  /\ consumer' = "receive"
  /\ UNCHANGED <<reader, next, count, item, closed, err, gone, broken, result>>

PodsFail ==
  /\ main = "pods"
  /\ main' = "returned"
  /\ err' = "pods"
  /\ UNCHANGED <<reader, next, count, consumer, item, closed, gone, broken, result>>

Spawn(c) ==
  /\ main = "spawn"
  /\ reader[c] = "none"
  /\ reader' = [reader EXCEPT ![c] = "open"]
  /\ UNCHANGED <<main, next, count, consumer, item, closed, err, gone, broken, result>>

\* A pod that cannot be decoded, whose containers are among those not yet read:
\* Get returns at once, with an error of its own.
\* The readers that it has started and the consumer run on, nobody closes `out',
\* and nothing cancels the context of the readers.
Malformed ==
  /\ main = "spawn"
  /\ \E c \in Container : reader[c] = "none"
  /\ main' = "abandoned"
  /\ UNCHANGED <<reader, next, count, consumer, item, closed, err, gone, broken, result>>

\* group.Wait, close(out)
\* Mutant: the channel is closed as soon as all readers are started.
WaitNot ==
  /\ main = "spawn"
  /\ \A c \in Container : reader[c] # "none"
  /\ main' = "drain"
  /\ closed' = TRUE
  /\ UNCHANGED <<reader, next, count, consumer, item, err, gone, broken, result>>
Wait ==
  /\ main = "spawn"
  /\ \A c \in Container : reader[c] = "done"
  /\ main' = "drain"
  /\ closed' = TRUE
  /\ UNCHANGED <<reader, next, count, consumer, item, err, gone, broken, result>>

\* Mutant: Get does not wait for the consumer.
ReturnAtOnce ==
  /\ main = "drain"
  /\ main' = "returned"
  /\ UNCHANGED <<reader, next, count, consumer, item, closed, err, gone, broken, result>>
Return ==
  /\ main = "drain"
  /\ consumer = "done"
  /\ main' = "returned"
  /\ UNCHANGED <<reader, next, count, consumer, item, closed, err, gone, broken, result>>

\* What the caller of Get knows of it.
Outcome == IF main \in {"returned", "abandoned"} THEN main ELSE "running"
--------------------------------------------------------------------------------
(* A reader *)

Open(c) ==
  /\ reader[c] = "open"
  /\ ~Cancelled
  /\ reader' = [reader EXCEPT ![c] = "scan"]
  /\ UNCHANGED <<main, next, count, consumer, item, closed, err, gone, broken, result>>

\* Mutant: the stream is opened again and again.
OpenFailsRetry(c) ==
  /\ reader[c] = "open"
  /\ UNCHANGED logsVars
\* The first error is the one that Get returns.
OpenFails(c) ==
  /\ reader[c] = "open"
  /\ reader' = [reader EXCEPT ![c] = "done"]
  /\ broken' = IF Cancelled THEN broken ELSE broken \cup {c}
  /\ IF err # "none" THEN UNCHANGED err ELSE err' \in IF gone THEN {"failed"} ELSE {"failed", "notfound"}
  /\ UNCHANGED <<main, next, count, consumer, item, closed, gone, result>>

\* A line before the interval is skipped.
Skip(c) ==
  /\ reader[c] = "scan"
  /\ Line(c) = "before"
  /\ next' = [next EXCEPT ![c] = @ + 1]
  /\ UNCHANGED <<main, reader, count, consumer, item, closed, err, gone, broken, result>>

\* The stream ends, or reaches a line after the interval.
Stop(c) ==
  /\ reader[c] = "scan"
  /\ Line(c) \in {"end", "after"}
  /\ reader' = [reader EXCEPT ![c] = "done"]
  /\ UNCHANGED <<main, next, count, consumer, item, closed, err, gone, broken, result>>

\* The stream fails, or is closed because the context is cancelled.
Cut(c) ==
  /\ reader[c] = "scan"
  /\ reader' = [reader EXCEPT ![c] = "done"]
  /\ broken' = IF Cancelled THEN broken ELSE broken \cup {c}
  /\ UNCHANGED <<main, next, count, consumer, item, closed, err, gone, result>>

\* count.Add(1) > limit
OverLimit == Limit > 0 /\ count + 1 > Limit

\* Mutant: lines before the interval take from the limit as well.
TakeAny(c) ==
  /\ reader[c] = "scan"
  /\ Line(c) \in {"before", "within"}
  /\ count' = IF Limit > 0 THEN count + 1 ELSE count
  /\ IF Line(c) = "before" /\ ~OverLimit
     THEN next' = [next EXCEPT ![c] = @ + 1] /\ UNCHANGED reader
     ELSE reader' = [reader EXCEPT ![c] = IF OverLimit THEN "done" ELSE "send"] /\ UNCHANGED next
  /\ UNCHANGED <<main, consumer, item, closed, err, gone, broken, result>>
Take(c) ==
  /\ reader[c] = "scan"
  /\ Line(c) = "within"
  /\ count' = IF Limit > 0 THEN count + 1 ELSE count
  /\ reader' = [reader EXCEPT ![c] = IF OverLimit THEN "done" ELSE "send"]
  /\ UNCHANGED <<main, next, consumer, item, closed, err, gone, broken, result>>

\* The channel has no buffer: sending and receiving are one step.
Send(c) ==
  /\ reader[c] = "send"
  /\ consumer = "receive"
  /\ ~closed
  /\ consumer' = "append"
  /\ item' = <<c, next[c]>>
  /\ reader' = [reader EXCEPT ![c] = "scan"]
  /\ next' = [next EXCEPT ![c] = @ + 1]
  /\ UNCHANGED <<main, count, closed, err, gone, broken, result>>
--------------------------------------------------------------------------------
(* The consumer *)

AppendLine ==
  /\ consumer = "append"
  /\ result' = Append(result, item)
  /\ consumer' = "receive"
  /\ item' = NoLine
  /\ UNCHANGED <<main, reader, next, count, closed, err, gone, broken>>

ConsumerEnd ==
  /\ consumer = "receive"
  /\ closed
  /\ consumer' = "done"
  /\ UNCHANGED <<main, reader, next, count, item, closed, err, gone, broken, result>>
--------------------------------------------------------------------------------
\* The caller cancels the request while Get, or what it left behind, runs.
Cancel ==
  /\ main \notin {"idle", "returned"}
  /\ ~gone
  /\ gone' = TRUE
  /\ UNCHANGED <<main, reader, next, count, consumer, item, closed, err, broken, result>>

Main == Pods \/ PodsFail \/ (\E c \in Container : Spawn(c)) \/ Malformed \/ Wait \/ Return
Read(c) == Open(c) \/ OpenFails(c) \/ Skip(c) \/ Stop(c) \/ Cut(c) \/ Take(c) \/ Send(c)
Consume == AppendLine \/ ConsumerEnd

\* What goes on once Get was called.
LogsStep == Main \/ (\E c \in Container : Read(c)) \/ Consume \/ Cancel

\* The Go scheduler runs every goroutine that can run.
LogsFairness ==
  /\ WF_logsVars(Main)
  /\ WF_logsVars(Consume)
  /\ \A c \in Container : WF_logsVars(Read(c))

LogsNext == Start \/ LogsStep

LogsSpec == LogsInit /\ [][LogsNext]_logsVars /\ LogsFairness
--------------------------------------------------------------------------------
(* Properties *)

Lines == UNION {{c} \X (1 .. Len(Log[c])) : c \in Container}

LogsTypeOK ==
  /\ main \in {"idle", "pods", "spawn", "drain", "returned", "abandoned"}
  /\ reader \in [Container -> {"none", "open", "scan", "send", "done"}]
  /\ next \in [Container -> Nat]
  /\ \A c \in Container : next[c] \in First(c) .. Len(Log[c]) + 1
  /\ count \in Nat
  /\ consumer \in {"none", "receive", "append", "done"}
  /\ item \in IF consumer = "append" THEN Lines ELSE {NoLine}
  /\ closed \in BOOLEAN /\ gone \in BOOLEAN
  /\ err \in {"none", "pods", "notfound", "failed"}
  /\ broken \subseteq Container
  /\ result \in Seq(Lines)

\* However many readers race for the last place, the answer has no more lines
\* than the limit, those in flight included.
LimitKept ==
  Limit > 0 =>
    Len(result) + Cardinality({c \in Container : reader[c] = "send"})
      + (IF consumer = "append" THEN 1 ELSE 0) <= Limit

\* No reader sends on a channel that is closed, which would panic.
NoSendOnClosed == closed => \A c \in Container : reader[c] # "send"

\* The lines of the stream that are within the interval, up to the first that
\* is after it.
WantedLines ==
  [c \in Container |->
    {i \in First(c) .. Len(Log[c]) :
      Log[c][i] = "within" /\ \A j \in First(c) .. i : Log[c][j] # "after"}]

Answered(c) == \A i \in WantedLines[c] : \E k \in 1 .. Len(result) : result[k] = <<c, i>>
LimitReached == Limit > 0 /\ Len(result) = Limit

\* A Get that was not disturbed -- no error, no cancellation -- returns all the
\* wanted lines of every container whose stream did not break, unless it
\* reached the limit: no line is lost in the channel, the consumer or the count.
Complete ==
  main = "returned" /\ err = "none" /\ ~gone =>
    LimitReached \/ \A c \in Container \ broken : Answered(c)

\* The caller sees LogAnswer: each wanted line once, in the order of its container,
\* within the limit, and none once Get has returned -- unless Get gave up on a pod
\* that it cannot decode (direct_store.go:82), when lines go on to arrive.
Answer == INSTANCE LogAnswer WITH
  Wanted <- WantedLines, answer <- result, call <- Outcome
ImplementsAnswer == Answer!Spec
================================================================================
