----------------------------- MODULE LogQueryProofs ----------------------------
(***************************************************************************)
(* Proofs about the interning of queries (QueryIntern), about the direct   *)
(* log store (DirectLogs) and about both together (LogQuery), for any      *)
(* workers, strings, containers, logs and limit.  Each step of the whole   *)
(* is a step, or none, of the two components, so that what is proved of    *)
(* them holds of it.                                                       *)
(***************************************************************************)
EXTENDS LogQuery, FiniteSetTheorems, TLAPS

(* The interning of queries *)

\* No string was executed before its query was made and marked as seen, and
\* none twice.
RunInv == \A s \in QueryString : runs[s] \in {0, 1} /\ (runs[s] = 1 => queries[s] \in seen)

InternInv == InternTypeOK /\ SameQuery /\ RunInv

\* Domains.Query and isDuplicate keep the types.
LEMMA InternTypeStep ==
  ASSUME InternTypeOK, SameQuery, [InternNext]_internVars
  PROVE  InternTypeOK'
<1> USE DEF InternTypeOK
<1>1. ASSUME NEW w \in Worker, NEW s \in QueryString, Lookup(w, s)
      PROVE  InternTypeOK'
  BY <1>1 DEF Lookup
<1>2. ASSUME NEW w \in Worker, Interned(w)
      PROVE  InternTypeOK'
  BY <1>2 DEF Interned
<1>3. ASSUME NEW w \in Worker, Reject(w) \/ Duplicate(w) \/ Run(w) \/ Finish(w)
      PROVE  InternTypeOK'
  BY <1>3 DEF Reject, Duplicate, Run, Finish
<1>4. ASSUME NEW w \in Worker, Make(w)
      PROVE  InternTypeOK'
  <2>1. made' = made + 1 /\ made \in Nat BY <1>4 DEF Make
  <2>2. 0 .. made \subseteq 0 .. made' /\ 1 .. made \subseteq 1 .. made' /\ made + 1 \in 0 .. made'
    BY <2>1
  <2>3. queries' \in [QueryString -> 0 .. made'] BY <1>4, <2>2 DEF Make
  <2>4. got' \in [Worker -> 0 .. made'] BY <1>4, <2>2 DEF Make
  <2>5. seen' \subseteq 1 .. made' BY <1>4, <2>2 DEF Make
  <2>6. pc' \in [Worker -> {"idle", "lock", "got", "run", "running"}] BY <1>4 DEF Make
  <2>7. UNCHANGED <<str, runs>> BY <1>4 DEF Make
  <2> QED BY <2>1, <2>3, <2>4, <2>5, <2>6, <2>7
<1>5. ASSUME NEW w \in Worker, Admit(w)
      PROVE  InternTypeOK'
  <2>1. got[w] \in 1 .. made BY <1>5 DEF Admit, SameQuery, HasQuery
  <2>2. runs[str[w]] + 1 \in Nat OBVIOUS
  <2>3. runs' \in [QueryString -> Nat] BY <1>5, <2>2 DEF Admit
  <2>4. seen' \subseteq 1 .. made BY <1>5, <2>1 DEF Admit
  <2>5. pc' \in [Worker -> {"idle", "lock", "got", "run", "running"}] BY <1>5 DEF Admit
  <2>6. UNCHANGED <<queries, made, str, got>> BY <1>5 DEF Admit
  <2> QED BY <2>3, <2>4, <2>5, <2>6
<1>6. CASE UNCHANGED internVars BY <1>6 DEF internVars
<1> QED BY <1>1, <1>2, <1>3, <1>4, <1>5, <1>6 DEF InternNext, Intern

\* Whoever is given a query is given the one in the map, and Make takes a new one.
LEMMA SameQueryStep ==
  ASSUME InternTypeOK, SameQuery, [InternNext]_internVars
  PROVE  SameQuery'
<1> USE DEF InternTypeOK, SameQuery, HasQuery
<1>1. ASSUME NEW w \in Worker, NEW s \in QueryString, Lookup(w, s)
      PROVE  SameQuery'
  BY <1>1 DEF Lookup
<1>2. ASSUME NEW w \in Worker, Interned(w)
      PROVE  SameQuery'
  BY <1>2 DEF Interned
<1>3. ASSUME NEW w \in Worker, Reject(w) \/ Duplicate(w) \/ Run(w) \/ Finish(w) \/ Admit(w)
      PROVE  SameQuery'
  BY <1>3 DEF Reject, Duplicate, Run, Finish, Admit
<1>4. ASSUME NEW w \in Worker, Make(w)
      PROVE  SameQuery'
  <2>1. queries[str[w]] = 0 /\ queries' = [queries EXCEPT ![str[w]] = made + 1] /\ UNCHANGED str
    BY <1>4 DEF Make
  <2>2. made + 1 # 0 /\ \A s \in QueryString : queries[s] # made + 1
    OBVIOUS
  <2>3. ASSUME NEW v \in Worker, HasQuery(v)'
        PROVE  got'[v] = queries'[str'[v]] /\ got'[v] # 0
    <3>1. CASE v = w BY <1>4, <2>1, <2>2, <3>1 DEF Make
    <3>2. CASE v # w
      <4>1. HasQuery(v) /\ got'[v] = got[v] BY <1>4, <2>3, <3>2 DEF Make
      <4>2. got[v] = queries[str[v]] /\ got[v] # 0 BY <4>1
      <4>3. str[v] # str[w] BY <2>1, <4>2
      <4> QED BY <2>1, <4>1, <4>2, <4>3
    <3> QED BY <3>1, <3>2
  <2>4. ASSUME NEW s \in QueryString, NEW t \in QueryString, queries'[s] # 0, queries'[s] = queries'[t]
        PROVE  s = t
    BY <2>1, <2>2, <2>4
  <2> QED BY <2>3, <2>4
<1>5. CASE UNCHANGED internVars BY <1>5 DEF internVars
<1> QED BY <1>1, <1>2, <1>3, <1>4, <1>5 DEF InternNext, Intern

\* isDuplicate admits a query object once, and a string has one object.
LEMMA RunInvStep ==
  ASSUME InternInv, [InternNext]_internVars
  PROVE  RunInv'
<1> USE DEF InternInv, InternTypeOK, RunInv
<1>1. ASSUME NEW w \in Worker, NEW s \in QueryString, Lookup(w, s)
      PROVE  RunInv'
  BY <1>1 DEF Lookup
<1>2. ASSUME NEW w \in Worker, Interned(w) \/ Reject(w) \/ Duplicate(w) \/ Run(w) \/ Finish(w)
      PROVE  RunInv'
  BY <1>2 DEF Interned, Reject, Duplicate, Run, Finish
<1>3. ASSUME NEW w \in Worker, Make(w)
      PROVE  RunInv'
  <2>1. queries[str[w]] = 0 /\ queries' = [queries EXCEPT ![str[w]] = made + 1] /\ UNCHANGED <<seen, runs>>
    BY <1>3 DEF Make
  <2>2. 0 \notin seen OBVIOUS
  <2>3. runs[str[w]] # 1 BY <2>1, <2>2
  <2> QED BY <2>1, <2>3
<1>4. ASSUME NEW w \in Worker, Admit(w)
      PROVE  RunInv'
  <2>1. got[w] = queries[str[w]] BY <1>4 DEF Admit, SameQuery, HasQuery
  <2>2. got[w] \notin seen /\ seen' = seen \cup {got[w]} /\ UNCHANGED queries
        /\ runs' = [runs EXCEPT ![str[w]] = @ + 1]
    BY <1>4 DEF Admit
  <2>3. runs[str[w]] = 0 BY <2>1, <2>2
  <2>4. runs'[str[w]] = 1 /\ queries'[str[w]] \in seen' BY <2>1, <2>2, <2>3
  <2>5. ASSUME NEW s \in QueryString, s # str[w]
        PROVE  runs'[s] \in {0, 1} /\ (runs'[s] = 1 => queries'[s] \in seen')
    BY <2>2, <2>5
  <2> QED BY <2>4, <2>5
<1>5. CASE UNCHANGED internVars BY <1>5 DEF internVars
<1> QED BY <1>1, <1>2, <1>3, <1>4, <1>5 DEF InternNext, Intern

\* In a new engine no query is interned, and the new search has run none.
LEMMA InternInvInit == InternInit => InternInv
<1> SUFFICES ASSUME InternInit PROVE InternInv OBVIOUS
<1>1. InternTypeOK BY DEF InternInit, InternTypeOK
<1>2. SameQuery BY DEF InternInit, SameQuery, HasQuery
<1>3. RunInv BY DEF InternInit, RunInv
<1> QED BY <1>1, <1>2, <1>3 DEF InternInv

\* Each step of a worker preserves the invariant.
LEMMA InternInvStep == InternInv /\ [InternNext]_internVars => InternInv'
BY InternTypeStep, SameQueryStep, RunInvStep DEF InternInv

\* The invariant states what the runs check: a string is executed once at most.
LEMMA InternInvRunOnce == InternInv => RunOnce
BY DEF InternInv, RunInv, RunOnce

--------------------------------------------------------------------------------
\* Domains.Query gives equal strings the same query, and different strings
\* different ones, however many workers ask at once.
THEOREM InternSameQuery == InternSpec => []SameQuery
<1>1. InternInv => SameQuery BY DEF InternInv
<1> QED BY <1>1, InternInvInit, InternInvStep, PTL DEF InternSpec

\* A search executes each query string at most once.
THEOREM InternRunOnce == InternSpec => []RunOnce
BY InternInvInit, InternInvStep, InternInvRunOnce, PTL DEF InternSpec

--------------------------------------------------------------------------------
(* The direct log store *)

(* The invariant *)

\* The order of the caller's goroutine: the consumer runs until the channel is
\* closed, which happens when every reader is done, or never.
Phase ==
  /\ main \in {"idle", "pods"} => consumer = "none" /\ ~closed
  /\ main \in {"spawn", "abandoned"} => consumer \in {"receive", "append"} /\ ~closed
  /\ main = "drain" => closed /\ consumer # "none"
  /\ main = "returned" => (closed /\ consumer = "done") \/ (err = "pods" /\ consumer = "none")
  /\ closed => \A c \in Container : reader[c] = "done"
  /\ consumer = "done" => closed

\* A reader has not gone beyond a line after the interval, and sends what it took.
Streams ==
  \A c \in Container :
    /\ \A j \in First(c) .. next[c] - 1 : Log[c][j] # "after"
    /\ reader[c] = "send" => Line(c) = "within"

Held(c, i) == consumer = "append" /\ item = <<c, i>>
Delivered(c, i) == \E k \in 1 .. Len(result) : result[k] = <<c, i>>

\* The wanted lines that a reader has passed are in the result, but for the one
\* that the consumer holds, which is not there yet.
Ledger ==
  /\ \A c \in Container : \A i \in WantedLines[c] :
       /\ i < next[c] <=> Held(c, i) \/ Delivered(c, i)
       /\ ~(Held(c, i) /\ Delivered(c, i))
  /\ consumer = "append" => \E c \in Container : \E i \in WantedLines[c] : item = <<c, i>>

Sending == {c \in Container : reader[c] = "send"}
Holding == IF consumer = "append" THEN 1 ELSE 0

\* Every line counted below the limit is on its way or in the result.
Counted ==
  Limit > 0 => Len(result) + Cardinality(Sending) + Holding = IF count <= Limit THEN count ELSE Limit

\* Why a reader is done.
Ended ==
  \A c \in Container : reader[c] = "done" =>
    c \in broken \/ Cancelled \/ (Limit > 0 /\ count > Limit) \/ Line(c) \in {"end", "after"}

LogsInv == LogsTypeOK /\ Phase /\ Streams /\ Ledger /\ Counted /\ Ended
--------------------------------------------------------------------------------
(* Facts about logs *)

\* PodLogOptions.TailLines keeps the stream within the log.
LEMMA FirstType ==
  ASSUME NEW c \in Container
  PROVE  Len(Log[c]) \in Nat /\ First(c) \in Nat /\ First(c) >= 1 /\ First(c) <= Len(Log[c]) + 1
<1>1. Len(Log[c]) \in Nat BY LogAssumption
<1>2. Limit \in Nat BY LimitAssumption
<1> QED BY <1>1, <1>2 DEF First

\* The lines of a log, as DirectLogs writes them.
LEMMA LinesElement ==
  ASSUME NEW c \in Container, NEW i \in 1 .. Len(Log[c])
  PROVE  <<c, i>> \in Lines
BY DEF Lines

\* Wanted lines are lines of their log.
LEMMA WantedFacts ==
  ASSUME NEW c \in Container
  PROVE  /\ WantedLines[c] = {i \in First(c) .. Len(Log[c]) :
                Log[c][i] = "within" /\ \A j \in First(c) .. i : Log[c][j] # "after"}
         /\ WantedLines[c] \subseteq 1 .. Len(Log[c])
<1>1. WantedLines[c] = {i \in First(c) .. Len(Log[c]) :
                Log[c][i] = "within" /\ \A j \in First(c) .. i : Log[c][j] # "after"}
  BY DEF WantedLines
<1> QED BY <1>1, FirstType

\* A line that is not the end of the stream is a line of the log.
LEMMA LineFacts ==
  ASSUME NEW c \in Container, next[c] \in First(c) .. Len(Log[c]) + 1, Line(c) # "end"
  PROVE  next[c] \in First(c) .. Len(Log[c]) /\ Line(c) = Log[c][next[c]] /\ next[c] \in 1 .. Len(Log[c])
BY FirstType DEF Line

--------------------------------------------------------------------------------
(* Each step preserves each part *)

\* What a step does to the streams: it advances one of them by a line, or none.
LEMMA NextType ==
  ASSUME LogsTypeOK, NEW c \in Container, Line(c) # "end",
         next' = [next EXCEPT ![c] = @ + 1]
  PROVE  next' \in [Container -> Nat] /\ \A d \in Container : next'[d] \in First(d) .. Len(Log[d]) + 1
<1>1. next \in [Container -> Nat] /\ \A d \in Container : next[d] \in First(d) .. Len(Log[d]) + 1
  BY DEF LogsTypeOK
<1>2. next[c] \in First(c) .. Len(Log[c]) BY <1>1, LineFacts
<1>3. next[c] + 1 \in First(c) .. Len(Log[c]) + 1 BY <1>2, FirstType
<1> QED BY <1>1, <1>2, <1>3

\* The goroutines of Get keep the types.
LEMMA LogsTypeStep ==
  ASSUME LogsTypeOK, Phase, Streams, [LogsNext]_logsVars
  PROVE  LogsTypeOK'
<1>1. CASE Start \/ Pods \/ PodsFail \/ Malformed \/ Wait \/ Return \/ Cancel
  <2>1. CASE Pods
    <3>1. consumer = "none" BY <2>1 DEF Phase, Pods
    <3> QED BY <2>1, <3>1 DEF LogsTypeOK, Pods
  <2>2. CASE Start \/ PodsFail \/ Malformed \/ Wait \/ Return \/ Cancel
    <3>1. UNCHANGED <<reader, next, count, consumer, item, broken, result>>
      BY <2>2 DEF Start, PodsFail, Malformed, Wait, Return, Cancel
    <3>2. /\ main' \in {"idle", "pods", "spawn", "drain", "returned", "abandoned"}
          /\ closed' \in BOOLEAN /\ gone' \in BOOLEAN
          /\ err' \in {"none", "pods", "notfound", "failed"}
      BY <2>2 DEF LogsTypeOK, Start, PodsFail, Malformed, Wait, Return, Cancel
    <3> QED BY <3>1, <3>2 DEF LogsTypeOK
  <2> QED BY <1>1, <2>1, <2>2
<1>2. ASSUME NEW c \in Container, Spawn(c) \/ Open(c) \/ Stop(c)
      PROVE  LogsTypeOK'
  BY <1>2 DEF LogsTypeOK, Spawn, Open, Stop
<1>3. ASSUME NEW c \in Container, OpenFails(c)
      PROVE  LogsTypeOK'
  <2>1. err' \in {"none", "pods", "notfound", "failed"} BY <1>3 DEF LogsTypeOK, OpenFails
  <2>2. broken' \subseteq Container BY <1>3 DEF LogsTypeOK, OpenFails
  <2>3. reader' \in [Container -> {"none", "open", "scan", "send", "done"}]
    BY <1>3 DEF LogsTypeOK, OpenFails
  <2>4. UNCHANGED <<main, next, count, consumer, item, closed, gone, result>> BY <1>3 DEF OpenFails
  <2> QED BY <2>1, <2>2, <2>3, <2>4 DEF LogsTypeOK
<1>4. ASSUME NEW c \in Container, Cut(c)
      PROVE  LogsTypeOK'
  <2>1. broken' \subseteq Container BY <1>4 DEF LogsTypeOK, Cut
  <2> QED BY <1>4, <2>1 DEF LogsTypeOK, Cut
<1>5. ASSUME NEW c \in Container, Skip(c)
      PROVE  LogsTypeOK'
  <2>1. Line(c) # "end" BY <1>5 DEF Skip
  <2>2. next' \in [Container -> Nat] /\ \A d \in Container : next'[d] \in First(d) .. Len(Log[d]) + 1
    BY <1>5, <2>1, NextType DEF Skip
  <2> QED BY <1>5, <2>2 DEF LogsTypeOK, Skip
<1>6. ASSUME NEW c \in Container, Take(c)
      PROVE  LogsTypeOK'
  <2>1. count' \in Nat BY <1>6 DEF LogsTypeOK, Take
  <2>2. reader' \in [Container -> {"none", "open", "scan", "send", "done"}]
    BY <1>6 DEF LogsTypeOK, Take
  <2> QED BY <1>6, <2>1, <2>2 DEF LogsTypeOK, Take
<1>7. ASSUME NEW c \in Container, Send(c)
      PROVE  LogsTypeOK'
  <2>1. Line(c) # "end" BY <1>7 DEF Send, Streams
  <2>2. next' \in [Container -> Nat] /\ \A d \in Container : next'[d] \in First(d) .. Len(Log[d]) + 1
    BY <1>7, <2>1, NextType DEF Send
  <2>3. next[c] \in 1 .. Len(Log[c]) BY <2>1, LineFacts DEF LogsTypeOK
  <2>4. consumer' = "append" /\ item' \in Lines BY <1>7, <2>3, LinesElement DEF Send
  <2>5. reader' \in [Container -> {"none", "open", "scan", "send", "done"}]
    BY <1>7 DEF LogsTypeOK, Send
  <2>6. UNCHANGED <<main, count, closed, err, gone, broken, result>> BY <1>7 DEF Send
  <2> QED BY <2>2, <2>4, <2>5, <2>6 DEF LogsTypeOK
<1>8. CASE AppendLine
  <2>1. item \in Lines BY <1>8 DEF LogsTypeOK, AppendLine
  <2>2. result' \in Seq(Lines) BY <1>8, <2>1 DEF LogsTypeOK, AppendLine
  <2>3. consumer' = "receive" /\ item' = NoLine BY <1>8 DEF AppendLine
  <2>4. UNCHANGED <<main, reader, next, count, closed, err, gone, broken>> BY <1>8 DEF AppendLine
  <2> QED BY <2>2, <2>3, <2>4 DEF LogsTypeOK
<1>9. CASE ConsumerEnd BY <1>9 DEF LogsTypeOK, ConsumerEnd
<1>10. CASE UNCHANGED logsVars BY <1>10 DEF LogsTypeOK, logsVars
<1> QED BY <1>1, <1>2, <1>3, <1>4, <1>5, <1>6, <1>7, <1>8, <1>9, <1>10
        DEF LogsNext, LogsStep, Main, Read, Consume

\* Get closes the channel when all readers are done and returns after the consumer.
LEMMA PhaseStep ==
  ASSUME LogsTypeOK, Phase, [LogsNext]_logsVars
  PROVE  Phase'
<1>1. CASE Start \/ Pods \/ PodsFail \/ Malformed \/ Wait \/ Return \/ Cancel
  BY <1>1 DEF Phase, LogsTypeOK, Start, Pods, PodsFail, Malformed, Wait, Return, Cancel
<1>2. ASSUME NEW c \in Container, Spawn(c)
      PROVE  Phase'
  BY <1>2 DEF Phase, LogsTypeOK, Spawn
<1>3. ASSUME NEW c \in Container, Open(c) \/ Stop(c) \/ Cut(c) \/ Skip(c)
      PROVE  Phase'
  BY <1>3 DEF Phase, LogsTypeOK, Open, Stop, Cut, Skip
<1>4. ASSUME NEW c \in Container, OpenFails(c)
      PROVE  Phase'
  <2>1. err = "pods" => err' = "pods" BY <1>4 DEF OpenFails
  <2>2. ~closed BY <1>4 DEF OpenFails, Phase
  <2> QED BY <1>4, <2>1, <2>2 DEF Phase, OpenFails
<1>5. ASSUME NEW c \in Container, Take(c)
      PROVE  Phase'
  <2>1. ~closed BY <1>5 DEF Take, Phase
  <2> QED BY <1>5, <2>1 DEF Phase, Take
<1>6. ASSUME NEW c \in Container, Send(c)
      PROVE  Phase'
  BY <1>6 DEF Phase, LogsTypeOK, Send
<1>7. CASE AppendLine \/ ConsumerEnd
  BY <1>7 DEF Phase, LogsTypeOK, AppendLine, ConsumerEnd
<1>8. CASE UNCHANGED logsVars BY <1>8 DEF Phase, logsVars
<1> QED BY <1>1, <1>2, <1>3, <1>4, <1>5, <1>6, <1>7, <1>8 DEF LogsNext, LogsStep, Main, Read, Consume

\* readPodLogs goes on to the next line only from one that is not after the interval.
LEMMA StreamsStep ==
  ASSUME LogsTypeOK, Streams, [LogsNext]_logsVars
  PROVE  Streams'
<1>1. CASE UNCHANGED next /\ \A c \in Container : reader'[c] = "send" => reader[c] = "send"
  BY <1>1 DEF Streams, Line
<1>2. CASE Start \/ Pods \/ PodsFail \/ Malformed \/ Wait \/ Return \/ Cancel \/ AppendLine \/ ConsumerEnd
  BY <1>1, <1>2 DEF Start, Pods, PodsFail, Malformed, Wait, Return, Cancel, AppendLine, ConsumerEnd
<1>3. ASSUME NEW c \in Container, Spawn(c) \/ Open(c) \/ Stop(c) \/ Cut(c) \/ OpenFails(c)
      PROVE  Streams'
  <2>1. UNCHANGED next /\ \A d \in Container : reader'[d] = "send" => reader[d] = "send"
    BY <1>3 DEF LogsTypeOK, Spawn, Open, Stop, Cut, OpenFails
  <2> QED BY <1>1, <2>1
<1>4. ASSUME NEW c \in Container, Take(c)
      PROVE  Streams'
  <2>1. UNCHANGED next /\ Line(c) = "within" BY <1>4 DEF Take
  <2>2. \A d \in Container : d # c => reader'[d] = reader[d] BY <1>4 DEF Take, LogsTypeOK
  <2> QED BY <2>1, <2>2 DEF Streams, Line
<1>5. ASSUME NEW c \in Container, Skip(c) \/ Send(c)
      PROVE  Streams'
  <2>1. next' = [next EXCEPT ![c] = @ + 1] BY <1>5 DEF Skip, Send
  <2>2. reader'[c] # "send" /\ \A d \in Container : d # c => reader'[d] = reader[d]
    BY <1>5 DEF Skip, Send, LogsTypeOK
  <2>3. Line(c) \notin {"end", "after"} BY <1>5 DEF Skip, Send, Streams
  <2>4. next[c] \in First(c) .. Len(Log[c]) /\ Log[c][next[c]] # "after" /\ next[c] \in Nat
    BY <2>3, LineFacts DEF LogsTypeOK
  <2>5. next'[c] = next[c] + 1 /\ \A d \in Container : d # c => next'[d] = next[d]
    BY <2>1 DEF LogsTypeOK
  <2>6. \A j \in First(c) .. next'[c] - 1 : Log[c][j] # "after"
    <3>1. ASSUME NEW j \in First(c) .. next'[c] - 1
          PROVE  j = next[c] \/ j \in First(c) .. next[c] - 1
      BY <2>4, <2>5, <3>1, FirstType
    <3> QED BY <2>4, <3>1 DEF Streams
  <2>7. ASSUME NEW d \in Container, d # c
        PROVE  /\ \A j \in First(d) .. next'[d] - 1 : Log[d][j] # "after"
               /\ reader'[d] = "send" => Line(d)' = "within"
    BY <2>2, <2>5, <2>7 DEF Streams, Line
  <2> QED BY <2>2, <2>6, <2>7 DEF Streams
<1>6. CASE UNCHANGED logsVars BY <1>1, <1>6 DEF logsVars
<1> QED BY <1>2, <1>3, <1>4, <1>5, <1>6 DEF LogsNext, LogsStep, Main, Read, Consume

\* Appending to the result delivers that line and no other.
LEMMA AppendDelivers ==
  ASSUME LogsTypeOK, AppendLine, NEW c, NEW i
  PROVE  Delivered(c, i)' <=> Delivered(c, i) \/ item = <<c, i>>
<1>1. result \in Seq(Lines) /\ result' = Append(result, item) BY DEF LogsTypeOK, AppendLine
<1>2. Len(result) \in Nat /\ Len(result') = Len(result) + 1 /\ result'[Len(result) + 1] = item
      /\ \A k \in 1 .. Len(result) : result'[k] = result[k]
  BY <1>1
<1>3. 1 .. Len(result') = 1 .. Len(result) \cup {Len(result) + 1} BY <1>2
<1> QED BY <1>2, <1>3 DEF Delivered

\* The lines between the stream and the result are in the consumer's hand, one at most.
LEMMA LedgerStep ==
  ASSUME LogsTypeOK, Phase, Streams, Ledger, [LogsNext]_logsVars
  PROVE  Ledger'
<1>1. CASE UNCHANGED <<next, consumer, item, result>>
  BY <1>1 DEF Ledger, Held, Delivered
<1>2. CASE Start \/ PodsFail \/ Malformed \/ Wait \/ Return \/ Cancel
  BY <1>1, <1>2 DEF Start, PodsFail, Malformed, Wait, Return, Cancel
<1>3. CASE Pods \/ ConsumerEnd
  <2>1. UNCHANGED <<next, item, result>> /\ consumer' # "append" BY <1>3 DEF Pods, ConsumerEnd
  <2>2. consumer # "append" BY <1>3 DEF Pods, ConsumerEnd, Phase
  <2> QED BY <2>1, <2>2 DEF Ledger, Held, Delivered
<1>4. ASSUME NEW c \in Container, Spawn(c) \/ Open(c) \/ Stop(c) \/ Cut(c) \/ OpenFails(c) \/ Take(c)
      PROVE  Ledger'
  BY <1>1, <1>4 DEF Spawn, Open, Stop, Cut, OpenFails, Take
<1>5. ASSUME NEW c \in Container, Skip(c)
      PROVE  Ledger'
  <2>1. UNCHANGED <<consumer, item, result>> /\ Line(c) = "before" BY <1>5 DEF Skip
  <2>2. next[c] \in Nat /\ Log[c][next[c]] = "before" BY <2>1, LineFacts DEF LogsTypeOK
  <2>3. next'[c] = next[c] + 1 /\ \A d \in Container : d # c => next'[d] = next[d]
    BY <1>5 DEF Skip, LogsTypeOK
  <2>4. ASSUME NEW d \in Container, NEW i \in WantedLines[d]
        PROVE  i < next'[d] <=> i < next[d]
    <3>1. i \in Nat BY WantedFacts
    <3>2. d = c => i # next[c] BY <2>2, WantedFacts
    <3> QED BY <2>2, <2>3, <3>1, <3>2
  <2> QED BY <2>1, <2>4 DEF Ledger, Held, Delivered
<1>6. ASSUME NEW c \in Container, Send(c)
      PROVE  Ledger'
  <2>1. /\ consumer = "receive" /\ consumer' = "append" /\ item' = <<c, next[c]>> /\ UNCHANGED result
        /\ Line(c) = "within"
    BY <1>6 DEF Send, Streams
  <2>2. next[c] \in First(c) .. Len(Log[c]) /\ Log[c][next[c]] = "within" /\ next[c] \in Nat
    BY <2>1, LineFacts DEF LogsTypeOK
  <2>3. next'[c] = next[c] + 1 /\ \A d \in Container : d # c => next'[d] = next[d]
    BY <1>6 DEF Send, LogsTypeOK
  <2>4. next[c] \in WantedLines[c]
    <3>1. ASSUME NEW j \in First(c) .. next[c]
          PROVE  Log[c][j] # "after"
      <4>1. j = next[c] \/ j \in First(c) .. next[c] - 1 BY <2>2, FirstType
      <4> QED BY <2>2, <4>1 DEF Streams
    <3> QED BY <2>2, <3>1, WantedFacts
  <2>5. ASSUME NEW d \in Container, NEW i \in WantedLines[d]
        PROVE  /\ i < next'[d] <=> Held(d, i)' \/ Delivered(d, i)'
               /\ ~(Held(d, i)' /\ Delivered(d, i)')
    <3>1. i \in Nat BY WantedFacts
    <3>2. Delivered(d, i)' <=> Delivered(d, i) BY <2>1 DEF Delivered
    <3>3. i < next[d] <=> Delivered(d, i) BY <2>1 DEF Ledger, Held
    <3>4. Held(d, i)' <=> d = c /\ i = next[c] BY <2>1 DEF Held
    <3>5. i < next'[d] <=> i < next[d] \/ (d = c /\ i = next[c]) BY <2>2, <2>3, <3>1
    <3>6. ~(d = c /\ i = next[c] /\ i < next[d]) BY <2>2
    <3> QED BY <3>2, <3>3, <3>4, <3>5, <3>6
  <2> QED BY <2>1, <2>4, <2>5 DEF Ledger
<1>7. CASE AppendLine
  <2>1. consumer = "append" /\ consumer' # "append" /\ UNCHANGED next BY <1>7 DEF AppendLine
  <2>2. ASSUME NEW d \in Container, NEW i \in WantedLines[d]
        PROVE  /\ i < next'[d] <=> Held(d, i)' \/ Delivered(d, i)'
               /\ ~(Held(d, i)' /\ Delivered(d, i)')
    <3>1. Delivered(d, i)' <=> Delivered(d, i) \/ item = <<d, i>> BY <1>7, AppendDelivers
    <3>2. Held(d, i) <=> item = <<d, i>> BY <2>1 DEF Held
    <3>3. ~Held(d, i)' BY <2>1 DEF Held
    <3>4. i < next[d] <=> Held(d, i) \/ Delivered(d, i) BY DEF Ledger
    <3> QED BY <2>1, <3>1, <3>2, <3>3, <3>4
  <2> QED BY <2>1, <2>2 DEF Ledger
<1>8. CASE UNCHANGED logsVars BY <1>1, <1>8 DEF logsVars
<1> QED BY <1>2, <1>3, <1>4, <1>5, <1>6, <1>7, <1>8 DEF LogsNext, LogsStep, Main, Read, Consume

\* The number of readers that are sending after one begins or ends to send.
LEMMA SendingCount ==
  ASSUME NEW c \in Container, NEW S \in SUBSET Container
  PROVE  /\ IsFiniteSet(S) /\ Cardinality(S) \in Nat
         /\ c \notin S => Cardinality(S \cup {c}) = Cardinality(S) + 1
         /\ c \in S => Cardinality(S \ {c}) = Cardinality(S) - 1
<1>1. IsFiniteSet(S) BY ContainerAssumption, FS_Subset
<1> QED BY <1>1, FS_CardinalityType, FS_AddElement, FS_RemoveElement

\* Adding a reader below the limit.
LEMMA TakeArithmetic ==
  ASSUME NEW k \in Nat, NEW l \in Nat, l > 0
  PROVE  /\ ~(k + 1 > l) => k + 1 <= l /\ (IF k + 1 <= l THEN k + 1 ELSE l) = (IF k <= l THEN k ELSE l) + 1
         /\ k + 1 > l => (IF k + 1 <= l THEN k + 1 ELSE l) = (IF k <= l THEN k ELSE l)
OBVIOUS

\* The atomic counter and the lines that it has let through agree.
LEMMA CountedStep ==
  ASSUME LogsTypeOK, Phase, Counted, [LogsNext]_logsVars
  PROVE  Counted'
<1>1. ASSUME UNCHANGED <<count, result>>, Sending' = Sending, Holding' = Holding
      PROVE  Counted'
  BY <1>1 DEF Counted
<1>2. CASE Start \/ PodsFail \/ Malformed \/ Wait \/ Return \/ Cancel
  BY <1>1, <1>2 DEF Start, PodsFail, Malformed, Wait, Return, Cancel, Sending, Holding
<1>3. CASE Pods \/ ConsumerEnd
  <2>1. consumer # "append" /\ consumer' # "append" /\ UNCHANGED <<count, result, reader>>
    BY <1>3 DEF Pods, ConsumerEnd, Phase
  <2> QED BY <1>1, <2>1 DEF Sending, Holding
<1>4. ASSUME NEW c \in Container,
             Spawn(c) \/ Open(c) \/ Stop(c) \/ Cut(c) \/ OpenFails(c) \/ Skip(c)
      PROVE  Counted'
  <2>1. UNCHANGED <<count, result, consumer>> BY <1>4 DEF Spawn, Open, Stop, Cut, OpenFails, Skip
  <2>2. \A d \in Container : reader'[d] = "send" <=> reader[d] = "send"
    BY <1>4 DEF LogsTypeOK, Spawn, Open, Stop, Cut, OpenFails, Skip
  <2> QED BY <1>1, <2>1, <2>2 DEF Sending, Holding
<1>5. ASSUME NEW c \in Container, Take(c)
      PROVE  Counted'
  <2> SUFFICES ASSUME Limit > 0
               PROVE  Len(result') + Cardinality(Sending') + Holding'
                        = IF count' <= Limit THEN count' ELSE Limit
    BY DEF Counted
  <2>1. UNCHANGED <<result, consumer>> /\ count' = count + 1 /\ c \notin Sending
        /\ reader' = [reader EXCEPT ![c] = IF OverLimit THEN "done" ELSE "send"]
    BY <1>5 DEF Take, Sending
  <2>2. Holding' = Holding BY <2>1 DEF Holding
  <2>3. /\ Len(result) \in Nat /\ Cardinality(Sending) \in Nat /\ Holding \in Nat /\ count \in Nat
        /\ Limit \in Nat
    <3>1. Sending \in SUBSET Container BY DEF Sending
    <3>2. Cardinality(Sending) \in Nat BY <3>1, SendingCount
    <3>3. Holding \in Nat BY DEF Holding
    <3>4. Len(result) \in Nat /\ count \in Nat BY DEF LogsTypeOK
    <3> QED BY <3>2, <3>3, <3>4, LimitAssumption
  <2>4. Len(result) + Cardinality(Sending) + Holding = IF count <= Limit THEN count ELSE Limit
    BY DEF Counted
  <2>5. CASE OverLimit
    <3>1. Sending' = Sending BY <2>1, <2>5 DEF Sending, LogsTypeOK
    <3>2. count + 1 > Limit BY <2>5 DEF OverLimit
    <3>3. (IF count' <= Limit THEN count' ELSE Limit) = IF count <= Limit THEN count ELSE Limit
      BY <2>1, <2>3, <3>2, TakeArithmetic
    <3> QED BY <2>1, <2>2, <2>4, <3>1, <3>3
  <2>6. CASE ~OverLimit
    <3>1. Sending' = Sending \cup {c} BY <2>1, <2>6 DEF Sending, LogsTypeOK
    <3>2. Sending \in SUBSET Container BY DEF Sending
    <3>3. Cardinality(Sending') = Cardinality(Sending) + 1 BY <2>1, <3>1, <3>2, SendingCount
    <3>4. ~(count + 1 > Limit) BY <2>6 DEF OverLimit
    <3>5. (IF count' <= Limit THEN count' ELSE Limit) = (IF count <= Limit THEN count ELSE Limit) + 1
      BY <2>1, <2>3, <3>4, TakeArithmetic
    <3>6. Len(result) + (Cardinality(Sending) + 1) + Holding
            = (Len(result) + Cardinality(Sending) + Holding) + 1
      BY <2>3
    <3>7. Len(result') = Len(result) BY <2>1
    <3> QED BY <2>2, <2>4, <3>3, <3>5, <3>6, <3>7
  <2> QED BY <2>5, <2>6
<1>6. ASSUME NEW c \in Container, Send(c)
      PROVE  Counted'
  <2>1. UNCHANGED <<count, result>> /\ c \in Sending /\ Holding = 0 /\ Holding' = 1
    BY <1>6 DEF Send, Sending, Holding
  <2>2. Sending' = Sending \ {c} BY <1>6 DEF Send, Sending, LogsTypeOK
  <2>3. Sending \in SUBSET Container BY DEF Sending
  <2>4. Cardinality(Sending) \in Nat /\ Cardinality(Sending') = Cardinality(Sending) - 1
    BY <2>1, <2>2, <2>3, SendingCount
  <2>5. Len(result) \in Nat BY DEF LogsTypeOK
  <2>6. Len(result) + (Cardinality(Sending) - 1) + 1 = Len(result) + Cardinality(Sending) + 0
    BY <2>4, <2>5
  <2>7. Len(result') + Cardinality(Sending') + Holding' = Len(result) + Cardinality(Sending) + Holding
    BY <2>1, <2>4, <2>6
  <2> QED BY <2>1, <2>7 DEF Counted
<1>7. CASE AppendLine
  <2>1. UNCHANGED <<count, reader>> /\ Holding = 1 /\ Holding' = 0 BY <1>7 DEF AppendLine, Holding
  <2>2. Sending' = Sending BY <2>1 DEF Sending
  <2>3. result \in Seq(Lines) BY DEF LogsTypeOK
  <2>4. Len(result) \in Nat /\ Len(result') = Len(result) + 1 BY <1>7, <2>3 DEF AppendLine
  <2>5. Cardinality(Sending) \in Nat
    <3>1. Sending \in SUBSET Container BY DEF Sending
    <3>2. IsFiniteSet(Sending) BY <3>1, ContainerAssumption, FS_Subset
    <3> QED BY <3>2, FS_CardinalityType
  <2>6. (Len(result) + 1) + Cardinality(Sending) + 0 = Len(result) + Cardinality(Sending) + 1
    BY <2>4, <2>5
  <2>7. Len(result') + Cardinality(Sending') + Holding' = Len(result) + Cardinality(Sending) + Holding
    BY <2>1, <2>2, <2>4, <2>6
  <2> QED BY <2>1, <2>7 DEF Counted
<1>8. CASE UNCHANGED logsVars BY <1>1, <1>8 DEF logsVars, Sending, Holding
<1> QED BY <1>2, <1>3, <1>4, <1>5, <1>6, <1>7, <1>8 DEF LogsNext, LogsStep, Main, Read, Consume

\* A reader ends at the end of its lines, at the limit, or because something broke.
LEMMA EndedStep ==
  ASSUME LogsTypeOK, Ended, [LogsNext]_logsVars
  PROVE  Ended'
<1>1. Cancelled => Cancelled'
  BY DEF Cancelled, LogsNext, LogsStep, Main, Read, Consume, Start, Pods, PodsFail, Spawn, Malformed, Wait, Return,
         Open, OpenFails, Skip, Stop, Cut, Take, Send, AppendLine, ConsumerEnd, Cancel, logsVars
<1>2. broken \subseteq broken'
  BY DEF LogsNext, LogsStep, Main, Read, Consume, Start, Pods, PodsFail, Spawn, Malformed, Wait, Return,
         Open, OpenFails, Skip, Stop, Cut, Take, Send, AppendLine, ConsumerEnd, Cancel, logsVars
<1>3. count' >= count /\ count' \in Nat /\ count \in Nat
  <2>1. count \in Nat BY DEF LogsTypeOK
  <2>2. count' = count \/ count' = count + 1
    BY DEF LogsNext, LogsStep, Main, Read, Consume, Start, Pods, PodsFail, Spawn, Malformed, Wait, Return,
         Open, OpenFails, Skip, Stop, Cut, Take, Send, AppendLine, ConsumerEnd, Cancel, logsVars
  <2> QED BY <2>1, <2>2
<1>4. Limit > 0 /\ count > Limit => count' > Limit BY <1>3, LimitAssumption
<1>5. ASSUME NEW d \in Container, reader[d] = "done", next'[d] = next[d]
      PROVE  d \in broken' \/ Cancelled' \/ (Limit > 0 /\ count' > Limit) \/ Line(d)' \in {"end", "after"}
  <2>1. d \in broken \/ Cancelled \/ (Limit > 0 /\ count > Limit) \/ Line(d) \in {"end", "after"}
    BY <1>5 DEF Ended
  <2>2. Line(d)' = Line(d) BY <1>5 DEF Line
  <2> QED BY <1>1, <1>2, <1>4, <2>1, <2>2
<1>6. CASE UNCHANGED <<next, reader>> BY <1>5, <1>6 DEF Ended
<1>7. CASE Start \/ Pods \/ PodsFail \/ Malformed \/ Wait \/ Return \/ Cancel \/ AppendLine \/ ConsumerEnd
  BY <1>6, <1>7 DEF Start, Pods, PodsFail, Malformed, Wait, Return, Cancel, AppendLine, ConsumerEnd
<1>8. ASSUME NEW c \in Container, Read(c) \/ Spawn(c)
      PROVE  Ended'
  <2>1. \A d \in Container : d # c => reader'[d] = reader[d] /\ next'[d] = next[d]
    BY <1>8 DEF LogsTypeOK, Read, Spawn, Open, OpenFails, Skip, Stop, Cut, Take, Send
  <2>2. ASSUME reader'[c] = "done"
        PROVE  c \in broken' \/ Cancelled' \/ (Limit > 0 /\ count' > Limit) \/ Line(c)' \in {"end", "after"}
    <3>1. CASE OpenFails(c) \/ Cut(c)
      <4>1. CASE Cancelled BY <1>1, <4>1
      <4>2. CASE ~Cancelled BY <3>1, <4>2 DEF OpenFails, Cut
      <4> QED BY <4>1, <4>2
    <3>2. CASE Stop(c) BY <3>2 DEF Stop, Line
    <3>3. CASE Take(c)
      <4>1. OverLimit BY <2>2, <3>3 DEF Take, LogsTypeOK
      <4>2. count' = count + 1 BY <3>3, <4>1 DEF Take, OverLimit
      <4> QED BY <4>1, <4>2 DEF OverLimit
    <3>4. CASE Spawn(c) \/ Open(c) \/ Skip(c) \/ Send(c)
      BY <2>2, <3>4 DEF LogsTypeOK, Spawn, Open, Skip, Send
    <3> QED BY <1>8, <3>1, <3>2, <3>3, <3>4 DEF Read
  <2> QED BY <1>5, <2>1, <2>2 DEF Ended
<1>9. CASE UNCHANGED logsVars BY <1>6, <1>9 DEF logsVars
<1> QED BY <1>7, <1>8, <1>9 DEF LogsNext, LogsStep, Main, Consume

\* Before the call no goroutine of Get exists and nothing is counted.
LEMMA LogsInvInit == LogsInit => LogsInv
<1> SUFFICES ASSUME LogsInit PROVE LogsInv OBVIOUS
<1>1. LogsTypeOK
  <2>1. next \in [Container -> Nat] /\ \A c \in Container : next[c] \in First(c) .. Len(Log[c]) + 1
    BY FirstType DEF LogsInit
  <2>2. result \in Seq(Lines) BY DEF LogsInit
  <2>3. reader \in [Container -> {"none", "open", "scan", "send", "done"}] BY DEF LogsInit
  <2>4. item \in IF consumer = "append" THEN Lines ELSE {NoLine} BY DEF LogsInit
  <2>5. /\ main \in {"idle", "pods", "spawn", "drain", "returned"}
        /\ count \in Nat
        /\ consumer \in {"none", "receive", "append", "done"}
        /\ closed \in BOOLEAN /\ gone \in BOOLEAN
        /\ err \in {"none", "pods", "notfound", "failed"}
        /\ broken \subseteq Container
    BY DEF LogsInit
  <2> QED BY <2>1, <2>2, <2>3, <2>4, <2>5 DEF LogsTypeOK
<1>2. Phase BY DEF LogsInit, Phase
<1>3. Streams
  <2>1. \A c \in Container : First(c) .. next[c] - 1 = {} BY FirstType DEF LogsInit
  <2> QED BY <2>1 DEF LogsInit, Streams
<1>4. Ledger
  <2>1. ASSUME NEW c \in Container, NEW i \in WantedLines[c]
        PROVE  ~(i < next[c]) /\ ~Held(c, i) /\ ~Delivered(c, i)
    <3>1. i \in First(c) .. Len(Log[c]) BY WantedFacts
    <3>2. ~(i < next[c]) BY <3>1, FirstType DEF LogsInit
    <3>3. ~Delivered(c, i) BY DEF LogsInit, Delivered
    <3> QED BY <3>2, <3>3 DEF LogsInit, Held
  <2> QED BY <2>1 DEF LogsInit, Ledger
<1>5. Counted
  <2>1. Sending = {} BY DEF LogsInit, Sending
  <2>2. Cardinality(Sending) = 0 BY <2>1, FS_EmptySet
  <2>3. Len(result) = 0 /\ Holding = 0 /\ count = 0 BY DEF LogsInit, Holding
  <2> QED BY <2>2, <2>3, LimitAssumption DEF Counted
<1>6. Ended BY DEF LogsInit, Ended
<1> QED BY <1>1, <1>2, <1>3, <1>4, <1>5, <1>6 DEF LogsInv

\* Each step of Get, and the cancellation, preserves the invariant.
LEMMA LogsInvStep == LogsInv /\ [LogsNext]_logsVars => LogsInv'
BY LogsTypeStep, PhaseStep, StreamsStep, LedgerStep, CountedStep, EndedStep DEF LogsInv

--------------------------------------------------------------------------------
(* What the invariant says of the answer *)

\* No reader is left to send when the channel is closed.
LEMMA LogsInvNoSend == LogsInv => NoSendOnClosed
BY DEF LogsInv, Phase, NoSendOnClosed

\* The lines that count below the limit are as many as it allows, not more.
LEMMA LogsInvLimit == LogsInv => LimitKept
<1> SUFFICES ASSUME LogsInv, Limit > 0
             PROVE  Len(result) + Cardinality(Sending) + Holding <= Limit
  BY DEF LimitKept, Sending, Holding
<1>1. Len(result) + Cardinality(Sending) + Holding = IF count <= Limit THEN count ELSE Limit
  BY DEF LogsInv, Counted
<1>2. count \in Nat /\ Limit \in Nat BY LimitAssumption DEF LogsInv, LogsTypeOK
<1>3. (IF count <= Limit THEN count ELSE Limit) <= Limit BY <1>2
<1> QED BY <1>1, <1>3

\* An undisturbed answer is complete: whatever a reader passed has been delivered.
LEMMA LogsInvComplete == LogsInv => Complete
<1> SUFFICES ASSUME LogsInv, main = "returned", err = "none", ~gone, ~LimitReached,
                    NEW c \in Container \ broken, NEW i \in WantedLines[c]
             PROVE  Delivered(c, i)
  BY DEF Complete, Answered, Delivered
<1>1. closed /\ consumer = "done" /\ \A d \in Container : reader[d] = "done"
  BY DEF LogsInv, Phase
<1>2. ~(Limit > 0 /\ count > Limit)
  <2> SUFFICES ASSUME Limit > 0, count > Limit PROVE FALSE OBVIOUS
  <2>1. Sending = {} /\ Holding = 0 BY <1>1 DEF Sending, Holding
  <2>2. Cardinality(Sending) = 0 BY <2>1, FS_EmptySet
  <2>3. count \in Nat /\ Limit \in Nat /\ Len(result) \in Nat BY LimitAssumption DEF LogsInv, LogsTypeOK
  <2>4. (IF count <= Limit THEN count ELSE Limit) = Limit BY <2>3
  <2>5. Len(result) + Cardinality(Sending) + Holding = Limit BY <2>4 DEF LogsInv, Counted
  <2>6. Len(result) = Limit BY <2>1, <2>2, <2>3, <2>5
  <2> QED BY <2>6 DEF LimitReached
<1>3. Line(c) \in {"end", "after"} BY <1>1, <1>2 DEF LogsInv, Ended, Cancelled
<1>4. i < next[c]
  <2>1. next[c] \in First(c) .. Len(Log[c]) + 1 BY DEF LogsInv, LogsTypeOK
  <2>2. i \in First(c) .. Len(Log[c]) /\ \A j \in First(c) .. i : Log[c][j] # "after"
    BY WantedFacts
  <2>3. CASE Line(c) = "end"
    <3>1. next[c] > Len(Log[c])
      <4>1. CASE next[c] > Len(Log[c]) BY <4>1
      <4>2. CASE ~(next[c] > Len(Log[c]))
        <5>1. Log[c][next[c]] = "end" BY <2>3, <4>2 DEF Line
        <5>2. next[c] \in 1 .. Len(Log[c]) BY <2>1, <4>2, FirstType
        <5>3. Log[c][next[c]] \in {"before", "within", "after"} BY <5>2, LogAssumption
        <5> QED BY <5>1, <5>3
      <4> QED BY <4>1, <4>2
    <3> QED BY <2>1, <2>2, <3>1, FirstType
  <2>4. CASE Line(c) = "after"
    <3>1. Log[c][next[c]] = "after" BY <2>1, <2>4, LineFacts
    <3>2. next[c] \notin First(c) .. i BY <2>2, <3>1
    <3> QED BY <2>1, <2>2, <3>2, FirstType
  <2> QED BY <1>3, <2>3, <2>4
<1>5. ~Held(c, i) BY <1>1 DEF Held
<1> QED BY <1>4, <1>5 DEF LogsInv, Ledger

--------------------------------------------------------------------------------
(* The refinement of LogAnswer *)

\* Before the call there is no answer.
LEMMA AnswerInit == LogsInit => Answer!Init
BY DEF LogsInit, Answer!Init, Outcome

\* The consumer delivers the first wanted line that the container still owes.
LEMMA AppendLineDelivers ==
  ASSUME LogsInv, AppendLine
  PROVE  \E c \in Container : Answer!Deliver(c)
<1>0. PICK c \in Container : \E i \in WantedLines[c] : item = <<c, i>>
  BY DEF LogsInv, Ledger, AppendLine
<1>1. PICK i \in WantedLines[c] : item = <<c, i>> BY <1>0
<1>2. Held(c, i) BY <1>1 DEF Held, AppendLine
<1>3. i < next[c] /\ ~Delivered(c, i) BY <1>2 DEF LogsInv, Ledger
<1>4. i \in Answer!Undelivered(c) BY <1>3 DEF Answer!Undelivered, Delivered
<1>5. ASSUME NEW j \in Answer!Undelivered(c)
      PROVE  i <= j
  <2>1. j \in WantedLines[c] /\ ~Delivered(c, j) BY DEF Answer!Undelivered, Delivered
  <2>2. i \in Nat /\ j \in Nat /\ next[c] \in Nat BY <2>1, WantedFacts DEF LogsInv, LogsTypeOK
  <2>3. CASE j < next[c]
    <3>1. Held(c, j) BY <2>1, <2>3 DEF LogsInv, Ledger
    <3>2. <<c, i>> = <<c, j>> BY <1>1, <3>1 DEF Held
    <3>3. i = j BY <3>2
    <3> QED BY <2>2, <3>3
  <2>4. CASE ~(j < next[c]) BY <1>3, <2>2, <2>4
  <2> QED BY <2>3, <2>4
<1>6. Outcome # "returned" /\ Outcome' = Outcome BY DEF LogsInv, Phase, AppendLine, Outcome
<1>7. Limit > 0 => Len(result) < Limit
  <2> SUFFICES ASSUME Limit > 0 PROVE Len(result) < Limit OBVIOUS
  <2>1. Len(result) + Cardinality(Sending) + Holding <= Limit
    BY LogsInvLimit DEF LimitKept, Sending, Holding
  <2>2. Holding = 1 BY DEF AppendLine, Holding
  <2>3. Sending \in SUBSET Container BY DEF Sending
  <2>4. IsFiniteSet(Sending) BY <2>3, ContainerAssumption, FS_Subset
  <2>5. Cardinality(Sending) \in Nat BY <2>4, FS_CardinalityType
  <2>6. Len(result) \in Nat BY DEF LogsInv, LogsTypeOK
  <2> QED BY <2>1, <2>2, <2>5, <2>6, LimitAssumption
<1>8. result' = Append(result, <<c, i>>) BY <1>1 DEF AppendLine
<1>9. Answer!Deliver(c) BY <1>4, <1>5, <1>6, <1>7, <1>8 DEF Answer!Deliver
<1> QED BY <1>9

\* Every step of Get delivers a line, returns or gives up, or is not visible to
\* the caller.
LEMMA AnswerStep ==
  ASSUME LogsInv, [LogsNext]_logsVars
  PROVE  [Answer!Next]_<<result, Outcome>>
<1>1. CASE AppendLine BY <1>1, AppendLineDelivers DEF Answer!Next
<1>2. CASE PodsFail \/ Malformed \/ Return
  <2>1. Outcome = "running" /\ Outcome' \in {"returned", "abandoned"} /\ UNCHANGED result
    BY <1>2 DEF PodsFail, Malformed, Return, Outcome
  <2> QED BY <2>1 DEF Answer!Next, Answer!Return
<1>3. CASE Start \/ Pods \/ Wait \/ ConsumerEnd \/ Cancel
           \/ \E c \in Container : Spawn(c) \/ Read(c)
  <2>1. UNCHANGED result /\ Outcome' = Outcome
    BY <1>3 DEF Start, Pods, Wait, ConsumerEnd, Cancel, Spawn, Read, Open, OpenFails, Skip, Stop, Cut,
                Take, Send, Outcome
  <2> QED BY <2>1
<1>4. CASE UNCHANGED logsVars BY <1>4 DEF logsVars, Outcome
<1> QED BY <1>1, <1>2, <1>3, <1>4 DEF LogsNext, LogsStep, Main, Consume

--------------------------------------------------------------------------------
\* The invariant holds of every Get.
THEOREM LogsInvAlways == LogsSpec => []LogsInv
BY LogsInvInit, LogsInvStep, PTL DEF LogsSpec

\* Get of the direct log store implements the abstract answer: each container's
\* wanted lines in order and once each, up to the limit, none after the return of
\* a Get that could decode its pods.
THEOREM LogsImplementAnswer == LogsSpec => ImplementsAnswer
<1>1. LogsSpec => []LogsInv BY LogsInvAlways
<1>2. LogsInv /\ [LogsNext]_logsVars => [Answer!Next]_<<result, Outcome>> BY AnswerStep
<1> QED BY <1>1, <1>2, AnswerInit, PTL DEF LogsSpec, ImplementsAnswer, Answer!Spec

--------------------------------------------------------------------------------
(* Both together *)

\* A step of the search and the store is one of the interning workers, or none ...
LEMMA InternPart == [Next]_vars => [InternNext]_internVars
BY DEF Next, vars, Serve, Search, Call, Called, InternNext, Intern

\* ... and one of the log store, or none.
LEMMA LogsPart == [Next]_vars => [LogsNext]_logsVars
BY DEF Next, vars, Serve, Search, Call, Called, LogsNext

\* Both invariants hold together.
LEMMA Inv == Spec => [](InternInv /\ LogsInv)
<1>1. Init => InternInv /\ LogsInv BY InternInvInit, LogsInvInit DEF Init
<1>2. (InternInv /\ LogsInv) /\ [Next]_vars => (InternInv /\ LogsInv)'
  BY InternInvStep, LogsInvStep, InternPart, LogsPart
<1> QED BY <1>1, <1>2, PTL DEF Spec

--------------------------------------------------------------------------------
\* The search and the store keep the types of their variables.
THEOREM TypeCorrect == Spec => []TypeOK
<1>1. InternInv /\ LogsInv => TypeOK BY DEF InternInv, LogsInv, TypeOK
<1> QED BY <1>1, Inv, PTL

\* Domains.Query gives equal strings the same query object, and different
\* strings different ones, while stores answer.
THEOREM SameQueryAlways == Spec => []SameQuery
<1>1. InternInv => SameQuery BY DEF InternInv
<1> QED BY <1>1, Inv, PTL

\* A search executes each query string at most once, however many workers and
\* rules lead to it.
THEOREM RunOnceAlways == Spec => []RunOnce
BY InternInvRunOnce, Inv, PTL

\* The answer and the lines on their way to it are no more than the limit.
THEOREM LimitKeptAlways == Spec => []LimitKept
BY LogsInvLimit, Inv, PTL

\* No reader of the direct log store sends on the closed channel.
THEOREM NoSendOnClosedAlways == Spec => []NoSendOnClosed
BY LogsInvNoSend, Inv, PTL

\* A Get that was not disturbed returns all the wanted lines up to the limit.
THEOREM CompleteAlways == Spec => []Complete
BY LogsInvComplete, Inv, PTL

\* What the caller of Get sees is an abstract answer, while workers search.
THEOREM AnswerImplemented == Spec => ImplementsAnswer
<1>1. Init => Answer!Init BY AnswerInit DEF Init
<1>2. LogsInv /\ [Next]_vars => [Answer!Next]_<<result, Outcome>>
  BY AnswerStep, LogsPart
<1> QED BY <1>1, <1>2, Inv, PTL DEF Spec, ImplementsAnswer, Answer!Spec
================================================================================
