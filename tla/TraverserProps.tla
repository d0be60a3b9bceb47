--------------------------- MODULE TraverserProps ---------------------------
(***************************************************************************)
(* The correctness properties of the concurrent search (Traverser).        *)
(***************************************************************************)
EXTENDS Traverser

Waiting == {w \in Worker : pc[w] = "waiting"}

\* Workers inside handleQuery.
Busy == {w \in Worker : pc[w] \notin {"get", "waiting", "exited"}}

\* Threads between wg.Add(1) and the append in work.put.
Putting == {t \in Thread : pc[t] = "put"}

\* The sentinel of run is outstanding.
Sentinel == IF pc[Main] \in {"start", "wait", "close", "broadcast", "join", "done"}
            THEN 0 ELSE 1

Done == pc[Main] = "done"

-----------------------------------------------------------------------------
(* The work queue and the wait group.                                      *)

\* The counter of the WaitGroup is exactly the outstanding work: queryLines on
\* the queue or about to be, workers in handleQuery, and the sentinel.
\* (dedupAndSend, handleQuery and run add and release in different threads.)
WorkAccounted ==
  wg = Len(items) + Cardinality(Putting) + Cardinality(Busy) + Sentinel

\* When run closes the queue the search is really over: nothing is queued and
\* no worker is handling a query, so nothing is put on a closed queue.
QuietClose == closed => items = <<>> /\ Busy = {} /\ Putting = {}

\* No lost wakeup: while some worker waits, every queued item has a signal
\* under way or an awake worker of its own about to take it.  put signals
\* after it has released the lock, and get blocks without one.
NoLostWakeup ==
  Waiting # {} =>
    Len(items) <= Cardinality({t \in Thread : pc[t] = "signal"})
                  + Cardinality({w \in Worker : pc[w] = "get"})

-----------------------------------------------------------------------------
(* Exactly once.                                                           *)

\* Each object is claimed for rule application by one thread only ("the
\* processed counter ensures each object is rule-applied exactly once").
ClaimedOnce ==
  \A t \in Thread : \A p \in todo[t] :
    /\ p[1] \in result[NodeOf(t)] \ unprocessed[NodeOf(t)]
    /\ \A u \in Thread \ {t} : p \in todo[u] => NodeOf(u) # NodeOf(t)

-----------------------------------------------------------------------------
(* What the result graph reports.                                          *)

\* Every object of a node beyond the start objects is counted by exactly one
\* query, and lines to one class never count the same object, although
\* queries of several workers return it.
CountedOnce ==
  /\ \A c \in Class :
       result[c] \ StartObjects \subseteq UNION {added[q] : q \in Asked(c)}
  /\ \A p, q \in Query :
       p # q /\ QueryClass[p] = QueryClass[q] => added[p] \cap added[q] = {}
  /\ \A k, l \in Lines :
       k # l /\ k.goal = l.goal => lineAdded[k] \cap lineAdded[l] = {}

\* buildGraph: nodes with results, and lines with a positive total whose ends
\* are such nodes.
GraphNodes == {c \in Nodes : result[c] # {}}
GraphLines == {l \in Lines : lineAdded[l] # {} /\ l.start \in GraphNodes
                                               /\ l.goal \in GraphNodes}

\* The classes a search starts from: the start class, which is to be the class
\* of every start query (TraverseStart refuses others, the command line does not).
Starts == {StartClass} \cup {QueryClass[q] : q \in StartQueries}

\* The result graph is connected: every class in it is reached from where the
\* search starts over lines of the graph, whatever the interleaving that decided
\* which line is credited with an object; and no line that counts objects is
\* dropped.
ResultConnected ==
  Done =>
    /\ \A l \in Lines : lineAdded[l] # {} => l \in GraphLines
    /\ \A X \in SUBSET GraphNodes :
         /\ Starts \cap GraphNodes \subseteq X
         /\ \A l \in GraphLines : l.start \in X => l.goal \in X
         => X = GraphNodes

\* When run returns, the status counts of a query cover exactly the objects
\* that the query added, also when the search was cancelled meanwhile.
StatusComplete ==
  Done => \A q \in Query : statused[q] = added[q] \cap HasStatus

\* The counts that a client is shown, of objects and of statuses, are exact.
CountsExact == CountedOnce /\ StatusComplete

-----------------------------------------------------------------------------
(* Limits.                                                                 *)

EffectiveLimit == IF QueryLimit = -1 THEN DefaultLimit ELSE QueryLimit

\* The query limit is checked before a query runs and the query is recorded
\* after, so a class can exceed it, but by no more than one query per worker.
LimitOvershoot ==
  EffectiveLimit > 0 =>
    \A c \in Class : Cardinality(Asked(c)) <= EffectiveLimit + Cardinality(Worker)

\* The start objects are expanded at depth 1 whichever thread claims them.
StartObjectsAtDepthOne ==
  \A t \in Thread : \A p \in todo[t] :
    NodeOf(t) = StartClass /\ p[1] \in StartObjects => DepthOf(t) = 1

-----------------------------------------------------------------------------
(* Completeness and termination.                                           *)

\* A search with no bound of its own owes every query its objects yield.
Bounded ==
  \/ canceled
  \/ MaxDepth >= 0
  \/ QueryLimit # 0
  \/ \E q \in StartQueries : QueryClass[q] \notin Nodes

S == INSTANCE Search WITH
       found    <- [result EXCEPT ![StartClass] = @ \cup StartObjects],
       cut      <- Bounded,
       finished <- Done

\* The concurrent search implements the abstract one: it asks each owed query
\* at most once and, unless cancelled or bounded, returns only with everything
\* that the rules lead to.
ImplementsSearch == S!Spec

\* Goals and Neighbors return: the workers drain the queue and exit, with and
\* without cancellation, also when the rules form a cycle.
Termination == <>Done

=============================================================================
