------------------------------ MODULE Traverser ------------------------------
(***************************************************************************)
(* The concurrent search of package traverse (traverse.go).                *)
(*                                                                         *)
(* A pool of workers takes queryLines from an unbounded work queue.  A     *)
(* worker runs the query, adds the new objects to the node of its class,   *)
(* claims the objects of that node no thread has claimed yet, applies the  *)
(* rules to them and queues the queries they yield.  The main thread       *)
(* primes the search, waits on a WaitGroup for all the work to be done,    *)
(* closes the queue and joins the workers.                                 *)
(*                                                                         *)
(* One action is one critical section, or one operation on shared state    *)
(* between two critical sections, so the steps of the threads interleave   *)
(* exactly where the code lets them.  The list and the counter "processed" *)
(* of a node are abstracted to the set of its objects and the subset that  *)
(* no thread has claimed; a count is abstracted to the set it counts.      *)
(***************************************************************************)
EXTENDS SearchScope, Sequences, FiniteSets

CONSTANTS
  Worker,        \* the worker goroutines
  Main,          \* the goroutine that calls run
  MaxDepth,      \* maximum depth of a query, -1 for unlimited
  QueryLimit,    \* Constraint.QueryLimit: 0 no limit or no constraint, -1 unset
  DefaultLimit,  \* the limit that Constraint.Default fills in when it is unset
  HasStatus,     \* the objects that get a status from some status rule
  None           \* no line, no job

ASSUME TraverserAssumption ==
  /\ Worker # {} /\ IsFiniteSet(Worker)
  /\ Main \notin Worker
  /\ MaxDepth \in Nat \cup {-1}
  /\ QueryLimit \in Nat \cup {-1}
  /\ DefaultLimit \in Nat \ {0}
  /\ HasStatus \subseteq Object
  /\ None \notin Lines

Thread == Worker \cup {Main}

QueryLine == [query : Query, line : Lines \cup {None}, depth : Nat]

VARIABLES
  pc,            \* [Thread -> label], where each thread is
  items,         \* work.items
  closed,        \* work.closed
  wg,            \* the counter of the WaitGroup
  seen,          \* the queries that have been claimed for the queue
  result,        \* [Class -> SUBSET Object], node.result
  unprocessed,   \* [Class -> SUBSET Object], node.result[node.processed:]
  asked,         \* keys of node.queries, of all nodes
  added,         \* [Query -> SUBSET Object], the objects node.queries counts
  lineAdded,     \* [Lines -> SUBSET Object], the objects lineQueries counts
  statused,      \* [Query -> SUBSET Object], the objects StatusCounts counts
  limit,         \* the shared constraint's QueryLimit
  canceled,      \* ctx.Err() != nil
  job,           \* [Thread -> queryLine], the one that handleQuery works on
  fresh,         \* [Thread -> SUBSET Object], objects its query has added
  todo,          \* [Thread -> SUBSET (Object \X Rule)], rules to apply yet
  sends,         \* [Thread -> SUBSET QueryLine], queryLines to dispatch yet
  post           \* [Thread -> queryLine], the one being put on the queue

shared == <<items, closed, wg, seen>>
nodes  == <<result, unprocessed, asked, added, lineAdded, statused>>
local  == <<job, fresh, todo, sends, post>>
vars   == <<pc, shared, nodes, limit, canceled, local>>

-----------------------------------------------------------------------------

NoPost == [query |-> None, line |-> None, depth |-> 0]

WorkerLabel == {"get", "waiting", "exited", "admit", "check", "query", "merge",
                "line", "status", "claim", "apply", "add", "put", "signal", "finish"}
MainLabel   == {"start", "append", "prime", "claim", "apply", "add", "put",
                "signal", "finish", "wait", "close", "broadcast", "join", "done"}

\* The variables have the shape the code gives them.
TypeOK ==
  /\ pc \in [Thread -> WorkerLabel \cup MainLabel]
  /\ \A w \in Worker : pc[w] \in WorkerLabel
  /\ pc[Main] \in MainLabel
  /\ items \in Seq(QueryLine)
  /\ closed \in BOOLEAN
  /\ wg \in Nat
  /\ seen \subseteq Query
  /\ result \in [Class -> SUBSET Object]
  /\ unprocessed \in [Class -> SUBSET Object]
  /\ asked \subseteq Query
  /\ added \in [Query -> SUBSET Object]
  /\ lineAdded \in [Lines -> SUBSET Object]
  /\ statused \in [Query -> SUBSET Object]
  /\ limit \in Nat \cup {-1}
  /\ canceled \in BOOLEAN
  /\ job \in [Thread -> QueryLine \cup {NoPost}]
  /\ fresh \in [Thread -> SUBSET Object]
  /\ todo \in [Thread -> SUBSET (Object \X Rule)]
  /\ sends \in [Thread -> SUBSET QueryLine]
  /\ post \in [Thread -> QueryLine \cup {NoPost}]

Init ==
  /\ pc = [t \in Thread |-> IF t = Main THEN "start" ELSE "get"]
  /\ items = <<>>
  /\ closed = FALSE
  /\ wg = 0
  /\ seen = {}
  /\ result = [c \in Class |-> {}]
  /\ unprocessed = [c \in Class |-> {}]
  /\ asked = {}
  /\ added = [q \in Query |-> {}]
  /\ lineAdded = [l \in Lines |-> {}]
  /\ statused = [q \in Query |-> {}]
  /\ limit = QueryLimit
  /\ canceled = FALSE
  /\ job = [t \in Thread |-> NoPost]
  /\ fresh = [t \in Thread |-> {}]
  /\ todo = [t \in Thread |-> {}]
  /\ sends = [t \in Thread |-> {}]
  /\ post = [t \in Thread |-> NoPost]

GoTo(t, label) == pc' = [pc EXCEPT ![t] = label]

-----------------------------------------------------------------------------
(* run: the main thread before and after the work.                         *)

\* wg.Add(1): the sentinel that keeps the counter above zero while priming.
AddSentinel ==
  /\ pc[Main] = "start"
  /\ wg' = wg + 1
  /\ GoTo(Main, "append")
  /\ UNCHANGED <<items, closed, seen, nodes, limit, canceled, local>>

\* Append the start objects; the start queries are dispatched next.
AppendStart ==
  /\ pc[Main] = "append"
  /\ result' = [result EXCEPT ![StartClass] = @ \cup StartObjects]
  /\ unprocessed' = [unprocessed EXCEPT
                       ![StartClass] = @ \cup (StartObjects \ result[StartClass])]
  /\ sends' = [sends EXCEPT ![Main] =
                 {[query |-> q, line |-> None, depth |-> 0] : q \in StartQueries}]
  /\ GoTo(Main, "prime")
  /\ UNCHANGED <<shared, asked, added, lineAdded, statused, limit, canceled,
                 job, fresh, todo, post>>

\* All start queries are dispatched: apply rules to the start node.
Primed ==
  /\ pc[Main] = "prime"
  /\ sends[Main] = {}
  /\ GoTo(Main, "claim")
  /\ UNCHANGED <<shared, nodes, limit, canceled, local>>

\* (mutant of WaitDone: close the queue without waiting)
WaitDoneAtOnce ==
  /\ pc[Main] = "wait"
  /\ GoTo(Main, "close")
  /\ UNCHANGED <<shared, nodes, limit, canceled, local>>

\* wg.Wait returns when the counter is zero.
WaitDone ==
  /\ pc[Main] = "wait"
  /\ wg = 0
  /\ GoTo(Main, "close")
  /\ UNCHANGED <<shared, nodes, limit, canceled, local>>

\* work.close sets the flag under the lock and then wakes every waiter.
Close ==
  /\ pc[Main] = "close"
  /\ closed' = TRUE
  /\ GoTo(Main, "broadcast")
  /\ UNCHANGED <<items, wg, seen, nodes, limit, canceled, local>>

Broadcast ==
  /\ pc[Main] = "broadcast"
  /\ pc' = [t \in Thread |-> IF t = Main THEN "join"
                             ELSE IF pc[t] = "waiting" THEN "get" ELSE pc[t]]
  /\ UNCHANGED <<shared, nodes, limit, canceled, local>>

\* workerWg.Wait returns when every worker has exited; run then returns.
Join ==
  /\ pc[Main] = "join"
  /\ \A w \in Worker : pc[w] = "exited"
  /\ GoTo(Main, "done")
  /\ UNCHANGED <<shared, nodes, limit, canceled, local>>

-----------------------------------------------------------------------------
(* work.get: the worker loop.                                              *)

\* Take the first item, or wait, or exit when the queue is closed and empty.
Take(w) ==
  /\ pc[w] = "get"
  /\ items # <<>>
  /\ job' = [job EXCEPT ![w] = Head(items)]
  /\ items' = Tail(items)
  /\ GoTo(w, "admit")
  /\ UNCHANGED <<closed, wg, seen, nodes, limit, canceled, fresh, todo, sends, post>>

Block(w) ==
  /\ pc[w] = "get"
  /\ items = <<>>
  /\ GoTo(w, IF closed THEN "exited" ELSE "waiting")
  /\ UNCHANGED <<shared, nodes, limit, canceled, local>>

-----------------------------------------------------------------------------
(* handleQuery.                                                            *)

\* The number of queries already run for class c.
Asked(c) == {q \in asked : QueryClass[q] = c}

OverLimitLate(c) == limit > 0 /\ Cardinality(Asked(c)) > limit + 1 \* (mutant)
OverLimit(c) == limit > 0 /\ Cardinality(Asked(c)) > limit

\* (mutant of Admit: an early return without wg.Done)
AdmitNoDone(w) ==
  /\ pc[w] = "admit"
  /\ GoTo(w, IF canceled \/ QueryClass[job[w].query] \notin Nodes THEN "get"
             ELSE IF limit > 0 THEN "check" ELSE "query")
  /\ UNCHANGED <<shared, nodes, limit, canceled, local>>

\* A query is dropped if the search is cancelled or its class has no node.  Then
\* GetQueryLimit reads the limit, without a lock; an unset limit reads as none,
\* and with no limit overLimit has nothing to check.
Admit(w) ==
  /\ pc[w] = "admit"
  /\ GoTo(w, IF canceled \/ QueryClass[job[w].query] \notin Nodes THEN "finish"
             ELSE IF limit > 0 THEN "check" ELSE "query")
  /\ UNCHANGED <<shared, nodes, limit, canceled, local>>

\* overLimit, under the lock of the node.
CheckLimit(w) ==
  /\ pc[w] = "check"
  /\ GoTo(w, IF OverLimit(QueryClass[job[w].query]) THEN "finish" ELSE "query")
  /\ UNCHANGED <<shared, nodes, limit, canceled, local>>

\* engine.Get first fills in the defaults of the shared constraint.
StartGet(w) ==
  /\ pc[w] = "query"
  /\ limit' = IF limit = -1 THEN DefaultLimit ELSE limit
  /\ GoTo(w, "merge")
  /\ UNCHANGED <<shared, nodes, canceled, local>>

\* Add reports whether an object is new to the node; only those are counted.
NewAll(c, objects) == objects \* (mutant: count the objects already there)
New(c, objects) == objects \ result[c]

\* The store has answered: add the new objects to the node and record the
\* query with the number it added, under the lock of the node.
Merge(w) ==
  LET q == job[w].query
      c == QueryClass[q] IN
  /\ pc[w] = "merge"
  /\ \E objects \in Answers[q] :
       LET new == New(c, objects) IN
       /\ result' = [result EXCEPT ![c] = @ \cup new]
       /\ unprocessed' = [unprocessed EXCEPT ![c] = @ \cup new]
       /\ added' = [added EXCEPT ![q] = new]
       /\ fresh' = [fresh EXCEPT ![w] = new]
  /\ asked' = asked \cup {q}
  /\ GoTo(w, IF job[w].line = None THEN "status" ELSE "line")
  /\ UNCHANGED <<shared, lineAdded, statused, limit, canceled, job, todo, sends, post>>

\* (mutant of RecordLine: the line is not credited)
RecordNoLine(w) ==
  /\ pc[w] = "line"
  /\ GoTo(w, "status")
  /\ UNCHANGED <<shared, nodes, limit, canceled, local>>

\* Record the query on the line that generated it, under lineMu.
RecordLine(w) ==
  /\ pc[w] = "line"
  /\ lineAdded' = [lineAdded EXCEPT ![job[w].line] = @ \cup fresh[w]]
  /\ GoTo(w, "status")
  /\ UNCHANGED <<shared, result, unprocessed, asked, added, statused, limit, canceled, local>>

\* Apply the status rules to the objects the query added and add the counts
\* to the query, under the lock of the node.
AddStatuses(w) ==
  LET q == job[w].query IN
  /\ pc[w] = "status"
  /\ statused' = [statused EXCEPT ![q] = @ \cup (fresh[w] \cap HasStatus)]
  /\ fresh' = [fresh EXCEPT ![w] = {}]
  /\ GoTo(w, "claim")
  /\ UNCHANGED <<shared, result, unprocessed, asked, added, lineAdded, limit, canceled,
                 job, todo, sends, post>>

\* wg.Done: handleQuery returns, or the main thread releases its sentinel.
Finish(t) ==
  /\ pc[t] = "finish"
  /\ wg' = wg - 1
  /\ job' = [job EXCEPT ![t] = NoPost]
  /\ GoTo(t, IF t = Main THEN "wait" ELSE "get")
  /\ UNCHANGED <<items, closed, seen, nodes, limit, canceled, fresh, todo, sends, post>>

-----------------------------------------------------------------------------
(* applyRules and dedupAndSend, run by the workers and by the main thread. *)

\* The node a thread applies rules to and the depth of the queries it sends.
NodeOf(t)  == IF t = Main THEN StartClass ELSE QueryClass[job[t].query]
DepthOfJob(t) == IF t = Main THEN 1 ELSE job[t].depth \* (mutant: no + 1)
DepthOf(t) == IF t = Main THEN 1 ELSE job[t].depth + 1

\* (mutant of Claim: processed is not advanced)
ClaimNoAdvance(t) ==
  /\ pc[t] = "claim"
  /\ todo' = [todo EXCEPT ![t] = unprocessed[NodeOf(t)] \X RulesOf(NodeOf(t))]
  /\ GoTo(t, "apply")
  /\ UNCHANGED <<shared, nodes, limit, canceled, job, fresh, sends, post>>

\* Claim all the objects of the node that no thread has claimed yet.
Claim(t) ==
  LET c == NodeOf(t) IN
  /\ pc[t] = "claim"
  /\ todo' = [todo EXCEPT ![t] = unprocessed[c] \X RulesOf(c)]
  /\ unprocessed' = [unprocessed EXCEPT ![c] = {}]
  /\ GoTo(t, "apply")
  /\ UNCHANGED <<shared, result, asked, added, lineAdded, statused, limit, canceled,
                 job, fresh, sends, post>>

\* Apply one rule to one claimed object.
ApplyRule(t) ==
  LET c == NodeOf(t) IN
  /\ pc[t] = "apply"
  /\ sends[t] = {}
  /\ ~canceled
  /\ \E p \in todo[t] :
       LET o == p[1]
           r == p[2] IN
       /\ todo' = [todo EXCEPT ![t] = @ \ {p}]
       /\ sends' = [sends EXCEPT ![t] =
            {[query |-> q, line |-> LineOf(c, r, q), depth |-> DepthOf(t)] :
               q \in Yield(c, r, o)}]
  /\ UNCHANGED <<pc, shared, nodes, limit, canceled, job, fresh, post>>

\* (mutant of Applied: returns after some rule as if it had been the last)
AppliedEarly(t) ==
  /\ pc[t] = "apply"
  /\ sends[t] = {}
  /\ todo' = [todo EXCEPT ![t] = {}]
  /\ GoTo(t, "finish")
  /\ UNCHANGED <<shared, nodes, limit, canceled, job, fresh, sends, post>>

\* Nothing is left to apply, or the search is cancelled.
Applied(t) ==
  /\ pc[t] = "apply"
  /\ sends[t] = {}
  /\ todo[t] = {} \/ canceled
  /\ todo' = [todo EXCEPT ![t] = {}]
  /\ GoTo(t, "finish")
  /\ UNCHANGED <<shared, nodes, limit, canceled, job, fresh, sends, post>>

\* A queryLine that is too deep, cancelled, or a duplicate is dropped.
TooDeep(ql) == MaxDepth >= 0 /\ ql.depth > MaxDepth
Dropped(ql) == TooDeep(ql) \/ canceled \/ ql.query \in seen

Dispatching(t, ql) == pc[t] \in {"prime", "apply"} /\ ql \in sends[t]

\* (mutant of Drop: the loop does not advance past a dropped queryLine)
DropStuck(t) ==
  \E ql \in sends[t] :
    /\ Dispatching(t, ql)
    /\ Dropped(ql)
    /\ UNCHANGED vars

Drop(t) ==
  \E ql \in sends[t] :
    /\ Dispatching(t, ql)
    /\ Dropped(ql)
    /\ sends' = [sends EXCEPT ![t] = @ \ {ql}]
    /\ UNCHANGED <<pc, shared, nodes, limit, canceled, job, fresh, todo, post>>

\* isDuplicate marks a new query as seen, under seenMu.
MarkSeen(t) ==
  \E ql \in sends[t] :
    /\ Dispatching(t, ql)
    /\ ~Dropped(ql)
    /\ seen' = seen \cup {ql.query}
    /\ sends' = [sends EXCEPT ![t] = @ \ {ql}]
    /\ post' = [post EXCEPT ![t] = ql]
    /\ GoTo(t, "add")
    /\ UNCHANGED <<items, closed, wg, nodes, limit, canceled, job, fresh, todo>>

\* wg.Add(1), then work.put appends under the lock, then signals.

AddWork(t) ==
  /\ pc[t] = "add"
  /\ wg' = wg + 1
  /\ GoTo(t, "put")
  /\ UNCHANGED <<items, closed, seen, nodes, limit, canceled, local>>

Put(t) ==
  /\ pc[t] = "put"
  /\ items' = Append(items, post[t])
  /\ GoTo(t, "signal")
  /\ UNCHANGED <<closed, wg, seen, nodes, limit, canceled, local>>

\* Start queries are dispatched from run, the others from applyRules.
Resume(t) == IF post[t].line = None THEN "prime" ELSE "apply"

\* (mutant of Signal: nobody is woken)
SignalNobody(t) ==
  /\ pc[t] = "signal"
  /\ post' = [post EXCEPT ![t] = NoPost]
  /\ GoTo(t, Resume(t))
  /\ UNCHANGED <<shared, nodes, limit, canceled, job, fresh, todo, sends>>

\* cond.Signal wakes one waiting worker, if there is one.
Signal(t) ==
  /\ pc[t] = "signal"
  /\ post' = [post EXCEPT ![t] = NoPost]
  /\ IF \E w \in Worker : pc[w] = "waiting"
       THEN \E w \in Worker :
              /\ pc[w] = "waiting"
              /\ pc' = [pc EXCEPT ![t] = Resume(t), ![w] = "get"]
       ELSE GoTo(t, Resume(t))
  /\ UNCHANGED <<shared, nodes, limit, canceled, job, fresh, todo, sends>>

-----------------------------------------------------------------------------

\* The request's context is cancelled or times out.
Cancel ==
  /\ ~canceled
  /\ canceled' = TRUE
  /\ UNCHANGED <<pc, shared, nodes, limit, local>>

\* After run has returned nothing happens any more.
Returned ==
  /\ pc[Main] = "done"
  /\ UNCHANGED vars

MainStep ==
  AddSentinel \/ AppendStart \/ Primed \/ WaitDone \/ Close \/ Broadcast \/ Join

WorkerStep(w) ==
  Take(w) \/ Block(w) \/ Admit(w) \/ CheckLimit(w) \/ StartGet(w) \/ Merge(w)
    \/ RecordLine(w) \/ AddStatuses(w)

ThreadStep(t) ==
  Claim(t) \/ ApplyRule(t) \/ Applied(t) \/ Drop(t) \/ MarkSeen(t) \/ AddWork(t)
    \/ Put(t) \/ Signal(t) \/ Finish(t)

Step(t) == ThreadStep(t) \/ (t \in Worker /\ WorkerStep(t)) \/ (t = Main /\ MainStep)

Next == (\E t \in Thread : Step(t)) \/ Cancel \/ Returned

Spec == Init /\ [][Next]_vars

\* Goroutines are scheduled fairly and every Get returns; cancelling is the
\* client's choice and carries no fairness.
FairSpec == Spec /\ \A t \in Thread : WF_vars(Step(t))

=============================================================================
