--------------------------- MODULE TraverserProofs --------------------------
(***************************************************************************)
(* Theorems about the concurrent search, for any rule graph, any number of *)
(* workers and any bounds: its variables keep their types, the WaitGroup   *)
(* accounts for the work, the queue is closed when nothing is left of it   *)
(* and wakes its workers, the query limit is exceeded by no more than the  *)
(* workers in flight, and an object is claimed by one thread.              *)
(*                                                                         *)
(* Then what a search returns: each query is asked once and for a reason,  *)
(* the counts are exact, and the result graph is connected.                *)
(*                                                                         *)
(* And that it implements the abstract search (Search): nothing that the   *)
(* search owes is lost on its way through the threads, so that run returns *)
(* with everything asked unless it was cut short; and the start objects    *)
(* are expanded at depth one.                                              *)
(***************************************************************************)
EXTENDS TraverserProps, FiniteSetTheorems, TLAPS

USE DEF GoTo

\* A thread that handles or posts a queryLine really has one.
JobOK ==
  /\ \A w \in Busy : job[w] \in QueryLine
  /\ \A w \in Worker : pc[w] = "line" => job[w].line \in Lines
  /\ \A t \in Thread : pc[t] \in {"add", "put", "signal"} => post[t] \in QueryLine
  /\ \A w \in Worker : \A ql \in sends[w] : ql.line \in Lines
  /\ \A w \in Worker : pc[w] \in {"add", "put", "signal"} => post[w].line \in Lines

\* TypeOK with the counter of the WaitGroup any integer.
Shape == 
  /\ pc \in [Thread -> WorkerLabel \cup MainLabel]
  /\ \A w \in Worker : pc[w] \in WorkerLabel
  /\ pc[Main] \in MainLabel
  /\ items \in Seq(QueryLine)
  /\ closed \in BOOLEAN
  /\ wg \in Int
  /\ seen \subseteq Query
  /\ result \in [Class -> SUBSET Object]
  /\ unprocessed \in [Class -> SUBSET Object]
  /\ asked \subseteq Query
  /\ added \in [Query -> SUBSET Object]
  /\ lineAdded \in [Lines -> SUBSET Object]
  /\ statused \in [Query -> SUBSET Object]
  /\ limit \in Nat \cup {-1}
  /\ canceled \in BOOLEAN
  /\ job \in [Thread -> QueryLine \cup {NoPost}]
  /\ fresh \in [Thread -> SUBSET Object]
  /\ todo \in [Thread -> SUBSET (Object \X Rule)]
  /\ sends \in [Thread -> SUBSET QueryLine]
  /\ post \in [Thread -> QueryLine \cup {NoPost}]

\* The initial state has the shape, and no thread has a job in it.
LEMMA ShapeInit == Init => Shape /\ JobOK
<1> USE ScopeAssumption, TraverserAssumption
<1> SUFFICES ASSUME Init PROVE Shape /\ JobOK
  OBVIOUS
<1>1. \A w \in Worker : w \in Thread /\ w # Main
  BY DEF Thread
<1>2. pc \in [Thread -> {"start", "get"}] /\ pc[Main] = "start"
      /\ \A w \in Worker : pc[w] = "get"
  BY <1>1 DEF Init, Thread
<1>3. JobOK
  <2>1. \A w \in Worker : sends[w] = {} BY <1>1 DEF Init
  <2>2. \A t \in Thread : pc[t] \in {"start", "get"} BY <1>2
  <2>3. QED BY <1>1, <1>2, <2>1, <2>2 DEF JobOK, Busy
<1>4. Shape
  <2>1. items \in Seq(QueryLine) /\ wg \in Int
    <3>1. items = <<>> /\ wg = 0 BY DEF Init
    <3>2. QED BY <3>1
  <2>2. seen \subseteq Query /\ asked \subseteq Query
    BY DEF Init
  <2>3. closed \in BOOLEAN /\ canceled \in BOOLEAN
    BY DEF Init
  <2>4. limit \in Nat \cup {-1}
    BY DEF Init
  <2>5. result \in [Class -> SUBSET Object] /\ unprocessed \in [Class -> SUBSET Object]
        /\ added \in [Query -> SUBSET Object] /\ lineAdded \in [Lines -> SUBSET Object]
        /\ statused \in [Query -> SUBSET Object]
    BY DEF Init
  <2>6. job \in [Thread -> QueryLine \cup {NoPost}] /\ post \in [Thread -> QueryLine \cup {NoPost}]
    BY DEF Init
  <2>7. fresh \in [Thread -> SUBSET Object] /\ todo \in [Thread -> SUBSET (Object \X Rule)]
        /\ sends \in [Thread -> SUBSET QueryLine]
    BY DEF Init
  <2>8. QED BY <1>2, <2>1, <2>2, <2>3, <2>4, <2>5, <2>6, <2>7 DEF Shape, WorkerLabel, MainLabel
<1>5. QED BY <1>3, <1>4

\* The node and the depth a thread applies rules with are well-typed.
LEMMA ApplyTyped ==
  ASSUME Shape, JobOK, NEW t \in Thread, pc[t] \in {"claim", "apply"}
  PROVE  NodeOf(t) \in Class /\ DepthOf(t) \in Nat
<1> USE ScopeAssumption, TraverserAssumption
<1>1. CASE t = Main
  BY <1>1 DEF NodeOf, DepthOf
<1>2. CASE t # Main
  <2>1. t \in Busy BY <1>2 DEF Thread, Busy
  <2>2. job[t] \in QueryLine BY <2>1 DEF JobOK
  <2>3. QED BY <1>2, <2>2 DEF NodeOf, DepthOf, QueryLine
<1>3. QED BY <1>1, <1>2

LEMMA ShapeStep ==
  ASSUME Shape, JobOK, [Next]_vars
  PROVE  Shape' /\ JobOK'
<1> USE ScopeAssumption, TraverserAssumption
<1> USE DEF Shape, JobOK, Busy, Thread, vars, shared, nodes, local
<1>1. CASE AddSentinel
  BY <1>1 DEF AddSentinel, WorkerLabel, MainLabel
<1>2. CASE AppendStart
  <2>1. {[query |-> q, line |-> None, depth |-> 0] : q \in StartQueries} \in SUBSET QueryLine
    BY DEF QueryLine
  <2>2. QED BY <1>2, <2>1 DEF AppendStart, WorkerLabel, MainLabel
<1>3. CASE Primed
  BY <1>3 DEF Primed, WorkerLabel, MainLabel
<1>4. CASE WaitDone
  BY <1>4 DEF WaitDone, WorkerLabel, MainLabel
<1>5. CASE Close
  BY <1>5 DEF Close, WorkerLabel, MainLabel
<1>6. CASE Broadcast
  BY <1>6 DEF Broadcast, WorkerLabel, MainLabel
<1>7. CASE Join
  BY <1>7 DEF Join, WorkerLabel, MainLabel
<1>8. ASSUME NEW w \in Worker, Take(w) PROVE Shape' /\ JobOK'
  <2>1. Head(items) \in QueryLine /\ Tail(items) \in Seq(QueryLine)
    BY <1>8 DEF Take
  <2>2. QED BY <1>8, <2>1 DEF Take, WorkerLabel, MainLabel
<1>9. ASSUME NEW w \in Worker, Block(w) PROVE Shape' /\ JobOK'
  BY <1>9 DEF Block, WorkerLabel, MainLabel
<1>10. ASSUME NEW w \in Worker, Admit(w) PROVE Shape' /\ JobOK'
  BY <1>10 DEF Admit, WorkerLabel, MainLabel
<1>10b. ASSUME NEW w \in Worker, CheckLimit(w) PROVE Shape' /\ JobOK'
  BY <1>10b DEF CheckLimit, WorkerLabel, MainLabel
<1>11. ASSUME NEW w \in Worker, StartGet(w) PROVE Shape' /\ JobOK'
  BY <1>11 DEF StartGet, WorkerLabel, MainLabel
<1>12. ASSUME NEW w \in Worker, Merge(w) PROVE Shape' /\ JobOK'
  <2>1. job[w] \in QueryLine BY <1>12 DEF Merge
  <2>2. job[w].query \in Query /\ job[w].line \in Lines \cup {None}
    BY <2>1 DEF QueryLine
  <2>3. PICK objects \in Answers[job[w].query] :
          LET new == New(QueryClass[job[w].query], objects) IN
          /\ result' = [result EXCEPT ![QueryClass[job[w].query]] = @ \cup new]
          /\ unprocessed' = [unprocessed EXCEPT ![QueryClass[job[w].query]] = @ \cup new]
          /\ added' = [added EXCEPT ![job[w].query] = new]
          /\ fresh' = [fresh EXCEPT ![w] = new]
    BY <1>12 DEF Merge
  <2>4. objects \in SUBSET Object BY <2>2
  <2>5. New(QueryClass[job[w].query], objects) \in SUBSET Object BY <2>4 DEF New
  <2>6. result' \in [Class -> SUBSET Object] /\ unprocessed' \in [Class -> SUBSET Object]
        /\ added' \in [Query -> SUBSET Object] /\ fresh' \in [Thread -> SUBSET Object]
    BY <2>3, <2>5
  <2>7. QED BY <1>12, <2>2, <2>6 DEF Merge, WorkerLabel, MainLabel
<1>13. ASSUME NEW w \in Worker, RecordLine(w) PROVE Shape' /\ JobOK'
  BY <1>13 DEF RecordLine, WorkerLabel, MainLabel
<1>14. ASSUME NEW w \in Worker, AddStatuses(w) PROVE Shape' /\ JobOK'
  BY <1>14 DEF AddStatuses, WorkerLabel, MainLabel
<1>15. ASSUME NEW t \in Thread, Claim(t) PROVE Shape' /\ JobOK'
  <2>1. NodeOf(t) \in Class BY <1>15, ApplyTyped DEF Claim
  <2>2. RulesOf(NodeOf(t)) \subseteq Rule BY DEF RulesOf, Line
  <2>3. unprocessed[NodeOf(t)] \X RulesOf(NodeOf(t)) \in SUBSET (Object \X Rule)
    BY <2>1, <2>2
  <2>4. todo' \in [Thread -> SUBSET (Object \X Rule)]
    BY <1>15, <2>3 DEF Claim
  <2>5. unprocessed' \in [Class -> SUBSET Object]
    BY <1>15, <2>1 DEF Claim
  <2>6. QED BY <1>15, <2>4, <2>5 DEF Claim, WorkerLabel, MainLabel
<1>16. ASSUME NEW t \in Thread, ApplyRule(t) PROVE Shape' /\ JobOK'
  <2>1. NodeOf(t) \in Class /\ DepthOf(t) \in Nat
    BY <1>16, ApplyTyped DEF ApplyRule
  <2>2. PICK p \in todo[t] :
          /\ todo' = [todo EXCEPT ![t] = @ \ {p}]
          /\ sends' = [sends EXCEPT ![t] =
               {[query |-> q, line |-> LineOf(NodeOf(t), p[2], q), depth |-> DepthOf(t)] :
                  q \in Yield(NodeOf(t), p[2], p[1])}]
    BY <1>16 DEF ApplyRule
  <2>3. p[1] \in Object /\ p[2] \in Rule
    <3>1. p \in Object \X Rule OBVIOUS
    <3>2. QED BY <3>1
  <2>4. \A q \in Yield(NodeOf(t), p[2], p[1]) :
          q \in Query /\ LineOf(NodeOf(t), p[2], q) \in Lines
    <3>1. Apply[p[2]][p[1]] \in SUBSET Query
      BY <2>3
    <3>2. QED BY <3>1 DEF Yield
  <2>5. {[query |-> q, line |-> LineOf(NodeOf(t), p[2], q), depth |-> DepthOf(t)] :
           q \in Yield(NodeOf(t), p[2], p[1])} \in SUBSET QueryLine
    BY <2>1, <2>4 DEF QueryLine
  <2>6. sends' \in [Thread -> SUBSET QueryLine] BY <2>2, <2>5
  <2>7. todo' \in [Thread -> SUBSET (Object \X Rule)] BY <2>2
  <2>8. Shape' BY <1>16, <2>6, <2>7 DEF ApplyRule
  <2>9. \A ql \in sends'[t] : ql.line \in Lines BY <2>2, <2>4
  <2>10. JobOK' BY <1>16, <2>2, <2>9 DEF ApplyRule
  <2>11. QED BY <2>8, <2>10
<1>17. ASSUME NEW t \in Thread, Applied(t) PROVE Shape' /\ JobOK'
  BY <1>17 DEF Applied, WorkerLabel, MainLabel
<1>18. ASSUME NEW t \in Thread, Drop(t) PROVE Shape' /\ JobOK'
  BY <1>18 DEF Drop, WorkerLabel, MainLabel
<1>19. ASSUME NEW t \in Thread, MarkSeen(t) PROVE Shape' /\ JobOK'
  <2>1. PICK ql \in sends[t] :
          /\ pc[t] \in {"prime", "apply"}
          /\ seen' = seen \cup {ql.query}
          /\ sends' = [sends EXCEPT ![t] = @ \ {ql}]
          /\ post' = [post EXCEPT ![t] = ql]
          /\ GoTo(t, "add")
          /\ UNCHANGED <<items, closed, wg, nodes, limit, canceled, job, fresh, todo>>
    BY <1>19 DEF MarkSeen, Dispatching
  <2>2. ql \in QueryLine /\ ql.query \in Query BY DEF QueryLine
  <2>3. seen' \subseteq Query BY <2>1, <2>2
  <2>4. sends' \in [Thread -> SUBSET QueryLine] /\ post' \in [Thread -> QueryLine \cup {NoPost}]
    BY <2>1, <2>2
  <2>5. t \in Worker => pc[t] = "apply" /\ ql.line \in Lines
    BY <2>1 DEF WorkerLabel
  <2>6. Shape' BY <2>1, <2>3, <2>4 DEF WorkerLabel, MainLabel
  <2>7. JobOK' BY <2>1, <2>2, <2>5
  <2>8. QED BY <2>6, <2>7
<1>20. ASSUME NEW t \in Thread, AddWork(t) PROVE Shape' /\ JobOK'
  BY <1>20 DEF AddWork, WorkerLabel, MainLabel
<1>21. ASSUME NEW t \in Thread, Put(t) PROVE Shape' /\ JobOK'
  BY <1>21 DEF Put, WorkerLabel, MainLabel
<1>22. ASSUME NEW t \in Thread, Signal(t) PROVE Shape' /\ JobOK'
  <2>1. post' \in [Thread -> QueryLine \cup {NoPost}]
    <3>1. post' = [post EXCEPT ![t] = NoPost] BY <1>22 DEF Signal
    <3>2. QED BY <3>1
  <2>2. Resume(t) \in {"prime", "apply"} /\ (t \in Worker => Resume(t) = "apply")
    <3>1. t \in Worker => post[t].line \in Lines BY <1>22 DEF Signal
    <3>2. QED BY <3>1 DEF Resume
  <2>3. CASE \E w \in Worker : pc[w] = "waiting"
    <3>1. PICK w \in Worker : pc[w] = "waiting"
                             /\ pc' = [pc EXCEPT ![t] = Resume(t), ![w] = "get"]
      BY <1>22, <2>3 DEF Signal
    <3>2. w # t /\ w # Main BY <1>22, <3>1 DEF Signal
    <3>3. \A u \in Thread : pc'[u] = IF u = w THEN "get" ELSE IF u = t THEN Resume(t) ELSE pc[u]
      BY <3>1, <3>2
    <3>4. pc' \in [Thread -> WorkerLabel \cup MainLabel]
          /\ (\A u \in Worker : pc'[u] \in WorkerLabel) /\ pc'[Main] \in MainLabel
      BY <2>2, <3>1, <3>2, <3>3 DEF WorkerLabel, MainLabel
    <3>5. Shape' BY <1>22, <2>1, <3>4 DEF Signal
    <3>6. JobOK' BY <1>22, <2>2, <3>2, <3>3 DEF Signal
    <3>7. QED BY <3>5, <3>6
  <2>4. CASE ~ \E w \in Worker : pc[w] = "waiting"
    <3>1. GoTo(t, Resume(t)) BY <1>22, <2>4 DEF Signal
    <3>2. QED BY <1>22, <2>1, <2>2, <3>1 DEF Signal, WorkerLabel, MainLabel
  <2>5. QED BY <2>3, <2>4
<1>23. ASSUME NEW t \in Thread, Finish(t) PROVE Shape' /\ JobOK'
  BY <1>23 DEF Finish, WorkerLabel, MainLabel
<1>24. CASE Cancel
  BY <1>24 DEF Cancel
<1>25. CASE UNCHANGED vars
  BY <1>25
<1>26. QED
  BY <1>1, <1>2, <1>3, <1>4, <1>5, <1>6, <1>7, <1>8, <1>9, <1>10, <1>11, <1>12, <1>13,
     <1>14, <1>15, <1>16, <1>17, <1>18, <1>19, <1>20, <1>21, <1>22, <1>23, <1>24, <1>25, <1>10b
     DEF Next, Step, ThreadStep, WorkerStep, MainStep, Returned

\* In every reachable state the variables have the shape (but for the sign of
\* the counter), and threads that handle a queryLine have one.
THEOREM ShapeInvariant == Spec => [](Shape /\ JobOK)
<1>1. Shape /\ JobOK /\ [Next]_vars => Shape' /\ JobOK'
  BY ShapeStep
<1>2. QED BY ShapeInit, <1>1, PTL DEF Spec

-----------------------------------------------------------------------------
(* Counting the threads that are at some label.                            *)

\* Sets that differ in one element at most differ by it in cardinality.
LEMMA MoveCount ==
  ASSUME NEW F, NEW G, NEW t, IsFiniteSet(F), F \ {t} = G \ {t}
  PROVE  /\ Cardinality(F) \in Nat /\ Cardinality(G) \in Nat
         /\ t \in F /\ t \in G => Cardinality(G) = Cardinality(F)
         /\ t \notin F /\ t \notin G => Cardinality(G) = Cardinality(F)
         /\ t \notin F /\ t \in G => Cardinality(G) = Cardinality(F) + 1
         /\ t \in F /\ t \notin G => Cardinality(G) = Cardinality(F) - 1
<1>1. CASE t \in F <=> t \in G
  <2>1. F = G BY <1>1
  <2>2. QED BY <1>1, <2>1, FS_CardinalityType
<1>2. CASE t \notin F /\ t \in G
  <2>1. G = F \cup {t} BY <1>2
  <2>2. IsFiniteSet(G) /\ Cardinality(G) = Cardinality(F) + 1
    BY <1>2, <2>1, FS_AddElement
  <2>3. QED BY <1>2, <2>2, FS_CardinalityType
<1>3. CASE t \in F /\ t \notin G
  <2>1. G = F \ {t} BY <1>3
  <2>2. IsFiniteSet(G) /\ Cardinality(G) = Cardinality(F) - 1
    BY <1>3, <2>1, FS_RemoveElement
  <2>3. QED BY <1>3, <2>2, FS_CardinalityType
<1>4. QED BY <1>1, <1>2, <1>3

Idle == {"get", "waiting", "exited"}

LEMMA FiniteThreads == IsFiniteSet(Thread) /\ IsFiniteSet(Busy) /\ IsFiniteSet(Putting)
<1>1. IsFiniteSet(Worker) /\ IsFiniteSet(Thread)
  BY TraverserAssumption, FS_AddElement DEF Thread
<1>2. Busy \in SUBSET Worker /\ Putting \in SUBSET Thread
  BY DEF Busy, Putting
<1>3. QED BY <1>1, <1>2, FS_Subset

\* What a move of one thread does to the counts that WorkAccounted adds up.
LEMMA Moved ==
  ASSUME Shape, NEW t \in Thread, NEW l, GoTo(t, l)
  PROVE  /\ Cardinality(Busy) \in Nat /\ Cardinality(Putting) \in Nat
         /\ Cardinality(Putting') = Cardinality(Putting)
              + (IF l = "put" THEN 1 ELSE 0) - (IF pc[t] = "put" THEN 1 ELSE 0)
         /\ t \in Worker =>
              Cardinality(Busy') = Cardinality(Busy)
                + (IF l \in Idle THEN 0 ELSE 1) - (IF pc[t] \in Idle THEN 0 ELSE 1)
         /\ t \in Worker => Sentinel' = Sentinel
         /\ t = Main => Busy' = Busy
<1> USE TraverserAssumption
<1>1. pc'[t] = l /\ \A u \in Thread \ {t} : pc'[u] = pc[u]
  BY DEF Shape
<1>2. Cardinality(Busy) \in Nat /\ Cardinality(Putting) \in Nat
  BY FiniteThreads, FS_CardinalityType
<1>3. Cardinality(Putting') = Cardinality(Putting)
        + (IF l = "put" THEN 1 ELSE 0) - (IF pc[t] = "put" THEN 1 ELSE 0)
  <2>1. Putting \ {t} = Putting' \ {t}
    BY <1>1 DEF Putting
  <2>2. (t \in Putting <=> pc[t] = "put") /\ (t \in Putting' <=> l = "put")
    BY <1>1 DEF Putting
  <2>3. QED BY <1>2, <2>1, <2>2, FiniteThreads, MoveCount
<1>4. ASSUME t \in Worker
      PROVE  /\ Cardinality(Busy') = Cardinality(Busy)
                  + (IF l \in Idle THEN 0 ELSE 1) - (IF pc[t] \in Idle THEN 0 ELSE 1)
             /\ Sentinel' = Sentinel
  <2>1. Busy \ {t} = Busy' \ {t}
    BY <1>1 DEF Busy, Thread
  <2>2. (t \in Busy <=> pc[t] \notin Idle) /\ (t \in Busy' <=> l \notin Idle)
    BY <1>1, <1>4 DEF Busy, Idle
  <2>3. Cardinality(Busy') = Cardinality(Busy)
          + (IF l \in Idle THEN 0 ELSE 1) - (IF pc[t] \in Idle THEN 0 ELSE 1)
    BY <1>2, <2>1, <2>2, FiniteThreads, MoveCount
  <2>4. pc'[Main] = pc[Main] BY <1>1, <1>4 DEF Thread
  <2>5. QED BY <2>3, <2>4 DEF Sentinel
<1>5. ASSUME t = Main PROVE Busy' = Busy
  <2>1. \A w \in Worker : pc'[w] = pc[w] BY <1>1, <1>5 DEF Thread
  <2>2. QED BY <2>1 DEF Busy
<1>6. QED BY <1>2, <1>3, <1>4, <1>5

\* Every step keeps the counter of the WaitGroup equal to the outstanding work:
\* the thread that adds to the counter and the one that releases it differ.
LEMMA WorkStep ==
  ASSUME Shape, JobOK, WorkAccounted, [Next]_vars
  PROVE  WorkAccounted'
<1> USE TraverserAssumption
<1> DEFINE P == Cardinality(Putting)
           B == Cardinality(Busy)
<1>a. Len(items) \in Nat /\ wg \in Int BY DEF Shape
<1>b. P \in Nat /\ B \in Nat BY FiniteThreads, FS_CardinalityType
<1>c. ASSUME NEW t \in Thread, NEW l, GoTo(t, l)
      PROVE  /\ P' = P + (IF l = "put" THEN 1 ELSE 0) - (IF pc[t] = "put" THEN 1 ELSE 0)
             /\ t \in Worker => /\ B' = B + (IF l \in Idle THEN 0 ELSE 1)
                                         - (IF pc[t] \in Idle THEN 0 ELSE 1)
                               /\ Sentinel' = Sentinel
             /\ t = Main => B' = B
  BY <1>c, Moved
<1>d. ASSUME pc' = pc PROVE P' = P /\ B' = B /\ Sentinel' = Sentinel
  BY <1>d DEF Putting, Busy, Sentinel
<1>e. Main \in Thread /\ \A t \in Thread : t \in Worker \/ t = Main
  BY DEF Thread
<1>f. ASSUME NEW l, pc[Main] \in MainLabel, GoTo(Main, l)
      PROVE  Sentinel' = IF l \in {"start", "wait", "close", "broadcast", "join", "done"}
                         THEN 0 ELSE 1
  <2>1. pc'[Main] = l BY <1>e, <1>f DEF Shape
  <2>2. QED BY <2>1 DEF Sentinel
<1>g. wg = Len(items) + P + B + Sentinel BY DEF WorkAccounted
<1>h. SUFFICES wg' = Len(items') + P' + B' + Sentinel'
  BY DEF WorkAccounted
<1>i. pc[Main] \in MainLabel BY DEF Shape
<1>j. Sentinel = IF pc[Main] \in {"start", "wait", "close", "broadcast", "join", "done"}
                 THEN 0 ELSE 1
  BY DEF Sentinel
<1> HIDE DEF P, B, GoTo
<1>k. Sentinel \in {0, 1} BY <1>j
<1>l. ASSUME items' = items, wg' = wg, P' = P, B' = B, Sentinel' = Sentinel
      PROVE  wg' = Len(items') + P' + B' + Sentinel'
  BY <1>g, <1>l
<1>m. ASSUME NEW l, GoTo(Main, l), pc[Main] # "put", l # "put"
      PROVE  P' = P /\ B' = B
  <2>1. P' = P + 0 - 0 BY <1>c, <1>e, <1>m
  <2>2. B' = B BY <1>c, <1>e, <1>m
  <2>3. QED BY <1>b, <2>1, <2>2
<1>n. ASSUME NEW t \in Thread, NEW l, GoTo(t, l), pc[t] # "put", l # "put",
             l \notin Idle, pc[t] \notin Idle,
             t = Main => Sentinel' = Sentinel
      PROVE  P' = P /\ B' = B /\ Sentinel' = Sentinel
  <2>1. CASE t = Main BY <1>m, <1>n, <2>1
  <2>2. CASE t \in Worker
    <3>1. P' = P + 0 - 0 /\ B' = B + 1 - 1 /\ Sentinel' = Sentinel BY <1>c, <1>n, <2>2
    <3>2. QED BY <1>b, <3>1
  <2>3. QED BY <1>e, <2>1, <2>2
<1> USE DEF shared
<1>1. CASE AddSentinel
  <2>1. GoTo(Main, "append") /\ pc[Main] = "start" /\ wg' = wg + 1 /\ items' = items
    BY <1>1 DEF AddSentinel
  <2>2. Sentinel = 0 /\ Sentinel' = 1 BY <1>f, <1>i, <1>j, <2>1
  <2>3. P' = P /\ B' = B BY <1>m, <2>1
  <2>4. QED BY <1>a, <1>b, <1>g, <2>1, <2>2, <2>3
<1>2. CASE AppendStart \/ Primed \/ WaitDone \/ Close \/ Join
  <2>1. PICK l : /\ GoTo(Main, l)
                 /\ l # "put" /\ pc[Main] # "put"
                 /\ l \in {"start", "wait", "close", "broadcast", "join", "done"}
                      <=> pc[Main] \in {"start", "wait", "close", "broadcast", "join", "done"}
    BY <1>2 DEF AppendStart, Primed, WaitDone, Close, Join
  <2>2. items' = items /\ wg' = wg
    BY <1>2 DEF AppendStart, Primed, WaitDone, Close, Join
  <2>3. P' = P /\ B' = B BY <1>m, <2>1
  <2>4. Sentinel' = Sentinel BY <1>f, <1>i, <1>j, <2>1
  <2>5. QED BY <1>l, <2>2, <2>3, <2>4
<1>6. CASE Broadcast
  <2>1. Busy' = Busy
    <3>1. \A w \in Worker : pc'[w] = IF pc[w] = "waiting" THEN "get" ELSE pc[w]
      BY <1>6 DEF Broadcast, Thread
    <3>2. QED BY <3>1 DEF Busy
  <2>2. Putting' = Putting
    <3>1. \A t \in Thread : pc'[t] = "put" <=> pc[t] = "put"
      BY <1>6 DEF Broadcast
    <3>2. QED BY <3>1 DEF Putting
  <2>3. Sentinel' = Sentinel
    <3>1. pc[Main] = "broadcast" /\ pc'[Main] = "join" BY <1>6, <1>e DEF Broadcast
    <3>2. QED BY <3>1 DEF Sentinel
  <2>4. P' = P /\ B' = B BY <2>1, <2>2 DEF P, B
  <2>5. items' = items /\ wg' = wg BY <1>6 DEF Broadcast
  <2>6. QED BY <1>l, <2>3, <2>4, <2>5
<1>8. ASSUME NEW w \in Worker, Take(w) PROVE wg' = Len(items') + P' + B' + Sentinel'
  <2>1. items # <<>> /\ items' = Tail(items) /\ items \in Seq(QueryLine)
    BY <1>8 DEF Take, Shape
  <2>2. Len(items') = Len(items) - 1 BY <2>1
  <2>3. w \in Thread BY DEF Thread
  <2>4. P' = P /\ B' = B + 1 /\ Sentinel' = Sentinel
    <3>1. GoTo(w, "admit") /\ pc[w] = "get" BY <1>8 DEF Take
    <3>2. P' = P + 0 - 0 /\ B' = B + 1 - 0 /\ Sentinel' = Sentinel
      BY <1>c, <2>3, <3>1 DEF Idle
    <3>3. QED BY <1>b, <3>2
  <2>5. wg' = wg BY <1>8 DEF Take
  <2>6. QED BY <1>a, <1>b, <1>g, <1>k, <2>2, <2>4, <2>5
<1>9. ASSUME NEW w \in Worker, WorkerStep(w), ~Take(w)
      PROVE wg' = Len(items') + P' + B' + Sentinel'
  <2>1. w \in Thread BY DEF Thread
  <2>2. PICK l : /\ GoTo(w, l)
                 /\ l # "put" /\ pc[w] # "put"
                 /\ l \in Idle <=> pc[w] \in Idle
    <3>1. CASE Block(w)
      <4>1. GoTo(w, IF closed THEN "exited" ELSE "waiting") /\ pc[w] = "get"
        BY <3>1 DEF Block
      <4>2. QED BY <4>1 DEF Idle
    <3>2. CASE Admit(w)
      <4>1. GoTo(w, IF canceled \/ QueryClass[job[w].query] \notin Nodes THEN "finish"
                    ELSE IF limit > 0 THEN "check" ELSE "query")
            /\ pc[w] = "admit"
        BY <3>2 DEF Admit
      <4>2. QED BY <4>1 DEF Idle
    <3>2b. CASE CheckLimit(w)
      <4>1. GoTo(w, IF OverLimit(QueryClass[job[w].query]) THEN "finish" ELSE "query")
            /\ pc[w] = "check"
        BY <3>2b DEF CheckLimit
      <4>2. QED BY <4>1 DEF Idle
    <3>3. CASE StartGet(w)
      <4>1. GoTo(w, "merge") /\ pc[w] = "query" BY <3>3 DEF StartGet
      <4>2. QED BY <4>1 DEF Idle
    <3>4. CASE Merge(w)
      <4>1. GoTo(w, IF job[w].line = None THEN "status" ELSE "line") /\ pc[w] = "merge"
        BY <3>4 DEF Merge
      <4>2. QED BY <4>1 DEF Idle
    <3>5. CASE RecordLine(w)
      <4>1. GoTo(w, "status") /\ pc[w] = "line" BY <3>5 DEF RecordLine
      <4>2. QED BY <4>1 DEF Idle
    <3>6. CASE AddStatuses(w)
      <4>1. GoTo(w, "claim") /\ pc[w] = "status" BY <3>6 DEF AddStatuses
      <4>2. QED BY <4>1 DEF Idle
    <3>7. QED BY <1>9, <3>1, <3>2, <3>3, <3>4, <3>5, <3>6, <3>2b DEF WorkerStep
  <2>3. UNCHANGED <<items, wg>>
    BY <1>9 DEF WorkerStep, Block, Admit, CheckLimit, StartGet, Merge, RecordLine, AddStatuses
  <2>4. P' = P /\ B' = B /\ Sentinel' = Sentinel
    <3>1. CASE pc[w] \in Idle
      <4>1. P' = P + 0 - 0 /\ B' = B + 0 - 0 /\ Sentinel' = Sentinel
        BY <1>c, <2>1, <2>2, <3>1
      <4>2. QED BY <1>b, <4>1
    <3>2. CASE pc[w] \notin Idle
      <4>1. P' = P + 0 - 0 /\ B' = B + 1 - 1 /\ Sentinel' = Sentinel
        BY <1>c, <2>1, <2>2, <3>2
      <4>2. QED BY <1>b, <4>1
    <3>3. QED BY <3>1, <3>2
  <2>5. QED BY <1>l, <2>3, <2>4
<1>10. ASSUME NEW t \in Thread, Claim(t) \/ Applied(t) \/ MarkSeen(t)
       PROVE  wg' = Len(items') + P' + B' + Sentinel'
  <2>1. PICK l : GoTo(t, l) /\ l \in {"apply", "finish", "add"} /\ pc[t] \in {"claim", "apply", "prime"}
    BY <1>10 DEF Claim, Applied, MarkSeen, Dispatching
  <2>2. UNCHANGED <<items, wg>>
    BY <1>10 DEF Claim, Applied, MarkSeen
  <2>3. P' = P /\ B' = B /\ Sentinel' = Sentinel
    <3>1. t = Main => Sentinel' = Sentinel BY <1>f, <1>i, <1>j, <2>1
    <3>2. QED BY <1>n, <2>1, <3>1 DEF Idle
  <2>4. QED BY <1>l, <2>2, <2>3
<1>11. ASSUME NEW t \in Thread, ApplyRule(t) \/ Drop(t)
       PROVE  wg' = Len(items') + P' + B' + Sentinel'
  <2>1. pc' = pc /\ items' = items /\ wg' = wg BY <1>11 DEF ApplyRule, Drop
  <2>2. QED BY <1>d, <1>l, <2>1
<1>12. ASSUME NEW t \in Thread, AddWork(t)
       PROVE  wg' = Len(items') + P' + B' + Sentinel'
  <2>1. GoTo(t, "put") /\ pc[t] = "add" /\ wg' = wg + 1 /\ items' = items
    BY <1>12 DEF AddWork
  <2>2. P' = P + 1 - 0 /\ (t \in Worker => B' = B + 1 - 1 /\ Sentinel' = Sentinel) /\ (t = Main => B' = B)
    BY <1>c, <2>1 DEF Idle
  <2>3. t = Main => Sentinel' = Sentinel BY <1>f, <1>i, <1>j, <2>1
  <2>4. P' = P + 1 /\ B' = B /\ Sentinel' = Sentinel BY <1>b, <1>e, <2>2, <2>3
  <2>5. QED BY <1>a, <1>b, <1>g, <1>k, <2>1, <2>4
<1>13. ASSUME NEW t \in Thread, Put(t)
       PROVE  wg' = Len(items') + P' + B' + Sentinel'
  <2>1. P' = P - 1 /\ B' = B /\ Sentinel' = Sentinel
    <3>1. GoTo(t, "signal") /\ pc[t] = "put" BY <1>13 DEF Put
    <3>2. P' = P + 0 - 1 /\ (t \in Worker => B' = B + 1 - 1 /\ Sentinel' = Sentinel) /\ (t = Main => B' = B)
      BY <1>c, <3>1 DEF Idle
    <3>3. t = Main => Sentinel' = Sentinel BY <1>f, <1>i, <1>j, <3>1
    <3>4. QED BY <1>b, <1>e, <3>2, <3>3
  <2>2. items \in Seq(QueryLine) /\ post[t] \in QueryLine
    BY <1>13 DEF Put, Shape, JobOK
  <2>3. Len(items') = Len(items) + 1 BY <1>13, <2>2 DEF Put
  <2>4. wg' = wg BY <1>13 DEF Put
  <2>5. QED BY <1>a, <1>b, <1>g, <1>k, <2>1, <2>3, <2>4
<1>14. ASSUME NEW t \in Thread, Signal(t)
       PROVE  wg' = Len(items') + P' + B' + Sentinel'
  <2>1. Resume(t) \in {"prime", "apply"} BY DEF Resume
  <2>2. PICK W \in SUBSET Waiting :
          /\ t \notin W
          /\ pc' = [u \in Thread |-> IF u = t THEN Resume(t) ELSE IF u \in W THEN "get" ELSE pc[u]]
    <3>1. CASE \E w \in Worker : pc[w] = "waiting"
      <4>1. PICK w \in Worker : /\ pc[w] = "waiting"
                                /\ pc' = [pc EXCEPT ![t] = Resume(t), ![w] = "get"]
        BY <1>14, <3>1 DEF Signal
      <4>2. w # t /\ w \in Waiting BY <1>14, <4>1 DEF Signal, Waiting
      <4>3. pc' = [u \in Thread |-> IF u = t THEN Resume(t) ELSE IF u \in {w} THEN "get" ELSE pc[u]]
        <5>1. pc \in [Thread -> WorkerLabel \cup MainLabel] /\ w \in Thread BY DEF Shape, Thread
        <5>2. DOMAIN pc' = Thread BY <4>1, <5>1
        <5>3. \A u \in Thread : pc'[u] = IF u = t THEN Resume(t) ELSE IF u \in {w} THEN "get" ELSE pc[u]
          BY <4>1, <4>2, <5>1
        <5>4. pc' = [u \in Thread |-> pc'[u]] BY <4>1, <5>1, <5>2
        <5>5. QED BY <5>3, <5>4
      <4>4. QED BY <4>2, <4>3
    <3>2. CASE ~ \E w \in Worker : pc[w] = "waiting"
      <4>1. pc' = [u \in Thread |-> IF u = t THEN Resume(t) ELSE IF u \in {} THEN "get" ELSE pc[u]]
        <5>1. pc' = [pc EXCEPT ![t] = Resume(t)] BY <1>14, <3>2 DEF Signal, GoTo
        <5>2. pc \in [Thread -> WorkerLabel \cup MainLabel] BY DEF Shape
        <5>3. QED BY <5>1, <5>2
      <4>2. {} \in SUBSET Waiting /\ t \notin {} OBVIOUS
      <4>3. QED BY <4>1, <4>2
    <3>3. QED BY <3>1, <3>2
  <2>3. \A w \in W : w \in Worker /\ pc[w] = "waiting" BY DEF Waiting
  <2>4. Putting' = Putting
    BY <1>14, <2>1, <2>2, <2>3 DEF Putting, Signal
  <2>5. Busy' = Busy
    BY <1>14, <2>1, <2>2, <2>3 DEF Busy, Signal, Thread
  <2>6. Sentinel' = Sentinel
    <3>1. Main \notin W BY <2>3
    <3>2. pc'[Main] = IF t = Main THEN Resume(t) ELSE pc[Main] BY <2>2, <3>1, <1>e
    <3>3. QED BY <1>14, <2>1, <3>2 DEF Sentinel, Signal
  <2>7. P' = P /\ B' = B BY <2>4, <2>5 DEF P, B
  <2>8. items' = items /\ wg' = wg BY <1>14 DEF Signal
  <2>9. QED BY <1>l, <2>6, <2>7, <2>8
<1>15. ASSUME NEW t \in Thread, Finish(t)
       PROVE  wg' = Len(items') + P' + B' + Sentinel'
  <2>1. wg' = wg - 1 /\ items' = items /\ pc[t] = "finish"
    BY <1>15 DEF Finish
  <2>2. CASE t = Main
    <3>1. GoTo(Main, "wait") BY <1>15, <2>2 DEF Finish
    <3>2. Sentinel' = 0 /\ Sentinel = 1 BY <1>f, <1>i, <1>j, <2>1, <2>2, <3>1
    <3>3. P' = P /\ B' = B BY <1>m, <2>1, <2>2, <3>1
    <3>4. QED BY <1>a, <1>b, <1>g, <2>1, <3>2, <3>3
  <2>3. CASE t \in Worker
    <3>1. GoTo(t, "get") BY <1>15, <2>3 DEF Finish
    <3>2. P' = P + 0 - 0 /\ B' = B + 0 - 1 /\ Sentinel' = Sentinel
      BY <1>c, <2>1, <2>3, <3>1 DEF Idle
    <3>3. QED BY <1>a, <1>b, <1>g, <1>k, <2>1, <3>2
  <2>4. QED BY <2>2, <2>3, <1>e
<1>16. CASE Cancel
  <2>1. pc' = pc /\ items' = items /\ wg' = wg BY <1>16 DEF Cancel
  <2>2. QED BY <1>d, <1>l, <2>1
<1>17. CASE UNCHANGED vars
  <2>1. pc' = pc /\ items' = items /\ wg' = wg BY <1>17 DEF vars
  <2>2. QED BY <1>d, <1>l, <2>1
<1>18. QED
  BY <1>1, <1>2, <1>6, <1>8, <1>9, <1>10, <1>11, <1>12, <1>13,
     <1>14, <1>15, <1>16, <1>17
     DEF Next, Step, ThreadStep, MainStep, Returned

LEMMA WorkInit == Init => WorkAccounted
<1> SUFFICES ASSUME Init PROVE WorkAccounted
  OBVIOUS
<1>1. \A t \in Thread : pc[t] \in {"start", "get"}
  BY DEF Init
<1>2. pc[Main] = "start" /\ \A w \in Worker : pc[w] = "get"
  BY TraverserAssumption DEF Init, Thread
<1>3. Putting = {} /\ Busy = {}
  BY <1>1, <1>2 DEF Putting, Busy
<1>4. Sentinel = 0
  BY <1>2 DEF Sentinel
<1>5. Cardinality(Putting) = 0 /\ Cardinality(Busy) = 0
  BY <1>3, FS_EmptySet
<1>6. Len(items) = 0 /\ wg = 0
  BY DEF Init
<1>7. QED BY <1>4, <1>5, <1>6 DEF WorkAccounted

\* The counter of the WaitGroup never lies: it is the number of queryLines on
\* the queue or being put there, of workers in handleQuery and of run's sentinel.
THEOREM WorkAccountedAlways == Spec => []WorkAccounted
<1>1. Init => Shape /\ JobOK /\ WorkAccounted
  BY ShapeInit, WorkInit
<1>2. (Shape /\ JobOK /\ WorkAccounted) /\ [Next]_vars
        => (Shape /\ JobOK /\ WorkAccounted)'
  BY ShapeStep, WorkStep
<1>3. QED BY <1>1, <1>2, PTL DEF Spec

\* Every variable keeps its type; that the counter of the WaitGroup stays a
\* natural number, so that no Done panics, follows from the accounting.
THEOREM TypeCorrect == Spec => []TypeOK
<1>1. Shape /\ WorkAccounted => TypeOK
  <2> SUFFICES ASSUME Shape, WorkAccounted PROVE TypeOK
    OBVIOUS
  <2>1. Cardinality(Putting) \in Nat /\ Cardinality(Busy) \in Nat
    BY FiniteThreads, FS_CardinalityType
  <2>2. Sentinel \in {0, 1}
    BY DEF Sentinel
  <2>3. Len(items) \in Nat
    BY DEF Shape
  <2>4. wg \in Nat
    BY <2>1, <2>2, <2>3 DEF WorkAccounted
  <2>5. QED BY <2>4 DEF Shape, TypeOK
<1>2. QED BY <1>1, ShapeInvariant, WorkAccountedAlways, PTL

-----------------------------------------------------------------------------
(* Closing the queue.                                                      *)

\* Once wg.Wait has returned the counter stays at zero.
Quiet ==
  /\ pc[Main] \in {"close", "broadcast", "join", "done"} => wg = 0
  /\ closed => pc[Main] \in {"broadcast", "join", "done"}

LEMMA ZeroIsQuiet ==
  ASSUME Shape, WorkAccounted, wg = 0
  PROVE  items = <<>> /\ Busy = {} /\ Putting = {}
<1>1. Cardinality(Putting) \in Nat /\ Cardinality(Busy) \in Nat
  BY FiniteThreads, FS_CardinalityType
<1>2. Sentinel \in {0, 1}
  BY DEF Sentinel
<1>3. items \in Seq(QueryLine) /\ Len(items) \in Nat
  BY DEF Shape
<1>4. wg = Len(items) + Cardinality(Putting) + Cardinality(Busy) + Sentinel
  BY DEF WorkAccounted
<1>5. Len(items) = 0 /\ Cardinality(Putting) = 0 /\ Cardinality(Busy) = 0
  BY <1>1, <1>2, <1>3, <1>4
<1>6. items = <<>> BY <1>3, <1>5
<1>7. Busy = {} /\ Putting = {}
  BY <1>5, FiniteThreads, FS_EmptySet
<1>8. QED BY <1>6, <1>7

\* One action changes the cancelled flag, and one the closed flag.
LEMMA FlagsKept ==
  ASSUME [Next]_vars
  PROVE  /\ Cancel \/ canceled' = canceled
         /\ Close \/ closed' = closed
<1>1. ASSUME NEW t \in Thread, ThreadStep(t) PROVE canceled' = canceled /\ closed' = closed
  BY <1>1
     DEF ThreadStep, Claim, ApplyRule, Applied, Drop, MarkSeen, AddWork, Put, Signal, Finish, shared
<1>2. ASSUME NEW w \in Worker, WorkerStep(w) PROVE canceled' = canceled /\ closed' = closed
  <2>1. CASE Take(w) \/ Block(w) \/ Admit(w) \/ CheckLimit(w)
    BY <2>1 DEF Take, Block, Admit, CheckLimit, shared
  <2>2. CASE StartGet(w) \/ Merge(w) \/ RecordLine(w) \/ AddStatuses(w)
    BY <2>2 DEF StartGet, Merge, RecordLine, AddStatuses, shared
  <2>3. QED BY <1>2, <2>1, <2>2 DEF WorkerStep
<1>3. ASSUME MainStep PROVE canceled' = canceled /\ (Close \/ closed' = closed)
  BY <1>3 DEF MainStep, AddSentinel, AppendStart, Primed, WaitDone, Close, Broadcast, Join, shared
<1>4. CASE Cancel \/ Returned \/ UNCHANGED vars
  BY <1>4 DEF Cancel, Returned, vars, shared
<1>5. QED BY <1>1, <1>2, <1>3, <1>4 DEF Next, Step

LEMMA QuietStep ==
  ASSUME Shape, WorkAccounted, Quiet, [Next]_vars
  PROVE  Quiet'
<1> USE TraverserAssumption
<1> DEFINE Late == {"close", "broadcast", "join", "done"}
<1>1. CASE pc[Main] \in Late
  <2>1. items = <<>> /\ Busy = {} /\ Putting = {} /\ wg = 0
    BY <1>1, ZeroIsQuiet DEF Quiet
  <2>2. \A w \in Worker : pc[w] \in Idle
    BY <2>1 DEF Busy, Idle
  <2>3. ASSUME NEW t \in Thread PROVE ~ThreadStep(t)
    <3>1. pc[t] \in Idle \cup Late BY <1>1, <2>2 DEF Thread
    <3>2. QED BY <3>1 DEF Idle, ThreadStep, Claim, ApplyRule, Applied, Drop, MarkSeen,
                        Dispatching, AddWork, Put, Signal, Finish
  <2>4. ASSUME NEW w \in Worker, WorkerStep(w) PROVE Block(w)
    <3>1. pc[w] \in Idle BY <2>2
    <3>2. ~Take(w) BY <2>1 DEF Take
    <3>3. QED BY <2>4, <3>1, <3>2
            DEF Idle, WorkerStep, Admit, CheckLimit, StartGet, Merge, RecordLine, AddStatuses
  <2>5. \/ \E w \in Worker : Block(w)
        \/ Close \/ Broadcast \/ Join \/ Cancel \/ UNCHANGED vars
    <3>1. CASE UNCHANGED vars BY <3>1
    <3>2. CASE Cancel BY <3>2
    <3>3. CASE Returned BY <3>3 DEF Returned
    <3>4. CASE \E t \in Thread : Step(t)
      <4>1. \/ \E w \in Worker : WorkerStep(w)
            \/ MainStep
        BY <2>3, <3>4 DEF Step
      <4>2. ~AddSentinel /\ ~AppendStart /\ ~Primed /\ ~WaitDone
        BY <1>1 DEF AddSentinel, AppendStart, Primed, WaitDone
      <4>3. QED BY <2>4, <4>1, <4>2 DEF MainStep
    <3>5. QED BY <3>1, <3>2, <3>3, <3>4 DEF Next
  <2>6. CASE \E w \in Worker : Block(w)
    <3>1. PICK w \in Worker : Block(w) BY <2>6
    <3>2. wg' = wg /\ closed' = closed /\ pc'[Main] = pc[Main]
      BY <3>1 DEF Block, shared, Shape, Thread
    <3>3. QED BY <2>1, <3>2 DEF Quiet
  <2>7. CASE Close
    <3>1. wg' = wg /\ pc'[Main] = "broadcast" BY <2>7 DEF Close, Shape, Thread
    <3>2. QED BY <2>1, <3>1 DEF Quiet
  <2>8. CASE Broadcast
    <3>1. wg' = wg /\ pc'[Main] = "join" BY <2>8 DEF Broadcast, shared, Thread
    <3>2. QED BY <2>1, <3>1 DEF Quiet
  <2>9. CASE Join
    <3>1. wg' = wg /\ pc'[Main] = "done" BY <2>9 DEF Join, shared, Shape, Thread
    <3>2. QED BY <2>1, <3>1 DEF Quiet
  <2>10. CASE Cancel \/ UNCHANGED vars
    <3>1. wg' = wg /\ pc' = pc /\ closed' = closed BY <2>10 DEF Cancel, vars, shared
    <3>2. QED BY <3>1 DEF Quiet
  <2>11. QED BY <2>5, <2>6, <2>7, <2>8, <2>9, <2>10
<1>2. CASE pc[Main] \notin Late
  <2>1. closed = FALSE BY <1>2 DEF Quiet, Shape
  <2>2. pc'[Main] \in Late => WaitDone
    <3>1. CASE \E w \in Worker : WorkerStep(w)
      <4>1. PICK w \in Worker : WorkerStep(w) BY <3>1
      <4>2. pc'[Main] = pc[Main]
        BY <4>1 DEF WorkerStep, Take, Block, Admit, CheckLimit, StartGet, Merge, RecordLine, AddStatuses,
                    Shape, Thread
      <4>3. QED BY <1>2, <4>2
    <3>2. CASE \E t \in Thread : ThreadStep(t)
      <4>1. PICK t \in Thread : ThreadStep(t) BY <3>2
      <4>2. pc'[Main] \notin Late
        <5>1. CASE Claim(t) \/ Applied(t) \/ MarkSeen(t) \/ AddWork(t) \/ Put(t) \/ Finish(t)
          <6>1. PICK l \in {"apply", "finish", "add", "put", "signal", "wait", "get"} : GoTo(t, l)
            BY <5>1 DEF Claim, Applied, MarkSeen, AddWork, Put, Finish
          <6>2. pc'[Main] = pc[Main] \/ pc'[Main] = l BY <6>1 DEF Shape, Thread
          <6>3. QED BY <1>2, <6>1, <6>2
        <5>2. CASE ApplyRule(t) \/ Drop(t)
          BY <1>2, <5>2 DEF ApplyRule, Drop
        <5>3. CASE Signal(t)
          <6>1. Resume(t) \in {"prime", "apply"} BY DEF Resume
          <6>2. pc'[Main] \in {pc[Main], Resume(t), "get"}
            BY <5>3 DEF Signal, Shape, Thread
          <6>3. QED BY <1>2, <6>1, <6>2
        <5>4. QED BY <4>1, <5>1, <5>2, <5>3 DEF ThreadStep
      <4>3. QED BY <4>2
    <3>3. CASE MainStep
      <4>1. CASE AddSentinel \/ AppendStart \/ Primed
        <5>1. pc'[Main] \in {"append", "prime", "claim"}
          BY <4>1 DEF AddSentinel, AppendStart, Primed, Shape, Thread
        <5>2. QED BY <5>1
      <4>2. CASE WaitDone BY <4>2
      <4>3. CASE Close \/ Broadcast \/ Join
        BY <1>2, <4>3 DEF Close, Broadcast, Join
      <4>4. QED BY <3>3, <4>1, <4>2, <4>3 DEF MainStep
    <3>4. CASE Cancel \/ Returned \/ UNCHANGED vars
      <4>1. pc' = pc BY <3>4 DEF Cancel, Returned, vars
      <4>2. QED BY <1>2, <4>1
    <3>5. QED BY <3>1, <3>2, <3>3, <3>4 DEF Next, Step
  <2>3. closed' = FALSE
    <3>1. ~Close BY <1>2 DEF Close
    <3>2. QED BY <2>1, <3>1, FlagsKept
  <2>4. CASE WaitDone
    <3>1. wg' = 0 BY <2>4 DEF WaitDone, shared
    <3>2. QED BY <2>3, <3>1 DEF Quiet
  <2>5. CASE ~WaitDone
    BY <2>2, <2>3, <2>5 DEF Quiet
  <2>6. QED BY <2>4, <2>5
<1>3. QED BY <1>1, <1>2

LEMMA QuietInvariant == Spec => []Quiet
<1>1. Init => Quiet
  BY TraverserAssumption DEF Init, Quiet, Thread
<1>2. Shape /\ WorkAccounted /\ Quiet /\ [Next]_vars => Quiet'
  BY QuietStep
<1>3. QED BY <1>1, <1>2, ShapeInvariant, WorkAccountedAlways, PTL DEF Spec

\* When run closes the queue nothing is queued or being put, and no worker is in
\* handleQuery; so the workers that exit on a closed queue abandon no work.
THEOREM QuietCloseAlways == Spec => []QuietClose
<1>1. Shape /\ WorkAccounted /\ Quiet => QuietClose
  BY ZeroIsQuiet DEF Quiet, QuietClose
<1>2. QED BY <1>1, ShapeInvariant, WorkAccountedAlways, QuietInvariant, PTL

-----------------------------------------------------------------------------
(* The workers are woken.                                                  *)

HIDE DEF GoTo

Signaling == {t \in Thread : pc[t] = "signal"}
Getting   == {w \in Worker : pc[w] = "get"}

LEMMA WakeupTypes ==
  /\ IsFiniteSet(Signaling) /\ IsFiniteSet(Getting)
  /\ Cardinality(Signaling) \in Nat /\ Cardinality(Getting) \in Nat
<1>1. IsFiniteSet(Worker) /\ IsFiniteSet(Thread)
  BY TraverserAssumption, FiniteThreads
<1>2. Getting \in SUBSET Worker /\ Signaling \in SUBSET Thread
  BY DEF Getting, Signaling
<1>3. IsFiniteSet(Signaling) /\ IsFiniteSet(Getting)
  BY <1>1, <1>2, FS_Subset
<1>4. QED BY <1>3, FS_CardinalityType

\* A step keeps NoLostWakeup when it makes nobody wait and takes away no signal
\* and no awake worker.
LEMMA WakeupKept ==
  ASSUME Shape, NoLostWakeup, items' = items, Waiting' \subseteq Waiting,
         IsFiniteSet(Signaling'), IsFiniteSet(Getting'),
         Signaling \subseteq Signaling', Getting \subseteq Getting'
  PROVE  NoLostWakeup'
<1>1. /\ Cardinality(Signaling) <= Cardinality(Signaling')
      /\ Cardinality(Getting) <= Cardinality(Getting')
  <2>1. Signaling \in SUBSET Signaling' /\ Getting \in SUBSET Getting' OBVIOUS
  <2>2. QED BY <2>1, FS_Subset
<1>2. /\ Cardinality(Signaling) \in Nat /\ Cardinality(Getting) \in Nat
      /\ Cardinality(Signaling') \in Nat /\ Cardinality(Getting') \in Nat
  BY WakeupTypes, FS_CardinalityType
<1>3. Len(items) \in Nat BY DEF Shape
<1>4. Waiting # {} => Len(items) <= Cardinality(Signaling) + Cardinality(Getting)
  BY DEF NoLostWakeup, Signaling, Getting
<1>5. SUFFICES ASSUME Waiting' # {}
               PROVE  Len(items') <= Cardinality(Signaling') + Cardinality(Getting')
  BY DEF NoLostWakeup, Signaling, Getting
<1>6. QED BY <1>1, <1>2, <1>3, <1>4, <1>5

LEMMA WakeupFinite == IsFiniteSet(Signaling') /\ IsFiniteSet(Getting')
<1>1. IsFiniteSet(Worker) /\ IsFiniteSet(Thread)
  BY TraverserAssumption, FiniteThreads
<1>2. Getting' \in SUBSET Worker /\ Signaling' \in SUBSET Thread
  BY DEF Getting, Signaling
<1>3. QED BY <1>1, <1>2, FS_Subset

LEMMA WakeupStep ==
  ASSUME Shape, JobOK, NoLostWakeup, [Next]_vars
  PROVE  NoLostWakeup'
<1> USE TraverserAssumption
<1>a. Waiting # {} => Len(items) <= Cardinality(Signaling) + Cardinality(Getting)
  BY DEF NoLostWakeup, Signaling, Getting
<1>b. ASSUME Waiting' # {} => Len(items') <= Cardinality(Signaling') + Cardinality(Getting')
      PROVE  NoLostWakeup'
  BY <1>b DEF NoLostWakeup, Signaling, Getting
<1>c. \A w \in Worker : w \in Thread /\ w # Main
  BY DEF Thread
<1>d. ASSUME NEW t \in Thread, NEW l, GoTo(t, l)
      PROVE  pc'[t] = l /\ \A u \in Thread \ {t} : pc'[u] = pc[u]
  BY <1>d DEF Shape, GoTo
<1>e. ASSUME NEW t \in Thread, NEW l, GoTo(t, l), pc[t] \notin {"signal", "get"},
             l # "waiting", items' = items
      PROVE  NoLostWakeup'
  <2>1. pc'[t] = l /\ \A u \in Thread \ {t} : pc'[u] = pc[u] BY <1>d, <1>e
  <2>2. Waiting' \subseteq Waiting BY <1>c, <1>e, <2>1 DEF Waiting
  <2>3. Signaling \subseteq Signaling' /\ Getting \subseteq Getting'
    BY <1>c, <1>e, <2>1 DEF Signaling, Getting
  <2>4. QED BY <1>e, <2>2, <2>3, WakeupFinite, WakeupKept
<1>f. ASSUME pc' = pc, items' = items PROVE NoLostWakeup'
  BY <1>f DEF NoLostWakeup, Waiting
<1> USE DEF shared
<1>1. CASE AddSentinel \/ AppendStart \/ Primed \/ WaitDone \/ Close \/ Join
  <2>1. PICK l : GoTo(Main, l) /\ pc[Main] \notin {"signal", "get"} /\ l # "waiting"
    BY <1>1 DEF AddSentinel, AppendStart, Primed, WaitDone, Close, Join
  <2>2. items' = items
    BY <1>1 DEF AddSentinel, AppendStart, Primed, WaitDone, Close, Join
  <2>3. QED BY <1>e, <2>1, <2>2 DEF Thread
<1>2. CASE Broadcast
  <2>1. \A w \in Worker : pc'[w] # "waiting" BY <1>2, <1>c DEF Broadcast
  <2>2. Waiting' = {} BY <2>1 DEF Waiting
  <2>3. QED BY <1>b, <2>2
<1>3. ASSUME NEW w \in Worker, Take(w) PROVE NoLostWakeup'
  <2>1. GoTo(w, "admit") /\ pc[w] = "get" /\ items # <<>> /\ items' = Tail(items)
    BY <1>3 DEF Take
  <2>2. pc'[w] = "admit" /\ \A u \in Thread \ {w} : pc'[u] = pc[u] BY <1>c, <1>d, <2>1
  <2>3. Waiting' = Waiting BY <1>c, <2>1, <2>2 DEF Waiting
  <2>4. Signaling' = Signaling BY <2>1, <2>2 DEF Signaling
  <2>5. Getting' = Getting \ {w} /\ w \in Getting BY <1>c, <2>1, <2>2 DEF Getting
  <2>6. Cardinality(Getting') = Cardinality(Getting) - 1
    BY <2>5, WakeupTypes, FS_RemoveElement
  <2>7. items \in Seq(QueryLine) BY DEF Shape
  <2>8. Len(items') = Len(items) - 1 /\ Len(items) \in Nat BY <2>1, <2>7
  <2>9. Waiting' # {} => Len(items') <= Cardinality(Signaling') + Cardinality(Getting')
    <3>1. Cardinality(Signaling') = Cardinality(Signaling) BY <2>4
    <3>2. QED BY <1>a, <2>3, <2>6, <2>8, <3>1, WakeupTypes
  <2>10. QED BY <1>b, <2>9
<1>4. ASSUME NEW w \in Worker, Block(w) PROVE NoLostWakeup'
  <2>1. Len(items') = 0 BY <1>4 DEF Block
  <2>2. Cardinality(Signaling') \in Nat /\ Cardinality(Getting') \in Nat
    BY WakeupFinite, FS_CardinalityType
  <2>3. QED BY <1>b, <2>1, <2>2
<1>5. ASSUME NEW w \in Worker, WorkerStep(w), ~Take(w), ~Block(w) PROVE NoLostWakeup'
  <2>1. items' = items
    BY <1>5 DEF WorkerStep, Admit, CheckLimit, StartGet, Merge, RecordLine, AddStatuses
  <2>2. pc[w] \notin {"signal", "get"}
    BY <1>5 DEF WorkerStep, Admit, CheckLimit, StartGet, Merge, RecordLine, AddStatuses
  <2>3. PICK l : GoTo(w, l) /\ l # "waiting"
    <3>1. CASE Admit(w)
      <4>1. GoTo(w, IF canceled \/ QueryClass[job[w].query] \notin Nodes THEN "finish"
                    ELSE IF limit > 0 THEN "check" ELSE "query")
        BY <3>1 DEF Admit
      <4>2. QED BY <4>1
    <3>1b. CASE CheckLimit(w)
      <4>1. GoTo(w, IF OverLimit(QueryClass[job[w].query]) THEN "finish" ELSE "query")
        BY <3>1b DEF CheckLimit
      <4>2. QED BY <4>1
    <3>2. CASE StartGet(w)
      <4>1. GoTo(w, "merge") BY <3>2 DEF StartGet
      <4>2. QED BY <4>1
    <3>3. CASE Merge(w)
      <4>1. GoTo(w, IF job[w].line = None THEN "status" ELSE "line") BY <3>3 DEF Merge
      <4>2. QED BY <4>1
    <3>4. CASE RecordLine(w)
      <4>1. GoTo(w, "status") BY <3>4 DEF RecordLine
      <4>2. QED BY <4>1
    <3>5. CASE AddStatuses(w)
      <4>1. GoTo(w, "claim") BY <3>5 DEF AddStatuses
      <4>2. QED BY <4>1
    <3>6. QED BY <1>5, <3>1, <3>2, <3>3, <3>4, <3>5, <3>1b DEF WorkerStep
  <2>4. QED BY <1>c, <1>e, <2>1, <2>2, <2>3
<1>6. ASSUME NEW t \in Thread,
             Claim(t) \/ Applied(t) \/ MarkSeen(t) \/ AddWork(t) \/ Finish(t)
      PROVE  NoLostWakeup'
  <2>1. items' = items /\ pc[t] \notin {"signal", "get"}
    BY <1>6 DEF Claim, Applied, MarkSeen, Dispatching, AddWork, Finish
  <2>2. PICK l : GoTo(t, l) /\ l # "waiting"
    <3>1. CASE Claim(t)
      <4>1. GoTo(t, "apply") BY <3>1 DEF Claim
      <4>2. QED BY <4>1
    <3>2. CASE Applied(t)
      <4>1. GoTo(t, "finish") BY <3>2 DEF Applied
      <4>2. QED BY <4>1
    <3>3. CASE MarkSeen(t)
      <4>1. GoTo(t, "add") BY <3>3 DEF MarkSeen
      <4>2. QED BY <4>1
    <3>4. CASE AddWork(t)
      <4>1. GoTo(t, "put") BY <3>4 DEF AddWork
      <4>2. QED BY <4>1
    <3>5. CASE Finish(t)
      <4>1. GoTo(t, IF t = Main THEN "wait" ELSE "get") BY <3>5 DEF Finish
      <4>2. QED BY <4>1
    <3>6. QED BY <1>6, <3>1, <3>2, <3>3, <3>4, <3>5
  <2>3. QED BY <1>e, <2>1, <2>2
<1>7. ASSUME NEW t \in Thread, Put(t) PROVE NoLostWakeup'
  <2>1. GoTo(t, "signal") /\ pc[t] = "put" /\ items' = Append(items, post[t])
    BY <1>7 DEF Put
  <2>2. pc'[t] = "signal" /\ \A u \in Thread \ {t} : pc'[u] = pc[u] BY <1>d, <2>1
  <2>3. Waiting' = Waiting BY <1>c, <2>1, <2>2 DEF Waiting
  <2>4. Getting' = Getting BY <1>c, <2>1, <2>2 DEF Getting
  <2>5. Signaling' = Signaling \cup {t} /\ t \notin Signaling BY <2>1, <2>2 DEF Signaling
  <2>6. Cardinality(Signaling') = Cardinality(Signaling) + 1
    BY <2>5, WakeupTypes, FS_AddElement
  <2>7. items \in Seq(QueryLine) /\ post[t] \in QueryLine BY <2>1 DEF Shape, JobOK
  <2>8. Len(items') = Len(items) + 1 /\ Len(items) \in Nat BY <2>1, <2>7
  <2>9. Waiting' # {} => Len(items') <= Cardinality(Signaling') + Cardinality(Getting')
    <3>1. Cardinality(Getting') = Cardinality(Getting) BY <2>4
    <3>2. QED BY <1>a, <2>3, <2>6, <2>8, <3>1, WakeupTypes
  <2>10. QED BY <1>b, <2>9
<1>8. ASSUME NEW t \in Thread, Signal(t) PROVE NoLostWakeup'
  <2>1. pc[t] = "signal" /\ items' = items BY <1>8 DEF Signal
  <2>2. Resume(t) \in {"prime", "apply"} BY DEF Resume
  <2>3. CASE \E w \in Worker : pc[w] = "waiting"
    <3>1. PICK w \in Worker : /\ pc[w] = "waiting"
                              /\ pc' = [pc EXCEPT ![t] = Resume(t), ![w] = "get"]
      BY <1>8, <2>3 DEF Signal
    <3>2. w # t /\ w \in Thread BY <1>c, <2>1, <3>1
    <3>3. /\ pc'[w] = "get" /\ pc'[t] = Resume(t)
          /\ \A u \in Thread \ {t, w} : pc'[u] = pc[u]
      BY <3>1, <3>2 DEF Shape
    <3>4. Signaling' = Signaling \ {t} /\ t \in Signaling
      BY <2>1, <2>2, <3>1, <3>2, <3>3 DEF Signaling
    <3>5. Getting' = Getting \cup {w} /\ w \notin Getting
      BY <1>c, <2>1, <2>2, <3>1, <3>2, <3>3 DEF Getting
    <3>6. /\ Cardinality(Signaling') = Cardinality(Signaling) - 1
          /\ Cardinality(Getting') = Cardinality(Getting) + 1
      BY <3>4, <3>5, WakeupTypes, FS_AddElement, FS_RemoveElement
    <3>7. Waiting # {} BY <3>1 DEF Waiting
    <3>8. Len(items) \in Nat BY DEF Shape
    <3>9. Len(items') <= Cardinality(Signaling') + Cardinality(Getting')
      BY <1>a, <2>1, <3>6, <3>7, <3>8, WakeupTypes
    <3>10. QED BY <1>b, <3>9
  <2>4. CASE ~ \E w \in Worker : pc[w] = "waiting"
    <3>1. GoTo(t, Resume(t)) BY <1>8, <2>4 DEF Signal
    <3>2. pc'[t] = Resume(t) /\ \A u \in Thread \ {t} : pc'[u] = pc[u] BY <1>d, <3>1
    <3>3. \A w \in Worker : pc'[w] # "waiting" BY <1>c, <2>2, <2>4, <3>2
    <3>4. Waiting' = {} BY <3>3 DEF Waiting
    <3>5. QED BY <1>b, <3>4
  <2>5. QED BY <2>3, <2>4
<1>9. ASSUME NEW t \in Thread, ApplyRule(t) \/ Drop(t) PROVE NoLostWakeup'
  <2>1. pc' = pc /\ items' = items BY <1>9 DEF ApplyRule, Drop
  <2>2. QED BY <1>f, <2>1
<1>10. CASE Cancel \/ UNCHANGED vars
  <2>1. pc' = pc /\ items' = items BY <1>10 DEF Cancel, vars
  <2>2. QED BY <1>f, <2>1
<1>11. QED
  BY <1>1, <1>2, <1>3, <1>4, <1>5, <1>6, <1>7, <1>8, <1>9, <1>10
     DEF Next, Step, ThreadStep, MainStep, Returned

\* A queryLine on the queue never waits for a worker that sleeps: put signals
\* after releasing the lock, and still no wakeup is lost.
THEOREM NoLostWakeupAlways == Spec => []NoLostWakeup
<1>1. Init => NoLostWakeup
  <2> SUFFICES ASSUME Init PROVE NoLostWakeup
    OBVIOUS
  <2>1. \A w \in Worker : pc[w] # "waiting"
    BY TraverserAssumption DEF Init, Thread
  <2>2. Waiting = {} BY <2>1 DEF Waiting
  <2>3. QED BY <2>2 DEF NoLostWakeup
<1>2. Shape /\ JobOK /\ NoLostWakeup /\ [Next]_vars => NoLostWakeup'
  BY WakeupStep
<1>3. QED BY <1>1, <1>2, ShapeInvariant, PTL DEF Spec

-----------------------------------------------------------------------------
(* The query limit.                                                        *)

\* Workers past the limit check of class c whose query is not recorded yet.
InFlight(c) ==
  {w \in Worker : pc[w] \in {"query", "merge"} /\ QueryClass[job[w].query] = c}

\* The limit is filled in before any query is recorded, and the queries
\* recorded and in flight together stay within the limit plus the workers.
LimitInv ==
  /\ limit \in {QueryLimit, EffectiveLimit}
  /\ limit = -1 => asked = {} /\ \A w \in Worker : pc[w] # "merge"
  /\ \A c \in Class :
       /\ IsFiniteSet(Asked(c))
       /\ EffectiveLimit > 0 =>
            Cardinality(Asked(c)) + Cardinality(InFlight(c))
              <= EffectiveLimit + Cardinality(Worker)

LEMMA LimitTypes ==
  /\ EffectiveLimit \in Nat /\ Cardinality(Worker) \in Nat
  /\ \A c : /\ IsFiniteSet(InFlight(c)) /\ IsFiniteSet(InFlight(c)')
            /\ Cardinality(InFlight(c)) \in Nat /\ Cardinality(InFlight(c)') \in Nat
            /\ Cardinality(InFlight(c)) <= Cardinality(Worker)
            /\ Cardinality(InFlight(c)') <= Cardinality(Worker)
<1>1. EffectiveLimit \in Nat
  BY TraverserAssumption DEF EffectiveLimit
<1>2. IsFiniteSet(Worker) /\ Cardinality(Worker) \in Nat
  BY TraverserAssumption, FS_CardinalityType
<1>3. ASSUME NEW c
      PROVE  /\ IsFiniteSet(InFlight(c)) /\ IsFiniteSet(InFlight(c)')
             /\ Cardinality(InFlight(c)) \in Nat /\ Cardinality(InFlight(c)') \in Nat
             /\ Cardinality(InFlight(c)) <= Cardinality(Worker)
             /\ Cardinality(InFlight(c)') <= Cardinality(Worker)
  <2>1. InFlight(c) \in SUBSET Worker /\ InFlight(c)' \in SUBSET Worker
    BY DEF InFlight
  <2>2. QED BY <1>2, <2>1, FS_Subset, FS_CardinalityType
<1>4. QED BY <1>1, <1>2, <1>3

\* A step that records no query and puts none in flight keeps LimitInv.
LEMMA LimitKept ==
  ASSUME LimitInv, limit' = limit, asked' = asked,
         \A w \in Worker : pc'[w] \in {"query", "merge"} =>
           pc'[w] = pc[w] /\ job'[w] = job[w]
  PROVE  LimitInv'
<1>1. limit' \in {QueryLimit, EffectiveLimit} BY DEF LimitInv, EffectiveLimit
<1>2. limit' = -1 => asked' = {} /\ \A w \in Worker : pc'[w] # "merge" BY DEF LimitInv
<1>3. ASSUME NEW c \in Class
      PROVE  /\ IsFiniteSet(Asked(c)')
             /\ EffectiveLimit > 0 =>
                  Cardinality(Asked(c)') + Cardinality(InFlight(c)')
                    <= EffectiveLimit + Cardinality(Worker)
  <2>1. Asked(c)' = Asked(c) BY DEF Asked
  <2>2. InFlight(c)' \in SUBSET InFlight(c) BY DEF InFlight
  <2>3. Cardinality(InFlight(c)') <= Cardinality(InFlight(c))
    BY <2>2, LimitTypes, FS_Subset
  <2>4. IsFiniteSet(Asked(c)) /\ Cardinality(Asked(c)) \in Nat
    BY FS_CardinalityType DEF LimitInv
  <2>5. EffectiveLimit > 0 => Cardinality(Asked(c)) + Cardinality(InFlight(c))
                                <= EffectiveLimit + Cardinality(Worker)
    BY DEF LimitInv
  <2>6. Cardinality(Asked(c)') = Cardinality(Asked(c)) BY <2>1
  <2>7. QED BY <2>1, <2>3, <2>4, <2>5, <2>6, LimitTypes
<1>4. QED BY <1>1, <1>2, <1>3 DEF LimitInv, EffectiveLimit

LEMMA LimitStep ==
  ASSUME Shape, JobOK, LimitInv, [Next]_vars
  PROVE  LimitInv'
<1> USE TraverserAssumption, ScopeAssumption
<1>a. \A w \in Worker : w \in Thread /\ w # Main
  BY DEF Thread
<1>b. ASSUME NEW t \in Thread, NEW l, GoTo(t, l)
      PROVE  pc'[t] = l /\ \A u \in Thread \ {t} : pc'[u] = pc[u]
  BY <1>b DEF Shape, GoTo
<1>c. ASSUME NEW t \in Thread, NEW l, GoTo(t, l), l \notin {"query", "merge"},
             \A u \in Thread \ {t} : job'[u] = job[u],
             limit' = limit, asked' = asked
      PROVE  LimitInv'
  <2>1. pc'[t] = l /\ \A u \in Thread \ {t} : pc'[u] = pc[u] BY <1>b, <1>c
  <2>2. \A w \in Worker : pc'[w] \in {"query", "merge"} => pc'[w] = pc[w] /\ job'[w] = job[w]
    BY <1>a, <1>c, <2>1
  <2>3. QED BY <1>c, <2>2, LimitKept
<1>d. ASSUME pc' = pc, job' = job, limit' = limit, asked' = asked PROVE LimitInv'
  BY <1>d, LimitKept
<1> USE DEF shared, nodes, local
<1>1. CASE MainStep
  <2>1. job' = job /\ limit' = limit /\ asked' = asked
    BY <1>1 DEF MainStep, AddSentinel, AppendStart, Primed, WaitDone, Close, Broadcast, Join
  <2>2. CASE Broadcast
    <3>1. \A w \in Worker : pc'[w] = IF pc[w] = "waiting" THEN "get" ELSE pc[w]
      BY <1>a, <2>2 DEF Broadcast
    <3>2. QED BY <2>1, <3>1, LimitKept
  <2>3. CASE ~Broadcast
    <3>1. PICK l \in MainLabel \ {"query", "merge"} : GoTo(Main, l)
      BY <1>1, <2>3 DEF MainStep, AddSentinel, AppendStart, Primed, WaitDone, Close, Join, MainLabel
    <3>2. QED BY <1>c, <2>1, <3>1 DEF Thread
  <2>4. QED BY <2>2, <2>3
<1>2. ASSUME NEW w \in Worker,
             Take(w) \/ Block(w) \/ RecordLine(w) \/ AddStatuses(w)
      PROVE  LimitInv'
  <2>1. limit' = limit /\ asked' = asked /\ \A u \in Thread \ {w} : job'[u] = job[u]
    <3>1. limit' = limit /\ asked' = asked /\ (job' = job \/ job' = [job EXCEPT ![w] = Head(items)])
      BY <1>2 DEF Take, Block, RecordLine, AddStatuses
    <3>2. QED BY <3>1 DEF Shape
  <2>2. PICK l : GoTo(w, l) /\ l \notin {"query", "merge"}
    <3>1. CASE Take(w)
      <4>1. GoTo(w, "admit") BY <3>1 DEF Take
      <4>2. QED BY <4>1
    <3>2. CASE Block(w)
      <4>1. GoTo(w, IF closed THEN "exited" ELSE "waiting") BY <3>2 DEF Block
      <4>2. QED BY <4>1
    <3>3. CASE RecordLine(w)
      <4>1. GoTo(w, "status") BY <3>3 DEF RecordLine
      <4>2. QED BY <4>1
    <3>4. CASE AddStatuses(w)
      <4>1. GoTo(w, "claim") BY <3>4 DEF AddStatuses
      <4>2. QED BY <4>1
    <3>5. QED BY <1>2, <3>1, <3>2, <3>3, <3>4
  <2>3. QED BY <1>a, <1>c, <2>1, <2>2
<1>3. ASSUME NEW w \in Worker, Admit(w) \/ CheckLimit(w) PROVE LimitInv'
  <2> DEFINE c == QueryClass[job[w].query]
  <2>1. /\ limit' = limit /\ asked' = asked /\ job' = job /\ pc[w] \in {"admit", "check"}
        /\ \/ \E l \in {"finish", "check"} : GoTo(w, l)
           \/ GoTo(w, "query") /\ (limit > 0 => ~OverLimit(c))
    <3>1. CASE Admit(w)
      <4>1. GoTo(w, IF canceled \/ QueryClass[job[w].query] \notin Nodes THEN "finish"
                    ELSE IF limit > 0 THEN "check" ELSE "query")
        BY <3>1 DEF Admit
      <4>2. limit' = limit /\ asked' = asked /\ job' = job /\ pc[w] = "admit"
        BY <3>1 DEF Admit
      <4>3. QED BY <4>1, <4>2
    <3>2. CASE CheckLimit(w)
      <4>1. GoTo(w, IF OverLimit(c) THEN "finish" ELSE "query")
        BY <3>2 DEF CheckLimit
      <4>2. limit' = limit /\ asked' = asked /\ job' = job /\ pc[w] = "check"
        BY <3>2 DEF CheckLimit
      <4>3. QED BY <4>1, <4>2
    <3>3. QED BY <1>3, <3>1, <3>2
  <2>2. CASE \E l \in {"finish", "check"} : GoTo(w, l)
    <3>1. PICK l \in {"finish", "check"} : GoTo(w, l) BY <2>2
    <3>2. QED BY <1>a, <1>c, <2>1, <3>1
  <2>3. CASE GoTo(w, "query") /\ (limit > 0 => ~OverLimit(c))
    <3>1. pc'[w] = "query" /\ \A u \in Thread \ {w} : pc'[u] = pc[u] BY <1>a, <1>b, <2>3
    <3>2. limit' \in {QueryLimit, EffectiveLimit} BY <2>1 DEF LimitInv, EffectiveLimit
    <3>3. limit' = -1 => asked' = {} /\ \A u \in Worker : pc'[u] # "merge"
      BY <1>a, <2>1, <3>1 DEF LimitInv
    <3>4. ASSUME NEW d \in Class
          PROVE  /\ IsFiniteSet(Asked(d)')
                 /\ EffectiveLimit > 0 =>
                      Cardinality(Asked(d)') + Cardinality(InFlight(d)')
                        <= EffectiveLimit + Cardinality(Worker)
      <4>1. Asked(d)' = Asked(d) /\ Cardinality(Asked(d)') = Cardinality(Asked(d))
        BY <2>1 DEF Asked
      <4>2. IsFiniteSet(Asked(d)) /\ Cardinality(Asked(d)) \in Nat
        BY FS_CardinalityType DEF LimitInv
      <4>3. CASE d = c
        <5>1. EffectiveLimit > 0 => Cardinality(Asked(d)) <= EffectiveLimit
          <6>1. CASE limit = -1
            <7>1. Asked(d) = {} BY <6>1 DEF LimitInv, Asked
            <7>2. Cardinality(Asked(d)) = 0 BY <7>1, FS_EmptySet
            <7>3. QED BY <7>2, LimitTypes
          <6>2. CASE limit # -1
            <7>1. limit = EffectiveLimit BY <6>2 DEF LimitInv, EffectiveLimit
            <7>2. ~(limit > 0 /\ Cardinality(Asked(d)) > limit) BY <2>3, <4>3 DEF OverLimit
            <7>3. QED BY <4>2, <7>1, <7>2, LimitTypes
          <6>3. QED BY <6>1, <6>2
        <5>2. Cardinality(InFlight(d)') <= Cardinality(Worker) BY LimitTypes
        <5>3. QED BY <4>1, <4>2, <5>1, <5>2, LimitTypes
      <4>4. CASE d # c
        <5>1. InFlight(d)' = InFlight(d)
          BY <1>a, <2>1, <3>1, <4>4 DEF InFlight
        <5>2. Cardinality(InFlight(d)') = Cardinality(InFlight(d)) BY <5>1
        <5>3. EffectiveLimit > 0 => Cardinality(Asked(d)) + Cardinality(InFlight(d))
                                      <= EffectiveLimit + Cardinality(Worker)
          BY DEF LimitInv
        <5>4. QED BY <4>1, <4>2, <5>2, <5>3
      <4>5. QED BY <4>3, <4>4
    <3>5. QED BY <3>2, <3>3, <3>4 DEF LimitInv, EffectiveLimit
  <2>4. QED BY <2>1, <2>2, <2>3
<1>4. ASSUME NEW w \in Worker, StartGet(w) PROVE LimitInv'
  <2>1. /\ limit' = (IF limit = -1 THEN DefaultLimit ELSE limit)
        /\ asked' = asked /\ job' = job /\ pc[w] = "query" /\ GoTo(w, "merge")
    BY <1>4 DEF StartGet
  <2>2. pc'[w] = "merge" /\ \A u \in Thread \ {w} : pc'[u] = pc[u] BY <1>a, <1>b, <2>1
  <2>3. limit' \in {QueryLimit, EffectiveLimit} /\ limit' # -1
    BY <2>1 DEF LimitInv, EffectiveLimit
  <2>4. ASSUME NEW d \in Class
        PROVE  /\ IsFiniteSet(Asked(d)')
               /\ EffectiveLimit > 0 =>
                    Cardinality(Asked(d)') + Cardinality(InFlight(d)')
                      <= EffectiveLimit + Cardinality(Worker)
    <3>1. Asked(d)' = Asked(d) BY <2>1 DEF Asked
    <3>2. InFlight(d)' = InFlight(d) BY <1>a, <2>1, <2>2 DEF InFlight
    <3>3. QED BY <3>1, <3>2 DEF LimitInv
  <2>5. QED BY <2>3, <2>4 DEF LimitInv, EffectiveLimit
<1>5. ASSUME NEW w \in Worker, Merge(w) PROVE LimitInv'
  <2> DEFINE q == job[w].query
             c == QueryClass[q]
  <2>1. /\ limit' = limit /\ asked' = asked \cup {q} /\ job' = job /\ pc[w] = "merge"
        /\ GoTo(w, IF job[w].line = None THEN "status" ELSE "line")
    BY <1>5 DEF Merge
  <2>2. pc'[w] \in {"status", "line"} /\ \A u \in Thread \ {w} : pc'[u] = pc[u]
    BY <1>a, <1>b, <2>1
  <2>3. limit' \in {QueryLimit, EffectiveLimit} /\ limit' # -1
    BY <2>1 DEF LimitInv, EffectiveLimit
  <2>4. ASSUME NEW d \in Class
        PROVE  /\ IsFiniteSet(Asked(d)')
               /\ EffectiveLimit > 0 =>
                    Cardinality(Asked(d)') + Cardinality(InFlight(d)')
                      <= EffectiveLimit + Cardinality(Worker)
    <3>1. IsFiniteSet(Asked(d)) /\ Cardinality(Asked(d)) \in Nat
      BY FS_CardinalityType DEF LimitInv
    <3>2. EffectiveLimit > 0 => Cardinality(Asked(d)) + Cardinality(InFlight(d))
                                  <= EffectiveLimit + Cardinality(Worker)
      BY DEF LimitInv
    <3>3. CASE d = c
      <4>1. Asked(d)' = Asked(d) \cup {q} BY <2>1, <3>3 DEF Asked
      <4>2. IsFiniteSet(Asked(d)') /\ Cardinality(Asked(d)') \in Nat
            /\ Cardinality(Asked(d)') <= Cardinality(Asked(d)) + 1
        <5>1. IsFiniteSet(Asked(d) \cup {q})
              /\ Cardinality(Asked(d) \cup {q}) =
                   (IF q \in Asked(d) THEN Cardinality(Asked(d)) ELSE Cardinality(Asked(d)) + 1)
          BY <3>1, FS_AddElement
        <5>2. QED BY <3>1, <4>1, <5>1
      <4>3. InFlight(d)' = InFlight(d) \ {w} /\ w \in InFlight(d)
        BY <1>a, <2>1, <2>2, <3>3 DEF InFlight
      <4>4. Cardinality(InFlight(d)') = Cardinality(InFlight(d)) - 1
        <5>1. IsFiniteSet(InFlight(d)) BY LimitTypes
        <5>2. Cardinality(InFlight(d) \ {w}) = Cardinality(InFlight(d)) - 1
          BY <4>3, <5>1, FS_RemoveElement
        <5>3. QED BY <4>3, <5>2
      <4>5. QED BY <3>1, <3>2, <4>2, <4>4, LimitTypes
    <3>4. CASE d # c
      <4>1. Asked(d)' = Asked(d) BY <2>1, <3>4 DEF Asked
      <4>2. InFlight(d)' = InFlight(d) BY <1>a, <2>1, <2>2, <3>4 DEF InFlight
      <4>3. QED BY <3>1, <3>2, <4>1, <4>2
    <3>5. QED BY <3>3, <3>4
  <2>5. QED BY <2>3, <2>4 DEF LimitInv, EffectiveLimit
<1>6. ASSUME NEW t \in Thread,
             Claim(t) \/ Applied(t) \/ MarkSeen(t) \/ AddWork(t) \/ Put(t) \/ Finish(t)
      PROVE  LimitInv'
  <2>1. limit' = limit /\ asked' = asked /\ \A u \in Thread \ {t} : job'[u] = job[u]
    <3>1. limit' = limit /\ asked' = asked /\ (job' = job \/ job' = [job EXCEPT ![t] = NoPost])
      BY <1>6 DEF Claim, Applied, MarkSeen, AddWork, Put, Finish
    <3>2. QED BY <3>1 DEF Shape
  <2>2. PICK l \in {"apply", "finish", "add", "put", "signal", "wait", "get"} : GoTo(t, l)
    BY <1>6 DEF Claim, Applied, MarkSeen, AddWork, Put, Finish
  <2>3. QED BY <1>c, <2>1, <2>2
<1>7. ASSUME NEW t \in Thread, Signal(t) PROVE LimitInv'
  <2>1. limit' = limit /\ asked' = asked /\ job' = job BY <1>7 DEF Signal
  <2>2. Resume(t) \in {"prime", "apply"} BY DEF Resume
  <2>3. \A u \in Thread : pc'[u] \in {pc[u], Resume(t), "get"}
    BY <1>7 DEF Signal, Shape, GoTo, Thread
  <2>4. \A w \in Worker : pc'[w] \in {"query", "merge"} => pc'[w] = pc[w]
    BY <1>a, <2>2, <2>3
  <2>5. QED BY <2>1, <2>4, LimitKept
<1>8. ASSUME NEW t \in Thread, ApplyRule(t) \/ Drop(t) PROVE LimitInv'
  <2>1. pc' = pc /\ job' = job /\ limit' = limit /\ asked' = asked BY <1>8 DEF ApplyRule, Drop
  <2>2. QED BY <1>d, <2>1
<1>9. CASE Cancel \/ UNCHANGED vars
  <2>1. pc' = pc /\ job' = job /\ limit' = limit /\ asked' = asked BY <1>9 DEF Cancel, vars
  <2>2. QED BY <1>d, <2>1
<1>10. QED
  BY <1>1, <1>2, <1>3, <1>4, <1>5, <1>6, <1>7, <1>8, <1>9
     DEF Next, Step, ThreadStep, WorkerStep, Returned

LEMMA LimitInit == Init => LimitInv
<1> SUFFICES ASSUME Init PROVE LimitInv
  OBVIOUS
<1>1. limit = QueryLimit /\ asked = {} /\ \A w \in Worker : pc[w] = "get"
  BY TraverserAssumption DEF Init, Thread
<1>2. ASSUME NEW c \in Class
      PROVE  /\ IsFiniteSet(Asked(c))
             /\ EffectiveLimit > 0 =>
                  Cardinality(Asked(c)) + Cardinality(InFlight(c))
                    <= EffectiveLimit + Cardinality(Worker)
  <2>1. Asked(c) = {} BY <1>1 DEF Asked
  <2>2. IsFiniteSet(Asked(c)) /\ Cardinality(Asked(c)) = 0 BY <2>1, FS_EmptySet
  <2>3. QED BY <2>2, LimitTypes
<1>3. QED BY <1>1, <1>2 DEF LimitInv

\* However many threads run, a class gets at most one query per worker beyond
\* the query limit, which the code checks before and counts after a query.
THEOREM LimitOvershootAlways == Spec => []LimitOvershoot
<1>1. Shape /\ JobOK /\ LimitInv /\ [Next]_vars => LimitInv'
  BY LimitStep
<1>2. LimitInv => LimitOvershoot
  <2> SUFFICES ASSUME LimitInv, EffectiveLimit > 0, NEW c \in Class
               PROVE  Cardinality(Asked(c)) <= EffectiveLimit + Cardinality(Worker)
    BY DEF LimitOvershoot
  <2>1. Cardinality(Asked(c)) \in Nat BY FS_CardinalityType DEF LimitInv
  <2>2. Cardinality(Asked(c)) + Cardinality(InFlight(c)) <= EffectiveLimit + Cardinality(Worker)
    BY DEF LimitInv
  <2>3. QED BY <2>1, <2>2, LimitTypes
<1>3. QED BY LimitInit, <1>1, <1>2, ShapeInvariant, PTL DEF Spec

-----------------------------------------------------------------------------
(* Claiming objects.                                                       *)

\* ClaimedOnce is inductive once it is known that unclaimed objects are objects
\* of the node and that only a worker inside applyRules has rules to apply.
ClaimInv ==
  /\ \A c \in Class : unprocessed[c] \subseteq result[c]
  /\ \A w \in Worker : pc[w] \notin {"apply", "add", "put", "signal"} => todo[w] = {}
  /\ ClaimedOnce

\* A step that adds only new objects to the nodes and starts no rules keeps
\* ClaimInv.
LEMMA ClaimKept ==
  ASSUME Shape, ClaimInv,
         \A c \in Class : result[c] \subseteq result'[c],
         \A c \in Class : unprocessed'[c] \subseteq unprocessed[c] \cup (result'[c] \ result[c]),
         \A t \in Thread : todo'[t] \subseteq todo[t],
         \A w \in Worker : pc'[w] \notin {"apply", "add", "put", "signal"} => todo'[w] = {},
         \A t \in Thread : todo[t] # {} => NodeOf(t)' = NodeOf(t),
         \A t \in Thread : todo[t] # {} => NodeOf(t) \in Class
  PROVE  ClaimInv'
<1>1. \A c \in Class : unprocessed'[c] \subseteq result'[c]
  BY DEF ClaimInv
<1>2. ASSUME NEW t \in Thread, NEW p \in todo'[t]
      PROVE  /\ p[1] \in result'[NodeOf(t)'] \ unprocessed'[NodeOf(t)']
             /\ \A u \in Thread \ {t} : p \in todo'[u] => NodeOf(u)' # NodeOf(t)'
  <2>1. p \in todo[t] /\ NodeOf(t)' = NodeOf(t) /\ NodeOf(t) \in Class
    BY <1>2
  <2>2. p[1] \in result[NodeOf(t)] \ unprocessed[NodeOf(t)]
    BY <2>1 DEF ClaimInv, ClaimedOnce
  <2>3. p[1] \in result'[NodeOf(t)] \ unprocessed'[NodeOf(t)]
    BY <2>1, <2>2
  <2>4. ASSUME NEW u \in Thread \ {t}, p \in todo'[u] PROVE NodeOf(u)' # NodeOf(t)'
    <3>1. p \in todo[u] /\ NodeOf(u)' = NodeOf(u) BY <2>4
    <3>2. NodeOf(u) # NodeOf(t) BY <2>1, <3>1 DEF ClaimInv, ClaimedOnce
    <3>3. QED BY <2>1, <3>1, <3>2
  <2>5. QED BY <2>1, <2>3, <2>4
<1>3. QED BY <1>1, <1>2 DEF ClaimInv, ClaimedOnce

LEMMA ClaimStep ==
  ASSUME Shape, JobOK, ClaimInv, [Next]_vars
  PROVE  ClaimInv'
<1> USE TraverserAssumption, ScopeAssumption
<1>a. \A w \in Worker : w \in Thread /\ w # Main
  BY DEF Thread
<1>b. ASSUME NEW t \in Thread, NEW l, GoTo(t, l)
      PROVE  pc'[t] = l /\ \A u \in Thread \ {t} : pc'[u] = pc[u]
  BY <1>b DEF Shape, GoTo
<1>c. ASSUME NEW t \in Thread, todo[t] # {} PROVE NodeOf(t) \in Class
  <2>1. CASE t = Main BY <2>1 DEF NodeOf
  <2>2. CASE t # Main
    <3>1. t \in Worker /\ pc[t] \in {"apply", "add", "put", "signal"}
      BY <1>c, <2>2 DEF Thread, ClaimInv
    <3>2. job[t] \in QueryLine BY <3>1 DEF JobOK, Busy
    <3>3. QED BY <2>2, <3>2 DEF NodeOf, QueryLine
  <2>3. QED BY <2>1, <2>2
\* The common case: only pc and variables other than the nodes' and todo change.
<1>d. ASSUME result' = result, unprocessed' = unprocessed, todo' = todo,
             \A t \in Thread : todo[t] # {} => job'[t] = job[t],
             \A w \in Worker : pc'[w] \notin {"apply", "add", "put", "signal"} => todo[w] = {}
      PROVE  ClaimInv'
  <2>1. \A t \in Thread : todo[t] # {} => NodeOf(t)' = NodeOf(t)
    BY <1>d DEF NodeOf
  <2>2. QED BY <1>c, <1>d, <2>1, ClaimKept
<1>e. ASSUME NEW w \in Worker, pc[w] \notin {"apply", "add", "put", "signal"}
      PROVE  todo[w] = {}
  BY <1>e DEF ClaimInv
<1> USE DEF shared, nodes, local
<1>1. CASE MainStep
  <2>1. todo' = todo /\ job' = job
    BY <1>1 DEF MainStep, AddSentinel, AppendStart, Primed, WaitDone, Close, Broadcast, Join
  <2>2. \A w \in Worker : pc'[w] = pc[w] \/ (pc[w] = "waiting" /\ pc'[w] = "get")
    <3>1. CASE Broadcast BY <1>a, <3>1 DEF Broadcast
    <3>2. CASE ~Broadcast
      <4>1. PICK l : GoTo(Main, l)
        BY <1>1, <3>2 DEF MainStep, AddSentinel, AppendStart, Primed, WaitDone, Close, Join
      <4>2. Main \in Thread BY DEF Thread
      <4>3. QED BY <1>a, <1>b, <4>1, <4>2
    <3>3. QED BY <3>1, <3>2
  <2>3. \A w \in Worker : pc'[w] \notin {"apply", "add", "put", "signal"} => todo[w] = {}
    BY <1>e, <2>2
  <2>4. CASE ~AppendStart
    <3>1. result' = result /\ unprocessed' = unprocessed
      BY <1>1, <2>4 DEF MainStep, AddSentinel, Primed, WaitDone, Close, Broadcast, Join
    <3>2. QED BY <1>d, <2>1, <2>3, <3>1
  <2>5. CASE AppendStart
    <3>1. /\ result' = [result EXCEPT ![StartClass] = @ \cup StartObjects]
          /\ unprocessed' = [unprocessed EXCEPT
                               ![StartClass] = @ \cup (StartObjects \ result[StartClass])]
      BY <2>5 DEF AppendStart
    <3>2. \A c \in Class : result[c] \subseteq result'[c]
      BY <3>1 DEF Shape
    <3>3. \A c \in Class : unprocessed'[c] \subseteq unprocessed[c] \cup (result'[c] \ result[c])
      BY <3>1 DEF Shape
    <3>4. \A t \in Thread : todo[t] # {} => NodeOf(t)' = NodeOf(t)
      BY <2>1 DEF NodeOf
    <3>5. QED BY <1>c, <2>1, <2>3, <3>2, <3>3, <3>4, ClaimKept
  <2>6. QED BY <2>4, <2>5
<1>2. ASSUME NEW w \in Worker, WorkerStep(w) PROVE ClaimInv'
  <2>1. /\ todo' = todo /\ (job' = job \/ job' = [job EXCEPT ![w] = Head(items)])
        /\ pc[w] \notin {"apply", "add", "put", "signal"}
    BY <1>2 DEF WorkerStep, Take, Block, Admit, CheckLimit, StartGet, Merge, RecordLine, AddStatuses
  <2>2. todo[w] = {} BY <1>e, <2>1
  <2>3. PICK l : GoTo(w, l)
    BY <1>2 DEF WorkerStep, Take, Block, Admit, CheckLimit, StartGet, Merge, RecordLine, AddStatuses
  <2>4. \A u \in Worker : pc'[u] \notin {"apply", "add", "put", "signal"} => todo[u] = {}
    BY <1>a, <1>b, <1>e, <2>2, <2>3
  <2>5. \A t \in Thread : todo[t] # {} => job'[t] = job[t]
    BY <2>1, <2>2 DEF Shape
  <2>6. CASE ~Merge(w)
    <3>1. result' = result /\ unprocessed' = unprocessed
      BY <1>2, <2>6 DEF WorkerStep, Take, Block, Admit, CheckLimit, StartGet, RecordLine, AddStatuses
    <3>2. QED BY <1>d, <2>1, <2>4, <2>5, <3>1
  <2>7. CASE Merge(w)
    <3> DEFINE c == QueryClass[job[w].query]
    <3>1. PICK objects \in Answers[job[w].query] :
            /\ result' = [result EXCEPT ![c] = @ \cup New(c, objects)]
            /\ unprocessed' = [unprocessed EXCEPT ![c] = @ \cup New(c, objects)]
      BY <2>7 DEF Merge
    <3> HIDE DEF c
    <3>2. \A d \in Class : result[d] \subseteq result'[d]
      BY <3>1 DEF Shape
    <3>3. \A d \in Class : unprocessed'[d] \subseteq unprocessed[d] \cup (result'[d] \ result[d])
      BY <3>1 DEF Shape, New
    <3>4. \A t \in Thread : todo[t] # {} => NodeOf(t)' = NodeOf(t)
      BY <2>5 DEF NodeOf
    <3>5. QED BY <1>c, <2>1, <2>4, <3>2, <3>3, <3>4, ClaimKept
  <2>8. QED BY <2>6, <2>7
<1>3. ASSUME NEW t \in Thread, Claim(t) PROVE ClaimInv'
  <2> DEFINE c == NodeOf(t)
  <2>1. /\ todo' = [todo EXCEPT ![t] = unprocessed[c] \X RulesOf(c)]
        /\ unprocessed' = [unprocessed EXCEPT ![c] = {}]
        /\ result' = result /\ job' = job /\ GoTo(t, "apply") /\ pc[t] = "claim"
    BY <1>3 DEF Claim
  <2>2. c \in Class BY <2>1, ApplyTyped
  <2>3. \A u \in Thread : NodeOf(u)' = NodeOf(u) BY <2>1 DEF NodeOf
  <2>4. \A d \in Class : unprocessed'[d] \subseteq unprocessed[d] BY <2>1 DEF Shape
  <2>5. unprocessed'[c] = {} BY <2>1, <2>2 DEF Shape
  <2>6. \A d \in Class : unprocessed'[d] \subseteq result'[d]
    BY <2>1, <2>4 DEF ClaimInv
  <2>7. \A w \in Worker : pc'[w] \notin {"apply", "add", "put", "signal"} => todo'[w] = {}
    BY <1>a, <1>b, <1>e, <2>1 DEF Shape
  <2>8. todo'[t] = unprocessed[c] \X RulesOf(c) /\ \A u \in Thread \ {t} : todo'[u] = todo[u]
    BY <2>1 DEF Shape
  <2> HIDE DEF c
  <2>9. \A p \in todo'[t] : p[1] \in unprocessed[c] /\ p[1] \in result[c]
    BY <2>2, <2>8 DEF ClaimInv
  <2>10. ASSUME NEW u \in Thread \ {t}, NEW p \in todo[u]
         PROVE  /\ p[1] \in result[NodeOf(u)] \ unprocessed[NodeOf(u)]
                /\ NodeOf(u) \in Class
    BY <1>c, <2>10 DEF ClaimInv, ClaimedOnce
  <2>11. ASSUME NEW s \in Thread, NEW p \in todo'[s]
         PROVE  /\ p[1] \in result'[NodeOf(s)'] \ unprocessed'[NodeOf(s)']
                /\ \A u \in Thread \ {s} : p \in todo'[u] => NodeOf(u)' # NodeOf(s)'
    <3>1. CASE s = t
      <4>1. p[1] \in unprocessed[c] /\ p[1] \in result[c] /\ NodeOf(s)' = c
        BY <2>3, <2>9, <2>11, <3>1 DEF c
      <4>2. ASSUME NEW u \in Thread \ {s}, p \in todo'[u] PROVE NodeOf(u)' # c
        <5>1. p \in todo[u] BY <2>8, <3>1, <4>2
        <5>2. p[1] \notin unprocessed[NodeOf(u)] BY <2>10, <3>1, <5>1
        <5>3. QED BY <2>3, <4>1, <5>2
      <4>3. QED BY <2>1, <2>5, <4>1, <4>2
    <3>2. CASE s # t
      <4>1. p \in todo[s] BY <2>8, <2>11, <3>2
      <4>2. p[1] \in result[NodeOf(s)] \ unprocessed[NodeOf(s)] /\ NodeOf(s) \in Class
        BY <2>10, <3>2, <4>1
      <4>3. p[1] \in result'[NodeOf(s)'] \ unprocessed'[NodeOf(s)']
        BY <2>1, <2>3, <2>4, <4>2
      <4>4. ASSUME NEW u \in Thread \ {s}, p \in todo'[u] PROVE NodeOf(u)' # NodeOf(s)'
        <5>1. CASE u = t
          <6>1. p[1] \in unprocessed[c] BY <2>9, <4>4, <5>1
          <6>2. NodeOf(s) # c BY <4>2, <6>1
          <6>3. QED BY <2>3, <5>1, <6>2 DEF c
        <5>2. CASE u # t
          <6>1. p \in todo[u] BY <2>8, <4>4, <5>2
          <6>2. NodeOf(u) # NodeOf(s) BY <4>1, <4>4, <6>1 DEF ClaimInv, ClaimedOnce
          <6>3. QED BY <2>3, <6>2
        <5>3. QED BY <5>1, <5>2
      <4>5. QED BY <4>3, <4>4
    <3>3. QED BY <3>1, <3>2
  <2>12. QED BY <2>6, <2>7, <2>11 DEF ClaimInv, ClaimedOnce
<1>4. ASSUME NEW t \in Thread, ApplyRule(t) PROVE ClaimInv'
  <2>1. PICK p \in todo[t] : todo' = [todo EXCEPT ![t] = @ \ {p}]
    BY <1>4 DEF ApplyRule
  <2>2. /\ pc' = pc /\ job' = job /\ result' = result /\ unprocessed' = unprocessed
    BY <1>4 DEF ApplyRule
  <2>3. \A u \in Thread : todo'[u] \subseteq todo[u] BY <2>1 DEF Shape
  <2>4. \A w \in Worker : pc'[w] \notin {"apply", "add", "put", "signal"} => todo'[w] = {}
    BY <1>a, <1>e, <2>2, <2>3
  <2>5. \A u \in Thread : NodeOf(u)' = NodeOf(u) BY <2>2 DEF NodeOf
  <2>6. QED BY <1>c, <2>2, <2>3, <2>4, <2>5, ClaimKept
<1>5. ASSUME NEW t \in Thread, Applied(t) PROVE ClaimInv'
  <2>1. /\ todo' = [todo EXCEPT ![t] = {}] /\ GoTo(t, "finish")
        /\ job' = job /\ result' = result /\ unprocessed' = unprocessed
    BY <1>5 DEF Applied
  <2>2. todo'[t] = {} /\ \A u \in Thread \ {t} : todo'[u] = todo[u] BY <2>1 DEF Shape
  <2>3. \A w \in Worker : pc'[w] \notin {"apply", "add", "put", "signal"} => todo'[w] = {}
    BY <1>a, <1>b, <1>e, <2>1, <2>2
  <2>4. \A u \in Thread : todo'[u] \subseteq todo[u] BY <2>2
  <2>5. \A u \in Thread : NodeOf(u)' = NodeOf(u) BY <2>1 DEF NodeOf
  <2>6. QED BY <1>c, <2>1, <2>3, <2>4, <2>5, ClaimKept
<1>6. ASSUME NEW t \in Thread, MarkSeen(t) \/ AddWork(t) \/ Put(t) \/ Finish(t)
      PROVE  ClaimInv'
  <2>1. /\ todo' = todo /\ result' = result /\ unprocessed' = unprocessed
        /\ job' = job \/ (pc[t] = "finish" /\ job' = [job EXCEPT ![t] = NoPost])
    BY <1>6 DEF MarkSeen, AddWork, Put, Finish
  <2>2. PICK l : /\ GoTo(t, l)
                 /\ pc[t] = "finish" \/ l \in {"add", "put", "signal"}
    BY <1>6 DEF MarkSeen, AddWork, Put, Finish
  <2>3. \A w \in Worker : pc'[w] \notin {"apply", "add", "put", "signal"} => todo[w] = {}
    BY <1>a, <1>b, <1>e, <2>2
  <2>4. CASE job' = job BY <1>d, <2>1, <2>3, <2>4
  <2>5. CASE pc[t] = "finish" /\ job' = [job EXCEPT ![t] = NoPost]
    <3>1. CASE t = Main
      <4>1. \A u \in Thread : NodeOf(u)' = NodeOf(u)
        BY <2>5, <3>1 DEF NodeOf, Shape
      <4>2. QED BY <1>c, <2>1, <2>3, <4>1, ClaimKept
    <3>2. CASE t \in Worker
      <4>1. todo[t] = {} BY <1>e, <2>5, <3>2
      <4>2. \A u \in Thread : todo[u] # {} => job'[u] = job[u]
        BY <2>5, <4>1 DEF Shape
      <4>3. QED BY <1>d, <2>1, <2>3, <4>2
    <3>3. QED BY <3>1, <3>2 DEF Thread
  <2>6. QED BY <2>1, <2>4, <2>5
<1>7. ASSUME NEW t \in Thread, Signal(t) PROVE ClaimInv'
  <2>1. todo' = todo /\ result' = result /\ unprocessed' = unprocessed /\ job' = job
        /\ pc[t] = "signal"
    BY <1>7 DEF Signal
  <2>2. t \in Worker => Resume(t) = "apply"
    <3>1. t \in Worker => post[t].line \in Lines BY <2>1 DEF JobOK
    <3>2. QED BY <3>1 DEF Resume
  <2>3. \A u \in Thread : \/ u = t /\ pc'[u] = Resume(t)
                          \/ u # t /\ pc'[u] = pc[u]
                          \/ u # t /\ pc[u] = "waiting"
    BY <1>7, <2>1 DEF Signal, Shape, GoTo, Thread
  <2>4. \A w \in Worker : pc'[w] \notin {"apply", "add", "put", "signal"} => todo[w] = {}
    BY <1>a, <1>e, <2>2, <2>3
  <2>5. QED BY <1>d, <2>1, <2>4
<1>8. ASSUME NEW t \in Thread, Drop(t) PROVE ClaimInv'
  <2>1. /\ pc' = pc /\ job' = job /\ result' = result /\ unprocessed' = unprocessed
        /\ todo' = todo
    BY <1>8 DEF Drop
  <2>2. QED BY <1>d, <1>e, <2>1
<1>9. CASE Cancel \/ UNCHANGED vars
  <2>1. /\ pc' = pc /\ job' = job /\ result' = result /\ unprocessed' = unprocessed
        /\ todo' = todo
    BY <1>9 DEF Cancel, vars
  <2>2. QED BY <1>d, <1>e, <2>1
<1>10. QED
  BY <1>1, <1>2, <1>3, <1>4, <1>5, <1>6, <1>7, <1>8, <1>9
     DEF Next, Step, ThreadStep, Returned

\* An object is claimed for rule application by one thread only, although every
\* worker that finishes a query of a class claims whatever its node holds.
THEOREM ClaimedOnceAlways == Spec => []ClaimedOnce
<1>1. Init => ClaimInv
  BY ScopeAssumption, TraverserAssumption DEF Init, ClaimInv, ClaimedOnce, Thread
<1>2. Shape /\ JobOK /\ ClaimInv /\ [Next]_vars => ClaimInv'
  BY ClaimStep
<1>3. ClaimInv => ClaimedOnce
  BY DEF ClaimInv
<1>4. QED BY <1>1, <1>2, <1>3, ShapeInvariant, PTL DEF Spec

-----------------------------------------------------------------------------
(* The steps that move no query, object or rule.                           *)

Moves ==
  {<<"start", "append">>, <<"prime", "claim">>, <<"finish", "wait">>, <<"wait", "close">>,
   <<"close", "broadcast">>, <<"broadcast", "join">>, <<"join", "done">>,
   <<"get", "waiting">>, <<"get", "exited">>, <<"waiting", "get">>,
   <<"admit", "check">>, <<"admit", "query">>, <<"admit", "finish">>,
   <<"check", "query">>, <<"check", "finish">>, <<"query", "merge">>,
   <<"add", "put">>, <<"signal", "prime">>, <<"signal", "apply">>, <<"finish", "get">>}

\* Threads move on; a thread that resumes forgets what it posted and one that
\* finishes forgets its job.
Still ==
  /\ UNCHANGED <<items, seen, nodes, todo, sends, fresh>>
  /\ \A u \in Thread :
       /\ pc'[u] = pc[u] \/ <<pc[u], pc'[u]>> \in Moves
       /\ pc[u] # "signal" => post'[u] = post[u]
       /\ pc[u] # "finish" => job'[u] = job[u]
       /\ pc[u] = "prime" /\ pc'[u] = "claim" => sends[u] = {}
       /\ pc[u] = "signal" /\ pc'[u] # "signal" => pc'[u] = Resume(u)
       /\ pc[u] = "signal" /\ pc'[u] = "signal" => post'[u] = post[u]
       /\ pc[u] = "finish" /\ pc'[u] = "finish" => job'[u] = job[u]
  /\ \A w \in Worker :
       /\ pc[w] = "admit" /\ pc'[w] \in {"check", "query"} => QueryClass[job[w].query] \in Nodes
       /\ pc[w] \in {"admit", "check"} /\ pc'[w] = "finish" =>
            canceled \/ QueryClass[job[w].query] \notin Nodes \/ limit > 0

LEMMA GoToOthers ==
  ASSUME Shape, NEW t \in Thread, NEW l, GoTo(t, l)
  PROVE  pc'[t] = l /\ \A u \in Thread \ {t} : pc'[u] = pc[u]
BY DEF Shape, GoTo

\* Every step is still or one of the ten that move something.
LEMMA Kinds ==
  ASSUME Shape, JobOK, [Next]_vars
  PROVE  \/ Still
         \/ AppendStart
         \/ \E w \in Worker : Take(w) \/ Merge(w) \/ RecordLine(w) \/ AddStatuses(w)
         \/ \E t \in Thread : \/ Claim(t) \/ ApplyRule(t) \/ Applied(t) \/ Drop(t)
                              \/ MarkSeen(t) \/ Put(t)
<1> USE TraverserAssumption
<1>a. \A w \in Worker : w \in Thread /\ w # Main
  BY DEF Thread
<1>b. Main \in Thread BY DEF Thread
<1> USE DEF shared, nodes, local
\* One thread moves and nothing else that Still speaks of.
<1>c. ASSUME NEW t \in Thread, NEW l, GoTo(t, l), <<pc[t], l>> \in Moves,
             pc[t] \notin {"signal", "admit", "check"}, pc[t] = "prime" => sends[t] = {},
             UNCHANGED <<items, seen, nodes, todo, sends, fresh, post>>,
             job' = job \/ (pc[t] = "finish" /\ l # "finish" /\ job' = [job EXCEPT ![t] = NoPost])
      PROVE  Still
  <2>1. pc'[t] = l /\ \A u \in Thread \ {t} : pc'[u] = pc[u] BY <1>c, GoToOthers
  <2>2. \A u \in Thread : pc'[u] = pc[u] \/ <<pc[u], pc'[u]>> \in Moves BY <1>c, <2>1
  <2>3. \A u \in Thread \ {t} : job'[u] = job[u] BY <1>c DEF Shape
  <2>4. pc[t] # "finish" => job' = job BY <1>c
  <2>5. pc'[t] = "finish" => job' = job BY <1>c, <2>1
  <2>6. QED BY <1>a, <1>c, <2>1, <2>2, <2>3, <2>4, <2>5 DEF Still
<1>d. ASSUME pc' = pc, job' = job, UNCHANGED <<items, seen, nodes, todo, sends, fresh, post>>
      PROVE  Still
  BY <1>a, <1>d DEF Still
<1>1. CASE MainStep /\ ~AppendStart /\ ~Broadcast
  <2>1. PICK l : GoTo(Main, l) /\ <<pc[Main], l>> \in Moves
    BY <1>1 DEF MainStep, AddSentinel, Primed, WaitDone, Close, Join, Moves
  <2>2. /\ UNCHANGED <<items, seen, nodes, todo, sends, fresh, post, job>>
        /\ pc[Main] \notin {"signal", "admit", "check"}
        /\ pc[Main] = "prime" => sends[Main] = {}
    BY <1>1 DEF MainStep, AddSentinel, Primed, WaitDone, Close, Join
  <2>3. QED BY <1>b, <1>c, <2>1, <2>2
<1>2. CASE Broadcast
  <2>1. UNCHANGED <<items, seen, nodes, todo, sends, fresh, post, job>>
    BY <1>2 DEF Broadcast
  <2>2. \A u \in Thread : /\ pc'[u] = pc[u] \/ <<pc[u], pc'[u]>> \in Moves
                          /\ pc[u] \in {"signal", "prime", "finish", "admit", "check"} => pc'[u] = pc[u]
    BY <1>2, <1>a DEF Broadcast, Moves, Thread
  <2>3. QED BY <1>a, <2>1, <2>2 DEF Still
<1>3. ASSUME NEW w \in Worker, Block(w) \/ StartGet(w) PROVE Still
  <2>1. PICK l : GoTo(w, l) /\ <<pc[w], l>> \in Moves
    <3>1. CASE Block(w)
      <4>1. GoTo(w, IF closed THEN "exited" ELSE "waiting") /\ pc[w] = "get" BY <3>1 DEF Block
      <4>2. QED BY <4>1 DEF Moves
    <3>2. CASE StartGet(w)
      <4>1. GoTo(w, "merge") /\ pc[w] = "query" BY <3>2 DEF StartGet
      <4>2. QED BY <4>1 DEF Moves
    <3>3. QED BY <1>3, <3>1, <3>2
  <2>2. /\ UNCHANGED <<items, seen, nodes, todo, sends, fresh, post, job>>
        /\ pc[w] \in {"get", "query"}
    BY <1>3 DEF Block, StartGet
  <2>3. QED BY <1>a, <1>c, <2>1, <2>2
<1>4. ASSUME NEW w \in Worker, Admit(w) \/ CheckLimit(w) PROVE Still
  <2>1. PICK l : /\ GoTo(w, l) /\ <<pc[w], l>> \in Moves
                 /\ pc[w] = "admit" /\ l \in {"check", "query"} => QueryClass[job[w].query] \in Nodes
                 /\ l = "finish" => canceled \/ QueryClass[job[w].query] \notin Nodes \/ limit > 0
    <3>1. CASE Admit(w)
      <4>1. GoTo(w, IF canceled \/ QueryClass[job[w].query] \notin Nodes THEN "finish"
                    ELSE IF limit > 0 THEN "check" ELSE "query") /\ pc[w] = "admit"
        BY <3>1 DEF Admit
      <4>2. QED BY <4>1 DEF Moves
    <3>2. CASE CheckLimit(w)
      <4>1. GoTo(w, IF OverLimit(QueryClass[job[w].query]) THEN "finish" ELSE "query")
            /\ pc[w] = "check"
        BY <3>2 DEF CheckLimit
      <4>2. QED BY <4>1 DEF Moves, OverLimit
    <3>3. QED BY <1>4, <3>1, <3>2
  <2>2. /\ UNCHANGED <<items, seen, nodes, todo, sends, fresh, post, job>>
        /\ pc[w] \in {"admit", "check"}
    BY <1>4 DEF Admit, CheckLimit
  <2>3. pc'[w] = l /\ \A u \in Thread \ {w} : pc'[u] = pc[u] BY <1>a, <2>1, GoToOthers
  <2>4. QED BY <1>a, <2>1, <2>2, <2>3 DEF Still
<1>5. ASSUME NEW t \in Thread, AddWork(t) PROVE Still
  <2>1. /\ GoTo(t, "put") /\ pc[t] = "add"
        /\ UNCHANGED <<items, seen, nodes, todo, sends, fresh, post, job>>
    BY <1>5 DEF AddWork
  <2>2. QED BY <1>c, <2>1 DEF Moves
<1>6. ASSUME NEW t \in Thread, Finish(t) PROVE Still
  <2>1. PICK l \in {"wait", "get"} : GoTo(t, l) /\ pc[t] = "finish"
    BY <1>6 DEF Finish
  <2>2. /\ UNCHANGED <<items, seen, nodes, todo, sends, fresh, post>>
        /\ job' = [job EXCEPT ![t] = NoPost]
    BY <1>6 DEF Finish
  <2>3. QED BY <1>c, <2>1, <2>2 DEF Moves
<1>7. ASSUME NEW t \in Thread, Signal(t) PROVE Still
  <2>1. /\ UNCHANGED <<items, seen, nodes, todo, sends, fresh, job>>
        /\ post' = [post EXCEPT ![t] = NoPost] /\ pc[t] = "signal"
    BY <1>7 DEF Signal
  <2>2. Resume(t) \in {"prime", "apply"} BY DEF Resume
  <2>3. /\ pc'[t] = Resume(t)
        /\ \A u \in Thread \ {t} : pc'[u] = pc[u] \/ (pc[u] = "waiting" /\ pc'[u] = "get")
    <3>1. CASE \E w \in Worker : pc[w] = "waiting"
      <4>1. PICK w \in Worker : pc[w] = "waiting" /\ pc' = [pc EXCEPT ![t] = Resume(t), ![w] = "get"]
        BY <1>7, <3>1 DEF Signal
      <4>2. w # t BY <2>1, <4>1
      <4>3. QED BY <4>1, <4>2 DEF Shape
    <3>2. CASE ~ \E w \in Worker : pc[w] = "waiting"
      <4>1. GoTo(t, Resume(t)) BY <1>7, <3>2 DEF Signal
      <4>2. QED BY <4>1, GoToOthers
    <3>3. QED BY <3>1, <3>2
  <2>4. \A u \in Thread : pc'[u] = pc[u] \/ <<pc[u], pc'[u]>> \in Moves
    BY <2>1, <2>2, <2>3 DEF Moves
  <2>5. \A u \in Thread \ {t} : post'[u] = post[u] BY <2>1 DEF Shape
  <2>6. QED BY <1>a, <2>1, <2>2, <2>3, <2>4, <2>5 DEF Still
<1>8. CASE Cancel \/ UNCHANGED vars
  <2>1. pc' = pc /\ job' = job /\ UNCHANGED <<items, seen, nodes, todo, sends, fresh, post>>
    BY <1>8 DEF Cancel, vars
  <2>2. QED BY <1>d, <2>1
<1>9. QED
  BY <1>1, <1>2, <1>3, <1>4, <1>5, <1>6, <1>7, <1>8
     DEF Next, Step, ThreadStep, WorkerStep, MainStep, Returned

-----------------------------------------------------------------------------
(* Each query is asked once.                                               *)

\* Where a query is between dedupAndSend, which marks it seen, and the merge of
\* its results: with a thread that posts it, on the queue, with a worker.
Posting  == {t \in Thread : pc[t] \in {"add", "put"}}
Early    == {w \in Worker : pc[w] \in {"admit", "check", "query", "merge"}}
Late     == {w \in Worker : pc[w] \in {"line", "status"}}
Handling == Early \cup Late

\* A seen query is in one of these places at most and is recorded after that.
OnceInv ==
  /\ asked \subseteq seen
  /\ \A t \in Posting :
       /\ post[t].query \in seen \ asked
       /\ \A u \in Posting \ {t} : post[u].query # post[t].query
       /\ \A i \in 1 .. Len(items) : post[t].query # items[i].query
  /\ \A i \in 1 .. Len(items) :
       /\ items[i].query \in seen \ asked
       /\ \A j \in 1 .. Len(items) : i # j => items[i].query # items[j].query
  /\ \A w \in Early :
       /\ job[w].query \in seen \ asked
       /\ \A t \in Posting : post[t].query # job[w].query
       /\ \A i \in 1 .. Len(items) : items[i].query # job[w].query
  /\ \A w \in Late : job[w].query \in asked
  /\ \A w, v \in Handling : w # v => job[w].query # job[v].query

\* No query changes its place, but for those that a worker drops.
SamePlaces ==
  /\ UNCHANGED <<items, asked, seen>>
  /\ Posting' = Posting /\ \A t \in Posting : post'[t] = post[t]
  /\ Early' \subseteq Early /\ Late' \subseteq Late
  /\ \A w \in Handling : job'[w] = job[w]
  /\ \A w \in Early \ Early' :
       canceled \/ QueryClass[job[w].query] \notin Nodes \/ limit > 0

LEMMA StillPlaces ==
  ASSUME Shape, Still
  PROVE  SamePlaces /\ Late' = Late
<1> USE TraverserAssumption DEF Still, nodes
<1>1. \A w \in Worker : w \in Thread BY DEF Thread
<1>2. Posting' = Posting /\ \A t \in Posting : post'[t] = post[t]
  BY DEF Posting, Moves
<1>3. Early' \subseteq Early /\ Late' = Late
  BY <1>1 DEF Early, Late, Moves
<1>4. \A w \in Handling : job'[w] = job[w]
  BY <1>1 DEF Handling, Early, Late
<1>5. \A w \in Early \ Early' :
        canceled \/ QueryClass[job[w].query] \notin Nodes \/ limit > 0
  BY <1>1 DEF Early, Moves
<1>6. QED BY <1>2, <1>3, <1>4, <1>5 DEF SamePlaces

LEMMA SamePlacesStep ==
  ASSUME Shape, JobOK,
         \/ Still
         \/ AppendStart
         \/ \E w \in Worker : RecordLine(w) \/ AddStatuses(w)
         \/ \E t \in Thread : Claim(t) \/ ApplyRule(t) \/ Applied(t) \/ Drop(t)
  PROVE  SamePlaces
<1> USE TraverserAssumption DEF shared, nodes, local
<1>a. \A w \in Worker : w \in Thread /\ w # Main
  BY DEF Thread
<1>b. ASSUME NEW t \in Thread, NEW l, GoTo(t, l), UNCHANGED <<items, asked, seen, post, job>>,
             pc[t] \in {"append", "line", "status", "claim", "apply"},
             l \in {"prime", "status", "claim", "apply", "finish"},
             l = "status" => pc[t] = "line"
      PROVE  SamePlaces
  <2>1. pc'[t] = l /\ \A u \in Thread \ {t} : pc'[u] = pc[u] BY <1>b, GoToOthers
  <2>2. Posting' = Posting BY <1>b, <2>1 DEF Posting
  <2>3. Early' = Early /\ Late' \subseteq Late BY <1>a, <1>b, <2>1 DEF Early, Late
  <2>4. QED BY <1>b, <2>2, <2>3 DEF SamePlaces
<1>1. CASE Still BY <1>1, StillPlaces
<1>2. CASE AppendStart
  <2>1. GoTo(Main, "prime") /\ UNCHANGED <<items, asked, seen, post, job>> /\ pc[Main] = "append"
    BY <1>2 DEF AppendStart
  <2>2. QED BY <1>b, <2>1 DEF Thread
<1>3. ASSUME NEW w \in Worker, RecordLine(w) \/ AddStatuses(w) PROVE SamePlaces
  <2>1. UNCHANGED <<items, asked, seen, post, job>> BY <1>3 DEF RecordLine, AddStatuses
  <2>2. \/ pc[w] = "line" /\ GoTo(w, "status")
        \/ pc[w] = "status" /\ GoTo(w, "claim")
    BY <1>3 DEF RecordLine, AddStatuses
  <2>3. QED BY <1>a, <1>b, <2>1, <2>2
<1>4. ASSUME NEW t \in Thread, Claim(t) \/ Applied(t) PROVE SamePlaces
  <2>1. UNCHANGED <<items, asked, seen, post, job>> BY <1>4 DEF Claim, Applied
  <2>2. \/ pc[t] = "claim" /\ GoTo(t, "apply")
        \/ pc[t] = "apply" /\ GoTo(t, "finish")
    BY <1>4 DEF Claim, Applied
  <2>3. QED BY <1>b, <2>1, <2>2
<1>5. ASSUME NEW t \in Thread, ApplyRule(t) \/ Drop(t) PROVE SamePlaces
  <2>1. UNCHANGED <<items, asked, seen, post, job, pc>> BY <1>5 DEF ApplyRule, Drop
  <2>2. QED BY <2>1 DEF SamePlaces, Posting, Early, Late
<1>6. QED BY <1>1, <1>2, <1>3, <1>4, <1>5

\* What the steps that move a query do to the places.
LEMMA TakePlaces ==
  ASSUME Shape, NEW w \in Worker, Take(w)
  PROVE  /\ Posting' = Posting /\ Early' = Early \cup {w} /\ Late' = Late
         /\ w \notin Handling
         /\ items # <<>> /\ Len(items) \in Nat /\ Len(items') = Len(items) - 1
         /\ job'[w] = items[1] /\ \A u \in Thread \ {w} : job'[u] = job[u]
         /\ \A i \in 1 .. Len(items') : i + 1 \in 1 .. Len(items) /\ items'[i] = items[i + 1]
         /\ UNCHANGED <<seen, asked, post>>
<1> USE TraverserAssumption DEF shared, nodes, local
<1>a. \A u \in Worker : u \in Thread BY DEF Thread
<1>1. /\ GoTo(w, "admit") /\ pc[w] = "get" /\ items # <<>> /\ items' = Tail(items)
      /\ job' = [job EXCEPT ![w] = Head(items)] /\ UNCHANGED <<seen, asked, post>>
  BY DEF Take
<1>2. pc'[w] = "admit" /\ \A u \in Thread \ {w} : pc'[u] = pc[u] BY <1>1, <1>a, GoToOthers
<1>3. items \in Seq(QueryLine) BY DEF Shape
<1>4. Len(items) \in Nat /\ Len(items') = Len(items) - 1 /\ Head(items) = items[1] BY <1>1, <1>3
<1>5. \A i \in 1 .. Len(items') : i + 1 \in 1 .. Len(items) /\ items'[i] = items[i + 1]
  BY <1>1, <1>3, <1>4
<1>6. job'[w] = items[1] /\ \A u \in Thread \ {w} : job'[u] = job[u] BY <1>1, <1>4, <1>a DEF Shape
<1>7. Posting' = Posting BY <1>1, <1>2 DEF Posting
<1>8. Early' = Early \cup {w} /\ Late' = Late /\ w \notin Handling
  BY <1>a, <1>1, <1>2 DEF Early, Late, Handling
<1>9. QED BY <1>1, <1>4, <1>5, <1>6, <1>7, <1>8

LEMMA MergePlaces ==
  ASSUME Shape, NEW w \in Worker, Merge(w)
  PROVE  /\ Posting' = Posting /\ Early' = Early \ {w} /\ Late' = Late \cup {w}
         /\ w \in Early /\ w \notin Late
         /\ pc'[w] = (IF job[w].line = None THEN "status" ELSE "line")
         /\ \A u \in Thread \ {w} : pc'[u] = pc[u]
         /\ asked' = asked \cup {job[w].query}
         /\ UNCHANGED <<seen, items, post, job>>
<1> USE TraverserAssumption DEF shared, nodes, local
<1>a. \A u \in Worker : u \in Thread BY DEF Thread
<1>1. /\ GoTo(w, IF job[w].line = None THEN "status" ELSE "line") /\ pc[w] = "merge"
      /\ asked' = asked \cup {job[w].query} /\ UNCHANGED <<seen, items, post, job>>
  BY DEF Merge
<1>2. /\ pc'[w] = (IF job[w].line = None THEN "status" ELSE "line")
      /\ \A u \in Thread \ {w} : pc'[u] = pc[u]
  BY <1>1, <1>a, GoToOthers
<1>3. Posting' = Posting BY <1>1, <1>2 DEF Posting
<1>4. Early' = Early \ {w} /\ Late' = Late \cup {w} /\ w \in Early /\ w \notin Late
  BY <1>a, <1>1, <1>2 DEF Early, Late
<1>5. QED BY <1>1, <1>2, <1>3, <1>4

LEMMA MarkSeenPlaces ==
  ASSUME Shape, NEW t \in Thread, MarkSeen(t)
  PROVE  \E ql \in sends[t] :
           /\ ql.query \notin seen /\ seen' = seen \cup {ql.query}
           /\ Posting' = Posting \cup {t} /\ t \notin Posting /\ Early' = Early /\ Late' = Late
           /\ post'[t] = ql /\ \A u \in Thread \ {t} : post'[u] = post[u]
           /\ sends'[t] = sends[t] \ {ql} /\ \A u \in Thread \ {t} : sends'[u] = sends[u]
           /\ pc[t] \in {"prime", "apply"} /\ pc'[t] = "add" /\ \A u \in Thread \ {t} : pc'[u] = pc[u]
           /\ UNCHANGED <<items, job, nodes, todo, fresh, canceled>>
<1> USE TraverserAssumption DEF shared, local
<1>a. \A u \in Worker : u \in Thread BY DEF Thread
<1>1. PICK ql \in sends[t] :
        /\ pc[t] \in {"prime", "apply"} /\ ql.query \notin seen /\ seen' = seen \cup {ql.query}
        /\ sends' = [sends EXCEPT ![t] = @ \ {ql}] /\ post' = [post EXCEPT ![t] = ql]
        /\ GoTo(t, "add") /\ UNCHANGED <<items, job, nodes, todo, fresh, canceled>>
  BY DEF MarkSeen, Dispatching, Dropped
<1>2. pc'[t] = "add" /\ \A u \in Thread \ {t} : pc'[u] = pc[u] BY <1>1, GoToOthers
<1>3. post'[t] = ql /\ \A u \in Thread \ {t} : post'[u] = post[u] BY <1>1 DEF Shape
<1>3b. sends'[t] = sends[t] \ {ql} /\ \A u \in Thread \ {t} : sends'[u] = sends[u]
  BY <1>1 DEF Shape
<1>4. Posting' = Posting \cup {t} /\ t \notin Posting BY <1>1, <1>2 DEF Posting
<1>5. Early' = Early /\ Late' = Late BY <1>a, <1>1, <1>2 DEF Early, Late
<1>6. QED BY <1>1, <1>2, <1>3, <1>3b, <1>4, <1>5

LEMMA PutPlaces ==
  ASSUME Shape, JobOK, NEW t \in Thread, Put(t)
  PROVE  /\ Posting' = Posting \ {t} /\ t \in Posting /\ Early' = Early /\ Late' = Late
         /\ Len(items) \in Nat /\ Len(items') = Len(items) + 1
         /\ \A i \in 1 .. Len(items) : i \in 1 .. Len(items') /\ items'[i] = items[i]
         /\ items'[Len(items')] = post[t]
         /\ \A i \in 1 .. Len(items') : i = Len(items') \/ i \in 1 .. Len(items)
         /\ pc[t] = "put" /\ pc'[t] = "signal" /\ \A u \in Thread \ {t} : pc'[u] = pc[u]
         /\ UNCHANGED <<seen, job, post, nodes, todo, sends, fresh, canceled>>
<1> USE TraverserAssumption DEF shared, local
<1>a. \A u \in Worker : u \in Thread BY DEF Thread
<1>1. /\ pc[t] = "put" /\ GoTo(t, "signal") /\ items' = Append(items, post[t])
      /\ UNCHANGED <<seen, job, post, nodes, todo, sends, fresh, canceled>>
  BY DEF Put
<1>2. pc'[t] = "signal" /\ \A u \in Thread \ {t} : pc'[u] = pc[u] BY <1>1, GoToOthers
<1>3. items \in Seq(QueryLine) /\ post[t] \in QueryLine BY <1>1 DEF Shape, JobOK
<1>4. /\ Len(items) \in Nat /\ Len(items') = Len(items) + 1
      /\ \A i \in 1 .. Len(items) : items'[i] = items[i]
      /\ items'[Len(items) + 1] = post[t]
  BY <1>1, <1>3
<1>5. Posting' = Posting \ {t} /\ t \in Posting BY <1>1, <1>2 DEF Posting
<1>6. Early' = Early /\ Late' = Late BY <1>a, <1>1, <1>2 DEF Early, Late
<1>7. QED BY <1>1, <1>2, <1>4, <1>5, <1>6

LEMMA OnceStep ==
  ASSUME Shape, JobOK, OnceInv, [Next]_vars
  PROVE  OnceInv'
<1> USE TraverserAssumption
<1>a. \A u \in Worker : u \in Thread BY DEF Thread
<1>1. CASE SamePlaces
  BY <1>1 DEF SamePlaces, OnceInv, Handling
<1>2. ASSUME NEW w \in Worker, Take(w) PROVE OnceInv'
  <2>1. items[1].query \in seen \ asked /\ 1 \in 1 .. Len(items)
    BY <1>2, TakePlaces DEF OnceInv
  <2>2. \A i \in 1 .. Len(items') :
          /\ i + 1 \in 1 .. Len(items) /\ items'[i] = items[i + 1] /\ i + 1 # 1
          /\ \A j \in 1 .. Len(items') : i # j => i + 1 # j + 1
    BY <1>2, TakePlaces
  <2>3. /\ Posting' = Posting /\ Early' = Early \cup {w} /\ Late' = Late
        /\ job'[w] = items[1] /\ w \notin Handling
        /\ \A u \in Handling : job'[u] = job[u]
        /\ UNCHANGED <<seen, asked, post>>
    BY <1>2, <1>a, TakePlaces DEF Handling, Early, Late
  <2>4. \A t \in Posting' :
          /\ post'[t].query \in seen' \ asked'
          /\ \A u \in Posting' \ {t} : post'[u].query # post'[t].query
          /\ \A i \in 1 .. Len(items') : post'[t].query # items'[i].query
    BY <2>2, <2>3 DEF OnceInv
  <2>5. \A i \in 1 .. Len(items') :
          /\ items'[i].query \in seen' \ asked'
          /\ \A j \in 1 .. Len(items') : i # j => items'[i].query # items'[j].query
    <3>1. ASSUME NEW i \in 1 .. Len(items'), NEW j \in 1 .. Len(items'), i # j
          PROVE  items'[i].query # items'[j].query
      <4>1. i + 1 \in 1 .. Len(items) /\ j + 1 \in 1 .. Len(items) /\ i + 1 # j + 1 BY <2>2, <3>1
      <4>2. items[i + 1].query # items[j + 1].query BY <4>1 DEF OnceInv
      <4>3. QED BY <2>2, <4>2
    <3>2. \A i \in 1 .. Len(items') : items'[i].query \in seen' \ asked'
      BY <2>2, <2>3 DEF OnceInv
    <3>3. QED BY <3>1, <3>2
  <2>6. \A v \in Early' :
          /\ job'[v].query \in seen' \ asked'
          /\ \A t \in Posting' : post'[t].query # job'[v].query
          /\ \A i \in 1 .. Len(items') : items'[i].query # job'[v].query
    BY <2>1, <2>2, <2>3 DEF OnceInv, Handling
  <2>7. \A v \in Late' : job'[v].query \in asked'
    BY <2>3 DEF OnceInv, Handling
  <2>8. \A u, v \in Handling' : u # v => job'[u].query # job'[v].query
    BY <2>1, <2>3 DEF OnceInv, Handling
  <2>9. QED BY <2>3, <2>4, <2>5, <2>6, <2>7, <2>8 DEF OnceInv
<1>3. ASSUME NEW w \in Worker, Merge(w) PROVE OnceInv'
  BY <1>3, MergePlaces DEF OnceInv, Handling
<1>4. ASSUME NEW t \in Thread, MarkSeen(t) PROVE OnceInv'
  <2>1. PICK ql \in sends[t] :
          /\ ql.query \notin seen /\ seen' = seen \cup {ql.query}
          /\ Posting' = Posting \cup {t} /\ t \notin Posting /\ Early' = Early /\ Late' = Late
          /\ post'[t] = ql /\ \A u \in Thread \ {t} : post'[u] = post[u]
          /\ UNCHANGED <<items, job, nodes>>
    BY <1>4, MarkSeenPlaces
  <2>2. asked' = asked BY <2>1 DEF nodes
  <2>3. \A u \in Posting : post'[u] = post[u] BY <2>1 DEF Posting
  <2> HIDE <1>a
  <2>4. QED BY <2>1, <2>2, <2>3 DEF OnceInv, Handling
<1>5. ASSUME NEW t \in Thread, Put(t) PROVE OnceInv'
  <2>1. /\ Posting' = Posting \ {t} /\ t \in Posting /\ Early' = Early /\ Late' = Late
        /\ UNCHANGED <<seen, job, post, asked>>
    BY <1>5, PutPlaces DEF nodes
  <2>2. \A i \in 1 .. Len(items') :
           (i = Len(items') /\ items'[i] = post[t]) \/ (i \in 1 .. Len(items) /\ items'[i] = items[i])
    BY <1>5, PutPlaces
  <2>3. QED BY <2>1, <2>2 DEF OnceInv, Handling
<1>6. QED BY <1>1, <1>2, <1>3, <1>4, <1>5, Kinds, SamePlacesStep

LEMMA OnceInit == Init => OnceInv
<1> SUFFICES ASSUME Init PROVE OnceInv
  OBVIOUS
<1>1. \A t \in Thread : pc[t] \in {"start", "get"} BY DEF Init
<1>2. Posting = {} /\ Early = {} /\ Late = {}
  BY <1>1 DEF Posting, Early, Late, Thread
<1>3. items = <<>> /\ Len(items) = 0 /\ asked = {} BY DEF Init
<1>4. QED BY <1>2, <1>3 DEF OnceInv, Handling

THEOREM OnceInvariant == Spec => []OnceInv
<1>1. Shape /\ JobOK /\ OnceInv /\ [Next]_vars => OnceInv'
  BY OnceStep
<1>2. QED BY OnceInit, <1>1, ShapeInvariant, PTL DEF Spec

-----------------------------------------------------------------------------
(* Every query comes from somewhere.                                       *)

\* A queryLine comes from the start or from a rule applied to a found object.
Justified(ql, f) ==
  \/ ql.line = None /\ ql.query \in StartQueries
  \/ \E c \in Class, r \in Rule : \E o \in f[c] :
       ql.query \in Yield(c, r, o) /\ ql.line = LineOf(c, r, ql.query)

JustInv ==
  /\ \A t \in Thread : \A ql \in sends[t] : Justified(ql, result)
  /\ \A t \in Posting : Justified(post[t], result)
  /\ \A i \in 1 .. Len(items) : Justified(items[i], result)
  /\ \A w \in Handling : Justified(job[w], result)

\* What Merge does to the node of the query's class.
LEMMA MergeNodes ==
  ASSUME Shape, JobOK, NEW w \in Worker, Merge(w)
  PROVE  /\ job[w] \in QueryLine /\ job[w].query \in Query /\ QueryClass[job[w].query] \in Class
         /\ \E objects \in Answers[job[w].query] :
              LET c == QueryClass[job[w].query]
                  new == New(c, objects) IN
              /\ objects \subseteq Object
              /\ result'[c] = result[c] \cup objects
              /\ \A d \in Class \ {c} : result'[d] = result[d]
              /\ unprocessed'[c] = unprocessed[c] \cup new
              /\ \A d \in Class \ {c} : unprocessed'[d] = unprocessed[d]
              /\ added'[job[w].query] = new
              /\ \A q \in Query \ {job[w].query} : added'[q] = added[q]
              /\ fresh'[w] = new /\ \A t \in Thread \ {w} : fresh'[t] = fresh[t]
         /\ UNCHANGED <<lineAdded, statused, todo, sends, canceled, limit>>
<1> USE ScopeAssumption, TraverserAssumption DEF shared, nodes, local
<1>1. w \in Busy /\ w \in Thread BY DEF Merge, Busy, Thread
<1>2. job[w] \in QueryLine /\ job[w].query \in Query /\ QueryClass[job[w].query] \in Class
  BY <1>1 DEF JobOK, QueryLine
<1>3. PICK objects \in Answers[job[w].query] :
        LET new == New(QueryClass[job[w].query], objects) IN
        /\ result' = [result EXCEPT ![QueryClass[job[w].query]] = @ \cup new]
        /\ unprocessed' = [unprocessed EXCEPT ![QueryClass[job[w].query]] = @ \cup new]
        /\ added' = [added EXCEPT ![job[w].query] = new]
        /\ fresh' = [fresh EXCEPT ![w] = new]
  BY DEF Merge
<1> DEFINE q == job[w].query
           c == QueryClass[job[w].query]
           new == New(c, objects)
<1>4. objects \subseteq Object BY <1>2
<1>5. result[c] \cup new = result[c] \cup objects BY DEF New
<1>6. /\ result'[c] = result[c] \cup objects
      /\ \A d \in Class \ {c} : result'[d] = result[d]
  BY <1>2, <1>3, <1>5 DEF Shape
<1>7. /\ unprocessed'[c] = unprocessed[c] \cup new
      /\ \A d \in Class \ {c} : unprocessed'[d] = unprocessed[d]
  BY <1>2, <1>3 DEF Shape
<1>8. added'[q] = new /\ \A p \in Query \ {q} : added'[p] = added[p]
  BY <1>2, <1>3 DEF Shape
<1>9. fresh'[w] = new /\ \A t \in Thread \ {w} : fresh'[t] = fresh[t]
  BY <1>1, <1>3 DEF Shape
<1>10. UNCHANGED <<lineAdded, statused, todo, sends, canceled, limit>> BY DEF Merge
<1>11. QED BY <1>2, <1>4, <1>6, <1>7, <1>8, <1>9, <1>10

\* The results of the nodes change in two steps only, and grow.
LEMMA ResultGrows ==
  ASSUME Shape, JobOK, [Next]_vars
  PROVE  \A c \in Class : result[c] \subseteq result'[c]
<1> USE ScopeAssumption
<1>1. CASE AppendStart
  BY <1>1 DEF AppendStart, Shape
<1>2. ASSUME NEW w \in Worker, Merge(w) PROVE \A c \in Class : result[c] \subseteq result'[c]
  BY <1>2, MergeNodes
<1>3. CASE result' = result BY <1>3
<1>4. QED
  BY <1>1, <1>2, <1>3, Kinds
     DEF Still, Take, RecordLine, AddStatuses, Claim, ApplyRule, Applied, Drop, MarkSeen, Put, nodes

\* What ApplyRule sends comes from a rule applied to an object of the node.
LEMMA ApplySends ==
  ASSUME Shape, JobOK, ClaimInv, NEW t \in Thread, ApplyRule(t)
  PROVE  /\ NodeOf(t) \in Class /\ sends[t] = {}
         /\ \E p \in todo[t] :
              /\ p \in Object \X Rule /\ p[1] \in result[NodeOf(t)]
              /\ todo'[t] = todo[t] \ {p} /\ \A u \in Thread \ {t} : todo'[u] = todo[u]
              /\ sends'[t] = {[query |-> q, line |-> LineOf(NodeOf(t), p[2], q), depth |-> DepthOf(t)] :
                                q \in Yield(NodeOf(t), p[2], p[1])}
              /\ \A u \in Thread \ {t} : sends'[u] = sends[u]
         /\ UNCHANGED <<pc, items, seen, nodes, job, post, fresh, canceled>>
<1> USE DEF shared, nodes, local
<1>1. NodeOf(t) \in Class BY ApplyTyped DEF ApplyRule
<1>2. PICK p \in todo[t] :
        /\ todo' = [todo EXCEPT ![t] = @ \ {p}]
        /\ sends' = [sends EXCEPT ![t] =
             {[query |-> q, line |-> LineOf(NodeOf(t), p[2], q), depth |-> DepthOf(t)] :
                q \in Yield(NodeOf(t), p[2], p[1])}]
  BY DEF ApplyRule
<1>3. p \in Object \X Rule BY DEF Shape
<1>4. p[1] \in result[NodeOf(t)] BY DEF ClaimInv, ClaimedOnce
<1>5. todo'[t] = todo[t] \ {p} /\ \A u \in Thread \ {t} : todo'[u] = todo[u]
  BY <1>2 DEF Shape
<1>6. /\ sends'[t] = {[query |-> q, line |-> LineOf(NodeOf(t), p[2], q), depth |-> DepthOf(t)] :
                       q \in Yield(NodeOf(t), p[2], p[1])}
      /\ \A u \in Thread \ {t} : sends'[u] = sends[u]
  BY <1>2 DEF Shape
<1>7. sends[t] = {} /\ UNCHANGED <<pc, items, seen, nodes, job, post, fresh, canceled>> BY DEF ApplyRule
<1>8. QED BY <1>1, <1>3, <1>4, <1>5, <1>6, <1>7

\* Sends grow only when the start queries are dispatched or a rule is applied.
LEMMA SendsShrink ==
  ASSUME Shape, JobOK, [Next]_vars,
         ~AppendStart, \A t \in Thread : ~ApplyRule(t)
  PROVE  \A t \in Thread : sends'[t] \subseteq sends[t]
<1>1. ASSUME NEW t \in Thread, Drop(t) \/ MarkSeen(t)
      PROVE  \A u \in Thread : sends'[u] \subseteq sends[u]
  BY <1>1 DEF Drop, MarkSeen, Shape
<1>2. CASE sends' = sends BY <1>2
<1>3. QED
  BY <1>1, <1>2, Kinds
     DEF Still, Take, Merge, RecordLine, AddStatuses, Claim, Applied, Put, nodes, local

LEMMA JustStep ==
  ASSUME Shape, JobOK, ClaimInv, JustInv, [Next]_vars
  PROVE  JustInv'
<1> USE TraverserAssumption
<1>a. ASSUME NEW ql, Justified(ql, result) PROVE Justified(ql, result')
  BY <1>a, ResultGrows DEF Justified
<1>1. \A t \in Thread : \A ql \in sends'[t] : Justified(ql, result')
  <2>1. CASE AppendStart
    <3>1. sends' = [sends EXCEPT ![Main] =
                      {[query |-> q, line |-> None, depth |-> 0] : q \in StartQueries}]
      BY <2>1 DEF AppendStart
    <3>2. ASSUME NEW t \in Thread, NEW ql \in sends'[t] PROVE Justified(ql, result')
      <4>1. CASE t = Main
        <5>1. ql.line = None /\ ql.query \in StartQueries BY <3>1, <3>2, <4>1 DEF Shape
        <5>2. QED BY <5>1 DEF Justified
      <4>2. CASE t # Main
        <5>1. ql \in sends[t] BY <3>1, <3>2, <4>2 DEF Shape
        <5>2. QED BY <1>a, <5>1 DEF JustInv
      <4>3. QED BY <4>1, <4>2
    <3>3. QED BY <3>2
  <2>2. ASSUME NEW t \in Thread, ApplyRule(t)
        PROVE  \A u \in Thread : \A ql \in sends'[u] : Justified(ql, result')
    <3>1. PICK p \in todo[t] :
            /\ p \in Object \X Rule /\ p[1] \in result[NodeOf(t)]
            /\ sends'[t] = {[query |-> q, line |-> LineOf(NodeOf(t), p[2], q), depth |-> DepthOf(t)] :
                              q \in Yield(NodeOf(t), p[2], p[1])}
            /\ \A u \in Thread \ {t} : sends'[u] = sends[u]
      BY <2>2, ApplySends
    <3>2. NodeOf(t) \in Class BY <2>2, ApplySends
    <3>3. ASSUME NEW ql \in sends'[t] PROVE Justified(ql, result)
      <4>1. PICK q \in Yield(NodeOf(t), p[2], p[1]) :
              ql = [query |-> q, line |-> LineOf(NodeOf(t), p[2], q), depth |-> DepthOf(t)]
        BY <3>1
      <4>2. ql.query = q /\ ql.line = LineOf(NodeOf(t), p[2], q) BY <4>1
      <4>3. p[1] \in Object /\ p[2] \in Rule BY <3>1
      <4>4. QED BY <3>1, <3>2, <4>2, <4>3 DEF Justified
    <3>4. QED BY <1>a, <3>1, <3>3 DEF JustInv
  <2>3. CASE ~AppendStart /\ \A t \in Thread : ~ApplyRule(t)
    <3>1. \A t \in Thread : sends'[t] \subseteq sends[t] BY <2>3, SendsShrink
    <3>2. QED BY <1>a, <3>1 DEF JustInv
  <2>4. QED BY <2>1, <2>2, <2>3
<1>2. CASE SamePlaces
  <2>1. \A t \in Posting' : Justified(post'[t], result')
    BY <1>2, <1>a DEF SamePlaces, JustInv
  <2>2. \A i \in 1 .. Len(items') : Justified(items'[i], result')
    BY <1>2, <1>a DEF SamePlaces, JustInv
  <2>3. \A w \in Handling' : Justified(job'[w], result')
    <3>1. Handling' \subseteq Handling BY <1>2 DEF SamePlaces, Handling
    <3>2. QED BY <1>2, <3>1, <1>a DEF SamePlaces, JustInv
  <2>4. QED BY <1>1, <2>1, <2>2, <2>3 DEF JustInv
<1>3. ASSUME NEW w \in Worker, Take(w) PROVE JustInv'
  <2>1. /\ Posting' = Posting /\ Handling' = Handling \cup {w} /\ w \notin Handling
        /\ post' = post /\ job'[w] = items[1] /\ 1 \in 1 .. Len(items)
    BY <1>3, TakePlaces DEF Handling
  <2>2. \A u \in Handling : job'[u] = job[u]
    BY <1>3, TakePlaces DEF Handling, Early, Late, Thread
  <2>3. \A i \in 1 .. Len(items') : i + 1 \in 1 .. Len(items) /\ items'[i] = items[i + 1]
    BY <1>3, TakePlaces
  <2>4. \A i \in 1 .. Len(items') : Justified(items'[i], result')
    BY <1>a, <2>3 DEF JustInv
  <2>5. \A u \in Handling' : Justified(job'[u], result')
    BY <1>a, <2>1, <2>2 DEF JustInv
  <2>6. \A t \in Posting' : Justified(post'[t], result')
    BY <1>a, <2>1 DEF JustInv
  <2>7. QED BY <1>1, <2>4, <2>5, <2>6 DEF JustInv
<1>4. ASSUME NEW w \in Worker, Merge(w) PROVE JustInv'
  <2>1. Posting' = Posting /\ Handling' = Handling /\ UNCHANGED <<items, post, job>>
    BY <1>4, MergePlaces DEF Handling
  <2>2. QED BY <1>1, <1>a, <2>1 DEF JustInv
<1>5. ASSUME NEW t \in Thread, MarkSeen(t) PROVE JustInv'
  <2>1. PICK ql \in sends[t] :
          /\ Posting' = Posting \cup {t} /\ Early' = Early /\ Late' = Late
          /\ post'[t] = ql /\ \A u \in Thread \ {t} : post'[u] = post[u]
          /\ UNCHANGED <<items, job>>
    BY <1>5, MarkSeenPlaces
  <2>2. \A u \in Posting' : Justified(post'[u], result')
    BY <1>a, <2>1 DEF JustInv, Posting
  <2>3. Handling' = Handling BY <2>1 DEF Handling
  <2>4. QED BY <1>1, <1>a, <2>1, <2>2, <2>3 DEF JustInv
<1>6. ASSUME NEW t \in Thread, Put(t) PROVE JustInv'
  <2>1. /\ Posting' = Posting \ {t} /\ t \in Posting /\ Handling' = Handling
        /\ UNCHANGED <<job, post>>
    BY <1>6, PutPlaces DEF Handling
  <2>2. \A i \in 1 .. Len(items') :
           items'[i] = post[t] \/ (i \in 1 .. Len(items) /\ items'[i] = items[i])
    BY <1>6, PutPlaces
  <2>3. \A i \in 1 .. Len(items') : Justified(items'[i], result')
    BY <1>a, <2>1, <2>2 DEF JustInv
  <2>4. QED BY <1>1, <1>a, <2>1, <2>3 DEF JustInv
<1>7. QED BY <1>2, <1>3, <1>4, <1>5, <1>6, Kinds, SamePlacesStep

LEMMA JustInit == Init => JustInv
<1> SUFFICES ASSUME Init PROVE JustInv
  OBVIOUS
<1>1. \A t \in Thread : pc[t] \in {"start", "get"} /\ sends[t] = {} BY DEF Init
<1>2. Posting = {} /\ Handling = {}
  BY <1>1 DEF Posting, Early, Late, Handling, Thread
<1>3. items = <<>> /\ Len(items) = 0 BY DEF Init
<1>4. QED BY <1>1, <1>2, <1>3 DEF JustInv

THEOREM JustInvariant == Spec => [](ClaimInv /\ JustInv)
<1>1. Init => ClaimInv
  BY ScopeAssumption, TraverserAssumption DEF Init, ClaimInv, ClaimedOnce, Thread
<1>2. Shape /\ JobOK /\ ClaimInv /\ JustInv /\ [Next]_vars => ClaimInv' /\ JustInv'
  BY ClaimStep, JustStep
<1>3. QED BY JustInit, <1>1, <1>2, ShapeInvariant, PTL DEF Spec

-----------------------------------------------------------------------------
(* The counts.                                                             *)

\* Where the object of a count comes from: a query adds only objects of its
\* node, and nothing before it is recorded; until its worker has applied the
\* status rules it has no statuses, and until the worker has recorded it on
\* its line no line counts its objects.
CountInv ==
  /\ \A q \in Query \ asked : added[q] = {} /\ statused[q] = {}
  /\ \A q \in Query : added[q] \subseteq result[QueryClass[q]]
  /\ \A w \in Late : fresh[w] = added[job[w].query] /\ statused[job[w].query] = {}
  /\ \A q \in Query : \/ statused[q] = added[q] \cap HasStatus
                      \/ \E w \in Late : job[w].query = q
  /\ \A l \in Lines : \A o \in lineAdded[l] : \E q \in Asked(l.goal) :
       o \in added[q] /\ \A w \in Worker : pc[w] = "line" => job[w].query # q
  /\ CountedOnce

\* A step that records and counts nothing keeps CountInv.
LEMMA CountKept ==
  ASSUME CountInv, UNCHANGED <<asked, added, lineAdded, statused>>,
         \A c \in Class : result[c] \subseteq result'[c] /\ result'[c] \ StartObjects \subseteq result[c],
         Late' = Late, \A w \in Late : pc'[w] = pc[w] /\ job'[w] = job[w] /\ fresh'[w] = fresh[w]
  PROVE  CountInv'
<1> USE ScopeAssumption
<1>1. \A c : Asked(c)' = Asked(c) BY DEF Asked
<1>2. \A q \in Query : added'[q] \subseteq result'[QueryClass[q]] BY DEF CountInv
<1>3. \A w \in Worker : pc'[w] = "line" => pc[w] = "line" /\ job'[w] = job[w]
  BY DEF Late
<1>4. \A l \in Lines : \A o \in lineAdded'[l] : \E q \in Asked(l.goal)' :
        o \in added'[q] /\ \A w \in Worker : pc'[w] = "line" => job'[w].query # q
  BY <1>1, <1>3 DEF CountInv
<1>5. CountedOnce'
  <2>1. \A c \in Class :
          result'[c] \ StartObjects \subseteq UNION {added'[q] : q \in Asked(c)'}
    <3>1. ASSUME NEW c \in Class
          PROVE  result'[c] \ StartObjects \subseteq UNION {added[q] : q \in Asked(c)}
      BY DEF CountInv, CountedOnce
    <3>2. QED BY <1>1, <3>1
  <2>2. QED BY <2>1 DEF CountInv, CountedOnce
<1>6. \A w \in Late' : fresh'[w] = added'[job'[w].query] /\ statused'[job'[w].query] = {}
  <2>1. ASSUME NEW w \in Late
        PROVE  fresh'[w] = added[job[w].query] /\ job'[w] = job[w] /\ statused[job[w].query] = {}
    BY DEF CountInv
  <2>2. QED BY <2>1
<1>7. \A q \in Query : \/ statused'[q] = added'[q] \cap HasStatus
                       \/ \E w \in Late' : job'[w].query = q
  BY DEF CountInv
<1>8. QED BY <1>2, <1>4, <1>5, <1>6, <1>7 DEF CountInv

\* The steps that record and count nothing.
LEMMA CountQuiet ==
  ASSUME Shape, JobOK,
         \/ Still
         \/ AppendStart
         \/ \E w \in Worker : Take(w)
         \/ \E t \in Thread : \/ Claim(t) \/ ApplyRule(t) \/ Applied(t) \/ Drop(t)
                              \/ MarkSeen(t) \/ Put(t)
  PROVE  /\ UNCHANGED <<asked, added, lineAdded, statused>>
         /\ \A c \in Class : result[c] \subseteq result'[c] /\ result'[c] \ StartObjects \subseteq result[c]
         /\ Late' = Late /\ \A w \in Late : pc'[w] = pc[w] /\ job'[w] = job[w] /\ fresh'[w] = fresh[w]
<1> USE ScopeAssumption, TraverserAssumption
<1>a. \A w \in Worker : w \in Thread /\ w # Main
  BY DEF Thread
<1>b. ASSUME NEW t \in Thread, NEW l, GoTo(t, l), pc[t] \notin {"line", "status"},
             l \notin {"line", "status"}, \A u \in Thread \ {t} : job'[u] = job[u], fresh' = fresh
      PROVE  Late' = Late /\ \A w \in Late : pc'[w] = pc[w] /\ job'[w] = job[w] /\ fresh'[w] = fresh[w]
  <2>1. pc'[t] = l /\ \A u \in Thread \ {t} : pc'[u] = pc[u] BY <1>b, GoToOthers
  <2>2. QED BY <1>a, <1>b, <2>1 DEF Late
<1> USE DEF shared, nodes, local
<1>1. CASE Still
  <2>1. Late' = Late /\ \A w \in Late : job'[w] = job[w]
    BY <1>1, StillPlaces DEF SamePlaces, Handling
  <2>2. \A w \in Late : pc'[w] = pc[w] BY <1>1, <1>a DEF Still, Late, Moves
  <2>3. QED BY <1>1, <2>1, <2>2 DEF Still
<1>2. CASE AppendStart
  <2>1. /\ result' = [result EXCEPT ![StartClass] = @ \cup StartObjects]
        /\ pc[Main] = "append" /\ GoTo(Main, "prime")
        /\ UNCHANGED <<asked, added, lineAdded, statused, job, fresh>>
    BY <1>2 DEF AppendStart
  <2>2. Main \in Thread BY DEF Thread
  <2>3. QED BY <1>b, <2>1, <2>2 DEF Shape
<1>3. ASSUME NEW w \in Worker, Take(w)
      PROVE  /\ UNCHANGED <<result, asked, added, lineAdded, statused, fresh>>
             /\ pc[w] = "get" /\ GoTo(w, "admit") /\ \A u \in Thread \ {w} : job'[u] = job[u]
  BY <1>3, TakePlaces DEF Take
<1>4. ASSUME NEW t \in Thread, Claim(t) \/ Applied(t) \/ MarkSeen(t) \/ Put(t)
      PROVE  /\ UNCHANGED <<result, asked, added, lineAdded, statused, fresh, job>>
             /\ pc[t] \notin {"line", "status"} /\ \E l \in {"apply", "finish", "add", "signal"} : GoTo(t, l)
  BY <1>4 DEF Claim, Applied, MarkSeen, Dispatching, Put
<1>5. ASSUME NEW t \in Thread, ApplyRule(t) \/ Drop(t)
      PROVE  UNCHANGED <<pc, result, asked, added, lineAdded, statused, fresh, job>>
  BY <1>5 DEF ApplyRule, Drop
<1>6. ASSUME NEW w \in Worker, Take(w)
      PROVE  Late' = Late /\ \A u \in Late : pc'[u] = pc[u] /\ job'[u] = job[u] /\ fresh'[u] = fresh[u]
  BY <1>a, <1>b, <1>3, <1>6
<1>7. ASSUME NEW t \in Thread, Claim(t) \/ Applied(t) \/ MarkSeen(t) \/ Put(t)
      PROVE  Late' = Late /\ \A u \in Late : pc'[u] = pc[u] /\ job'[u] = job[u] /\ fresh'[u] = fresh[u]
  <2>1. PICK l \in {"apply", "finish", "add", "signal"} : GoTo(t, l) BY <1>4, <1>7
  <2>2. QED BY <1>b, <1>4, <1>7, <2>1
<1>8. CASE UNCHANGED <<pc, result, asked, added, lineAdded, statused, fresh, job>>
  BY <1>8 DEF Late
<1>9. QED BY <1>1, <1>2, <1>3, <1>4, <1>5, <1>6, <1>7, <1>8

LEMMA CountStep ==
  ASSUME Shape, JobOK, OnceInv, JustInv, CountInv, [Next]_vars
  PROVE  CountInv'
<1> USE ScopeAssumption, TraverserAssumption
<1>a. \A u \in Worker : u \in Thread BY DEF Thread
<1>1. ASSUME NEW w \in Worker, Merge(w) PROVE CountInv'
  <2> DEFINE q == job[w].query
             c == QueryClass[job[w].query]
  <2>1. q \in Query /\ c \in Class BY <1>1, MergeNodes
  <2>2. PICK objects \in Answers[q] :
          /\ result'[c] = result[c] \cup objects
          /\ \A d \in Class \ {c} : result'[d] = result[d]
          /\ added'[q] = objects \ result[c]
          /\ \A p \in Query \ {q} : added'[p] = added[p]
          /\ fresh'[w] = objects \ result[c] /\ \A t \in Thread \ {w} : fresh'[t] = fresh[t]
    BY <1>1, MergeNodes DEF New
  <2>3. /\ Late' = Late \cup {w} /\ w \in Early /\ w \notin Late
        /\ pc'[w] = (IF job[w].line = None THEN "status" ELSE "line")
        /\ \A u \in Thread \ {w} : pc'[u] = pc[u]
        /\ asked' = asked \cup {q} /\ job' = job /\ UNCHANGED <<lineAdded, statused>>
    BY <1>1, MergePlaces, MergeNodes
  <2> HIDE DEF q, c
  <2>4. q \notin asked /\ added[q] = {} /\ statused[q] = {}
    BY <2>1, <2>3 DEF OnceInv, CountInv, q
  <2>5. \A u \in Late : job[u].query # q /\ job[u].query \in asked
    BY <2>3, <2>4 DEF OnceInv, q
  <2>5b. asked \subseteq Query BY DEF Shape
  <2>6. \A d : Asked(d)' = IF d = c THEN Asked(d) \cup {q} ELSE Asked(d)
    BY <2>3 DEF Asked, c, q
  <2>7. \A p \in Query \ asked' : added'[p] = {} /\ statused'[p] = {}
    BY <2>2, <2>3 DEF CountInv
  <2>8. \A p \in Query : added'[p] \subseteq result'[QueryClass[p]]
    <3>1. ASSUME NEW p \in Query PROVE added'[p] \subseteq result'[QueryClass[p]]
      <4>1. CASE p = q BY <2>2, <4>1 DEF c, q
      <4>2. CASE p # q
        <5>1. added'[p] \subseteq result[QueryClass[p]] /\ QueryClass[p] \in Class
          BY <2>2, <4>2 DEF CountInv
        <5>2. QED BY <2>2, <5>1
      <4>3. QED BY <4>1, <4>2
    <3>2. QED BY <3>1
  <2>9. \A u \in Late' : fresh'[u] = added'[job'[u].query] /\ statused'[job'[u].query] = {}
    <3>1. ASSUME NEW u \in Late PROVE fresh'[u] = added'[job'[u].query] /\ statused'[job'[u].query] = {}
      <4>1. job[u].query \in Query \ {q} BY <2>5, <2>5b
      <4>2. u \in Thread /\ u # w BY <2>3, <1>a DEF Late
      <4>3. QED BY <2>2, <2>3, <4>1, <4>2 DEF CountInv
    <3>2. fresh'[w] = added'[job'[w].query] /\ statused'[job'[w].query] = {}
      BY <2>2, <2>3, <2>4 DEF q
    <3>3. QED BY <2>3, <3>1, <3>2
  <2>10. \A p \in Query : \/ statused'[p] = added'[p] \cap HasStatus
                          \/ \E u \in Late' : job'[u].query = p
    <3>1. ASSUME NEW p \in Query PROVE \/ statused'[p] = added'[p] \cap HasStatus
                                      \/ \E u \in Late' : job'[u].query = p
      <4>1. CASE p = q BY <2>3, <4>1 DEF q
      <4>2. CASE p # q BY <2>2, <2>3, <4>2 DEF CountInv
      <4>3. QED BY <4>1, <4>2
    <3>2. QED BY <3>1
  <2>11. \A l \in Lines : \A o \in lineAdded'[l] : \E p \in Asked(l.goal)' :
           o \in added'[p] /\ \A u \in Worker : pc'[u] = "line" => job'[u].query # p
    <3>1. ASSUME NEW l \in Lines, NEW o \in lineAdded'[l]
          PROVE  \E p \in Asked(l.goal)' :
                   o \in added'[p] /\ \A u \in Worker : pc'[u] = "line" => job'[u].query # p
      <4>1. PICK p \in Asked(l.goal) :
              o \in added[p] /\ \A u \in Worker : pc[u] = "line" => job[u].query # p
        BY <2>3 DEF CountInv
      <4>2. p \in Asked(l.goal)' BY <2>6
      <4>3. p \in asked /\ p \in Query /\ p # q BY <2>4, <2>5b DEF Asked
      <4>4. o \in added'[p] BY <2>2, <4>1, <4>3
      <4>5. \A u \in Worker : pc'[u] = "line" => job'[u].query # p
        BY <1>a, <2>3, <4>1, <4>3 DEF q
      <4>6. QED BY <4>2, <4>4, <4>5
    <3>2. QED BY <3>1
  <2>12. CountedOnce'
    <3>1. ASSUME NEW d \in Class, NEW o \in result'[d] \ StartObjects
          PROVE  \E p \in Asked(d)' : o \in added'[p]
      <4>1. CASE o \in result[d]
        <5>1. PICK p \in Asked(d) : o \in added[p] BY <4>1, <3>1 DEF CountInv, CountedOnce
        <5>2. p \in asked /\ p \in Query /\ p # q BY <2>4, <2>5b DEF Asked
        <5>3. QED BY <2>2, <2>6, <5>1, <5>2
      <4>2. CASE o \notin result[d]
        <5>1. d = c /\ o \in added'[q] BY <2>2, <3>1, <4>2
        <5>2. QED BY <2>6, <5>1
      <4>3. QED BY <4>1, <4>2
    <3>2. \A p, r \in Query :
            p # r /\ QueryClass[p] = QueryClass[r] => added'[p] \cap added'[r] = {}
      <4>1. ASSUME NEW p \in Query \ {q}, QueryClass[p] = c PROVE added'[p] \cap added'[q] = {}
        <5>1. added'[p] \subseteq result[c] BY <2>2, <4>1 DEF CountInv
        <5>2. QED BY <2>2, <5>1
      <4>2. \A p, r \in Query \ {q} :
              p # r /\ QueryClass[p] = QueryClass[r] => added'[p] \cap added'[r] = {}
        BY <2>2 DEF CountInv, CountedOnce
      <4>3. QED BY <4>1, <4>2 DEF c, q
    <3>3. \A k, l \in Lines :
            k # l /\ k.goal = l.goal => lineAdded'[k] \cap lineAdded'[l] = {}
      BY <2>3 DEF CountInv, CountedOnce
    <3>4. QED BY <3>1, <3>2, <3>3 DEF CountedOnce
  <2>13. QED BY <2>7, <2>8, <2>9, <2>10, <2>11, <2>12 DEF CountInv
<1>2. ASSUME NEW w \in Worker, RecordLine(w) PROVE CountInv'
  <2> DEFINE q == job[w].query
  <2>1. /\ pc[w] = "line" /\ GoTo(w, "status")
        /\ lineAdded' = [lineAdded EXCEPT ![job[w].line] = @ \cup fresh[w]]
        /\ UNCHANGED <<asked, result, added, statused, job, fresh>>
    BY <1>2 DEF RecordLine, local
  <2>2. pc'[w] = "status" /\ \A u \in Thread \ {w} : pc'[u] = pc[u] BY <1>a, <2>1, GoToOthers
  <2>3. Late' = Late /\ w \in Late BY <1>a, <2>1, <2>2 DEF Late
  <2>4. job[w].line \in Lines /\ job[w].line # None BY <2>1 DEF JobOK
  <2>5. job[w].line.goal = QueryClass[q]
    <3>1. Justified(job[w], result) BY <2>3 DEF JustInv, Handling
    <3>2. PICK c \in Class, r \in Rule : job[w].line = LineOf(c, r, job[w].query)
      BY <2>4, <3>1 DEF Justified
    <3>3. QED BY <3>2 DEF LineOf
  <2>6. q \in asked /\ fresh[w] = added[q] BY <2>3 DEF OnceInv, CountInv
  <2>7. q \in Asked(job[w].line.goal) BY <2>5, <2>6 DEF Asked
  <2>8. \A u \in Worker : pc'[u] = "line" => pc[u] = "line" /\ job[u].query # q
    BY <1>a, <2>2, <2>3 DEF OnceInv, Handling, Late
  <2>9. lineAdded'[job[w].line] = lineAdded[job[w].line] \cup fresh[w]
        /\ \A l \in Lines \ {job[w].line} : lineAdded'[l] = lineAdded[l]
    BY <2>1, <2>4 DEF Shape
  <2>10. \A d : Asked(d)' = Asked(d) BY <2>1 DEF Asked
  <2> HIDE DEF q
  <2>11. \A l \in Lines : \A o \in lineAdded'[l] : \E p \in Asked(l.goal)' :
           o \in added'[p] /\ \A u \in Worker : pc'[u] = "line" => job'[u].query # p
    <3>1. ASSUME NEW l \in Lines, NEW o \in lineAdded'[l]
          PROVE  \E p \in Asked(l.goal) :
                   o \in added[p] /\ \A u \in Worker : pc'[u] = "line" => job[u].query # p
      <4>1. CASE o \in lineAdded[l]
        BY <4>1, <2>8 DEF CountInv
      <4>2. CASE o \notin lineAdded[l]
        <5>1. l = job[w].line /\ o \in added[q] BY <2>6, <2>9, <3>1, <4>2
        <5>2. QED BY <2>7, <2>8, <5>1
      <4>3. QED BY <4>1, <4>2
    <3>2. QED BY <2>1, <2>10, <3>1
  <2>12. ASSUME NEW k \in Lines, NEW l \in Lines, k # l, k.goal = l.goal
         PROVE  lineAdded'[k] \cap lineAdded'[l] = {}
    <3>1. ASSUME NEW n \in Lines, n # job[w].line, n.goal = job[w].line.goal
          PROVE  lineAdded[n] \cap fresh[w] = {}
      <4>1. SUFFICES ASSUME NEW o \in lineAdded[n], o \in fresh[w] PROVE FALSE
        OBVIOUS
      <4>2. PICK p \in Asked(n.goal) :
              o \in added[p] /\ \A u \in Worker : pc[u] = "line" => job[u].query # p
        BY DEF CountInv
      <4>3. p # q BY <2>1, <4>2 DEF q
      <4>4. p \in Query /\ q \in Query /\ QueryClass[p] = QueryClass[q]
        BY <2>5, <2>6, <3>1 DEF Asked, Shape, q
      <4>5. added[p] \cap added[q] = {} BY <4>3, <4>4 DEF CountInv, CountedOnce
      <4>6. QED BY <2>6, <4>1, <4>2, <4>5
    <3>2. lineAdded[k] \cap lineAdded[l] = {} BY <2>12 DEF CountInv, CountedOnce
    <3>3. CASE k = job[w].line BY <2>9, <2>12, <3>1, <3>2, <3>3
    <3>4. CASE l = job[w].line BY <2>9, <2>12, <3>1, <3>2, <3>4
    <3>5. CASE k # job[w].line /\ l # job[w].line BY <2>9, <3>2, <3>5
    <3>6. QED BY <3>3, <3>4, <3>5
  <2>13. CountedOnce'
    BY <2>1, <2>10, <2>12 DEF CountInv, CountedOnce
  <2>14. QED BY <2>1, <2>3, <2>11, <2>13 DEF CountInv
<1>3. ASSUME NEW w \in Worker, AddStatuses(w) PROVE CountInv'
  <2> DEFINE q == job[w].query
  <2>1. /\ pc[w] = "status" /\ GoTo(w, "claim")
        /\ statused' = [statused EXCEPT ![q] = @ \cup (fresh[w] \cap HasStatus)]
        /\ fresh' = [fresh EXCEPT ![w] = {}]
        /\ UNCHANGED <<asked, result, added, lineAdded, job>>
    BY <1>3 DEF AddStatuses
  <2>2. pc'[w] = "claim" /\ \A u \in Thread \ {w} : pc'[u] = pc[u] BY <1>a, <2>1, GoToOthers
  <2>3. Late' = Late \ {w} /\ w \in Late BY <1>a, <2>1, <2>2 DEF Late
  <2>4. q \in asked /\ q \in Query /\ fresh[w] = added[q] /\ statused[q] = {}
    BY <2>3 DEF OnceInv, CountInv, Shape
  <2>5. statused'[q] = added[q] \cap HasStatus /\ \A p \in Query \ {q} : statused'[p] = statused[p]
    BY <2>1, <2>4 DEF Shape
  <2>6. \A u \in Late' : fresh'[u] = fresh[u] /\ job[u].query \in Query \ {q}
    BY <1>a, <2>1, <2>3 DEF Shape, OnceInv, Handling, Late
  <2>7. \A d : Asked(d)' = Asked(d) BY <2>1 DEF Asked
  <2> HIDE DEF q
  <2>8. \A p \in Query \ asked' : added'[p] = {} /\ statused'[p] = {}
    BY <2>1, <2>4, <2>5 DEF CountInv
  <2>9. \A u \in Late' : fresh'[u] = added'[job'[u].query] /\ statused'[job'[u].query] = {}
    BY <2>1, <2>3, <2>5, <2>6 DEF CountInv
  <2>10. \A p \in Query : \/ statused'[p] = added'[p] \cap HasStatus
                          \/ \E u \in Late' : job'[u].query = p
    <3>1. ASSUME NEW p \in Query, p # q, statused[p] # added[p] \cap HasStatus
          PROVE  \E u \in Late' : job'[u].query = p
      <4>1. PICK u \in Late : job[u].query = p BY <3>1 DEF CountInv
      <4>2. u # w BY <3>1, <4>1 DEF q
      <4>3. QED BY <2>1, <2>3, <4>1, <4>2
    <3>2. QED BY <2>1, <2>5, <3>1
  <2>11. \A l \in Lines : \A o \in lineAdded'[l] : \E p \in Asked(l.goal)' :
           o \in added'[p] /\ \A u \in Worker : pc'[u] = "line" => job'[u].query # p
    <3>1. \A u \in Worker : pc'[u] = "line" => pc[u] = "line" BY <1>a, <2>2
    <3>2. QED BY <2>1, <2>7, <3>1 DEF CountInv
  <2>12. CountedOnce' BY <2>1, <2>7 DEF CountInv, CountedOnce
  <2>13. QED BY <2>1, <2>8, <2>9, <2>10, <2>11, <2>12 DEF CountInv
<1>4. QED
  BY <1>1, <1>2, <1>3, Kinds, CountQuiet, CountKept

LEMMA CountInit == Init => CountInv
<1> USE ScopeAssumption
<1> SUFFICES ASSUME Init PROVE CountInv
  OBVIOUS
<1>1. \A t \in Thread : pc[t] \in {"start", "get"} BY DEF Init
<1>2. Late = {} BY <1>1 DEF Late, Thread
<1>3. /\ \A q \in Query : added[q] = {} /\ statused[q] = {}
      /\ \A l \in Lines : lineAdded[l] = {}
      /\ \A c \in Class : result[c] = {}
  BY DEF Init
<1>4. CountedOnce BY <1>3 DEF CountedOnce
<1>5. QED BY <1>2, <1>3, <1>4 DEF CountInv

\* What a search has done is known: when run has returned no worker is inside
\* handleQuery any more.
LEMMA DoneQuiet ==
  ASSUME Shape, WorkAccounted, Quiet, pc[Main] \in {"close", "broadcast", "join", "done"}
  PROVE  items = <<>> /\ Busy = {} /\ Late = {} /\ Early = {} /\ Posting = {}
<1>1. items = <<>> /\ Busy = {} /\ Putting = {} BY ZeroIsQuiet DEF Quiet
<1>2. Late = {} /\ Early = {} BY <1>1 DEF Late, Early, Busy
<1>3. Posting = {} BY <1>1 DEF Posting, Busy, Thread
<1>4. QED BY <1>1, <1>2, <1>3

\* The counts of objects and statuses that a client is shown are exact: every
\* object found beyond the start objects is counted by one query and by at most
\* one line to its class, and when run returns the statuses are complete.
THEOREM CountsExactAlways == Spec => []CountsExact
<1>1. Init => OnceInv /\ CountInv BY OnceInit, CountInit
<1>2. Shape /\ JobOK /\ OnceInv /\ JustInv /\ CountInv /\ [Next]_vars => OnceInv' /\ CountInv'
  BY OnceStep, CountStep
<1>3. Shape /\ WorkAccounted /\ Quiet /\ CountInv => CountsExact
  <2> SUFFICES ASSUME Shape, WorkAccounted, Quiet, CountInv, Done
               PROVE  \A q \in Query : statused[q] = added[q] \cap HasStatus
    BY DEF CountsExact, StatusComplete, CountInv
  <2>1. Late = {} BY DoneQuiet DEF Done
  <2>2. QED BY <2>1 DEF CountInv
<1>4. QED BY <1>1, <1>2, <1>3, ShapeInvariant, JustInvariant, WorkAccountedAlways, QuietInvariant, PTL DEF Spec

-----------------------------------------------------------------------------
(* The result graph.                                                       *)

\* Lines that are credited with objects or are about to be.
Credited(l) ==
  \/ lineAdded[l] # {}
  \/ \E w \in Worker : pc[w] = "line" /\ job[w].line = l /\ fresh[w] # {}

\* ResultConnected at every moment, with the lines about to be credited taken as
\* credited: whatever set of classes holds the starts that have objects and is
\* closed under credited lines holds every class that has objects.
ConnInv ==
  /\ \A w \in Worker : pc[w] \in {"check", "query", "merge"} => QueryClass[job[w].query] \in Nodes
  /\ \A c \in Class : result[c] # {} => c \in Nodes
  /\ \A l \in Lines : Credited(l) => result[l.start] # {} /\ result[l.goal] # {}
  /\ \A X \in SUBSET Class :
       /\ \A c \in Starts : result[c] # {} => c \in X
       /\ \A l \in Lines : Credited(l) /\ l.start \in X => l.goal \in X
       => \A c \in Class : result[c] # {} => c \in X

\* A query that runs is one whose class has a node.
LEMMA ScopeStep ==
  ASSUME Shape, JobOK, [Next]_vars,
         \A w \in Worker : pc[w] \in {"check", "query", "merge"} => QueryClass[job[w].query] \in Nodes
  PROVE  \A w \in Worker : pc'[w] \in {"check", "query", "merge"} => QueryClass[job'[w].query] \in Nodes
<1> USE TraverserAssumption
<1>a. \A w \in Worker : w \in Thread /\ w # Main
  BY DEF Thread
<1>b. ASSUME NEW t \in Thread, NEW l, GoTo(t, l), l \notin {"check", "query", "merge"},
             \A u \in Thread \ {t} : job'[u] = job[u]
      PROVE  \A w \in Worker : pc'[w] \in {"check", "query", "merge"} => QueryClass[job'[w].query] \in Nodes
  <2>1. pc'[t] = l /\ \A u \in Thread \ {t} : pc'[u] = pc[u] BY <1>b, GoToOthers
  <2>2. QED BY <1>a, <1>b, <2>1
<1> USE DEF shared, nodes, local
<1>1. CASE Still
  <2>1. ASSUME NEW w \in Worker, pc'[w] \in {"check", "query", "merge"}
        PROVE  QueryClass[job'[w].query] \in Nodes
    <3>1. pc[w] \in {"admit", "check", "query", "merge"} /\ job'[w] = job[w]
      BY <1>1, <1>a, <2>1 DEF Still, Moves
    <3>2. CASE pc[w] = "admit" BY <1>1, <1>a, <2>1, <3>1, <3>2 DEF Still, Moves
    <3>3. CASE pc[w] # "admit" BY <3>1, <3>3
    <3>4. QED BY <3>2, <3>3
  <2>2. QED BY <2>1
<1>2. CASE AppendStart
  <2>1. GoTo(Main, "prime") /\ job' = job /\ Main \in Thread BY <1>2 DEF AppendStart, Thread
  <2>2. QED BY <1>b, <2>1
<1>3. ASSUME NEW w \in Worker, Take(w) \/ Merge(w) \/ RecordLine(w) \/ AddStatuses(w)
      PROVE  \A u \in Worker : pc'[u] \in {"check", "query", "merge"} => QueryClass[job'[u].query] \in Nodes
  <2>1. \A u \in Thread \ {w} : job'[u] = job[u]
    BY <1>3, TakePlaces DEF Merge, RecordLine, AddStatuses
  <2>2. PICK l \in {"admit", "status", "line", "claim"} : GoTo(w, l)
    <3>1. ASSUME Merge(w) PROVE GoTo(w, IF job[w].line = None THEN "status" ELSE "line")
      BY <3>1 DEF Merge
    <3>2. QED BY <1>3, <3>1 DEF Take, RecordLine, AddStatuses
  <2>3. QED BY <1>a, <1>b, <2>1, <2>2
<1>4. ASSUME NEW t \in Thread, Claim(t) \/ Applied(t) \/ MarkSeen(t) \/ Put(t)
      PROVE  \A u \in Worker : pc'[u] \in {"check", "query", "merge"} => QueryClass[job'[u].query] \in Nodes
  <2>1. job' = job /\ \E l \in {"apply", "finish", "add", "signal"} : GoTo(t, l)
    BY <1>4 DEF Claim, Applied, MarkSeen, Put
  <2>2. PICK l \in {"apply", "finish", "add", "signal"} : GoTo(t, l) BY <2>1
  <2>3. QED BY <1>b, <2>1, <2>2
<1>5. ASSUME NEW t \in Thread, ApplyRule(t) \/ Drop(t)
      PROVE  \A u \in Worker : pc'[u] \in {"check", "query", "merge"} => QueryClass[job'[u].query] \in Nodes
  BY <1>5 DEF ApplyRule, Drop
<1>6. QED BY <1>1, <1>2, <1>3, <1>4, <1>5, Kinds

\* A step that credits no other lines and lets no other class have objects than
\* the start class keeps the last three parts of ConnInv.
LEMMA ConnKept ==
  ASSUME ConnInv, \A l \in Lines : Credited(l)' <=> Credited(l),
         \A c \in Class : result[c] \subseteq result'[c],
         \A c \in Class : result'[c] # {} => result[c] # {} \/ c = StartClass
  PROVE  /\ \A c \in Class : result'[c] # {} => c \in Nodes
         /\ \A l \in Lines : Credited(l)' => result'[l.start] # {} /\ result'[l.goal] # {}
         /\ \A X \in SUBSET Class :
              /\ \A c \in Starts : result'[c] # {} => c \in X
              /\ \A l \in Lines : Credited(l)' /\ l.start \in X => l.goal \in X
              => \A c \in Class : result'[c] # {} => c \in X
<1> USE ScopeAssumption
<1>1. StartClass \in Nodes /\ StartClass \in Starts /\ Starts \subseteq Class
  BY DEF Nodes, Starts
<1>2. \A c \in Class : result'[c] # {} => c \in Nodes BY <1>1 DEF ConnInv
<1>3. \A l \in Lines : l.start \in Class /\ l.goal \in Class BY DEF Line
<1>4. \A l \in Lines : Credited(l)' => result'[l.start] # {} /\ result'[l.goal] # {}
  <2>1. ASSUME NEW l \in Lines, Credited(l)' PROVE result'[l.start] # {} /\ result'[l.goal] # {}
    <3>1. result[l.start] # {} /\ result[l.goal] # {} BY <2>1 DEF ConnInv
    <3>2. result[l.start] \subseteq result'[l.start] /\ result[l.goal] \subseteq result'[l.goal]
      BY <1>3
    <3>3. QED BY <3>1, <3>2
  <2>2. QED BY <2>1
<1>5. ASSUME NEW X \in SUBSET Class,
             \A c \in Starts : result'[c] # {} => c \in X,
             \A l \in Lines : Credited(l)' /\ l.start \in X => l.goal \in X,
             NEW c \in Class, result'[c] # {}
      PROVE  c \in X
  <2>1. \A d \in Starts : result[d] # {} => d \in X
    <3>1. ASSUME NEW d \in Starts, result[d] # {} PROVE d \in X
      <4>1. result[d] \subseteq result'[d] BY <1>1
      <4>2. QED BY <1>5, <3>1, <4>1
    <3>2. QED BY <3>1
  <2>2. \A l \in Lines : Credited(l) /\ l.start \in X => l.goal \in X BY <1>5
  <2>3. \A d \in Class : result[d] # {} => d \in X BY <2>1, <2>2 DEF ConnInv
  <2>4. QED BY <1>1, <1>5, <2>3
<1>6. QED BY <1>2, <1>4, <1>5

LEMMA ConnStep ==
  ASSUME Shape, JobOK, OnceInv, JustInv, CountInv, ConnInv, [Next]_vars
  PROVE  ConnInv'
<1> USE ScopeAssumption, TraverserAssumption
<1>a. \A u \in Worker : u \in Thread BY DEF Thread
<1>b. \A w \in Worker : pc'[w] \in {"check", "query", "merge"} => QueryClass[job'[w].query] \in Nodes
  BY ScopeStep DEF ConnInv
<1>c. \A c \in Class : result[c] \subseteq result'[c] BY ResultGrows
<1>d. ASSUME \A l \in Lines : Credited(l)' <=> Credited(l),
             \A c \in Class : result'[c] # {} => result[c] # {} \/ c = StartClass
      PROVE  ConnInv'
  BY <1>b, <1>c, <1>d, ConnKept DEF ConnInv
<1>1. CASE \/ Still
           \/ AppendStart
           \/ \E w \in Worker : Take(w)
           \/ \E t \in Thread : \/ Claim(t) \/ ApplyRule(t) \/ Applied(t) \/ Drop(t)
                                \/ MarkSeen(t) \/ Put(t)
  <2>1. /\ lineAdded' = lineAdded /\ Late' = Late
        /\ \A w \in Late : pc'[w] = pc[w] /\ job'[w] = job[w] /\ fresh'[w] = fresh[w]
    BY <1>1, CountQuiet
  <2>2. \A w \in Worker : (pc'[w] = "line" => w \in Late) /\ (pc[w] = "line" => w \in Late)
    BY <2>1 DEF Late
  <2>3. ASSUME NEW l \in Lines PROVE Credited(l)' <=> Credited(l)
    BY <2>1, <2>2 DEF Credited
  <2>4. \A c \in Class : result'[c] # {} => result[c] # {} \/ c = StartClass
    <3>1. CASE AppendStart BY <3>1 DEF AppendStart, Shape
    <3>2. CASE ~AppendStart
      <4>1. result' = result
        BY <1>1, <3>2 DEF Still, Take, Claim, ApplyRule, Applied, Drop, MarkSeen, Put, nodes
      <4>2. QED BY <4>1
    <3>3. QED BY <3>1, <3>2
  <2>5. QED BY <1>d, <2>3, <2>4
<1>2. ASSUME NEW w \in Worker, AddStatuses(w) PROVE ConnInv'
  <2>1. /\ pc[w] = "status" /\ GoTo(w, "claim") /\ fresh' = [fresh EXCEPT ![w] = {}]
        /\ UNCHANGED <<lineAdded, result, job>>
    BY <1>2 DEF AddStatuses
  <2>2. pc'[w] = "claim" /\ \A u \in Thread \ {w} : pc'[u] = pc[u] /\ fresh'[u] = fresh[u]
    BY <1>a, <2>1, GoToOthers DEF Shape
  <2>3. ASSUME NEW l \in Lines PROVE Credited(l)' <=> Credited(l)
    BY <1>a, <2>1, <2>2 DEF Credited
  <2>4. QED BY <1>d, <2>1, <2>3
<1>3. ASSUME NEW w \in Worker, RecordLine(w) PROVE ConnInv'
  <2>1. /\ pc[w] = "line" /\ GoTo(w, "status")
        /\ lineAdded' = [lineAdded EXCEPT ![job[w].line] = @ \cup fresh[w]]
        /\ UNCHANGED <<result, job, fresh>>
    BY <1>3 DEF RecordLine, local
  <2>2. pc'[w] = "status" /\ \A u \in Thread \ {w} : pc'[u] = pc[u] BY <1>a, <2>1, GoToOthers
  <2>3. job[w].line \in Lines BY <2>1 DEF JobOK
  <2>4. lineAdded'[job[w].line] = lineAdded[job[w].line] \cup fresh[w]
        /\ \A l \in Lines \ {job[w].line} : lineAdded'[l] = lineAdded[l]
    BY <2>1, <2>3 DEF Shape
  <2>5. ASSUME NEW l \in Lines PROVE Credited(l)' <=> Credited(l)
    <3>1. CASE l = job[w].line
      <4>1. fresh[w] # {} => Credited(l) BY <2>1, <3>1 DEF Credited
      <4>2. ASSUME fresh[w] # {} PROVE Credited(l)'
        <5>1. lineAdded'[l] # {} BY <2>4, <3>1, <4>2
        <5>2. QED BY <5>1 DEF Credited
      <4>3. ASSUME fresh[w] = {} PROVE Credited(l)' <=> Credited(l)
        <5>1. lineAdded'[l] = lineAdded[l] BY <2>4, <3>1, <4>3
        <5>2. QED BY <1>a, <2>1, <2>2, <4>3, <5>1 DEF Credited
      <4>4. QED BY <4>1, <4>2, <4>3
    <3>2. CASE l # job[w].line
      <4>1. lineAdded'[l] = lineAdded[l] BY <2>4, <3>2
      <4>2. QED BY <1>a, <2>1, <2>2, <3>2, <4>1 DEF Credited
    <3>3. QED BY <3>1, <3>2
  <2>6. QED BY <1>d, <2>1, <2>5
<1>4. ASSUME NEW w \in Worker, Merge(w) PROVE ConnInv'
  <2> DEFINE q == job[w].query
             c == QueryClass[job[w].query]
  <2>1. q \in Query /\ c \in Class /\ lineAdded' = lineAdded BY <1>4, MergeNodes
  <2>2. PICK objects \in Answers[q] :
          /\ result'[c] = result[c] \cup objects
          /\ \A d \in Class \ {c} : result'[d] = result[d]
          /\ fresh'[w] = objects \ result[c] /\ \A t \in Thread \ {w} : fresh'[t] = fresh[t]
    BY <1>4, MergeNodes DEF New
  <2>3. /\ w \in Early /\ pc[w] = "merge" /\ job' = job
        /\ pc'[w] = (IF job[w].line = None THEN "status" ELSE "line")
        /\ \A u \in Thread \ {w} : pc'[u] = pc[u]
    BY <1>4, MergePlaces DEF Merge
  <2>4. c \in Nodes BY <2>3 DEF ConnInv
  <2>5. Justified(job[w], result) BY <2>3 DEF JustInv, Handling
  <2> HIDE DEF q, c
  <2>6. fresh'[w] # {} => result'[c] # {} BY <2>2
  <2>6b. fresh'[w] = {} => \A d \in Class : result'[d] = result[d] BY <2>2
  <2>7. \A d \in Class : result'[d] # {} => d \in Nodes
    BY <2>2, <2>4 DEF ConnInv
  <2>8. CASE job[w].line = None
    <3>1. ASSUME NEW l \in Lines PROVE Credited(l)' <=> Credited(l)
      BY <1>a, <2>1, <2>2, <2>3, <2>8 DEF Credited
    <3>2. c \in Starts
      <4>1. job[w].query \in StartQueries
        <5>1. None \notin Lines OBVIOUS
        <5>2. QED BY <2>5, <2>8, <5>1 DEF Justified, Yield
      <4>2. QED BY <4>1 DEF Starts, c
    <3>3. \A l \in Lines : Credited(l)' => result'[l.start] # {} /\ result'[l.goal] # {}
      <4>1. ASSUME NEW l \in Lines, Credited(l)' PROVE result'[l.start] # {} /\ result'[l.goal] # {}
        <5>1. result[l.start] # {} /\ result[l.goal] # {} BY <3>1, <4>1 DEF ConnInv
        <5>2. l.start \in Class /\ l.goal \in Class BY DEF Line
        <5>3. result[l.start] \subseteq result'[l.start] /\ result[l.goal] \subseteq result'[l.goal]
          BY <1>c, <5>2
        <5>4. QED BY <5>1, <5>3
      <4>2. QED BY <4>1
    <3>4. ASSUME NEW X \in SUBSET Class,
                 \A d \in Starts : result'[d] # {} => d \in X,
                 \A l \in Lines : Credited(l)' /\ l.start \in X => l.goal \in X,
                 NEW d \in Class, result'[d] # {}
          PROVE  d \in X
      <4>1. \A e \in Starts : result[e] # {} => e \in X
        <5>1. Starts \subseteq Class BY DEF Starts
        <5>2. ASSUME NEW e \in Starts, result[e] # {} PROVE e \in X
          <6>1. result[e] \subseteq result'[e] BY <1>c, <5>1
          <6>2. QED BY <3>4, <5>2, <6>1
        <5>3. QED BY <5>2
      <4>2. \A l \in Lines : Credited(l) /\ l.start \in X => l.goal \in X BY <3>1, <3>4
      <4>3. \A e \in Class : result[e] # {} => e \in X BY <4>1, <4>2 DEF ConnInv
      <4>4. CASE d = c BY <3>2, <3>4, <4>4
      <4>5. CASE d # c BY <2>2, <3>4, <4>3, <4>5
      <4>6. QED BY <4>4, <4>5
    <3>5. QED BY <1>b, <2>7, <3>3, <3>4 DEF ConnInv
  <2>9. CASE job[w].line # None
    <3> DEFINE k == job[w].line
    <3>1. PICK s \in Class, r \in Rule :
            /\ result[s] # {} /\ k = LineOf(s, r, q) /\ q \in Query /\ k \in Lines
      <4>1. PICK s \in Class, r \in Rule : \E o \in result[s] :
              job[w].query \in Yield(s, r, o) /\ job[w].line = LineOf(s, r, job[w].query)
        BY <2>5, <2>9 DEF Justified
      <4>2. QED BY <2>1, <4>1 DEF Yield, q
    <3>2. k.start = s /\ k.goal = c BY <3>1 DEF LineOf, c, q
    <3> HIDE DEF k
    <3>3. ASSUME NEW l \in Lines
          PROVE  Credited(l)' <=> Credited(l) \/ (l = k /\ fresh'[w] # {})
      BY <1>a, <2>1, <2>2, <2>3, <2>9 DEF Credited, k
    <3>4. result'[s] # {} BY <1>c, <3>1
    <3>5. \A l \in Lines : Credited(l)' => result'[l.start] # {} /\ result'[l.goal] # {}
      <4>1. ASSUME NEW l \in Lines, Credited(l)' PROVE result'[l.start] # {} /\ result'[l.goal] # {}
        <5>1. CASE Credited(l)
          <6>1. result[l.start] # {} /\ result[l.goal] # {} BY <5>1 DEF ConnInv
          <6>2. l.start \in Class /\ l.goal \in Class BY DEF Line
          <6>3. result[l.start] \subseteq result'[l.start] /\ result[l.goal] \subseteq result'[l.goal]
            BY <1>c, <6>2
          <6>4. QED BY <6>1, <6>3
        <5>2. CASE l = k /\ fresh'[w] # {} BY <2>6, <3>2, <3>4, <5>2
        <5>3. QED BY <3>3, <4>1, <5>1, <5>2
      <4>2. QED BY <4>1
    <3>6. ASSUME NEW X \in SUBSET Class,
                 \A d \in Starts : result'[d] # {} => d \in X,
                 \A l \in Lines : Credited(l)' /\ l.start \in X => l.goal \in X,
                 NEW d \in Class, result'[d] # {}
          PROVE  d \in X
      <4>1. \A e \in Starts : result[e] # {} => e \in X
        <5>1. Starts \subseteq Class BY DEF Starts
        <5>2. ASSUME NEW e \in Starts, result[e] # {} PROVE e \in X
          <6>1. result[e] \subseteq result'[e] BY <1>c, <5>1
          <6>2. QED BY <3>6, <5>2, <6>1
        <5>3. QED BY <5>2
      <4>2. \A l \in Lines : Credited(l) /\ l.start \in X => l.goal \in X BY <3>3, <3>6
      <4>3. \A e \in Class : result[e] # {} => e \in X BY <4>1, <4>2 DEF ConnInv
      <4>4. CASE d = c /\ fresh'[w] # {}
        <5>1. PICK n \in Lines : n = k BY <3>1
        <5>2. n.start = s /\ n.goal = c BY <3>2, <5>1
        <5>3. Credited(n)' BY <3>3, <4>4, <5>1
        <5>4. s \in X BY <3>1, <4>3
        <5>5. n.goal \in X BY <3>6, <5>2, <5>3, <5>4
        <5>6. QED BY <4>4, <5>2, <5>5
      <4>5. CASE ~(d = c /\ fresh'[w] # {})
        <5>1. result'[d] = result[d] BY <2>2, <2>6b, <4>5
        <5>2. QED BY <3>6, <4>3, <5>1
      <4>6. QED BY <4>4, <4>5
    <3>7. QED BY <1>b, <2>7, <3>5, <3>6 DEF ConnInv
  <2>10. QED BY <2>8, <2>9
<1>5. QED BY <1>1, <1>2, <1>3, <1>4, Kinds

LEMMA ConnInit == Init => ConnInv
<1> USE ScopeAssumption, TraverserAssumption
<1> SUFFICES ASSUME Init PROVE ConnInv
  OBVIOUS
<1>1. \A w \in Worker : pc[w] = "get" BY DEF Init, Thread
<1>2. (\A l \in Lines : lineAdded[l] = {}) /\ (\A c \in Class : result[c] = {}) BY DEF Init
<1>3. \A l \in Lines : ~Credited(l) BY <1>1, <1>2 DEF Credited
<1>4. QED BY <1>1, <1>2, <1>3 DEF ConnInv

\* The result graph holds together whatever the interleaving of the workers
\* that decides which line is credited with an object: from the classes the
\* search starts from, every class in it is reached over lines of the graph.
THEOREM ResultConnectedAlways == Spec => []ResultConnected
<1>1. Init => OnceInv /\ CountInv /\ ConnInv BY OnceInit, CountInit, ConnInit
<1>2. /\ Shape /\ JobOK /\ JustInv /\ [Next]_vars
      /\ OnceInv /\ CountInv /\ ConnInv
      => (OnceInv /\ CountInv /\ ConnInv)'
  BY OnceStep, CountStep, ConnStep
<1>3. Shape /\ WorkAccounted /\ Quiet /\ ConnInv => ResultConnected
  <2> USE ScopeAssumption
  <2> SUFFICES ASSUME Shape, WorkAccounted, Quiet, ConnInv, Done
               PROVE  /\ \A l \in Lines : lineAdded[l] # {} => l \in GraphLines
                      /\ \A X \in SUBSET GraphNodes :
                           /\ Starts \cap GraphNodes \subseteq X
                           /\ \A l \in GraphLines : l.start \in X => l.goal \in X
                           => X = GraphNodes
    BY DEF ResultConnected
  <2>1. Late = {} BY DoneQuiet DEF Done
  <2>2. \A l \in Lines : Credited(l) <=> lineAdded[l] # {}
    BY <2>1 DEF Credited, Late
  <2>3. \A l \in Lines : lineAdded[l] # {} => l \in GraphLines
    <3>1. \A l \in Lines : l.start \in Nodes /\ l.goal \in Nodes BY DEF Nodes
    <3>2. QED BY <2>2, <3>1 DEF ConnInv, GraphLines, GraphNodes
  <2>4. Nodes \subseteq Class BY DEF Nodes, Line
  <2>5. ASSUME NEW X \in SUBSET GraphNodes,
               Starts \cap GraphNodes \subseteq X,
               \A l \in GraphLines : l.start \in X => l.goal \in X
        PROVE  X = GraphNodes
    <3>1. X \in SUBSET Class BY <2>4 DEF GraphNodes
    <3>2. \A c \in Starts : result[c] # {} => c \in X
      <4>1. Starts \subseteq Class BY DEF Starts
      <4>2. QED BY <2>5, <4>1 DEF ConnInv, GraphNodes
    <3>3. \A l \in Lines : Credited(l) /\ l.start \in X => l.goal \in X BY <2>2, <2>3, <2>5
    <3>4. \A c \in Class : result[c] # {} => c \in X BY <3>1, <3>2, <3>3 DEF ConnInv
    <3>5. QED BY <2>4, <3>4 DEF GraphNodes
  <2>6. QED BY <2>3, <2>5
<1>4. QED
  BY <1>1, <1>2, <1>3, ShapeInvariant, JustInvariant, WorkAccountedAlways, QuietInvariant, PTL DEF Spec

-----------------------------------------------------------------------------
(* Where the main thread and the rules under way can be.                   *)

\* The main thread has not claimed the objects of the start node yet.  When it
\* posts a query, it still does so for run if the query comes from no line.
Priming ==
  \/ pc[Main] \in {"start", "append", "prime", "claim"}
  \/ pc[Main] \in {"add", "put", "signal"} /\ post[Main].line = None

\* Only a thread in the loops of run or applyRules has anything to dispatch, and
\* only one in applyRules has rules to apply; the start objects are in place
\* once run has appended them.
PlaceInv ==
  /\ \A t \in Thread : sends[t] # {} => pc[t] \in {"prime", "apply", "add", "put", "signal"}
  /\ \A t \in Thread : todo[t] # {} => pc[t] \in {"apply", "add", "put", "signal"}
  /\ todo[Main] # {} => ~Priming
  /\ \A ql \in sends[Main] : ql.line = None <=> Priming
  /\ pc[Main] \notin {"start", "append"} => StartObjects \subseteq result[StartClass]

\* What the steps of a worker on its query do to labels and dispatches.
LEMMA WorkerMoves ==
  ASSUME Shape, NEW w \in Worker, Take(w) \/ Merge(w) \/ RecordLine(w) \/ AddStatuses(w)
  PROVE  /\ <<pc[w], pc'[w]>> \in {<<"get", "admit">>, <<"merge", "line">>, <<"merge", "status">>,
                                   <<"line", "status">>, <<"status", "claim">>}
         /\ \A u \in Thread \ {w} : pc'[u] = pc[u]
         /\ UNCHANGED <<seen, post, sends, todo, canceled>>
         /\ pc[w] = "get" \/ job' = job
<1> USE TraverserAssumption DEF shared, nodes, local
<1>1. w \in Thread BY DEF Thread
<1>2. CASE Take(w)
  BY <1>1, <1>2, GoToOthers DEF Take
<1>3. CASE Merge(w)
  <2>1. /\ GoTo(w, IF job[w].line = None THEN "status" ELSE "line") /\ pc[w] = "merge"
        /\ UNCHANGED <<seen, post, sends, todo, canceled, job>>
    BY <1>3 DEF Merge
  <2>2. QED BY <1>1, <2>1, GoToOthers
<1>4. CASE RecordLine(w)
  BY <1>1, <1>4, GoToOthers DEF RecordLine
<1>5. CASE AddStatuses(w)
  <2>1. /\ GoTo(w, "claim") /\ pc[w] = "status"
        /\ UNCHANGED <<seen, post, sends, todo, canceled, job>>
    BY <1>5 DEF AddStatuses
  <2>2. QED BY <1>1, <2>1, GoToOthers
<1>6. QED BY <1>2, <1>3, <1>4, <1>5

\* What Claim does: all the unclaimed objects of the node get their rules.
LEMMA ClaimMoves ==
  ASSUME Shape, JobOK, NEW t \in Thread, Claim(t)
  PROVE  /\ NodeOf(t) \in Class
         /\ pc[t] = "claim" /\ pc'[t] = "apply" /\ \A u \in Thread \ {t} : pc'[u] = pc[u]
         /\ todo'[t] = unprocessed[NodeOf(t)] \X RulesOf(NodeOf(t))
         /\ \A u \in Thread \ {t} : todo'[u] = todo[u]
         /\ unprocessed'[NodeOf(t)] = {}
         /\ \A c \in Class \ {NodeOf(t)} : unprocessed'[c] = unprocessed[c]
         /\ UNCHANGED <<items, seen, result, asked, post, sends, job, canceled>>
<1> USE DEF shared, nodes, local
<1>1. NodeOf(t) \in Class BY ApplyTyped DEF Claim
<1>2. /\ pc[t] = "claim" /\ GoTo(t, "apply")
      /\ todo' = [todo EXCEPT ![t] = unprocessed[NodeOf(t)] \X RulesOf(NodeOf(t))]
      /\ unprocessed' = [unprocessed EXCEPT ![NodeOf(t)] = {}]
      /\ UNCHANGED <<items, seen, result, asked, post, sends, job, canceled>>
  BY DEF Claim
<1>3. pc'[t] = "apply" /\ \A u \in Thread \ {t} : pc'[u] = pc[u] BY <1>2, GoToOthers
<1>4. /\ todo'[t] = unprocessed[NodeOf(t)] \X RulesOf(NodeOf(t))
      /\ \A u \in Thread \ {t} : todo'[u] = todo[u]
  BY <1>2 DEF Shape
<1>5. /\ unprocessed'[NodeOf(t)] = {}
      /\ \A c \in Class \ {NodeOf(t)} : unprocessed'[c] = unprocessed[c]
  BY <1>1, <1>2 DEF Shape
<1>6. QED BY <1>1, <1>2, <1>3, <1>4, <1>5

\* A thread leaves applyRules with nothing to dispatch, and with nothing to
\* apply unless the search is cancelled.
LEMMA AppliedMoves ==
  ASSUME Shape, NEW t \in Thread, Applied(t)
  PROVE  /\ pc[t] = "apply" /\ pc'[t] = "finish" /\ \A u \in Thread \ {t} : pc'[u] = pc[u]
         /\ sends[t] = {} /\ (todo[t] = {} \/ canceled)
         /\ todo'[t] = {} /\ \A u \in Thread \ {t} : todo'[u] = todo[u]
         /\ UNCHANGED <<items, seen, nodes, post, sends, job, canceled>>
<1> USE DEF shared, local
<1>1. /\ pc[t] = "apply" /\ GoTo(t, "finish") /\ sends[t] = {} /\ (todo[t] = {} \/ canceled)
      /\ todo' = [todo EXCEPT ![t] = {}]
      /\ UNCHANGED <<items, seen, nodes, post, sends, job, canceled>>
  BY DEF Applied
<1>2. pc'[t] = "finish" /\ \A u \in Thread \ {t} : pc'[u] = pc[u] BY <1>1, GoToOthers
<1>3. todo'[t] = {} /\ \A u \in Thread \ {t} : todo'[u] = todo[u] BY <1>1 DEF Shape
<1>4. QED BY <1>1, <1>2, <1>3

\* Drop loses one queryLine, and for a reason.
LEMMA DropMoves ==
  ASSUME Shape, NEW t \in Thread, Drop(t)
  PROVE  /\ \E ql \in sends[t] : Dropped(ql) /\ sends'[t] = sends[t] \ {ql}
         /\ \A u \in Thread \ {t} : sends'[u] = sends[u]
         /\ UNCHANGED <<pc, items, seen, nodes, post, todo, job, canceled>>
<1> USE DEF shared, local
<1>1. PICK ql \in sends[t] : Dropped(ql) /\ sends' = [sends EXCEPT ![t] = @ \ {ql}]
  BY DEF Drop
<1>2. sends'[t] = sends[t] \ {ql} /\ \A u \in Thread \ {t} : sends'[u] = sends[u]
  BY <1>1 DEF Shape
<1>3. UNCHANGED <<pc, items, seen, nodes, post, todo, job, canceled>> BY DEF Drop
<1>4. QED BY <1>1, <1>2, <1>3

LEMMA AppendMoves ==
  ASSUME Shape, AppendStart
  PROVE  /\ pc[Main] = "append" /\ pc'[Main] = "prime" /\ \A u \in Worker : pc'[u] = pc[u]
         /\ sends'[Main] = {[query |-> q, line |-> None, depth |-> 0] : q \in StartQueries}
         /\ \A u \in Worker : sends'[u] = sends[u]
         /\ result'[StartClass] = result[StartClass] \cup StartObjects
         /\ unprocessed'[StartClass] = unprocessed[StartClass] \cup (StartObjects \ result[StartClass])
         /\ \A c \in Class \ {StartClass} : result'[c] = result[c] /\ unprocessed'[c] = unprocessed[c]
         /\ UNCHANGED <<items, seen, asked, post, todo, job, canceled>>
<1> USE ScopeAssumption, TraverserAssumption DEF shared, nodes, local
<1>1. /\ pc[Main] = "append" /\ GoTo(Main, "prime")
      /\ sends' = [sends EXCEPT ![Main] =
                     {[query |-> q, line |-> None, depth |-> 0] : q \in StartQueries}]
      /\ result' = [result EXCEPT ![StartClass] = @ \cup StartObjects]
      /\ unprocessed' = [unprocessed EXCEPT
                           ![StartClass] = @ \cup (StartObjects \ result[StartClass])]
      /\ UNCHANGED <<items, seen, asked, post, todo, job, canceled>>
  BY DEF AppendStart
<1>2. pc'[Main] = "prime" /\ \A u \in Worker : pc'[u] = pc[u] BY <1>1, GoToOthers DEF Thread
<1>3. /\ sends'[Main] = {[query |-> q, line |-> None, depth |-> 0] : q \in StartQueries}
      /\ \A u \in Worker : sends'[u] = sends[u]
  BY <1>1 DEF Shape, Thread
<1>4. /\ result'[StartClass] = result[StartClass] \cup StartObjects
      /\ \A c \in Class \ {StartClass} : result'[c] = result[c]
  BY <1>1 DEF Shape
<1>5. /\ unprocessed'[StartClass] = unprocessed[StartClass] \cup (StartObjects \ result[StartClass])
      /\ \A c \in Class \ {StartClass} : unprocessed'[c] = unprocessed[c]
  BY <1>1 DEF Shape
<1>6. QED BY <1>1, <1>2, <1>3, <1>4, <1>5

LEMMA PlaceStep ==
  ASSUME Shape, JobOK, ClaimInv, PlaceInv, [Next]_vars
  PROVE  /\ PlaceInv'
         /\ Priming => Priming' \/ Claim(Main)
<1> USE ScopeAssumption, TraverserAssumption
<1>a. \A w \in Worker : w \in Thread /\ w # Main
  BY DEF Thread
<1>b. Main \in Thread /\ StartClass \in Class BY DEF Thread
<1>c. \A c \in Class : result[c] \subseteq result'[c] BY ResultGrows
<1>1. ASSUME Still PROVE PlaceInv' /\ (Priming' <=> Priming)
  <2> USE <1>1 DEF Still, nodes
  <2>1. Priming' <=> Priming
    <3>1. pc[Main] \in MainLabel BY DEF Shape
    <3>2. pc[Main] = "signal" /\ pc'[Main] # "signal" =>
            pc'[Main] = (IF post[Main].line = None THEN "prime" ELSE "apply")
      BY <1>b DEF Resume
    <3>3. pc[Main] \in {"add", "put", "signal"} /\ pc'[Main] \in {"add", "put", "signal"} =>
            post'[Main] = post[Main]
      BY <1>b DEF Moves
    <3>4. pc'[Main] = pc[Main] \/ <<pc[Main], pc'[Main]>> \in Moves BY <1>b
    <3>5. QED BY <3>1, <3>2, <3>3, <3>4 DEF Priming, Moves, MainLabel
  <2>2. \A t \in Thread : sends'[t] # {} => pc'[t] \in {"prime", "apply", "add", "put", "signal"}
    BY DEF Moves, PlaceInv
  <2>3. \A t \in Thread : todo'[t] # {} => pc'[t] \in {"apply", "add", "put", "signal"}
    <3>1. ASSUME NEW t \in Thread, todo[t] # {}, pc[t] = "signal", pc'[t] = "prime" PROVE FALSE
      <4>1. post[t].line = None BY <3>1 DEF Resume
      <4>2. CASE t = Main BY <3>1, <4>1, <4>2 DEF PlaceInv, Priming
      <4>3. CASE t # Main
        <5>1. t \in Worker BY <4>3 DEF Thread
        <5>2. post[t].line \in Lines BY <3>1, <5>1 DEF JobOK
        <5>3. QED BY <4>1, <5>2
      <4>4. QED BY <4>2, <4>3
    <3>2. QED BY <3>1 DEF Moves, PlaceInv
  <2>4. pc'[Main] \notin {"start", "append"} => pc[Main] \notin {"start", "append"}
    <3>1. pc[Main] # "append" \/ pc'[Main] = "append" BY <1>b DEF Moves
    <3>2. pc[Main] # "start" \/ pc'[Main] \in {"start", "append"} BY <1>b DEF Moves
    <3>3. QED BY <3>1, <3>2
  <2>5. QED BY <2>1, <2>2, <2>3, <2>4 DEF PlaceInv
<1>2. ASSUME AppendStart PROVE PlaceInv' /\ Priming'
  <2>1. Priming' BY <1>2, AppendMoves DEF Priming
  <2>2. \A ql \in sends'[Main] : ql.line = None
    <3>1. sends'[Main] = {[query |-> q, line |-> None, depth |-> 0] : q \in StartQueries}
      BY <1>2, AppendMoves
    <3>2. QED BY <3>1
  <2>3. todo[Main] = {} BY <1>2, <1>b, AppendMoves DEF PlaceInv
  <2>4. \A t \in Thread : /\ sends'[t] # {} => pc'[t] \in {"prime", "apply", "add", "put", "signal"}
                          /\ todo'[t] # {} => pc'[t] \in {"apply", "add", "put", "signal"}
    BY <1>2, <2>3, AppendMoves DEF PlaceInv, Thread
  <2>5. StartObjects \subseteq result'[StartClass] BY <1>2, AppendMoves
  <2>6. todo'[Main] = {} BY <1>2, <2>3, AppendMoves
  <2>7. QED BY <2>1, <2>2, <2>4, <2>5, <2>6 DEF PlaceInv
<1>3. ASSUME NEW w \in Worker, Take(w) \/ Merge(w) \/ RecordLine(w) \/ AddStatuses(w)
      PROVE  PlaceInv' /\ (Priming' <=> Priming)
  <2>1. /\ pc[w] \in {"get", "merge", "line", "status"}
        /\ \A u \in Thread \ {w} : pc'[u] = pc[u]
        /\ UNCHANGED <<seen, post, sends, todo, canceled>>
    BY <1>3, WorkerMoves
  <2>2. Priming' <=> Priming BY <1>a, <1>b, <2>1 DEF Priming
  <2>3. sends[w] = {} /\ todo[w] = {} BY <1>a, <2>1 DEF PlaceInv
  <2>4. QED BY <1>a, <1>b, <1>c, <2>1, <2>2, <2>3 DEF PlaceInv
<1>4. ASSUME NEW t \in Thread, Claim(t)
      PROVE  PlaceInv' /\ (Priming => Priming' \/ Claim(Main))
  <2>1. /\ pc[t] = "claim" /\ pc'[t] = "apply" /\ \A u \in Thread \ {t} : pc'[u] = pc[u]
        /\ \A u \in Thread \ {t} : todo'[u] = todo[u]
        /\ UNCHANGED <<seen, result, post, sends, canceled>>
    BY <1>4, ClaimMoves
  <2>2. sends[t] = {} BY <2>1 DEF PlaceInv
  <2>3. t = Main => ~Priming' BY <2>1 DEF Priming
  <2>4. t # Main => (Priming' <=> Priming) BY <1>b, <2>1 DEF Priming
  <2>5. QED BY <1>4, <1>b, <2>1, <2>2, <2>3, <2>4 DEF PlaceInv
<1>5. ASSUME NEW t \in Thread, ApplyRule(t) PROVE PlaceInv' /\ (Priming' <=> Priming)
  <2>1. PICK p \in todo[t] :
          /\ todo'[t] = todo[t] \ {p} /\ \A u \in Thread \ {t} : todo'[u] = todo[u]
          /\ sends'[t] = {[query |-> q, line |-> LineOf(NodeOf(t), p[2], q), depth |-> DepthOf(t)] :
                            q \in Yield(NodeOf(t), p[2], p[1])}
          /\ \A u \in Thread \ {t} : sends'[u] = sends[u]
    BY <1>5, ApplySends
  <2>2. pc[t] = "apply" /\ UNCHANGED <<pc, post, result>> BY <1>5, ApplySends DEF ApplyRule, nodes
  <2>3. Priming' <=> Priming BY <2>2 DEF Priming
  <2>4. \A ql \in sends'[t] : ql.line # None
    <3>1. ASSUME NEW ql \in sends'[t] PROVE ql.line # None
      <4>1. PICK q \in Yield(NodeOf(t), p[2], p[1]) :
              ql = [query |-> q, line |-> LineOf(NodeOf(t), p[2], q), depth |-> DepthOf(t)]
        BY <2>1, <3>1
      <4>2. ql.line \in Lines BY <4>1 DEF Yield
      <4>3. QED BY <4>2
    <3>2. QED BY <3>1
  <2>5. t = Main => ~Priming BY <2>2 DEF Priming
  <2>6. QED BY <1>b, <2>1, <2>2, <2>3, <2>4, <2>5 DEF PlaceInv
<1>6. ASSUME NEW t \in Thread, Applied(t) PROVE PlaceInv' /\ (Priming' <=> Priming)
  <2>1. /\ pc[t] = "apply" /\ pc'[t] = "finish" /\ \A u \in Thread \ {t} : pc'[u] = pc[u]
        /\ sends[t] = {} /\ todo'[t] = {} /\ \A u \in Thread \ {t} : todo'[u] = todo[u]
        /\ UNCHANGED <<result, post, sends>>
    BY <1>6, AppliedMoves DEF nodes
  <2>2. Priming' <=> Priming BY <1>b, <2>1 DEF Priming
  <2>3. QED BY <1>b, <2>1, <2>2 DEF PlaceInv
<1>7. ASSUME NEW t \in Thread, Drop(t) PROVE PlaceInv' /\ (Priming' <=> Priming)
  <2>1. /\ \A u \in Thread : sends'[u] \subseteq sends[u]
        /\ UNCHANGED <<pc, result, post, todo>>
    <3>1. PICK ql \in sends[t] : sends'[t] = sends[t] \ {ql} BY <1>7, DropMoves
    <3>2. QED BY <1>7, <3>1, DropMoves DEF nodes
  <2>2. Priming' <=> Priming BY <2>1 DEF Priming
  <2>3. QED BY <1>b, <2>1, <2>2 DEF PlaceInv
<1>8. ASSUME NEW t \in Thread, MarkSeen(t) PROVE PlaceInv' /\ (Priming' <=> Priming)
  <2>1. PICK ql \in sends[t] :
          /\ post'[t] = ql /\ \A u \in Thread \ {t} : post'[u] = post[u]
          /\ sends'[t] = sends[t] \ {ql} /\ \A u \in Thread \ {t} : sends'[u] = sends[u]
          /\ pc[t] \in {"prime", "apply"} /\ pc'[t] = "add" /\ \A u \in Thread \ {t} : pc'[u] = pc[u]
          /\ UNCHANGED <<nodes, todo>>
    BY <1>8, MarkSeenPlaces
  <2>2. Priming' <=> Priming BY <1>b, <2>1 DEF Priming, PlaceInv
  <2>3. \A ql2 \in sends'[Main] : ql2 \in sends[Main] BY <1>b, <2>1
  <2>4. QED BY <1>b, <2>1, <2>2, <2>3 DEF PlaceInv, nodes
<1>9. ASSUME NEW t \in Thread, Put(t) PROVE PlaceInv' /\ (Priming' <=> Priming)
  <2>1. /\ pc[t] = "put" /\ pc'[t] = "signal" /\ \A u \in Thread \ {t} : pc'[u] = pc[u]
        /\ UNCHANGED <<post, nodes, todo, sends>>
    BY <1>9, PutPlaces
  <2>2. Priming' <=> Priming BY <1>b, <2>1 DEF Priming
  <2>3. QED BY <1>b, <2>1, <2>2 DEF PlaceInv, nodes
<1>10. QED BY <1>1, <1>2, <1>3, <1>4, <1>5, <1>6, <1>7, <1>8, <1>9, Kinds

LEMMA PlaceInit == Init => PlaceInv
<1> SUFFICES ASSUME Init PROVE PlaceInv
  OBVIOUS
<1>1. \A t \in Thread : sends[t] = {} /\ todo[t] = {} BY DEF Init
<1>2. pc[Main] = "start" BY DEF Init, Thread
<1>3. Main \in Thread BY DEF Thread
<1>4. QED BY <1>1, <1>2, <1>3 DEF PlaceInv

-----------------------------------------------------------------------------
(* Nothing that the search owes is lost.                                   *)

\* A seen query that is not recorded yet is under way.
SeenUnderWay ==
  \A q \in seen \ asked :
    \/ \E t \in Posting : post[t].query = q
    \/ \E i \in 1 .. Len(items) : items[i].query = q
    \/ \E w \in Early : job[w].query = q

\* A start query is seen or still to be dispatched.
StartUnderWay ==
  pc[Main] \notin {"start", "append"} =>
    \A q \in StartQueries : q \in seen \/ \E ql \in sends[Main] : ql.query = q

\* A query that a rule yields for a found object is seen, or still to be
\* dispatched, or the rule is still to be applied, or the object to be claimed.
YieldUnderWay ==
  \A c \in Class, r \in Rule : \A o \in result[c] : \A q \in Yield(c, r, o) :
    \/ q \in seen
    \/ o \in unprocessed[c]
    \/ \E t \in Thread : <<o, r>> \in todo[t] /\ NodeOf(t) = c
    \/ \E t \in Thread : \E ql \in sends[t] : ql.query = q

\* Unclaimed objects have a thread that will claim them.
ClaimUnderWay ==
  \A c \in Class : unprocessed[c] # {} =>
    \/ c = StartClass /\ Priming
    \/ \E w \in Worker : pc[w] \in {"line", "status", "claim"} /\ QueryClass[job[w].query] = c

CompleteInv ==
  ~Bounded => SeenUnderWay /\ StartUnderWay /\ YieldUnderWay /\ ClaimUnderWay

\* What an unbounded search cannot meet.
LEMMA Unbounded ==
  ASSUME Shape, LimitInv, [Next]_vars, ~Bounded'
  PROVE  /\ ~Bounded /\ ~canceled /\ MaxDepth < 0 /\ limit = 0
         /\ \A q \in StartQueries : QueryClass[q] \in Nodes
<1>1. canceled => canceled'
  BY FlagsKept DEF Cancel
<1>2. ~Bounded BY <1>1 DEF Bounded
<1>3. QueryLimit = 0 /\ MaxDepth < 0 BY <1>2, TraverserAssumption DEF Bounded
<1>4. limit = 0 BY <1>3 DEF LimitInv, EffectiveLimit
<1>5. QED BY <1>2, <1>3, <1>4 DEF Bounded

LEMMA SeenGrows ==
  ASSUME Shape, JobOK, [Next]_vars
  PROVE  seen \subseteq seen'
<1>1. ASSUME NEW t \in Thread, MarkSeen(t) PROVE seen \subseteq seen' BY <1>1, MarkSeenPlaces
<1>2. CASE seen' = seen BY <1>2
<1>3. QED
  BY <1>1, <1>2, Kinds
     DEF Still, AppendStart, Take, Merge, RecordLine, AddStatuses, Claim, ApplyRule, Applied, Drop, Put, shared

\* Without a bound, a queryLine is dispatched until its query is seen.
LEMMA SendsKept ==
  ASSUME Shape, JobOK, ClaimInv, PlaceInv, [Next]_vars, ~canceled, MaxDepth < 0,
         NEW t \in Thread, NEW ql \in sends[t]
  PROVE  ql \in sends'[t] \/ ql.query \in seen'
<1> USE TraverserAssumption
<1>1. CASE AppendStart
  <2>1. sends[Main] = {} BY <1>1, AppendMoves DEF PlaceInv, Thread
  <2>2. QED BY <1>1, <2>1, AppendMoves DEF Thread
<1>2. ASSUME NEW u \in Thread, ApplyRule(u) PROVE ql \in sends'[t]
  BY <1>2, ApplySends
<1>3. ASSUME NEW u \in Thread, Drop(u) PROVE ql \in sends'[t] \/ ql.query \in seen'
  <2>1. PICK dl \in sends[u] : Dropped(dl) /\ sends'[u] = sends[u] \ {dl} BY <1>3, DropMoves
  <2>2. dl.query \in seen BY <2>1 DEF Dropped, TooDeep
  <2>3. QED BY <1>3, <2>1, <2>2, DropMoves
<1>4. ASSUME NEW u \in Thread, MarkSeen(u) PROVE ql \in sends'[t] \/ ql.query \in seen'
  <2>1. PICK dl \in sends[u] :
          /\ seen' = seen \cup {dl.query}
          /\ sends'[u] = sends[u] \ {dl} /\ \A v \in Thread \ {u} : sends'[v] = sends[v]
    BY <1>4, MarkSeenPlaces
  <2>2. QED BY <2>1
<1>5. CASE sends' = sends BY <1>5
<1>6. QED
  BY <1>1, <1>2, <1>3, <1>4, <1>5, Kinds
     DEF Still, Take, Merge, RecordLine, AddStatuses, Claim, Applied, Put, nodes, local

LEMMA SeenStep ==
  ASSUME Shape, JobOK, JustInv, LimitInv, SeenUnderWay, [Next]_vars, ~Bounded'
  PROVE  SeenUnderWay'
<1> USE TraverserAssumption
<1>a. \A w \in Worker : w \in Thread BY DEF Thread
<1>b. ~canceled /\ limit = 0 /\ \A q \in StartQueries : QueryClass[q] \in Nodes BY Unbounded
<1>c. \A w \in Early : QueryClass[job[w].query] \in Nodes
  <2>1. ASSUME NEW w \in Early PROVE QueryClass[job[w].query] \in Nodes
    <3>1. Justified(job[w], result) BY DEF JustInv, Handling
    <3>2. CASE job[w].query \in StartQueries BY <1>b, <3>2
    <3>3. CASE job[w].query \notin StartQueries
      <4>1. PICK c \in Class, r \in Rule : \E o \in result[c] : job[w].query \in Yield(c, r, o)
        BY <3>1, <3>3 DEF Justified
      <4>2. LineOf(c, r, job[w].query) \in Lines BY <4>1 DEF Yield
      <4>3. LineOf(c, r, job[w].query).goal = QueryClass[job[w].query] BY DEF LineOf
      <4>4. QED BY <4>2, <4>3 DEF Nodes
    <3>4. QED BY <3>2, <3>3
  <2>2. QED BY <2>1
<1>1. CASE SamePlaces
  <2>1. ~canceled /\ ~(limit > 0) BY <1>b
  <2>2. Early \ Early' = {} BY <1>c, <1>1, <2>1 DEF SamePlaces
  <2>3. Early' = Early BY <1>1, <2>2 DEF SamePlaces
  <2>4. QED BY <1>1, <2>3 DEF SamePlaces, SeenUnderWay, Handling
<1>2. ASSUME NEW w \in Worker, Take(w) PROVE SeenUnderWay'
  <2> SUFFICES ASSUME NEW q \in seen \ asked
               PROVE  \/ \E t \in Posting' : post'[t].query = q
                      \/ \E i \in 1 .. Len(items') : items'[i].query = q
                      \/ \E v \in Early' : job'[v].query = q
    BY <1>2, TakePlaces DEF SeenUnderWay
  <2>1. CASE \E t \in Posting : post[t].query = q
    BY <1>2, <2>1, TakePlaces
  <2>2. CASE \E i \in 1 .. Len(items) : items[i].query = q
    <3>1. PICK i \in 1 .. Len(items) : items[i].query = q BY <2>2
    <3>2. CASE i = 1 BY <1>2, <3>1, <3>2, TakePlaces
    <3>3. CASE i # 1
      <4>1. Len(items) \in Nat /\ Len(items') = Len(items) - 1 BY <1>2, TakePlaces
      <4>2. i - 1 \in 1 .. Len(items') BY <3>3, <4>1
      <4>3. items'[i - 1] = items[(i - 1) + 1] BY <1>2, <4>2, TakePlaces
      <4>4. QED BY <3>1, <4>2, <4>3
    <3>4. QED BY <3>2, <3>3
  <2>3. CASE \E v \in Early : job[v].query = q
    <3>1. PICK v \in Early : job[v].query = q BY <2>3
    <3>2. v \in Thread \ {w} BY <1>2, <1>a, TakePlaces DEF Early, Handling
    <3>3. v \in Early' /\ job'[v] = job[v] BY <1>2, <3>2, TakePlaces
    <3>4. QED BY <3>1, <3>3
  <2>4. QED BY <2>1, <2>2, <2>3 DEF SeenUnderWay
<1>3. ASSUME NEW w \in Worker, Merge(w) PROVE SeenUnderWay'
  <2>1. /\ Posting' = Posting /\ Early' = Early \ {w} /\ asked' = asked \cup {job[w].query}
        /\ UNCHANGED <<seen, items, post, job>>
    BY <1>3, MergePlaces
  <2>2. QED BY <2>1 DEF SeenUnderWay
<1>4. ASSUME NEW t \in Thread, MarkSeen(t) PROVE SeenUnderWay'
  <2>1. PICK ql \in sends[t] :
          /\ seen' = seen \cup {ql.query} /\ Posting' = Posting \cup {t} /\ t \notin Posting
          /\ Early' = Early /\ post'[t] = ql /\ \A u \in Thread \ {t} : post'[u] = post[u]
          /\ UNCHANGED <<items, job, asked>>
    BY <1>4, MarkSeenPlaces DEF nodes
  <2>2. \A u \in Posting : u \in Posting' /\ post'[u] = post[u] BY <2>1 DEF Posting
  <2>3. QED BY <2>1, <2>2 DEF SeenUnderWay
<1>5. ASSUME NEW t \in Thread, Put(t) PROVE SeenUnderWay'
  <2>1. /\ Posting' = Posting \ {t} /\ Early' = Early /\ UNCHANGED <<seen, job, post, asked>>
        /\ \A i \in 1 .. Len(items) : i \in 1 .. Len(items') /\ items'[i] = items[i]
        /\ Len(items') \in 1 .. Len(items') /\ items'[Len(items')] = post[t]
    BY <1>5, PutPlaces DEF nodes
  <2>2. QED BY <2>1 DEF SeenUnderWay
<1>6. QED BY <1>1, <1>2, <1>3, <1>4, <1>5, Kinds, SamePlacesStep

\* The main thread passes from "append" on in AppendStart only.
LEMMA StartLabels ==
  ASSUME Shape, JobOK, ClaimInv, [Next]_vars, pc'[Main] \notin {"start", "append"}
  PROVE  AppendStart \/ pc[Main] \notin {"start", "append"}
<1> USE TraverserAssumption
<1>a. Main \in Thread /\ \A w \in Worker : w # Main BY DEF Thread
<1>1. CASE Still
  <2>1. pc'[Main] = pc[Main] \/ <<pc[Main], pc'[Main]>> \in Moves BY <1>a, <1>1 DEF Still
  <2>2. QED BY <2>1 DEF Moves
<1>2. ASSUME NEW w \in Worker, Take(w) \/ Merge(w) \/ RecordLine(w) \/ AddStatuses(w)
      PROVE  pc[Main] \notin {"start", "append"}
  BY <1>a, <1>2, WorkerMoves
<1>3. ASSUME NEW t \in Thread,
             Claim(t) \/ ApplyRule(t) \/ Applied(t) \/ Drop(t) \/ MarkSeen(t) \/ Put(t)
      PROVE  pc[Main] \notin {"start", "append"}
  <2>1. \/ pc' = pc
        \/ /\ pc[t] \in {"claim", "apply", "prime", "put"}
           /\ \A u \in Thread \ {t} : pc'[u] = pc[u]
    BY <1>3, ClaimMoves, ApplySends, AppliedMoves, DropMoves, MarkSeenPlaces, PutPlaces
  <2>2. QED BY <1>a, <2>1
<1>4. QED BY <1>1, <1>2, <1>3, Kinds

LEMMA StartStep ==
  ASSUME Shape, JobOK, ClaimInv, PlaceInv, LimitInv, StartUnderWay, [Next]_vars, ~Bounded'
  PROVE  StartUnderWay'
<1> SUFFICES ASSUME pc'[Main] \notin {"start", "append"}, NEW q \in StartQueries
             PROVE  q \in seen' \/ \E ql \in sends'[Main] : ql.query = q
  BY DEF StartUnderWay
<1>a. ~canceled /\ MaxDepth < 0 BY Unbounded
<1>b. Main \in Thread BY DEF Thread
<1>1. CASE AppendStart
  <2>1. [query |-> q, line |-> None, depth |-> 0] \in sends'[Main] BY <1>1, AppendMoves
  <2>2. QED BY <2>1
<1>2. CASE q \in seen BY <1>2, SeenGrows
<1>3. CASE \E ql \in sends[Main] : ql.query = q
  <2>1. PICK ql \in sends[Main] : ql.query = q BY <1>3
  <2>2. ql \in sends'[Main] \/ ql.query \in seen' BY <1>a, <1>b, SendsKept
  <2>3. QED BY <2>1, <2>2
<1>4. QED BY <1>1, <1>2, <1>3, StartLabels DEF StartUnderWay

\* A thread that has rules to apply keeps its node and its depth.
LEMMA NodeKept ==
  ASSUME Shape, JobOK, ClaimInv, PlaceInv, [Next]_vars,
         NEW t \in Thread, todo[t] # {} \/ pc[t] = "claim"
  PROVE  NodeOf(t)' = NodeOf(t) /\ DepthOf(t)' = DepthOf(t)
<1> USE TraverserAssumption
<1>a. pc[t] \in {"claim", "apply", "add", "put", "signal"} BY DEF PlaceInv
<1>1. job'[t] = job[t]
  <2>1. CASE Still BY <1>a, <2>1 DEF Still
  <2>2. ASSUME NEW w \in Worker, Take(w) PROVE job'[t] = job[t]
    <3>1. pc[w] = "get" BY <2>2 DEF Take
    <3>2. w # t BY <1>a, <3>1
    <3>3. QED BY <2>2, <3>2, TakePlaces
  <2>3. CASE job' = job BY <2>3
  <2>4. QED
    BY <2>1, <2>2, <2>3, Kinds
       DEF AppendStart, Merge, RecordLine, AddStatuses, Claim, ApplyRule, Applied, Drop, MarkSeen, Put, local
<1>2. QED BY <1>1 DEF NodeOf, DepthOf

LEMMA YieldStep ==
  ASSUME Shape, JobOK, ClaimInv, PlaceInv, LimitInv, YieldUnderWay, [Next]_vars, ~Bounded'
  PROVE  YieldUnderWay'
<1> USE ScopeAssumption
<1> SUFFICES ASSUME NEW c \in Class, NEW r \in Rule, NEW o \in result'[c], NEW q \in Yield(c, r, o)
             PROVE  \/ q \in seen'
                    \/ o \in unprocessed'[c]
                    \/ \E t \in Thread : <<o, r>> \in todo'[t] /\ NodeOf(t)' = c
                    \/ \E t \in Thread : \E ql \in sends'[t] : ql.query = q
  BY DEF YieldUnderWay
<1>a. ~canceled /\ MaxDepth < 0 BY Unbounded
\* The object is new.
<1>1. CASE o \notin result[c]
  <2>1. CASE AppendStart
    <3>1. c = StartClass /\ o \in StartObjects \ result[StartClass]
      BY <1>1, <2>1, AppendMoves
    <3>2. QED BY <2>1, <3>1, AppendMoves
  <2>2. ASSUME NEW w \in Worker, Merge(w) PROVE o \in unprocessed'[c]
    <3>1. PICK objects \in Answers[job[w].query] :
            LET d == QueryClass[job[w].query]
                new == New(d, objects) IN
            /\ result'[d] = result[d] \cup objects
            /\ \A e \in Class \ {d} : result'[e] = result[e]
            /\ unprocessed'[d] = unprocessed[d] \cup new
      BY <2>2, MergeNodes
    <3>2. c = QueryClass[job[w].query] /\ o \in New(c, objects) BY <1>1, <3>1 DEF New
    <3>3. QED BY <3>1, <3>2
  <2>3. result' = result \/ AppendStart \/ \E w \in Worker : Merge(w)
    BY Kinds DEF Still, Take, RecordLine, AddStatuses, Claim, ApplyRule, Applied, Drop, MarkSeen, Put, nodes
  <2>4. QED BY <1>1, <2>1, <2>2, <2>3
<1>2. CASE o \in result[c] /\ q \in seen BY <1>2, SeenGrows
\* The object is not claimed.
<1>3. CASE o \in unprocessed[c]
  <2>1. ASSUME NEW t \in Thread, Claim(t), NodeOf(t) = c
        PROVE  <<o, r>> \in todo'[t] /\ NodeOf(t)' = c
    <3>1. r \in RulesOf(c)
      <4>1. LineOf(c, r, q) \in Lines /\ LineOf(c, r, q).start = c /\ LineOf(c, r, q).rule = r
        BY DEF Yield, LineOf
      <4>2. QED BY <4>1 DEF RulesOf
    <3>2. <<o, r>> \in todo'[t] BY <1>3, <2>1, <3>1, ClaimMoves
    <3>3. pc[t] = "claim" BY <2>1 DEF Claim
    <3>4. QED BY <2>1, <3>2, <3>3, NodeKept
  <2>2. ASSUME NEW t \in Thread, Claim(t), NodeOf(t) # c PROVE o \in unprocessed'[c]
    BY <1>3, <2>2, ClaimMoves
  <2>3. ASSUME NEW w \in Worker, Merge(w) PROVE o \in unprocessed'[c]
    BY <1>3, <2>3, MergeNodes
  <2>4. CASE AppendStart BY <1>3, <2>4, AppendMoves
  <2>5. \/ unprocessed' = unprocessed \/ AppendStart
        \/ \E w \in Worker : Merge(w)
        \/ \E t \in Thread : Claim(t)
    BY Kinds DEF Still, Take, RecordLine, AddStatuses, ApplyRule, Applied, Drop, MarkSeen, Put, nodes
  <2>6. QED BY <1>3, <2>1, <2>2, <2>3, <2>4, <2>5
\* The rule is to be applied to the object.
<1>4. ASSUME NEW t \in Thread, <<o, r>> \in todo[t], NodeOf(t) = c
      PROVE  \/ <<o, r>> \in todo'[t] /\ NodeOf(t)' = c
             \/ \E ql \in sends'[t] : ql.query = q
  <2>1. NodeOf(t)' = c BY <1>4, NodeKept
  <2>2. ASSUME NEW u \in Thread, Claim(u) PROVE <<o, r>> \in todo'[t]
    <3>1. u # t BY <1>4, <2>2, ClaimMoves DEF PlaceInv
    <3>2. QED BY <1>4, <2>2, <3>1, ClaimMoves
  <2>3. ASSUME NEW u \in Thread, Applied(u) PROVE <<o, r>> \in todo'[t]
    <3>1. u # t BY <1>4, <1>a, <2>3, AppliedMoves
    <3>2. QED BY <1>4, <2>3, <3>1, AppliedMoves
  <2>4. ASSUME NEW u \in Thread, ApplyRule(u)
        PROVE  <<o, r>> \in todo'[t] \/ \E ql \in sends'[t] : ql.query = q
    <3>1. PICK p \in todo[u] :
            /\ todo'[u] = todo[u] \ {p} /\ \A v \in Thread \ {u} : todo'[v] = todo[v]
            /\ sends'[u] = {[query |-> s, line |-> LineOf(NodeOf(u), p[2], s), depth |-> DepthOf(u)] :
                              s \in Yield(NodeOf(u), p[2], p[1])}
      BY <2>4, ApplySends
    <3>2. CASE u = t /\ p = <<o, r>>
      <4>1. [query |-> q, line |-> LineOf(c, r, q), depth |-> DepthOf(t)] \in sends'[t]
        BY <1>4, <3>1, <3>2
      <4>2. QED BY <4>1
    <3>3. CASE ~(u = t /\ p = <<o, r>>) BY <1>4, <3>1, <3>3
    <3>4. QED BY <3>2, <3>3
  <2>5. \/ todo' = todo
        \/ \E u \in Thread : Claim(u) \/ Applied(u) \/ ApplyRule(u)
    BY Kinds DEF Still, AppendStart, Take, Merge, RecordLine, AddStatuses, Drop, MarkSeen, Put, nodes, local
  <2>6. QED BY <1>4, <2>1, <2>2, <2>3, <2>4, <2>5
\* The query is to be dispatched.
<1>5. ASSUME NEW t \in Thread, NEW ql \in sends[t], ql.query = q
      PROVE  q \in seen' \/ ql \in sends'[t]
  BY <1>5, <1>a, SendsKept
<1>6. o \in result[c] =>
        \/ q \in seen
        \/ o \in unprocessed[c]
        \/ \E t \in Thread : <<o, r>> \in todo[t] /\ NodeOf(t) = c
        \/ \E t \in Thread : \E ql \in sends[t] : ql.query = q
  BY DEF YieldUnderWay
<1>7. QED BY <1>1, <1>2, <1>3, <1>4, <1>5, <1>6

LEMMA ClaimWayStep ==
  ASSUME Shape, JobOK, ClaimInv, PlaceInv, ClaimUnderWay, [Next]_vars
  PROVE  ClaimUnderWay'
<1> USE ScopeAssumption, TraverserAssumption
<1>a. \A w \in Worker : w \in Thread /\ w # Main BY DEF Thread
<1> DEFINE Claims(w, c) == pc[w] \in {"line", "status", "claim"} /\ QueryClass[job[w].query] = c
<1> SUFFICES ASSUME NEW c \in Class, unprocessed'[c] # {}
             PROVE  (c = StartClass /\ Priming') \/ \E w \in Worker : Claims(w, c)'
  BY DEF ClaimUnderWay
\* The unclaimed objects are there already, and their thread does not claim them.
<1>1. CASE unprocessed[c] # {}
  <2>1. CASE c = StartClass /\ Priming
    <3>1. ~Claim(Main)
      <4>1. NodeOf(Main) = StartClass BY DEF NodeOf
      <4>2. QED BY <2>1, <4>1, ClaimMoves DEF Thread
    <3>2. QED BY <2>1, <3>1, PlaceStep
  <2>2. ASSUME NEW w \in Worker, Claims(w, c) PROVE Claims(w, c)'
    <3>1. ~Claim(w)
      <4>1. NodeOf(w) = c BY <1>a, <2>2 DEF NodeOf
      <4>2. QED BY <1>a, <4>1, ClaimMoves
    <3>2. CASE Still
      BY <1>a, <2>2, <3>2 DEF Still, Moves
    <3>3. ASSUME NEW v \in Worker, Take(v) \/ Merge(v) \/ RecordLine(v) \/ AddStatuses(v)
          PROVE  Claims(w, c)'
      <4>1. /\ <<pc[v], pc'[v]>> \in {<<"get", "admit">>, <<"merge", "line">>, <<"merge", "status">>,
                                      <<"line", "status">>, <<"status", "claim">>}
            /\ \A u \in Thread \ {v} : pc'[u] = pc[u]
            /\ pc[v] = "get" \/ job' = job
        BY <3>3, WorkerMoves
      <4>2. pc'[w] \in {"line", "status", "claim"} BY <1>a, <2>2, <4>1
      <4>3. pc[v] = "get" => Take(v)
        BY <3>3 DEF Merge, RecordLine, AddStatuses
      <4>4. job'[w] = job[w] BY <1>a, <2>2, <4>1, <4>3, TakePlaces
      <4>5. QED BY <2>2, <4>2, <4>4
    <3>4. ASSUME NEW t \in Thread, Claim(t) PROVE Claims(w, c)'
      <4>1. t # w BY <3>1, <3>4
      <4>2. QED BY <1>a, <2>2, <3>4, <4>1, ClaimMoves
    <3>5. ASSUME NEW t \in Thread, ApplyRule(t) \/ Applied(t) \/ Drop(t) \/ MarkSeen(t) \/ Put(t)
          PROVE  Claims(w, c)'
      <4>1. /\ pc' = pc \/ (pc[t] \in {"apply", "prime", "put"} /\ \A u \in Thread \ {t} : pc'[u] = pc[u])
            /\ job' = job
        BY <3>5, ApplySends, AppliedMoves, DropMoves, MarkSeenPlaces, PutPlaces
      <4>2. QED BY <1>a, <2>2, <4>1
    <3>6. CASE AppendStart BY <2>2, <3>6, AppendMoves
    <3>7. QED BY <3>2, <3>3, <3>4, <3>5, <3>6, Kinds
  <2> HIDE DEF Claims
  <2>3. (c = StartClass /\ Priming) \/ \E w \in Worker : Claims(w, c)
    BY <1>1 DEF ClaimUnderWay, Claims
  <2>4. QED BY <2>1, <2>2, <2>3
\* They have just been found.
<1>2. CASE unprocessed[c] = {}
  <2>1. CASE AppendStart BY <1>2, <2>1, AppendMoves DEF Priming
  <2>2. ASSUME NEW w \in Worker, Merge(w) PROVE Claims(w, c)'
    <3>1. c = QueryClass[job[w].query] BY <1>2, <2>2, MergeNodes
    <3>2. pc'[w] \in {"line", "status"} /\ job' = job BY <2>2, MergePlaces
    <3>3. QED BY <3>1, <3>2
  <2>3. ASSUME NEW t \in Thread, Claim(t) PROVE FALSE BY <1>2, <2>3, ClaimMoves
  <2>4. \/ unprocessed' = unprocessed \/ AppendStart
        \/ \E w \in Worker : Merge(w)
        \/ \E t \in Thread : Claim(t)
    BY Kinds DEF Still, Take, RecordLine, AddStatuses, ApplyRule, Applied, Drop, MarkSeen, Put, nodes
  <2>5. QED BY <1>2, <2>1, <2>2, <2>3, <2>4
<1>3. QED BY <1>1, <1>2

\* Whatever the search owes is under way, in any state and for any workers.
THEOREM CompleteInvariant == Spec => [](PlaceInv /\ LimitInv /\ CompleteInv)
<1>1. Init => PlaceInv /\ LimitInv /\ CompleteInv
  <2> SUFFICES ASSUME Init PROVE PlaceInv /\ LimitInv /\ CompleteInv
    OBVIOUS
  <2>1. /\ seen = {} /\ pc[Main] = "start"
        /\ \A c \in Class : result[c] = {} /\ unprocessed[c] = {}
    BY DEF Init, Thread
  <2>2. SeenUnderWay /\ StartUnderWay BY <2>1 DEF SeenUnderWay, StartUnderWay
  <2>3. YieldUnderWay /\ ClaimUnderWay BY <2>1 DEF YieldUnderWay, ClaimUnderWay
  <2>4. QED BY <2>2, <2>3, PlaceInit, LimitInit DEF CompleteInv
<1>2. /\ Shape /\ JobOK /\ ClaimInv /\ JustInv /\ [Next]_vars
      /\ PlaceInv /\ LimitInv /\ CompleteInv
      => (PlaceInv /\ LimitInv /\ CompleteInv)'
  <2> SUFFICES ASSUME Shape, JobOK, ClaimInv, JustInv, [Next]_vars, PlaceInv, LimitInv, CompleteInv
               PROVE  PlaceInv' /\ LimitInv' /\ CompleteInv'
    OBVIOUS
  <2>1. PlaceInv' BY PlaceStep
  <2>2. LimitInv' BY LimitStep
  <2>3. ASSUME ~Bounded' PROVE (SeenUnderWay /\ StartUnderWay /\ YieldUnderWay /\ ClaimUnderWay)'
    <3>1. SeenUnderWay /\ StartUnderWay /\ YieldUnderWay /\ ClaimUnderWay
      BY <2>3, Unbounded DEF CompleteInv
    <3>2. QED BY <2>3, <3>1, SeenStep, StartStep, YieldStep, ClaimWayStep
  <2>4. QED BY <2>1, <2>2, <2>3 DEF CompleteInv
<1>3. QED BY <1>1, <1>2, ShapeInvariant, JustInvariant, PTL DEF Spec

-----------------------------------------------------------------------------
(* The refinement.                                                         *)

\* The objects found, as the abstract search sees them: it has the start
\* objects from the beginning.
Found == [result EXCEPT ![StartClass] = @ \cup StartObjects]

\* When the workers are joined, a search without a bound has asked everything.
LEMMA AllAsked ==
  ASSUME Shape, WorkAccounted, Quiet, PlaceInv, CompleteInv, pc[Main] = "join", ~Bounded
  PROVE  S!Owed \subseteq asked
<1> USE ScopeAssumption, TraverserAssumption
<1>1. items = <<>> /\ Len(items) = 0 /\ Busy = {} /\ Early = {} /\ Posting = {} BY DoneQuiet
<1>2. \A t \in Thread : sends[t] = {} /\ todo[t] = {} BY <1>1 DEF PlaceInv, Busy, Thread
<1>3. \A c \in Class : unprocessed[c] = {}
  <2>1. ~Priming BY DEF Priming
  <2>2. \A w \in Worker : pc[w] \notin {"line", "status", "claim"} BY <1>1 DEF Busy
  <2>3. QED BY <2>1, <2>2 DEF CompleteInv, ClaimUnderWay
<1>4. seen \subseteq asked BY <1>1 DEF CompleteInv, SeenUnderWay
<1>5. StartQueries \subseteq seen BY <1>2 DEF CompleteInv, StartUnderWay, Thread
<1>6. ASSUME NEW c \in Class, NEW r \in Rule, NEW o \in Found[c], NEW q \in Yield(c, r, o)
      PROVE  q \in seen
  <2>1. StartObjects \subseteq result[StartClass] BY DEF PlaceInv
  <2>2. o \in result[c] BY <1>6, <2>1 DEF Found, Shape
  <2>3. QED BY <1>2, <1>3, <2>2 DEF CompleteInv, YieldUnderWay
<1>7. QED BY <1>4, <1>5, <1>6 DEF S!Owed, S!YieldOf, Found, S!Yield, S!LineOf, Yield, LineOf

LEMMA SearchInit == Init => S!Init
<1> USE ScopeAssumption
<1> SUFFICES ASSUME Init PROVE S!Init
  OBVIOUS
<1>1. result = [c \in Class |-> {}] /\ asked = {} /\ pc[Main] = "start" BY DEF Init, Thread
<1>2. Found = [c \in Class |-> IF c = StartClass THEN StartObjects ELSE {}] BY <1>1 DEF Found
<1>3. Bounded \in BOOLEAN /\ Done = FALSE BY <1>1 DEF Bounded, Done
<1>4. QED BY <1>1, <1>2, <1>3 DEF S!Init, Found

\* The merge of a query's results is the abstract search asking it.
LEMMA MergeAsks ==
  ASSUME Shape, JobOK, WorkAccounted, Quiet, OnceInv, JustInv, NEW w \in Worker, Merge(w)
  PROVE  S!Ask(job[w].query)
<1> USE ScopeAssumption, TraverserAssumption
<1> DEFINE q == job[w].query
           c == QueryClass[job[w].query]
<1>1. q \in Query /\ c \in Class BY MergeNodes
<1>2. w \in Early /\ w \in Handling BY MergePlaces DEF Handling
<1>3. ~Done
  <2>1. w \in Busy BY <1>2 DEF Early, Busy
  <2>2. QED BY <2>1, DoneQuiet DEF Done
<1>4. q \notin asked BY <1>2 DEF OnceInv
<1>5. q \in S!Owed
  <2>1. Justified(job[w], result) BY <1>2 DEF JustInv
  <2>2. CASE q \in StartQueries BY <2>2 DEF S!Owed
  <2>3. CASE q \notin StartQueries
    <3>1. PICK d \in Class, r \in Rule : \E o \in result[d] : q \in Yield(d, r, o)
      BY <2>1, <2>3 DEF Justified
    <3>2. result[d] \subseteq Found[d] BY DEF Found, Shape
    <3>3. \E o \in Found[d] : q \in Yield(d, r, o) BY <3>1, <3>2
    <3>4. QED BY <1>1, <3>3 DEF S!Owed, S!YieldOf, Found, S!Yield, S!LineOf, Yield, LineOf
  <2>4. QED BY <2>2, <2>3
<1>6. asked' = asked \cup {q} BY MergePlaces
<1>7. \E objects \in Answers[q] : Found' = [Found EXCEPT ![c] = @ \cup objects]
  <2>1. PICK objects \in Answers[q] :
          /\ result'[c] = result[c] \cup objects
          /\ \A d \in Class \ {c} : result'[d] = result[d]
    BY MergeNodes
  <2>2. result' \in [Class -> SUBSET Object]
    <3>1. Next BY DEF Next, Step, WorkerStep, Thread
    <3>2. QED BY <3>1, ShapeStep DEF Shape
  <2>3. Found \in [Class -> SUBSET Object] /\ Found' \in [Class -> SUBSET Object]
    BY <2>2 DEF Found, Shape
  <2>4. ASSUME NEW d \in Class PROVE Found'[d] = (IF d = c THEN Found[d] \cup objects ELSE Found[d])
    <3>1. Found[d] = (IF d = StartClass THEN result[d] \cup StartObjects ELSE result[d])
      BY DEF Found, Shape
    <3>2. Found'[d] = (IF d = StartClass THEN result'[d] \cup StartObjects ELSE result'[d])
      BY <2>2 DEF Found
    <3>3. result'[d] = (IF d = c THEN result[d] \cup objects ELSE result[d]) BY <2>1
    <3>4. QED BY <3>1, <3>2, <3>3
  <2>5. Found' = [Found EXCEPT ![c] = @ \cup objects] BY <1>1, <2>3, <2>4
  <2>6. QED BY <2>5
<1>8. (Bounded' = Bounded) /\ (Done' = Done)
  <2>1. canceled' = canceled /\ pc'[Main] = pc[Main]
    BY MergePlaces DEF Merge, Thread
  <2>2. Bounded' = Bounded BY <2>1 DEF Bounded
  <2>3. Done' = Done BY <2>1 DEF Done
  <2>4. QED BY <2>2, <2>3
<1>9. QED BY <1>3, <1>4, <1>5, <1>6, <1>7, <1>8 DEF S!Ask, Found

\* Every other step leaves the abstract search as it is, or cuts or ends it.
LEMMA SearchStep ==
  ASSUME Shape, JobOK, WorkAccounted, Quiet, OnceInv, JustInv, ClaimInv, PlaceInv, CompleteInv,
         [Next]_vars
  PROVE  [S!Next]_S!vars
<1> USE ScopeAssumption, TraverserAssumption
<1>a. Main \in Thread /\ \A w \in Worker : w \in Thread /\ w # Main BY DEF Thread
<1>1. ASSUME NEW w \in Worker, Merge(w) PROVE S!Next
  <2>1. job[w].query \in Query BY <1>1, MergeNodes
  <2>2. QED BY <1>1, <2>1, MergeAsks DEF S!Next
<1>2. CASE Cancel
  <2>1. UNCHANGED <<pc, result, asked>> /\ canceled' BY <1>2 DEF Cancel, nodes
  <2>2. Found' = Found /\ (Done' <=> Done) /\ Bounded' BY <2>1 DEF Found, Done, Bounded
  <2>3. CASE Bounded
    <3>1. Bounded' = Bounded BY <2>2, <2>3 DEF Bounded
    <3>2. Done' = Done BY <2>1 DEF Done
    <3>3. QED BY <2>1, <2>2, <3>1, <3>2 DEF S!vars, Found
  <2>4. CASE ~Bounded
    <3>1. Bounded' = TRUE BY <2>2 DEF Bounded
    <3>2. Done' = Done BY <2>1 DEF Done
    <3>3. S!Cut BY <2>1, <2>2, <2>4, <3>1, <3>2 DEF S!Cut, Found
    <3>4. QED BY <3>3 DEF S!Next
  <2>5. QED BY <2>3, <2>4
<1>3. ASSUME canceled' = canceled, Found' = Found, asked' = asked,
             Done' \/ Done => Done \/ pc[Main] = "join", Done => Done'
      PROVE  [S!Next]_S!vars
  <2>1. Bounded' = Bounded BY <1>3 DEF Bounded
  <2>2. CASE Done' <=> Done
    <3>1. Done' = Done BY <2>2 DEF Done
    <3>2. QED BY <1>3, <2>1, <3>1 DEF S!vars, Found
  <2>3. CASE ~(Done' <=> Done)
    <3>1. pc[Main] = "join" /\ ~Done /\ Done' = TRUE BY <1>3, <2>3 DEF Done
    <3>2. Bounded \/ S!Owed \subseteq asked BY <3>1, AllAsked
    <3>3. S!Finish BY <1>3, <2>1, <3>1, <3>2 DEF S!Finish, Found
    <3>4. QED BY <3>3 DEF S!Next
  <2>4. QED BY <2>2, <2>3
<1>4. CASE ~Cancel /\ \A w \in Worker : ~Merge(w)
  <2>1. canceled' = canceled BY <1>4, FlagsKept
  <2>2. asked' = asked
    BY <1>4, Kinds
    DEF Still, AppendStart, Take, RecordLine, AddStatuses, Claim, ApplyRule, Applied, Drop, MarkSeen,
        Put, nodes
  <2>3. Found' = Found
    <3>1. CASE AppendStart
      <4>1. result' = [result EXCEPT ![StartClass] = @ \cup StartObjects] BY <3>1 DEF AppendStart
      <4>2. QED BY <4>1 DEF Found, Shape
    <3>2. result' = result \/ AppendStart
      BY <1>4, Kinds
      DEF Still, Take, RecordLine, AddStatuses, Claim, ApplyRule, Applied, Drop, MarkSeen, Put, nodes
    <3>3. QED BY <3>1, <3>2 DEF Found
  <2>4. (Done' => Done \/ pc[Main] = "join") /\ (Done => Done')
    <3>1. CASE Still
      <4>1. pc'[Main] = pc[Main] \/ <<pc[Main], pc'[Main]>> \in Moves BY <1>a, <3>1 DEF Still
      <4>2. QED BY <4>1 DEF Done, Moves
    <3>2. CASE AppendStart BY <3>2, AppendMoves DEF Done
    <3>3. ASSUME NEW w \in Worker, Take(w) \/ Merge(w) \/ RecordLine(w) \/ AddStatuses(w)
          PROVE  Done' <=> Done
      BY <1>a, <3>3, WorkerMoves DEF Done
    <3>4. ASSUME NEW t \in Thread,
                 Claim(t) \/ ApplyRule(t) \/ Applied(t) \/ Drop(t) \/ MarkSeen(t) \/ Put(t)
          PROVE  Done' <=> Done
      <4>1. \/ pc' = pc
            \/ /\ pc[t] \in {"claim", "apply", "prime", "put"}
               /\ pc'[t] \in {"apply", "finish", "add", "signal"}
               /\ \A u \in Thread \ {t} : pc'[u] = pc[u]
        BY <3>4, ClaimMoves, ApplySends, AppliedMoves, DropMoves, MarkSeenPlaces, PutPlaces
      <4>2. QED BY <1>a, <4>1 DEF Done
    <3>5. QED BY <3>1, <3>2, <3>3, <3>4, Kinds
  <2>5. QED BY <1>3, <2>1, <2>2, <2>3, <2>4
<1>5. QED BY <1>1, <1>2, <1>4

\* The concurrent search implements the abstract one: however the workers
\* interleave, it asks each query that it owes at most once, and when run returns
\* it has asked everything that the rules lead to, unless it was cut short.
THEOREM SearchImplemented == Spec => ImplementsSearch
<1>1. /\ Shape /\ JobOK /\ WorkAccounted /\ Quiet /\ OnceInv /\ JustInv /\ ClaimInv /\ PlaceInv
      /\ CompleteInv /\ [Next]_vars
      => [S!Next]_S!vars
  BY SearchStep
<1>2. QED
  BY <1>1, SearchInit, ShapeInvariant, WorkAccountedAlways, QuietInvariant, OnceInvariant,
     JustInvariant, CompleteInvariant, PTL DEF Spec, ImplementsSearch, S!Spec

-----------------------------------------------------------------------------
(* The depth of the start objects.                                         *)

\* What Start asks of its queries (traverse.go) and TraverseStart ensures.
StartQueriesOfStartClass == \A q \in StartQueries : QueryClass[q] = StartClass

IsStart(ql) == ql.depth = 0 /\ ql.query \in StartQueries

\* Nothing but the start queries is under way.
OnlyStart ==
  /\ \A t \in Thread : todo[t] = {} /\ \A ql \in sends[t] : IsStart(ql)
  /\ \A t \in Posting : IsStart(post[t])
  /\ \A i \in 1 .. Len(items) : IsStart(items[i])
  /\ \A w \in Busy : IsStart(job[w])

\* The start objects that no thread has claimed.
Unexpanded ==
  pc[Main] \in {"start", "append"} \/ unprocessed[StartClass] \cap StartObjects # {}

Unstarted == seen = {} /\ Busy = {} /\ items = <<>> /\ \A t \in Thread : sends[t] = {}

\* Until the start objects are claimed only start queries are under way, so that
\* the thread that claims them, main or worker, sends at depth one.
DepthInv ==
  /\ Unexpanded => OnlyStart
  /\ pc[Main] \in {"start", "append"} => Unstarted
  /\ StartObjectsAtDepthOne

LEMMA DepthKept ==
  ASSUME Shape, JobOK, ClaimInv, PlaceInv, DepthInv, [Next]_vars,
         \A t \in Thread : todo'[t] \subseteq todo[t]
  PROVE  StartObjectsAtDepthOne'
<1> SUFFICES ASSUME NEW t \in Thread, NEW p \in todo'[t],
                    NodeOf(t)' = StartClass, p[1] \in StartObjects
             PROVE  DepthOf(t)' = 1
  BY DEF StartObjectsAtDepthOne
<1>1. p \in todo[t] OBVIOUS
<1>2. NodeOf(t)' = NodeOf(t) /\ DepthOf(t)' = DepthOf(t) BY <1>1, NodeKept
<1>3. QED BY <1>1, <1>2 DEF DepthInv, StartObjectsAtDepthOne

LEMMA DepthStep ==
  ASSUME StartQueriesOfStartClass,
         Shape, JobOK, ClaimInv, PlaceInv, DepthInv, [Next]_vars
  PROVE  DepthInv'
<1> USE ScopeAssumption, TraverserAssumption
<1>a. Main \in Thread /\ StartClass \in Class /\ \A w \in Worker : w \in Thread /\ w # Main
  BY DEF Thread
<1>b. ASSUME NEW w \in Worker, w \in Busy PROVE pc[Main] \notin {"start", "append"}
  BY <1>b DEF DepthInv, Unstarted
<1>1. CASE Still
  <2> USE <1>1 DEF Still, nodes
  <2>1. pc'[Main] \in {"start", "append"} => pc[Main] \in {"start", "append"}
    BY <1>a DEF Moves
  <2>2. Unexpanded' => Unexpanded BY <2>1 DEF Unexpanded
  <2>3. Busy' \subseteq Busy /\ \A w \in Busy' : job'[w] = job[w]
    <3>1. \A w \in Worker : pc[w] \in WorkerLabel /\ pc'[w] \in WorkerLabel
      BY ShapeStep DEF Shape
    <3>2. \A w \in Worker : pc[w] \in {"get", "waiting", "exited"} =>
                             pc'[w] \in {"get", "waiting", "exited"}
      BY <1>a DEF Moves
    <3>3. \A w \in Worker : pc[w] = "finish" => pc'[w] \in {"finish", "get"}
      BY <1>a, <3>1 DEF Moves, WorkerLabel
    <3>4. QED BY <1>a, <3>2, <3>3 DEF Busy
  <2>4. Posting' = Posting /\ \A t \in Posting : post'[t] = post[t]
    BY <1>1, StillPlaces DEF SamePlaces
  <2>5. OnlyStart => OnlyStart' BY <2>3, <2>4 DEF OnlyStart, IsStart
  <2>6. Unstarted => Unstarted' BY <2>3 DEF Unstarted
  <2>7. QED BY <2>1, <2>2, <2>5, <2>6, DepthKept DEF DepthInv
<1>2. CASE AppendStart
  <2>1. OnlyStart /\ Unstarted BY <1>2, AppendMoves DEF DepthInv, Unexpanded
  <2>2. UNCHANGED <<items, post, todo, job>> /\ \A t \in Thread \ {Main} : pc'[t] = pc[t]
    BY <1>2, AppendMoves DEF Thread
  <2>3. pc[Main] = "append" /\ pc'[Main] = "prime" BY <1>2, AppendMoves
  <2>4. Busy' = Busy /\ Posting' = Posting BY <1>a, <2>2, <2>3 DEF Busy, Posting
  <2>5. \A ql \in sends'[Main] : IsStart(ql)
    <3>1. sends'[Main] = {[query |-> q, line |-> None, depth |-> 0] : q \in StartQueries}
      BY <1>2, AppendMoves
    <3>2. QED BY <3>1 DEF IsStart
  <2>6. \A t \in Thread \ {Main} : sends'[t] = sends[t] BY <1>2, AppendMoves DEF Thread
  <2>7. OnlyStart' BY <2>1, <2>2, <2>4, <2>5, <2>6 DEF OnlyStart, IsStart
  <2>8. QED BY <2>2, <2>3, <2>7, DepthKept DEF DepthInv
<1>3. ASSUME NEW w \in Worker, Take(w) PROVE DepthInv'
  <2>1. /\ items # <<>> /\ 1 \in 1 .. Len(items) /\ job'[w] = items[1]
        /\ \A u \in Thread \ {w} : job'[u] = job[u]
        /\ \A i \in 1 .. Len(items') : i + 1 \in 1 .. Len(items) /\ items'[i] = items[i + 1]
        /\ Posting' = Posting /\ post' = post
    BY <1>3, TakePlaces
  <2>2. pc[Main] \notin {"start", "append"} BY <2>1 DEF DepthInv, Unstarted
  <2>3. /\ pc[w] = "get" /\ \A u \in Thread \ {w} : pc'[u] = pc[u]
        /\ UNCHANGED <<sends, todo, unprocessed>>
    BY <1>3, <1>a, WorkerMoves DEF Take, nodes
  <2>4. pc'[Main] = pc[Main] BY <1>a, <2>3
  <2>5. Unexpanded' => Unexpanded BY <2>3, <2>4 DEF Unexpanded
  <2>6. Busy' \subseteq Busy \cup {w} BY <1>a, <2>3 DEF Busy
  <2>7. ASSUME OnlyStart PROVE OnlyStart'
    <3>1. \A i \in 1 .. Len(items') : IsStart(items'[i]) BY <2>1, <2>7 DEF OnlyStart
    <3>2. \A u \in Busy' : IsStart(job'[u])
      <4>1. IsStart(job'[w]) BY <2>1, <2>7 DEF OnlyStart
      <4>2. \A u \in Busy \ {w} : job'[u] = job[u] BY <1>a, <2>1 DEF Busy
      <4>3. QED BY <2>6, <2>7, <4>1, <4>2 DEF OnlyStart
    <3>3. QED BY <2>1, <2>3, <2>7, <3>1, <3>2 DEF OnlyStart, IsStart
  <2>8. QED BY <2>2, <2>3, <2>4, <2>5, <2>7, DepthKept DEF DepthInv
<1>4. ASSUME NEW w \in Worker, Merge(w) \/ RecordLine(w) \/ AddStatuses(w) PROVE DepthInv'
  <2>1. /\ pc[w] \in {"merge", "line", "status"} /\ pc'[w] \in {"line", "status", "claim"}
        /\ \A u \in Thread \ {w} : pc'[u] = pc[u]
        /\ UNCHANGED <<post, sends, todo, job>>
    <3>1. pc[w] \in {"merge", "line", "status"} BY <1>4 DEF Merge, RecordLine, AddStatuses
    <3>2. QED BY <1>4, <3>1, WorkerMoves
  <2>2. pc'[Main] = pc[Main] /\ pc[Main] \notin {"start", "append"}
    BY <1>a, <1>b, <2>1 DEF Busy
  <2>3. unprocessed'[StartClass] \cap StartObjects \subseteq unprocessed[StartClass]
    <3>1. CASE Merge(w)
      <4>1. PICK objects \in Answers[job[w].query] :
              LET c == QueryClass[job[w].query] IN
              /\ unprocessed'[c] = unprocessed[c] \cup New(c, objects)
              /\ \A d \in Class \ {c} : unprocessed'[d] = unprocessed[d]
        BY <3>1, MergeNodes
      <4>2. StartObjects \subseteq result[StartClass] BY <2>2 DEF PlaceInv
      <4>3. QED BY <1>a, <4>1, <4>2 DEF New
    <3>2. CASE RecordLine(w) \/ AddStatuses(w) BY <3>2 DEF RecordLine, AddStatuses
    <3>3. QED BY <1>4, <3>1, <3>2
  <2>4. Unexpanded' => Unexpanded BY <2>2, <2>3 DEF Unexpanded
  <2>5. items' = items BY <1>4 DEF Merge, RecordLine, AddStatuses, shared
  <2>6. Busy' = Busy /\ Posting' = Posting BY <1>a, <2>1 DEF Busy, Posting
  <2>7. OnlyStart => OnlyStart' BY <2>1, <2>5, <2>6 DEF OnlyStart, IsStart
  <2>8. QED BY <2>1, <2>2, <2>4, <2>7, DepthKept DEF DepthInv
\* A thread inside handleQuery or applyRules acts after run has started it.
<1>c. ASSUME NEW t \in Thread, pc[t] \in {"claim", "prime", "apply", "put"}
      PROVE  pc[Main] \notin {"start", "append"}
  <2>1. t = Main \/ (t \in Worker /\ t \in Busy) BY <1>c DEF Thread, Busy
  <2>2. QED BY <1>b, <1>c, <2>1
<1>5. ASSUME NEW t \in Thread, Claim(t) PROVE DepthInv'
  <2>1. /\ NodeOf(t) \in Class
        /\ pc[t] = "claim" /\ pc'[t] = "apply" /\ \A u \in Thread \ {t} : pc'[u] = pc[u]
        /\ todo'[t] = unprocessed[NodeOf(t)] \X RulesOf(NodeOf(t))
        /\ \A u \in Thread \ {t} : todo'[u] = todo[u]
        /\ unprocessed'[NodeOf(t)] = {}
        /\ \A c \in Class \ {NodeOf(t)} : unprocessed'[c] = unprocessed[c]
        /\ UNCHANGED <<items, post, sends, job>>
    BY <1>5, ClaimMoves
  <2>2. pc[Main] \notin {"start", "append"} /\ pc'[Main] \notin {"start", "append"}
    BY <1>a, <1>c, <2>1
  <2>3. t # Main => t \in Busy BY <2>1 DEF Thread, Busy
  <2>4. ~Unexpanded'
    <3>1. CASE NodeOf(t) = StartClass BY <2>1, <2>2, <3>1 DEF Unexpanded
    <3>2. ASSUME NodeOf(t) # StartClass, Unexpanded PROVE FALSE
      <4>1. t # Main BY <3>2 DEF NodeOf
      <4>2. job[t].query \in StartQueries BY <2>3, <3>2, <4>1 DEF DepthInv, OnlyStart, IsStart
      <4>3. QED BY <3>2, <4>1, <4>2 DEF NodeOf, StartQueriesOfStartClass
    <3>3. ASSUME NodeOf(t) # StartClass, Unexpanded' PROVE Unexpanded
      BY <1>a, <2>1, <2>2, <3>3 DEF Unexpanded
    <3>4. QED BY <3>1, <3>2, <3>3
  <2>5. StartObjectsAtDepthOne'
    <3>1. ASSUME NEW u \in Thread, NEW p \in todo'[u],
                 NodeOf(u)' = StartClass, p[1] \in StartObjects
          PROVE  DepthOf(u)' = 1
      <4>1. NodeOf(u)' = NodeOf(u) /\ DepthOf(u)' = DepthOf(u)
        BY <2>1 DEF NodeOf, DepthOf
      <4>2. CASE u = t
        <5>1. p[1] \in unprocessed[StartClass] BY <2>1, <3>1, <4>1, <4>2
        <5>2. Unexpanded BY <3>1, <5>1 DEF Unexpanded
        <5>3. t # Main => job[t].depth = 0 BY <2>3, <5>2 DEF DepthInv, OnlyStart, IsStart
        <5>4. QED BY <4>1, <4>2, <5>3 DEF DepthOf
      <4>3. CASE u # t
        BY <2>1, <3>1, <4>1, <4>3 DEF DepthInv, StartObjectsAtDepthOne
      <4>4. QED BY <4>2, <4>3
    <3>2. QED BY <3>1 DEF StartObjectsAtDepthOne
  <2>6. QED BY <2>2, <2>4, <2>5 DEF DepthInv
<1>6. ASSUME NEW t \in Thread, ApplyRule(t) PROVE DepthInv'
  <2>1. PICK p \in todo[t] : todo'[t] = todo[t] \ {p} /\ \A u \in Thread \ {t} : todo'[u] = todo[u]
    BY <1>6, ApplySends
  <2>2. UNCHANGED <<pc, nodes>> BY <1>6, ApplySends
  <2>3. pc[t] = "apply" BY <1>6 DEF ApplyRule
  <2>4. ~Unexpanded BY <2>1 DEF DepthInv, OnlyStart
  <2>5. ~Unexpanded' BY <2>2, <2>4 DEF Unexpanded, nodes
  <2>6. pc'[Main] \notin {"start", "append"} BY <1>c, <2>2, <2>3
  <2>7. QED BY <2>1, <2>5, <2>6, DepthKept DEF DepthInv
<1>7. ASSUME NEW t \in Thread, Applied(t) PROVE DepthInv'
  <2>1. /\ pc[t] = "apply" /\ pc'[t] = "finish" /\ \A u \in Thread \ {t} : pc'[u] = pc[u]
        /\ todo'[t] = {} /\ \A u \in Thread \ {t} : todo'[u] = todo[u]
        /\ UNCHANGED <<items, nodes, post, sends, job>>
    BY <1>7, AppliedMoves
  <2>2. pc[Main] \notin {"start", "append"} /\ pc'[Main] \notin {"start", "append"}
    BY <1>a, <1>c, <2>1
  <2>3. Unexpanded' => Unexpanded BY <2>1, <2>2 DEF Unexpanded, nodes
  <2>4. Busy' = Busy /\ Posting' = Posting BY <1>a, <2>1 DEF Busy, Posting
  <2>5. OnlyStart => OnlyStart' BY <2>1, <2>4 DEF OnlyStart, IsStart
  <2>6. QED BY <2>1, <2>2, <2>3, <2>5, DepthKept DEF DepthInv
<1>8. ASSUME NEW t \in Thread, Drop(t) PROVE DepthInv'
  <2>1. PICK ql \in sends[t] : sends'[t] = sends[t] \ {ql} BY <1>8, DropMoves
  <2>2. /\ \A u \in Thread \ {t} : sends'[u] = sends[u]
        /\ UNCHANGED <<pc, items, nodes, post, todo, job>>
    BY <1>8, DropMoves
  <2>3. pc[t] \in {"prime", "apply"} BY <1>8 DEF Drop, Dispatching
  <2>4. pc'[Main] \notin {"start", "append"} BY <1>c, <2>2, <2>3
  <2>5. Unexpanded' => Unexpanded BY <2>2 DEF Unexpanded, nodes
  <2>6. Busy' = Busy /\ Posting' = Posting BY <2>2 DEF Busy, Posting
  <2>7. OnlyStart => OnlyStart' BY <2>1, <2>2, <2>6 DEF OnlyStart, IsStart
  <2>8. QED BY <2>2, <2>4, <2>5, <2>7, DepthKept DEF DepthInv
<1>9. ASSUME NEW t \in Thread, MarkSeen(t) PROVE DepthInv'
  <2>1. PICK ql \in sends[t] :
          /\ Posting' = Posting \cup {t} /\ post'[t] = ql
          /\ \A u \in Thread \ {t} : post'[u] = post[u]
          /\ sends'[t] = sends[t] \ {ql} /\ \A u \in Thread \ {t} : sends'[u] = sends[u]
          /\ pc[t] \in {"prime", "apply"} /\ pc'[t] = "add" /\ \A u \in Thread \ {t} : pc'[u] = pc[u]
          /\ UNCHANGED <<items, job, nodes, todo>>
    BY <1>9, MarkSeenPlaces
  <2>2. pc[Main] \notin {"start", "append"} /\ pc'[Main] \notin {"start", "append"}
    BY <1>a, <1>c, <2>1
  <2>3. Unexpanded' => Unexpanded BY <2>1, <2>2 DEF Unexpanded, nodes
  <2>4. Busy' = Busy BY <1>a, <2>1 DEF Busy
  <2>5. OnlyStart => OnlyStart' BY <2>1, <2>4 DEF OnlyStart, IsStart, Posting
  <2>6. QED BY <2>1, <2>2, <2>3, <2>5, DepthKept DEF DepthInv
<1>10. ASSUME NEW t \in Thread, Put(t) PROVE DepthInv'
  <2>1. /\ Posting' = Posting \ {t} /\ t \in Posting
        /\ pc[t] = "put" /\ pc'[t] = "signal" /\ \A u \in Thread \ {t} : pc'[u] = pc[u]
        /\ UNCHANGED <<job, post, nodes, todo, sends>>
    BY <1>10, PutPlaces
  <2>2. \A i \in 1 .. Len(items') :
           items'[i] = post[t] \/ (i \in 1 .. Len(items) /\ items'[i] = items[i])
    BY <1>10, PutPlaces
  <2>3. pc[Main] \notin {"start", "append"} /\ pc'[Main] \notin {"start", "append"}
    BY <1>a, <1>c, <2>1
  <2>4. Unexpanded' => Unexpanded BY <2>1, <2>3 DEF Unexpanded, nodes
  <2>5. Busy' = Busy BY <1>a, <2>1 DEF Busy
  <2>6. OnlyStart => OnlyStart' BY <2>1, <2>2, <2>5 DEF OnlyStart, IsStart
  <2>7. QED BY <2>1, <2>3, <2>4, <2>6, DepthKept DEF DepthInv
<1>11. QED BY <1>1, <1>2, <1>3, <1>4, <1>5, <1>6, <1>7, <1>8, <1>9, <1>10, Kinds

LEMMA DepthInit == Init => DepthInv
<1> SUFFICES ASSUME Init PROVE DepthInv
  OBVIOUS
<1>1. /\ \A t \in Thread : pc[t] \in {"start", "get"} /\ todo[t] = {} /\ sends[t] = {}
      /\ \A w \in Worker : pc[w] = "get"
  BY TraverserAssumption DEF Init, Thread
<1>2. Busy = {} /\ Posting = {} BY <1>1 DEF Busy, Posting
<1>3. items = <<>> /\ Len(items) = 0 /\ seen = {} BY DEF Init
<1>4. QED BY <1>1, <1>2, <1>3 DEF DepthInv, OnlyStart, Unstarted, StartObjectsAtDepthOne

\* When the start queries are of the start class, the queries that the start
\* objects yield count as one step deep, whether the main thread or a worker on
\* a start query claims the start objects.
THEOREM StartObjectsAtDepthOneAlways ==
  ASSUME StartQueriesOfStartClass
  PROVE  Spec => []StartObjectsAtDepthOne
<1>1. Shape /\ JobOK /\ ClaimInv /\ PlaceInv /\ DepthInv /\ [Next]_vars => DepthInv'
  BY DepthStep
<1>2. DepthInv => StartObjectsAtDepthOne BY DEF DepthInv
<1>3. QED
  BY <1>1, <1>2, DepthInit, ShapeInvariant, JustInvariant, CompleteInvariant, PTL DEF Spec

=============================================================================
