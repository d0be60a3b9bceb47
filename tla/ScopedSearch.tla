------------------------------ MODULE ScopedSearch -----------------------------
(***************************************************************************)
(* From a configuration to the graph that a search returns: the engine is  *)
(* built (EngineBuild), a request chooses a start and either goals or a    *)
(* depth, the lines in scope are computed, the search finds objects along  *)
(* them, and for goals what does not lead to one is removed.               *)
(*                                                                         *)
(* How the search finds objects is the subject of Traverser.  Here it is   *)
(* any sequence of steps along the lines in scope, ended at any point: of  *)
(* the queries of a search any may fail, be dropped or never be asked.     *)
(***************************************************************************)
EXTENDS EngineBuild, RuleGraph

CONSTANTS
  Object,
  MaxDepth       \* bound on the depths that requests ask for

ASSUME SearchAssumption == MaxDepth \in Nat

VARIABLES
  request,       \* [start, goals, depth]; goals = {} for a search by depth
  queue,         \* breadth-first walk: <<class, depth>>
  visited,
  scope,         \* the lines to follow
  found,         \* class -> objects
  credited,      \* the lines whose queries yielded objects that were new
  graph          \* the result, of nodes and lines

searchVars == <<request, queue, visited, scope, found, credited, graph>>
vars == <<loadVars, buildVars, searchVars>>

AllClasses == UNION {{d} \X ClassNames[d] : d \in Domain}
AllLines == LinesOf(ToSet(rules))
NoGraph == [nodes |-> {}, lines |-> {}]

Init ==
  /\ LoadInit /\ BuildInit
  /\ request = [start |-> NoName, goals |-> {}, depth |-> 0]
  /\ queue = <<>> /\ visited = {} /\ scope = {}
  /\ found = [c \in AllClasses |-> {}]
  /\ credited = {}
  /\ graph = NoGraph

Go(p) == phase' = p /\ UNCHANGED <<files, todo, configs, am, unvisited, written, buildVars>>
--------------------------------------------------------------------------------
\* A class that no rule mentions is not in the graph, which is an error.
Refuse(classes) ==
  /\ phase = "built"
  /\ ~(classes \subseteq NodesOf(AllLines))
  /\ Go("refused")
  /\ UNCHANGED searchVars

\* The start objects of the request; start queries follow during the search.
StartWith(s) == \E objects \in SUBSET Object : found' = [found EXCEPT ![s] = objects]

Goals(s, gs) ==
  /\ phase = "built"
  /\ s \in NodesOf(AllLines) /\ gs \subseteq NodesOf(AllLines)
  /\ request' = [start |-> s, goals |-> gs, depth |-> 0]
  /\ scope' = GoalScope(AllLines, s, gs)
  /\ StartWith(s)
  /\ Go("search")
  /\ UNCHANGED <<queue, visited, credited, graph>>

Neighbors(s, depth) ==
  /\ phase = "built"
  /\ s \in NodesOf(AllLines)
  /\ request' = [start |-> s, goals |-> {}, depth |-> depth]
  /\ queue' = <<<<s, 0>>>> /\ visited' = {s}
  /\ Go("walk")
  /\ UNCHANGED <<scope, found, credited, graph>>

\* neighborScope: BreadthFirst.Walk takes the next class off its queue; below
\* the maximal depth its lines are in scope and the classes they lead to are
\* visited, in any order.
\* Mutant: one level too many.
WalkFurther ==
  /\ phase = "walk" /\ queue # <<>>
  /\ LET c == Head(queue)[1]
         d == Head(queue)[2]
         out == IF d <= request.depth THEN {l \in AllLines : l.start = c} ELSE {}
         new == {l.goal : l \in out} \ visited
     IN  /\ scope' = scope \cup out
         /\ visited' = visited \cup new
         /\ \E order \in SetToSeqs(new) :
              queue' = Tail(queue) \o [i \in DOMAIN order |-> <<order[i], d + 1>>]
  /\ UNCHANGED <<loadVars, buildVars, request, found, credited, graph>>
Walk ==
  /\ phase = "walk" /\ queue # <<>>
  /\ LET c == Head(queue)[1]
         d == Head(queue)[2]
         out == IF d < request.depth THEN {l \in AllLines : l.start = c} ELSE {}
         new == {l.goal : l \in out} \ visited
     IN  /\ scope' = scope \cup out
         /\ visited' = visited \cup new
         /\ \E order \in SetToSeqs(new) :
              queue' = Tail(queue) \o [i \in DOMAIN order |-> <<order[i], d + 1>>]
  /\ UNCHANGED <<loadVars, buildVars, request, found, credited, graph>>

EndWalk ==
  /\ phase = "walk" /\ queue = <<>>
  /\ StartWith(request.start)
  /\ Go("search")
  /\ UNCHANGED <<request, queue, visited, scope, credited, graph>>
--------------------------------------------------------------------------------
\* A query of the start: its objects are credited to no line.
StartQuery ==
  /\ phase = "search"
  /\ \E objects \in SUBSET Object :
       found' = [found EXCEPT ![request.start] = @ \cup objects]
  /\ UNCHANGED <<loadVars, buildVars, request, queue, visited, scope, credited, graph>>

\* A query on line l: the line counts when it is the first to find an object.
Follow(l) ==
  /\ phase = "search"
  /\ found[l.start] # {}
  /\ \E new \in SUBSET (Object \ found[l.goal]) :
       /\ new # {}
       /\ found' = [found EXCEPT ![l.goal] = @ \cup new]
  /\ credited' = credited \cup {l}
  /\ UNCHANGED <<loadVars, buildVars, request, queue, visited, scope, graph>>

\* buildGraph, and for a search of goals RemoveEmptyGoalPaths.
ResultGraph ==
  LET nodes == {c \in AllClasses : found[c] # {}}
  IN  [nodes |-> nodes, lines |-> {l \in credited : l.start \in nodes /\ l.goal \in nodes}]

Finish ==
  /\ phase = "search"
  /\ graph' = IF request.goals = {} THEN ResultGraph ELSE Prune(ResultGraph, request.goals)
  /\ Go("done")
  /\ UNCHANGED <<request, queue, visited, scope, found, credited>>

Next ==
  \/ BuildNext /\ UNCHANGED searchVars
  \/ \E s \in AllClasses :
       \/ \E gs \in (SUBSET AllClasses) \ {{}} : Goals(s, gs) \/ Refuse({s} \cup gs)
       \/ \E d \in 0 .. MaxDepth : Neighbors(s, d)
  \/ Walk \/ EndWalk \/ StartQuery
  \/ \E l \in scope : Follow(l)
  \/ Finish

\* The program is one thread here, and a search is not asked to go on for ever.
Spec == Init /\ [][Next]_vars /\ WF_vars(Next)
--------------------------------------------------------------------------------
(* Properties *)

\* A neighbourhood of depth n has the lines from all classes that are fewer
\* than n lines away from the start, and no others.
ScopeByDistance ==
  phase \in {"search", "done"} /\ request.goals = {} =>
    scope = {l \in AllLines : \E n \in 0 .. request.depth - 1 :
               \E w \in Ways(AllLines, request.start, n) : w[n] = l.start}

Reaches(u, v) == v \in LedFrom(graph.lines, {u})

\* What a goal search returns are ways from the start to goals: each class in
\* the graph is reached from the start and leads to a goal that has objects, over
\* lines of the graph, and each goal that has objects is there.  Lines are only
\* credited with objects that no other line found before, so that it is not
\* evident that what is left holds together.
GoalPaths ==
  phase = "done" /\ request.goals # {} =>
    /\ \A c \in graph.nodes :
         /\ Reaches(request.start, c)
         /\ \E g \in request.goals : found[g] # {} /\ Reaches(c, g)
    /\ \A g \in request.goals : found[g] # {} => g \in graph.nodes

\* Loading ends also when sources include each other, and a request is answered.
Ends == <>(phase \in {"done", "failed", "refused"})
================================================================================
