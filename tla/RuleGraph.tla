------------------------------- MODULE RuleGraph -------------------------------
(***************************************************************************)
(* The graph of rules (package graph) and the part of it that a search     *)
(* follows (package traverse).  A line leads a rule from one of its start  *)
(* classes to one of its goal classes.  Paths come from the gonum library. *)
(***************************************************************************)
EXTENDS Integers, Sequences, FiniteSets, SequencesExt, FiniteSetsExt

\* NewData: the product of the starts and the goals of each rule.
LinesOf(rs) ==
  UNION {{[rule |-> r, start |-> s, goal |-> g] : s \in r.start, g \in r.goal} : r \in rs}

NodesOf(lines) == {l.start : l \in lines} \cup {l.goal : l \in lines}

Between(lines, u, v) == {l \in lines : l.start = u /\ l.goal = v}

\* An edge is as expensive as the least spread of its rules.
Weight(lines, u, v) == Min({Cardinality(l.rule.goal) : l \in Between(lines, u, v)})

\* Loopless paths from u to v along edges, and what they cost.
PathsBetween(lines, u, v) ==
  {p \in SetToAllKPermutations(NodesOf(lines)) :
     /\ p # <<>> /\ p[1] = u /\ p[Len(p)] = v
     /\ \A i \in 1 .. Len(p) - 1 : Between(lines, p[i], p[i + 1]) # {}}

Cost(lines, p) ==
  FoldLeft(LAMBDA sum, i : sum + Weight(lines, p[i], p[i + 1]), 0, [i \in 1 .. Len(p) - 1 |-> i])

\* YenKShortestPaths with any number of paths that cost up to one more than
\* the cheapest.
NearShortest(lines, u, v) ==
  LET paths == PathsBetween(lines, u, v)
  IN  {p \in paths : \A k \in paths : Cost(lines, p) <= Cost(lines, k) + 1}

\* goalScope: all lines along the edges of these paths.
GoalScope(lines, start, goals) ==
  {l \in lines : \E g \in goals : \E p \in NearShortest(lines, start, g) :
     \E i \in 1 .. Len(p) - 1 : l.start = p[i] /\ l.goal = p[i + 1]}

\* The classes from which ways along lines lead to one of `ends': the least set
\* that has the ends and is closed under going back.
LeadTo(lines, ends) ==
  LET all == NodesOf(lines) \cup ends IN
  {c \in all : \A X \in SUBSET all :
     ends \subseteq X /\ (\A l \in lines : l.goal \in X => l.start \in X) => c \in X}

\* The classes to which ways along lines lead from one of `starts'.
LedFrom(lines, starts) ==
  LET all == NodesOf(lines) \cup starts IN
  {c \in all : \A X \in SUBSET all :
     starts \subseteq X /\ (\A l \in lines : l.start \in X => l.goal \in X) => c \in X}

\* The ways of n steps along lines that begin with u.
Ways(lines, u, n) ==
  {w \in [0 .. n -> NodesOf(lines) \cup {u}] :
     w[0] = u /\ \A i \in 0 .. n - 1 : Between(lines, w[i], w[i + 1]) # {}}

\* RemoveEmptyGoalPaths: what is left are the nodes on a way to a goal that has
\* objects, and the lines between such nodes.
\* Mutant: the way is looked for in the wrong direction.
PruneFrom(graph, goals) ==
  LET kept == LedFrom(graph.lines, goals \cap graph.nodes)
  IN  [nodes |-> kept, lines |-> {l \in graph.lines : l.start \in kept /\ l.goal \in kept}]
Prune(graph, goals) ==
  LET kept == LeadTo(graph.lines, goals \cap graph.nodes)
  IN  [nodes |-> kept, lines |-> {l \in graph.lines : l.start \in kept /\ l.goal \in kept}]
================================================================================
