----------------------------- MODULE SearchScope -----------------------------
(***************************************************************************)
(* The fixed inputs of one correlation search (package traverse): the      *)
(* lines of the rule graph in scope, what the rules and the stores would   *)
(* answer, and the start of the search.                                    *)
(*                                                                         *)
(* Rules and stores are external to the traversal.  A rule is a function   *)
(* from an object to queries.  A store may answer a query with any of a    *)
(* set of results, so a failing or partly failing store is one more        *)
(* possible result (handleQuery ignores the error of engine.Get).          *)
(*                                                                         *)
(* An Object stands for one entry of a class's result list.  In a class    *)
(* with IDs equal objects are one entry; in a class without IDs every      *)
(* returned object is an entry of its own, so queries never share one.     *)
(***************************************************************************)
EXTENDS Integers

CONSTANTS
  Class, Object, Query, Rule,
  Lines,         \* the search scope: records [start, rule, goal]
  QueryClass,    \* [Query -> Class], the class of a query's results
  Apply,         \* [Rule -> [Object -> SUBSET Query]]
  Answers,       \* [Query -> SUBSET SUBSET Object], what the stores may return
  StartClass, StartObjects, StartQueries

Line == [start : Class, rule : Rule, goal : Class]

ASSUME ScopeAssumption ==
  /\ Lines \subseteq Line
  /\ QueryClass \in [Query -> Class]
  /\ Apply \in [Rule -> [Object -> SUBSET Query]]
  /\ Answers \in [Query -> SUBSET SUBSET Object]
  /\ StartClass \in Class
  /\ StartObjects \subseteq Object
  /\ StartQueries \subseteq Query

\* Classes that get a node: the ends of the lines in scope and the start.
Nodes == {l.start : l \in Lines} \cup {l.goal : l \in Lines} \cup {StartClass}

\* The rules to apply to the objects of class c.
RulesOf(c) == {l.rule : l \in {k \in Lines : k.start = c}}

\* The line that rule r draws from class c to the class of query q.
LineOf(c, r, q) == [start |-> c, rule |-> r, goal |-> QueryClass[q]]

\* The queries that rule r yields for object o of class c within the scope.
Yield(c, r, o) == {q \in Apply[r][o] : LineOf(c, r, q) \in Lines}

=============================================================================
