----------------------------- MODULE MCScopedSearch ----------------------------
(***************************************************************************)
(* Configurations that matter to loading, building and searching: sources  *)
(* that include each other, faults, aliases within aliases, rules over     *)
(* missing classes, and a graph with a detour, a cycle, a line from a      *)
(* class to itself and a wide rule.                                        *)
(***************************************************************************)
EXTENDS ScopedSearch

MCSource == {"main", "left", "right"}
MCDomain == {"k", "l"}
MCClassNames == [k |-> {"p", "q", "r"}, l |-> {"s"}]

Spec1(d, cs) == [domain |-> d, classes |-> cs]
Rule(n, sd, scs, gd, gcs) ==
  [name |-> n, start |-> Spec1(sd, scs), goal |-> Spec1(gd, gcs), parses |-> TRUE]
Alias(d, n, cs) == [domain |-> d, name |-> n, classes |-> cs]
StoreAt(d, n) == [domain |-> d, name |-> n]

MCBuiltIn == <<Rule("builtin", "k", {"q"}, "l", {"s"})>>

File(include, aliases, stores, someRules) ==
  [include |-> include, aliases |-> aliases, stores |-> stores, rules |-> someRules,
   tuning |-> FALSE]
Plain == File(<<>>, <<>>, <<>>, <<>>)
Tuned(f) == [f EXCEPT !.tuning = TRUE]
Only(f) == [main |-> f, left |-> Plain, right |-> Plain]

PQ == Rule("pq", "k", {"p"}, "k", {"q"})

\* Sources that include each other, in a circle and as a diamond.
Circle ==
  [main |-> Tuned(File(<<"left">>, <<>>, <<StoreAt("k", 1), StoreAt("k", 2)>>, <<PQ>>)),
   left |-> File(<<"right">>, <<>>, <<StoreAt("k", 1), StoreAt("l", 1)>>, <<>>),
   right |-> File(<<"main">>, <<>>, <<StoreAt("k", 1)>>,
                  <<Rule("rp", "k", {"r", "absent"}, "k", {"p"})>>)]
Diamond ==
  [main |-> File(<<"left", "right">>, <<>>, <<>>, <<PQ>>),
   left |-> File(<<"right">>, <<>>, <<>>, <<>>),
   right |-> File(<<>>, <<>>, <<>>, <<Rule("sp", "l", {"s"}, "k", {"p"})>>)]

\* Aliases within aliases, used in a source other than that which has them, and of
\* the same name in two domains.  Three deep is more than one pass always expands.
Nested(rest) ==
  [main |-> File(<<"left", "right">>, <<Alias("k", "outer", {"inner", "r"})>>, <<>>,
                 <<Rule("oo", "k", {"outer"}, "l", {"inner"})>>),
   left |-> File(<<>>, <<Alias("k", "inner", {"p", "q"}), Alias("l", "inner", {"s", "p"})>>,
                 <<>>, <<>>),
   right |-> File(<<>>, rest, <<>>, <<Rule("sl", "l", {}, "k", {"inner"})>>)]

\* An alias that contains the class of its own name, and two that contain each
\* other's, so that expanding never comes to an end.
Renamed ==
  Only(File(<<>>, <<Alias("k", "p", {"p", "q"}), Alias("k", "both", {"p", "r"})>>, <<>>,
            <<Rule("pb", "k", {"p"}, "k", {"both"})>>))
Swapped ==
  Only(File(<<>>, <<Alias("k", "p", {"q"}), Alias("k", "q", {"p"}), Alias("k", "both", {"p", "q"})>>,
            <<>>, <<Rule("bs", "k", {"both"}, "l", {"s"})>>))

Faulty ==
  {Only(f) : f \in {
     File(<<>>, <<Alias(NoName, "a", {"p"})>>, <<>>, <<>>),
     File(<<>>, <<Alias("k", "a", {})>>, <<>>, <<>>),
     File(<<>>, <<Alias("k", "a", {"p"}), Alias("k", "a", {"q"})>>, <<>>, <<>>),
     File(<<>>, <<>>, <<StoreAt("k", 1), StoreAt("m", 1)>>, <<>>),
     File(<<>>, <<>>, <<>>, <<PQ, PQ>>),
     File(<<>>, <<>>, <<>>, <<[PQ EXCEPT !.name = NoName]>>),
     File(<<>>, <<>>, <<>>, <<[PQ EXCEPT !.name = "builtin"]>>),
     File(<<>>, <<>>, <<>>, <<[PQ EXCEPT !.parses = FALSE]>>),
     File(<<>>, <<>>, <<>>, <<[PQ EXCEPT !.parses = FALSE, !.goal = Spec1("k", {"absent"})]>>),
     File(<<>>, <<>>, <<>>, <<Rule("mp", "m", {"p"}, "k", {"p"})>>),
     File(<<>>, <<>>, <<>>, <<Rule("pm", "k", {"p"}, "m", {"p"})>>)}}
  \cup {[Circle EXCEPT !.right = Unreadable], [Circle EXCEPT !.right = Tuned(@)],
        [Circle EXCEPT !.main = Unreadable]}

\* Ways from p to s: over q, or over r and q, which costs one more and is a dead end
\* when nothing of r leads to a q.  q leads to itself and back to p, and a wide rule
\* leads from r to all classes of its domain.
Web ==
  Only(File(<<>>, <<>>, <<>>,
            <<PQ, Rule("pr", "k", {"p"}, "k", {"r"}), Rule("rq", "k", {"r"}, "k", {"q"}),
              Rule("qq", "k", {"q"}, "k", {"q", "p"}), Rule("any", "k", {"r"}, "k", {})>>))

MCContents ==
  Faulty \cup
  {Circle, Diamond, Web, Renamed, Swapped, Nested(<<>>), Nested(<<Alias("k", "deep", {"outer"})>>),
   [Nested(<<Alias("k", "deep", {"outer"})>>) EXCEPT
      !.main.rules = <<Rule("do", "k", {"deep"}, "l", {"s"})>>]}
================================================================================
