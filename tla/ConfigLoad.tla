------------------------------- MODULE ConfigLoad ------------------------------
(***************************************************************************)
(* Loading a configuration (package config): a source is read with all     *)
(* the sources it includes, each once, depth first; then the aliases of    *)
(* all of them, which are names for sets of classes of one domain, are     *)
(* replaced in the rules of all of them.                                   *)
(*                                                                         *)
(* Sources are names after resolution.  A list of class names is modelled  *)
(* as a set: no later step depends on its order or on repetitions.         *)
(***************************************************************************)
EXTENDS Integers, Sequences, FiniteSets, SequencesExt

CONSTANTS
  Source, Root,
  Contents,      \* the set of functions from Source to a File or Unreadable
  Unreadable,
  NoName         \* an empty string: of a domain, or as the name of a rule

\* What a file holds: lists of sources, aliases, stores and rules.
IsList(list) == list \in Seq(ToSet(list))
IsSpec(spec) == spec = [domain |-> spec.domain, classes |-> spec.classes]
IsRule(r) ==
  /\ r = [name |-> r.name, start |-> r.start, goal |-> r.goal, parses |-> r.parses]
  /\ IsSpec(r.start) /\ IsSpec(r.goal)
IsFile(file) ==
  /\ file.include \in Seq(Source)
  /\ IsList(file.aliases) /\ IsList(file.stores) /\ IsList(file.rules)
  /\ \A r \in ToSet(file.rules) : IsRule(r)

ASSUME ConfigAssumption ==
  /\ Root \in Source
  /\ \A f \in Contents : \A s \in Source : f[s] = Unreadable \/ IsFile(f[s])

VARIABLES
  files,         \* Source -> what reading it gives, fixed
  phase,
  todo,          \* the sources still to be loaded, innermost include first
  configs,       \* loader.configs: the sources in the order they were loaded
  am,            \* aliasMap: <<domain, name>> -> set of names
  unvisited,     \* the aliases that the loop over the map has yet to come to
  written        \* after expansion: the rules of each source in configs

loadVars == <<files, phase, todo, configs, am, unvisited, written>>

LoadInit ==
  /\ files \in Contents
  /\ phase = "load"
  /\ todo = <<Root>>
  /\ configs = <<>>
  /\ am = <<>>
  /\ unvisited = {}
  /\ written = <<>>

Fail == phase' = "failed"
--------------------------------------------------------------------------------
(* loader.load *)

Loading == phase = "load" /\ todo # <<>>

\* Mutant: the includes of a source that has been loaded are followed again.
SkipReload ==
  /\ Loading
  /\ Head(todo) \in ToSet(configs)
  /\ todo' = files[Head(todo)].include \o Tail(todo)
  /\ UNCHANGED <<files, phase, configs, am, unvisited, written>>
Skip ==
  /\ Loading
  /\ Head(todo) \in ToSet(configs)
  /\ todo' = Tail(todo)
  /\ UNCHANGED <<files, phase, configs, am, unvisited, written>>

\* A tuning section is allowed in the first source only.
Loadable(s) == files[s] # Unreadable /\ (configs = <<>> \/ ~files[s].tuning)

LoadFails ==
  /\ Loading
  /\ Head(todo) \notin ToSet(configs)
  /\ ~Loadable(Head(todo))
  /\ Fail
  /\ UNCHANGED <<files, todo, configs, am, unvisited, written>>

\* Mutant: what an included source includes is not loaded.
LoadDirect ==
  /\ Loading
  /\ Head(todo) \notin ToSet(configs)
  /\ Loadable(Head(todo))
  /\ configs' = Append(configs, Head(todo))
  /\ todo' = (IF configs = <<>> THEN files[Head(todo)].include ELSE <<>>) \o Tail(todo)
  /\ UNCHANGED <<files, phase, am, unvisited, written>>
Load ==
  /\ Loading
  /\ Head(todo) \notin ToSet(configs)
  /\ Loadable(Head(todo))
  /\ configs' = Append(configs, Head(todo))
  /\ todo' = files[Head(todo)].include \o Tail(todo)
  /\ UNCHANGED <<files, phase, am, unvisited, written>>
--------------------------------------------------------------------------------
(* expand *)

\* Where the aliases of all sources stand, and what stands there.
AliasPlaces == UNION {{i} \X DOMAIN files[configs[i]].aliases : i \in DOMAIN configs}
AliasAt(p) == files[configs[p[1]]].aliases[p[2]]
Key(a) == <<a.domain, a.name>>

WellFormed ==
  /\ \A p \in AliasPlaces : AliasAt(p).domain # NoName /\ AliasAt(p).classes # {}
  /\ \A p, q \in AliasPlaces : Key(AliasAt(p)) = Key(AliasAt(q)) => p = q

Gather ==
  /\ phase = "load" /\ todo = <<>>
  /\ WellFormed
  /\ am' = [k \in {Key(AliasAt(p)) : p \in AliasPlaces} |->
              AliasAt(CHOOSE p \in AliasPlaces : Key(AliasAt(p)) = k).classes]
  /\ unvisited' = DOMAIN am'
  /\ phase' = "nest"
  /\ UNCHANGED <<files, todo, configs, written>>

GatherFails ==
  /\ phase = "load" /\ todo = <<>>
  /\ ~WellFormed
  /\ Fail
  /\ UNCHANGED <<files, todo, configs, am, unvisited, written>>

\* aliasMap.Expand
Expand(aliases, d, names) ==
  UNION {IF <<d, n>> \in DOMAIN aliases THEN aliases[<<d, n>>] ELSE {n} : n \in names}

\* Aliases within aliases: one pass over the map, in any order, since `more' is
\* reset after the first; what has been expanded already is used expanded.
\* Mutant: aliases within aliases stay.
NestNot(k) ==
  /\ phase = "nest" /\ k \in unvisited
  /\ unvisited' = unvisited \ {k}
  /\ UNCHANGED <<files, phase, todo, configs, am, written>>
Nest(k) ==
  /\ phase = "nest" /\ k \in unvisited
  /\ am' = [am EXCEPT ![k] = Expand(am, k[1], @)]
  /\ unvisited' = unvisited \ {k}
  /\ UNCHANGED <<files, phase, todo, configs, written>>

RulePlaces == UNION {{i} \X DOMAIN files[configs[i]].rules : i \in DOMAIN configs}
RuleAt(p) == files[configs[p[1]]].rules[p[2]]

ExpandSpec(spec) == [spec EXCEPT !.classes = Expand(am, spec.domain, @)]

ExpandRule(r) == [r EXCEPT !.start = ExpandSpec(@), !.goal = ExpandSpec(@)]

ExpandRules ==
  /\ phase = "nest" /\ unvisited = {}
  /\ \A p \in RulePlaces : RuleAt(p).name # NoName
  /\ written' = [i \in DOMAIN configs |->
       LET rs == files[configs[i]].rules IN [j \in DOMAIN rs |-> ExpandRule(rs[j])]]
  /\ phase' = "configure"
  /\ UNCHANGED <<files, todo, configs, am, unvisited>>

ExpandFails ==
  /\ phase = "nest" /\ unvisited = {}
  /\ \E p \in RulePlaces : RuleAt(p).name = NoName
  /\ Fail
  /\ UNCHANGED <<files, todo, configs, am, unvisited, written>>

LoadNext ==
  \/ Skip \/ LoadFails \/ Load \/ Gather \/ GatherFails
  \/ \E k \in unvisited : Nest(k)
  \/ ExpandRules \/ ExpandFails
================================================================================
