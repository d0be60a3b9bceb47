------------------------------ MODULE EngineBuild ------------------------------
(***************************************************************************)
(* engine.Builder, as newEngineWithConfigs uses it: the domains are        *)
(* known, each configuration adds its stores at once and its rules         *)
(* deferred, behind them come the built-in rules, and Engine resolves and  *)
(* adds all rules.  A class that a domain does not have is dropped from    *)
(* its rule, and a rule left without start or goal is dropped too.         *)
(***************************************************************************)
EXTENDS ConfigLoad

CONSTANTS
  Domain,        \* the domains given to the builder
  ClassNames,    \* Domain -> the names of its classes
  BuiltIn        \* the built-in rules, whose classes have been resolved

ASSUME BuildAssumption ==
  /\ IsFiniteSet(Domain) /\ \A d \in Domain : IsFiniteSet(ClassNames[d])
  /\ IsList(BuiltIn)

VARIABLES
  configured,    \* how many of configs Builder.Config has gone through
  holders,       \* Domain -> its store configurations
  finally,       \* the deferred rules
  rules          \* Engine.rules

buildVars == <<configured, holders, finally, rules>>

BuildInit ==
  /\ configured = 0
  /\ holders = [d \in Domain |-> <<>>]
  /\ finally = <<>>
  /\ rules = <<>>
--------------------------------------------------------------------------------
Current == files[configs[configured + 1]]

\* storeHolders.Add ignores a configuration that the domain has already.
AddStores(d, stores) ==
  LET held[n \in 0 .. Len(stores)] ==
        IF n = 0 THEN holders[d]
        ELSE IF stores[n].domain # d \/ stores[n] \in ToSet(held[n - 1]) THEN held[n - 1]
        ELSE Append(held[n - 1], stores[n])
  IN  held[Len(stores)]

Configure ==
  /\ phase = "configure" /\ configured < Len(configs)
  /\ \A s \in ToSet(Current.stores) : s.domain \in Domain
  /\ holders' = [d \in Domain |-> AddStores(d, Current.stores)]
  /\ finally' = finally \o written[configured + 1]
  /\ configured' = configured + 1
  /\ UNCHANGED <<loadVars, rules>>

\* The engine is discarded, and with it the stores that came before the bad one.
ConfigureFails ==
  /\ phase = "configure" /\ configured < Len(configs)
  /\ \E s \in ToSet(Current.stores) : s.domain \notin Domain
  /\ Fail
  /\ UNCHANGED <<files, todo, configs, am, unvisited, written, buildVars>>

\* Builder.Rules, then Engine begins to run what was deferred.
AddBuiltIn ==
  /\ phase = "configure" /\ configured = Len(configs)
  /\ finally' = finally \o BuiltIn
  /\ phase' = "build"
  /\ UNCHANGED <<files, todo, configs, am, unvisited, written, configured, holders, rules>>
--------------------------------------------------------------------------------
\* Builder.classes: no class names mean all classes of the domain.  A class is a
\* pair of a domain and a name.
ClassesOf(spec) ==
  IF spec.domain \notin Domain THEN {}
  ELSE {spec.domain} \X (IF spec.classes = {} THEN ClassNames[spec.domain]
                         ELSE spec.classes \cap ClassNames[spec.domain])

Resolved(r) == [name |-> r.name, start |-> ClassesOf(r.start), goal |-> ClassesOf(r.goal)]

\* configRule: resolving the goal overwrites the error of resolving the start,
\* so that only an unknown goal domain is an error.
Unresolved(r) == r.goal.domain \notin Domain
Empty(r) == ClassesOf(r.start) = {} \/ ClassesOf(r.goal) = {}

\* NewTemplateRule must parse the template; Builder.rules wants a new name.
Acceptable(r) == r.parses /\ \A k \in ToSet(rules) : k.name # r.name

Building(r) == phase = "build" /\ finally # <<>> /\ r = Head(finally)

AddRule(r) ==
  /\ Building(r) /\ ~Unresolved(r) /\ ~Empty(r) /\ Acceptable(r)
  /\ rules' = Append(rules, Resolved(r))
  /\ finally' = Tail(finally)
  /\ UNCHANGED <<loadVars, configured, holders>>

IgnoreRule(r) ==
  /\ Building(r) /\ ~Unresolved(r) /\ Empty(r)
  /\ finally' = Tail(finally)
  /\ UNCHANGED <<loadVars, configured, holders, rules>>

RejectRule(r) ==
  /\ Building(r) /\ (Unresolved(r) \/ (~Empty(r) /\ ~Acceptable(r)))
  /\ Fail
  /\ UNCHANGED <<files, todo, configs, am, unvisited, written, buildVars>>

Built ==
  /\ phase = "build" /\ finally = <<>>
  /\ phase' = "built"
  /\ UNCHANGED <<files, todo, configs, am, unvisited, written, buildVars>>

BuildStep(r) == AddRule(r) \/ IgnoreRule(r) \/ RejectRule(r)

BuildNext ==
  \/ LoadNext /\ UNCHANGED buildVars
  \/ Configure \/ ConfigureFails \/ AddBuiltIn \/ Built
  \/ finally # <<>> /\ BuildStep(Head(finally))
--------------------------------------------------------------------------------
(* Properties *)

Failed == phase = "failed"
Loaded == phase \notin {"load", "failed"}

\* The sources that Root includes, directly or not: the least set that has Root
\* and what its members include.
WithIncludes(X) ==
  Root \in X /\ \A s \in X : files[s] # Unreadable => ToSet(files[s].include) \subseteq X
Included == {s \in Source : \A X \in SUBSET Source : WithIncludes(X) => s \in X}

Broken(s) == files[s] = Unreadable \/ (s # Root /\ files[s].tuning)

\* "If a configuration has an Include section, also loads all referenced
\* configurations" (Load): all of them, each once, however they include each
\* other, and loading fails only for a source that is unreadable or out of place.
LoadedAsIncluded ==
  /\ Loaded => ToSet(configs) = Included /\ Len(configs) = Cardinality(Included)
  /\ Loaded => \A s \in Included : ~Broken(s)
  /\ Failed /\ todo # <<>> => \E s \in Included : Broken(s)

\* What the sources say, regardless of the order in which they are read.
Readable == {s \in Included : files[s] # Unreadable}
SaidAliases == UNION {ToSet(files[s].aliases) : s \in Readable}
SaidStores == UNION {ToSet(files[s].stores) : s \in Readable}
SaidRules == UNION {ToSet(files[s].rules) : s \in Readable}

Raw == [k \in {Key(a) : a \in SaidAliases} |->
          (CHOOSE a \in SaidAliases : Key(a) = k).classes]

\* All names that aliases and rules use, and those that given names stand for through
\* any number of aliases: themselves, the aliases on the way, and where it ends.
Names == UNION ({{a.name} \cup a.classes : a \in SaidAliases} \cup
                {r.start.classes \cup r.goal.classes : r \in SaidRules})
StandsFor(d, names) ==
  {n \in Names :
     \A X \in SUBSET Names : names \subseteq X /\ Expand(Raw, d, X) \subseteq X => n \in X}
NoAliases(d, names) == {n \in names : <<d, n>> \notin DOMAIN Raw}

\* What they stand for two aliases deep, which is how deep one pass over the map always
\* goes; names of which each is no alias, or one of itself and others of them.
TwoDeep(d, names) == Expand(Raw, d, Expand(Raw, d, names))
Settled(d, names) == \A n \in names : n \in Expand(Raw, d, {n}) /\ Expand(Raw, d, {n}) \subseteq names

\* Names became others by expansion: nothing that they do not stand for came in, and no
\* class was lost or, by leaving no names at all, made all classes.  Two aliases deep
\* everything is expanded; what is deeper may have stayed an alias of it.
Expanded(d, names, became) ==
  /\ became \subseteq StandsFor(d, names)
  /\ NoAliases(d, StandsFor(d, names)) \subseteq StandsFor(d, became)
  /\ NoAliases(d, TwoDeep(d, names)) \subseteq became
  /\ Settled(d, TwoDeep(d, names)) => became = TwoDeep(d, names)
  /\ became = {} => names = {}

\* A rule of a source and what became of it.
AsSaid(r, w) ==
  /\ w.name = r.name /\ w.parses = r.parses
  /\ w.start.domain = r.start.domain /\ w.goal.domain = r.goal.domain
  /\ Expanded(r.start.domain, r.start.classes, w.start.classes)
  /\ Expanded(r.goal.domain, r.goal.classes, w.goal.classes)

WrittenRules == UNION {ToSet(written[i]) : i \in DOMAIN written}
EngineRules == WrittenRules \cup ToSet(BuiltIn)

\* Two rules have one name.
Ambiguous ==
  \/ \E p, q \in RulePlaces : p # q /\ RuleAt(p).name = RuleAt(q).name
  \/ \E p \in RulePlaces, i \in DOMAIN BuiltIn : RuleAt(p).name = BuiltIn[i].name
  \/ \E i, j \in DOMAIN BuiltIn : i # j /\ BuiltIn[i].name = BuiltIn[j].name

\* The faults that a configuration may be refused for.
Cause ==
  \/ ~WellFormed
  \/ Ambiguous
  \/ \E s \in SaidStores : s.domain \notin Domain
  \/ \E r \in EngineRules : Unresolved(r) \/ (~Empty(r) /\ ~r.parses)

\* No fault by the documentation, which promises a generated name (types.go:76).
Nameless == \E r \in SaidRules : r.name = NoName

\* The engine has exactly the rules that the sources and the program say, as far as
\* their classes exist, and each configured store once; and a configuration is only
\* refused for a fault in it.  The order of the sources and of the iteration over the
\* aliases does not matter, but for what lies three aliases deep and more.  This is what
\* the code does, and where it falls short of what is written of it: that expansion goes
\* on until there is no more (configs.go:66), although it makes one pass, whose order
\* then decides whether an alias stays, as a class that does not exist; and that a rule
\* may lack a name.
BuiltAsWritten ==
  /\ phase = "built" =>
       /\ \A r \in SaidRules : \E w \in WrittenRules : AsSaid(r, w)
       /\ \A w \in WrittenRules : \E r \in SaidRules : AsSaid(r, w)
       /\ ToSet(rules) = {Resolved(r) : r \in {k \in EngineRules : ~Empty(k)}}
       /\ \A d \in Domain : ToSet(holders[d]) = {s \in SaidStores : s.domain = d}
       /\ \A d \in Domain : IsInjective(holders[d])
  /\ Failed /\ todo = <<>> => Cause \/ Nameless
================================================================================
