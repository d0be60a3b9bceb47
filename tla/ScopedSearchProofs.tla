-------------------------- MODULE ScopedSearchProofs --------------------------
(***************************************************************************)
(* Theorems about the way from a configuration to a result, for any        *)
(* sources and inclusions, rules, requests and objects.                    *)
(***************************************************************************)
EXTENDS ScopedSearch, FiniteSetTheorems, TLAPS

--------------------------------------------------------------------------------
(* The elements of sequences.                                              *)

LEMMA TailSet ==
  ASSUME NEW S, NEW s \in Seq(S), s # <<>>
  PROVE  /\ Head(s) \in S /\ Tail(s) \in Seq(S)
         /\ ToSet(s) = {Head(s)} \cup ToSet(Tail(s))
<1>1. Len(s) \in Nat /\ Len(s) > 0 /\ DOMAIN s = 1 .. Len(s) /\ \A i \in 1 .. Len(s) : s[i] \in S
  OBVIOUS
<1>2. /\ Tail(s) \in Seq(S) /\ Head(s) = s[1] /\ Len(Tail(s)) = Len(s) - 1
      /\ DOMAIN Tail(s) = 1 .. Len(s) - 1 /\ \A i \in 1 .. Len(s) - 1 : Tail(s)[i] = s[i + 1]
  BY <1>1
<1>3. ASSUME NEW x \in ToSet(s) PROVE x = Head(s) \/ x \in ToSet(Tail(s))
  <2>1. PICK i \in 1 .. Len(s) : x = s[i] BY <1>1 DEF ToSet
  <2>2. CASE i = 1 BY <1>2, <2>1, <2>2
  <2>3. CASE i # 1
    <3>1. i - 1 \in 1 .. Len(s) - 1 /\ x = Tail(s)[i - 1] BY <1>1, <1>2, <2>1, <2>3
    <3>2. QED BY <1>2, <3>1 DEF ToSet
  <2>4. QED BY <2>2, <2>3
<1>4. ASSUME NEW x \in ToSet(Tail(s)) PROVE x \in ToSet(s)
  <2>1. PICK i \in 1 .. Len(s) - 1 : x = s[i + 1] BY <1>2 DEF ToSet
  <2>2. i + 1 \in 1 .. Len(s) BY <1>1
  <2>3. QED BY <1>1, <2>1, <2>2 DEF ToSet
<1>5. Head(s) \in ToSet(s) BY <1>1, <1>2 DEF ToSet
<1>6. QED BY <1>1, <1>2, <1>3, <1>4, <1>5

LEMMA JoinSet ==
  ASSUME NEW S, NEW s \in Seq(S), NEW t \in Seq(S)
  PROVE  s \o t \in Seq(S) /\ ToSet(s \o t) = ToSet(s) \cup ToSet(t)
<1>1. /\ Len(s) \in Nat /\ Len(t) \in Nat /\ DOMAIN s = 1 .. Len(s) /\ DOMAIN t = 1 .. Len(t)
      /\ s \o t \in Seq(S) /\ DOMAIN (s \o t) = 1 .. Len(s) + Len(t)
  OBVIOUS
<1>2. /\ \A i \in 1 .. Len(s) : (s \o t)[i] = s[i]
      /\ \A i \in 1 .. Len(t) : (s \o t)[Len(s) + i] = t[i]
  BY <1>1
<1>3. ASSUME NEW x \in ToSet(s \o t) PROVE x \in ToSet(s) \cup ToSet(t)
  <2>1. PICK i \in 1 .. Len(s) + Len(t) : x = (s \o t)[i] BY <1>1 DEF ToSet
  <2>2. CASE i <= Len(s) BY <1>1, <1>2, <2>1, <2>2 DEF ToSet
  <2>3. CASE i > Len(s)
    <3>1. i - Len(s) \in 1 .. Len(t) /\ i = Len(s) + (i - Len(s)) BY <1>1, <2>3
    <3>2. x = t[i - Len(s)] BY <1>2, <2>1, <3>1
    <3>3. QED BY <1>1, <3>1, <3>2 DEF ToSet
  <2>4. QED BY <1>1, <2>2, <2>3
<1>4. ASSUME NEW x \in ToSet(s) PROVE x \in ToSet(s \o t)
  <2>1. PICK i \in 1 .. Len(s) : x = s[i] BY <1>1 DEF ToSet
  <2>2. i \in 1 .. Len(s) + Len(t) BY <1>1
  <2>3. QED BY <1>1, <1>2, <2>1, <2>2 DEF ToSet
<1>5. ASSUME NEW x \in ToSet(t) PROVE x \in ToSet(s \o t)
  <2>1. PICK i \in 1 .. Len(t) : x = t[i] BY <1>1 DEF ToSet
  <2>2. Len(s) + i \in 1 .. Len(s) + Len(t) BY <1>1
  <2>3. QED BY <1>1, <1>2, <2>1, <2>2 DEF ToSet
<1>6. QED BY <1>1, <1>3, <1>4, <1>5

LEMMA AppendSet ==
  ASSUME NEW S, NEW s \in Seq(S), NEW x \in S
  PROVE  Append(s, x) \in Seq(S) /\ ToSet(Append(s, x)) = ToSet(s) \cup {x}
<1>1. Append(s, x) = s \o <<x>> /\ <<x>> \in Seq(S) OBVIOUS
<1>2. ToSet(<<x>>) = {x} BY DEF ToSet
<1>3. s \o <<x>> \in Seq(S) /\ ToSet(s \o <<x>>) = ToSet(s) \cup ToSet(<<x>>)
  BY <1>1, JoinSet
<1>4. QED BY <1>1, <1>2, <1>3, Zenon

--------------------------------------------------------------------------------
(* Numbers.                                                                *)

\* A set of numbers that is not empty has a least member.
LEMMA Least ==
  ASSUME NEW T \in SUBSET Nat, T # {}
  PROVE  \E n \in T : \A m \in T : n <= m
<1> DEFINE R == OpToRel(<, Nat)
<1>1. \A x, y \in Nat : x < y => <<x, y>> \in R BY DEF OpToRel
<1>2. IsWellFoundedOn(R, Nat) BY NatLessThanWellFounded
<1> HIDE DEF R
<1>3. PICK n \in T : \A m \in T : ~(<<m, n>> \in R) BY <1>2, WFMin
<1>4. ASSUME NEW m \in T PROVE n <= m
  <2>1. m \in Nat /\ n \in Nat /\ ~(m < n) BY <1>1, <1>3
  <2>2. QED BY <2>1
<1>5. QED BY <1>4

--------------------------------------------------------------------------------
(* Loading.                                                                *)

\* Between two steps of the loader, what is loaded and what is still to be loaded
\* together have the root and what the loaded sources include, and nothing that
\* is not included; what is loaded is in order, and what fails is to blame.
LoadInv ==
  /\ files \in Contents
  /\ todo \in Seq(Source) /\ configs \in Seq(Source)
  /\ \A i, j \in 1 .. Len(configs) : configs[i] = configs[j] => i = j
  /\ ToSet(configs) \cup ToSet(todo) \subseteq Included
  /\ configs = <<>> => todo = <<Root>>
  /\ configs # <<>> => Root \in ToSet(configs)
  /\ \A s \in ToSet(configs) :
       ~Broken(s) /\ ToSet(files[s].include) \subseteq ToSet(configs) \cup ToSet(todo)
  /\ Loaded => todo = <<>>
  /\ Failed /\ todo # <<>> => \E s \in Included : Broken(s)

LEMMA IncludedClosed ==
  ASSUME files \in Contents
  PROVE  Included \subseteq Source /\ WithIncludes(Included)
<1> USE ConfigAssumption
<1>1. Included \subseteq Source /\ Root \in Included BY DEF Included, WithIncludes
<1>2. ASSUME NEW s \in Included, files[s] # Unreadable, NEW t \in ToSet(files[s].include)
      PROVE  t \in Included
  <2>1. s \in Source /\ files[s].include \in Seq(Source) BY <1>1, <1>2 DEF IsFile
  <2>2. t \in Source BY <1>2, <2>1 DEF ToSet
  <2>3. ASSUME NEW X \in SUBSET Source, WithIncludes(X) PROVE t \in X
    <3>1. s \in X BY <1>2, <2>3 DEF Included
    <3>2. QED BY <1>2, <2>3, <3>1 DEF WithIncludes
  <2>4. QED BY <2>2, <2>3 DEF Included
<1>3. QED BY <1>1, <1>2 DEF WithIncludes

LEMMA LoadStart == LoadInit => LoadInv
<1> SUFFICES ASSUME LoadInit PROVE LoadInv
  OBVIOUS
<1> USE ConfigAssumption DEF LoadInit
<1>1. Root \in Included BY IncludedClosed DEF WithIncludes
<1>2. ToSet(todo) = {Root} /\ ToSet(configs) = {} BY DEF ToSet
<1>3. QED BY <1>1, <1>2 DEF LoadInv, Loaded, Failed

\* The loader takes the first source that is still to be loaded.
LEMMA LoadStep ==
  ASSUME LoadInv, Skip \/ LoadFails \/ Load
  PROVE  LoadInv'
<1> DEFINE s == Head(todo)
<1> USE ConfigAssumption
<1>0. files' = files /\ Loading /\ Included' = Included /\ \A x : Broken(x)' = Broken(x)
  BY DEF Skip, LoadFails, Load, Included, WithIncludes, Broken
<1>1. /\ s \in Included /\ s \in Source /\ Tail(todo) \in Seq(Source)
      /\ ToSet(todo) = {s} \cup ToSet(Tail(todo))
  <2>1. todo \in Seq(Source) /\ todo # <<>> BY <1>0 DEF LoadInv, Loading
  <2>2. s \in Source /\ Tail(todo) \in Seq(Source) /\ ToSet(todo) = {s} \cup ToSet(Tail(todo))
    BY <2>1, TailSet, Zenon
  <2>3. QED BY <2>2 DEF LoadInv
<1>2. CASE Skip
  <2>1. configs # <<>> BY <1>2 DEF Skip, ToSet
  <2>2. /\ configs' = configs /\ todo' = Tail(todo) /\ s \in ToSet(configs)
        /\ ToSet(configs)' = ToSet(configs) /\ ToSet(todo)' = ToSet(Tail(todo))
        /\ phase' = "load"
    BY <1>2 DEF Skip, Loading, ToSet
  <2> HIDE DEF s
  <2>3. QED BY <1>0, <1>1, <2>1, <2>2 DEF LoadInv, Loaded, Failed
<1>3. CASE LoadFails
  <2>1. /\ configs' = configs /\ todo' = todo /\ phase' = "failed"
        /\ ToSet(configs)' = ToSet(configs) /\ ToSet(todo)' = ToSet(todo)
    BY <1>3 DEF LoadFails, Fail, ToSet
  <2>2. Broken(s) BY <1>3 DEF LoadFails, Loadable, Broken, LoadInv
  <2> HIDE DEF s
  <2>3. QED BY <1>0, <1>1, <2>1, <2>2 DEF LoadInv, Loaded, Failed
<1>4. CASE Load
  <2>1. files[s].include \in Seq(Source) /\ files[s] # Unreadable
    BY <1>1, <1>4 DEF Load, Loadable, LoadInv, IsFile
  <2>2. /\ todo' \in Seq(Source)
        /\ ToSet(todo)' = ToSet(files[s].include) \cup ToSet(Tail(todo))
    <3>1. todo' = files[s].include \o Tail(todo) BY <1>4 DEF Load
    <3> DEFINE more == files[s].include
               rest == Tail(todo)
    <3>2. more \in Seq(Source) /\ rest \in Seq(Source) BY <1>1, <2>1
    <3> HIDE DEF more, rest
    <3>3. more \o rest \in Seq(Source) /\ ToSet(more \o rest) = ToSet(more) \cup ToSet(rest)
      BY <3>2, JoinSet
    <3>4. todo' = more \o rest BY <3>1 DEF more, rest
    <3>5. ToSet(todo)' = ToSet(more) \cup ToSet(rest) BY <3>3, <3>4 DEF ToSet
    <3>6. QED BY <3>3, <3>4, <3>5 DEF more, rest
  <2>3. configs' \in Seq(Source) /\ ToSet(configs)' = ToSet(configs) \cup {s}
    <3>1. configs' = Append(configs, s) BY <1>4 DEF Load
    <3>2. configs \in Seq(Source) BY DEF LoadInv
    <3>3. s \in Source BY <1>1
    <3> HIDE DEF s
    <3>4. Append(configs, s) \in Seq(Source) /\ ToSet(Append(configs, s)) = ToSet(configs) \cup {s}
      BY <3>2, <3>3, AppendSet
    <3>5. QED BY <3>1, <3>4 DEF ToSet
  <2>4. /\ Len(configs') = Len(configs) + 1 /\ configs'[Len(configs) + 1] = s
        /\ \A i \in 1 .. Len(configs) : configs'[i] = configs[i] /\ configs[i] # s
    BY <1>1, <1>4 DEF Load, ToSet, LoadInv
  <2>5. \A i, j \in 1 .. Len(configs') : configs'[i] = configs'[j] => i = j
    BY <2>4 DEF LoadInv
  <2>6. ToSet(files[s].include) \subseteq Included
    BY <1>1, <2>1, IncludedClosed DEF LoadInv, WithIncludes
  <2>7. Root \in ToSet(configs)' /\ configs' # <<>> /\ phase' = "load"
    <3>1. Root \in ToSet(configs) \cup {s}
      <4>1. CASE configs = <<>> BY <4>1 DEF LoadInv
      <4>2. CASE configs # <<>> BY <4>2 DEF LoadInv
      <4>3. QED BY <4>1, <4>2
    <3>2. configs' # <<>> BY <2>4 DEF LoadInv
    <3>3. QED BY <1>4, <2>3, <3>1, <3>2 DEF Load, Loading
  <2>8. ~Broken(s) BY <1>4 DEF Load, Loadable, Broken, LoadInv
  <2> HIDE DEF s
  <2>9. QED BY <1>0, <1>1, <2>1, <2>2, <2>3, <2>5, <2>6, <2>7, <2>8 DEF LoadInv, Loaded, Failed
<1>5. QED BY <1>2, <1>3, <1>4

\* All other steps come after loading.
LEMMA AfterLoad ==
  ASSUME LoadInv, UNCHANGED <<files, todo, configs>>,
         Loaded' => todo = <<>>, Failed' => todo = <<>> \/ Failed
  PROVE  LoadInv'
<1>1. /\ Included' = Included /\ \A s : Broken(s)' = Broken(s)
      /\ ToSet(configs)' = ToSet(configs) /\ ToSet(todo)' = ToSet(todo)
  BY DEF Included, WithIncludes, Broken, ToSet
<1>2. QED BY <1>1 DEF LoadInv

\* When nothing is left to be loaded, all that is included is loaded.
LEMMA AllLoaded ==
  ASSUME LoadInv, todo = <<>>
  PROVE  ToSet(configs) = Included
<1>1. ToSet(todo) = {} BY DEF ToSet
<1>2. configs # <<>> BY DEF LoadInv
<1>3. ToSet(configs) \in SUBSET Source BY DEF LoadInv, Included
<1>4. WithIncludes(ToSet(configs)) BY <1>1, <1>2 DEF LoadInv, WithIncludes
<1>5. QED BY <1>3, <1>4 DEF LoadInv, Included

\* Whatever is loaded is what is included, each source once, and a failure has
\* its cause in an included source.
LEMMA LoadedFromInv == LoadInv => LoadedAsIncluded
<1> SUFFICES ASSUME LoadInv PROVE LoadedAsIncluded
  OBVIOUS
<1>1. ASSUME Loaded
      PROVE  ToSet(configs) = Included /\ Len(configs) = Cardinality(Included)
  <2>1. ToSet(configs) = Included BY <1>1, AllLoaded DEF LoadInv
  <2>2. configs \in [1 .. Len(configs) -> Source] /\ Len(configs) \in Nat BY DEF LoadInv
  <2>3. configs \in Bijection(1 .. Len(configs), Included)
    <3>1. configs \in [1 .. Len(configs) -> Included] BY <2>1, <2>2 DEF ToSet
    <3>2. \A x \in Included : \E i \in 1 .. Len(configs) : configs[i] = x BY <2>1, <2>2 DEF ToSet
    <3>3. \A i, j \in 1 .. Len(configs) : configs[i] = configs[j] => i = j BY DEF LoadInv
    <3>4. QED BY <3>1, <3>2, <3>3 DEF Bijection, Injection, Surjection, IsInjective
  <2>4. IsFiniteSet(1 .. Len(configs)) /\ Cardinality(1 .. Len(configs)) = Len(configs)
    <3>1. 1 \in Int /\ Len(configs) \in Int BY <2>2
    <3>2. /\ IsFiniteSet(1 .. Len(configs))
          /\ Cardinality(1 .. Len(configs)) = IF 1 > Len(configs) THEN 0 ELSE Len(configs) - 1 + 1
      BY <3>1, FS_Interval, Zenon
    <3>3. QED BY <2>2, <3>2
  <2>5. ExistsBijection(1 .. Len(configs), Included) BY <2>3 DEF ExistsBijection
  <2>6. Cardinality(Included) = Len(configs) BY <2>4, <2>5, FS_Bijection
  <2>7. QED BY <2>1, <2>6
<1>2. QED BY <1>1 DEF LoadedAsIncluded, LoadInv

LEMMA LoadNextKeeps ==
  ASSUME LoadInv, [Next]_vars
  PROVE  LoadInv'
<1>1. CASE Skip \/ LoadFails \/ Load BY <1>1, LoadStep
<1>2. CASE Gather \/ GatherFails
  BY <1>2, AfterLoad DEF Gather, GatherFails
<1>3. CASE \/ \E k \in unvisited : Nest(k)
           \/ ExpandRules \/ ExpandFails \/ Configure \/ ConfigureFails \/ AddBuiltIn \/ Built
           \/ finally # <<>> /\ BuildStep(Head(finally))
  <2>1. /\ UNCHANGED <<files, todo, configs>>
        /\ phase \in {"nest", "configure", "build"}
    BY <1>3 DEF Nest, ExpandRules, ExpandFails, Configure, ConfigureFails, AddBuiltIn, Built,
       BuildStep, AddRule, IgnoreRule, RejectRule, Building, loadVars
  <2>2. todo = <<>> BY <2>1 DEF LoadInv, Loaded
  <2>3. QED BY <2>1, <2>2, AfterLoad
<1>4. CASE \/ \E s \in AllClasses :
                \/ \E gs \in (SUBSET AllClasses) \ {{}} : Goals(s, gs) \/ Refuse({s} \cup gs)
                \/ \E d \in 0 .. MaxDepth : Neighbors(s, d)
           \/ Walk \/ EndWalk \/ StartQuery
           \/ \E l \in scope : Follow(l)
           \/ Finish
  <2>1. /\ UNCHANGED <<files, todo, configs>>
        /\ phase \in {"built", "walk", "search"} /\ phase' # "failed"
    BY <1>4 DEF Goals, Refuse, Neighbors, Walk, EndWalk, StartQuery, Follow, Finish, Go, loadVars
  <2>2. todo = <<>> BY <2>1 DEF LoadInv, Loaded
  <2>3. QED BY <2>1, <2>2, AfterLoad DEF Failed
<1>5. CASE UNCHANGED vars
  BY <1>5, AfterLoad DEF vars, loadVars, LoadInv, Loaded, Failed
<1>6. QED BY <1>1, <1>2, <1>3, <1>4, <1>5 DEF Next, BuildNext, LoadNext

\* LoadInv is kept by every step, of loading and after.
THEOREM LoadInvariant == Spec => []LoadInv
<1>1. Init => LoadInv BY LoadStart DEF Init
<1>2. QED BY <1>1, LoadNextKeeps, PTL DEF Spec

\* "If a configuration has an Include section, also loads all referenced
\* configurations" (config.Load): whatever the sources include, each other or
\* themselves, the engine is built from exactly those that the first one includes,
\* each once, and only an included source can make loading fail.
THEOREM LoadedAsIncludedAlways == Spec => []LoadedAsIncluded
BY LoadInvariant, LoadedFromInv, PTL

--------------------------------------------------------------------------------
(* Rules and lines.                                                        *)

Classed(r) == r.start \subseteq AllClasses /\ r.goal \subseteq AllClasses

\* The rules of the engine lead from classes to classes that there are.
RulesInv == rules \in Seq(ToSet(rules)) /\ \A r \in ToSet(rules) : Classed(r)

Preparing == phase \in {"load", "nest", "configure", "build", "built", "failed", "refused"}
Searching == phase \in {"walk", "search", "done"}

LEMMA ResolvedClassed == ASSUME NEW r PROVE Classed(Resolved(r))
<1>1. ASSUME NEW spec PROVE ClassesOf(spec) \subseteq AllClasses
  BY DEF ClassesOf, AllClasses
<1>2. Resolved(r).start = ClassesOf(r.start) /\ Resolved(r).goal = ClassesOf(r.goal)
  BY DEF Resolved
<1>3. QED BY <1>1, <1>2 DEF Classed

LEMMA RulesStep ==
  ASSUME RulesInv, [Next]_vars
  PROVE  RulesInv' /\ (Searching => rules' = rules /\ ~Preparing')
<1>1. ASSUME rules' = rules PROVE RulesInv'
  BY <1>1 DEF RulesInv, ToSet, Classed, AllClasses
<1>2. ASSUME NEW r, rules' = Append(rules, Resolved(r)) PROVE RulesInv'
  <2> DEFINE new == Resolved(r)
             S == ToSet(rules) \cup {new}
  <2>1. rules \in Seq(ToSet(rules)) /\ \A x \in S : Classed(x)
    BY ResolvedClassed DEF RulesInv
  <2>2. rules \in Seq(S) /\ new \in S BY <2>1
  <2>3. rules' = Append(rules, new) BY <1>2
  <2> HIDE DEF new, S
  <2>4. Append(rules, new) \in Seq(S) /\ ToSet(Append(rules, new)) = ToSet(rules) \cup {new}
    BY <2>2, AppendSet
  <2>5. rules' \in Seq(S) /\ ToSet(rules)' = S BY <2>3, <2>4 DEF ToSet, S
  <2>6. \A x : Classed(x)' <=> Classed(x) BY DEF Classed, AllClasses
  <2>7. QED BY <2>1, <2>5, <2>6 DEF RulesInv
<1>3. CASE \E r : AddRule(r)
  <2>1. PICK r : AddRule(r) BY <1>3
  <2>2. rules' = Append(rules, Resolved(r)) /\ phase = "build" BY <2>1 DEF AddRule, Building
  <2>3. QED BY <1>2, <2>2 DEF Searching
<1>4. CASE \/ LoadNext /\ UNCHANGED buildVars
           \/ Configure \/ ConfigureFails \/ AddBuiltIn \/ Built
           \/ \E r : IgnoreRule(r) \/ RejectRule(r)
  <2>1. rules' = rules /\ ~Searching
    BY <1>4 DEF LoadNext, buildVars, Skip, LoadFails, Load, Loading, Gather, GatherFails, Nest,
       ExpandRules, ExpandFails, Configure, ConfigureFails, AddBuiltIn, Built, IgnoreRule,
       RejectRule, Building, Searching
  <2>2. QED BY <1>1, <2>1
<1>5. CASE \/ \E s \in AllClasses :
                \/ \E gs \in (SUBSET AllClasses) \ {{}} : Goals(s, gs) \/ Refuse({s} \cup gs)
                \/ \E d \in 0 .. MaxDepth : Neighbors(s, d)
           \/ Walk \/ EndWalk \/ StartQuery
           \/ \E l \in scope : Follow(l)
           \/ Finish
  <2>1. rules' = rules /\ (Searching => phase' \in {"walk", "search", "done"})
    BY <1>5 DEF Goals, Refuse, Neighbors, Walk, EndWalk, StartQuery, Follow, Finish, Go,
       loadVars, buildVars, Searching
  <2>2. QED BY <1>1, <2>1 DEF Preparing
<1>6. CASE UNCHANGED vars
  <2>1. rules' = rules /\ phase' = phase BY <1>6 DEF vars, loadVars, buildVars
  <2>2. QED BY <1>1, <2>1 DEF Searching, Preparing
<1>7. QED BY <1>3, <1>4, <1>5, <1>6 DEF Next, BuildNext, BuildStep

\* A line leads from a class to a class.
LEMMA LineClasses ==
  ASSUME RulesInv
  PROVE  \A l \in AllLines : l.start \in AllClasses /\ l.goal \in AllClasses
BY DEF AllLines, LinesOf, RulesInv, Classed

--------------------------------------------------------------------------------
(* Aliases.                                                                *)

\* What is in an expansion.
LEMMA ExpandIn ==
  ASSUME NEW aliases, NEW d, NEW names, NEW y
  PROVE  y \in Expand(aliases, d, names) <=>
           \E n \in names : IF <<d, n>> \in DOMAIN aliases THEN y \in aliases[<<d, n>>] ELSE y = n
BY DEF Expand

\* The files that have been loaded, their aliases, rules and stores.
LEMMA SaidOfLoaded ==
  ASSUME LoadInv, todo = <<>>
  PROVE  /\ configs \in Seq(Source) /\ ToSet(configs) = Included
         /\ \A i \in 1 .. Len(configs) : IsFile(files[configs[i]])
         /\ SaidAliases = {AliasAt(p) : p \in AliasPlaces}
         /\ SaidRules = {RuleAt(p) : p \in RulePlaces}
         /\ SaidStores = UNION {ToSet(files[configs[i]].stores) : i \in 1 .. Len(configs)}
<1> USE ConfigAssumption
<1>1. configs \in Seq(Source) BY DEF LoadInv
<1>2. ToSet(configs) = Included BY AllLoaded
<1>3. \A s \in Included : s \in Source /\ files[s] # Unreadable /\ IsFile(files[s])
  BY <1>2 DEF LoadInv, Broken, Included
<1>4. Readable = ToSet(configs) BY <1>2, <1>3 DEF Readable
<1>5. DOMAIN configs = 1 .. Len(configs) BY <1>1
<1>6. ToSet(configs) = {configs[i] : i \in 1 .. Len(configs)} BY <1>5 DEF ToSet
<1>7. SaidAliases = {AliasAt(p) : p \in AliasPlaces}
  <2>1. ASSUME NEW a \in SaidAliases PROVE a \in {AliasAt(p) : p \in AliasPlaces}
    <3>1. PICK i \in 1 .. Len(configs) : a \in ToSet(files[configs[i]].aliases)
      BY <1>4, <1>6 DEF SaidAliases
    <3>2. PICK j \in DOMAIN files[configs[i]].aliases : a = files[configs[i]].aliases[j]
      BY <3>1 DEF ToSet
    <3>3. <<i, j>> \in AliasPlaces /\ a = AliasAt(<<i, j>>)
      BY <1>5, <3>2 DEF AliasPlaces, AliasAt
    <3>4. QED BY <3>3
  <2>2. ASSUME NEW p \in AliasPlaces PROVE AliasAt(p) \in SaidAliases
    <3>1. PICK i \in 1 .. Len(configs) : p \in {i} \X DOMAIN files[configs[i]].aliases
      BY <1>5 DEF AliasPlaces
    <3>2. AliasAt(p) \in ToSet(files[configs[i]].aliases) BY <3>1 DEF AliasAt, ToSet
    <3>3. QED BY <1>4, <1>6, <3>2 DEF SaidAliases
  <2>3. QED BY <2>1, <2>2
<1>8. SaidRules = {RuleAt(p) : p \in RulePlaces}
  <2>1. ASSUME NEW r \in SaidRules PROVE r \in {RuleAt(p) : p \in RulePlaces}
    <3>1. PICK i \in 1 .. Len(configs) : r \in ToSet(files[configs[i]].rules)
      BY <1>4, <1>6 DEF SaidRules
    <3>2. PICK j \in DOMAIN files[configs[i]].rules : r = files[configs[i]].rules[j]
      BY <3>1 DEF ToSet
    <3>3. <<i, j>> \in RulePlaces /\ r = RuleAt(<<i, j>>)
      BY <1>5, <3>2 DEF RulePlaces, RuleAt
    <3>4. QED BY <3>3
  <2>2. ASSUME NEW p \in RulePlaces PROVE RuleAt(p) \in SaidRules
    <3>1. PICK i \in 1 .. Len(configs) : p \in {i} \X DOMAIN files[configs[i]].rules
      BY <1>5 DEF RulePlaces
    <3>2. RuleAt(p) \in ToSet(files[configs[i]].rules) BY <3>1 DEF RuleAt, ToSet
    <3>3. QED BY <1>4, <1>6, <3>2 DEF SaidRules
  <2>3. QED BY <2>1, <2>2
<1>9. SaidStores = UNION {ToSet(files[configs[i]].stores) : i \in 1 .. Len(configs)}
  BY <1>4, <1>6 DEF SaidStores
<1>10. \A i \in 1 .. Len(configs) : IsFile(files[configs[i]]) BY <1>2, <1>3, <1>6
<1>11. QED BY <1>1, <1>2, <1>7, <1>8, <1>9, <1>10

\* What the sources say does not change once they are loaded.
LEMMA SaidStays ==
  ASSUME UNCHANGED <<files, configs>>
  PROVE  /\ Raw' = Raw /\ SaidRules' = SaidRules /\ SaidStores' = SaidStores /\ Names' = Names
         /\ (\A r, w : AsSaid(r, w)' <=> AsSaid(r, w)) /\ (\A p : RuleAt(p)' = RuleAt(p))
         /\ RulePlaces' = RulePlaces /\ (\A d, P : Settled(d, P)' <=> Settled(d, P))
         /\ (Ambiguous' <=> Ambiguous) /\ (Nameless' <=> Nameless)
<1>1. Readable' = Readable BY DEF Readable, Included, WithIncludes
<1>2. /\ SaidAliases' = SaidAliases /\ SaidRules' = SaidRules /\ SaidStores' = SaidStores
  BY <1>1 DEF SaidAliases, SaidRules, SaidStores
<1>3. Raw' = Raw /\ Names' = Names BY <1>2 DEF Raw, Names
<1>4. /\ RulePlaces' = RulePlaces /\ \A p : RuleAt(p)' = RuleAt(p)
  BY DEF RulePlaces, RuleAt
<1>5. (Ambiguous' <=> Ambiguous) /\ (Nameless' <=> Nameless)
  BY <1>2, <1>4 DEF Ambiguous, Nameless
<1>6. \A d, P : Settled(d, P)' <=> Settled(d, P) BY <1>3 DEF Settled
<1>7. \A d, P : /\ TwoDeep(d, P)' = TwoDeep(d, P) /\ StandsFor(d, P)' = StandsFor(d, P)
                /\ NoAliases(d, P)' = NoAliases(d, P)
  BY <1>3 DEF TwoDeep, StandsFor, NoAliases, Expand
<1>8. \A d, P, Q : Expanded(d, P, Q)' <=> Expanded(d, P, Q)
  <2> TAKE d, P, Q
  <2>1. /\ StandsFor(d, P)' = StandsFor(d, P) /\ StandsFor(d, Q)' = StandsFor(d, Q)
        /\ NoAliases(d, StandsFor(d, P))' = NoAliases(d, StandsFor(d, P))
        /\ TwoDeep(d, P)' = TwoDeep(d, P)
        /\ NoAliases(d, TwoDeep(d, P))' = NoAliases(d, TwoDeep(d, P))
        /\ (Settled(d, TwoDeep(d, P))' <=> Settled(d, TwoDeep(d, P)))
    BY <1>3, <1>6, <1>7 DEF NoAliases, Settled, Expand
  <2>2. QED BY <2>1 DEF Expanded
<1>9. \A r, w : AsSaid(r, w)' <=> AsSaid(r, w) BY <1>8 DEF AsSaid
<1>10. QED BY <1>2, <1>3, <1>4, <1>5, <1>6, <1>9

\* Nor does what a configuration is refused for, once the rules are written.
LEMMA CauseStays ==
  ASSUME UNCHANGED <<files, configs, written>>
  PROVE  EngineRules' = EngineRules /\ (Cause' <=> Cause)
<1>1. EngineRules' = EngineRules BY DEF EngineRules, WrittenRules, ToSet
<1>2. WellFormed' <=> WellFormed BY DEF WellFormed, AliasPlaces, AliasAt
<1>3. QED BY <1>1, <1>2, SaidStays DEF Cause, Unresolved, Empty, ClassesOf

\* An alias as it was written, and the names that are used.
LEMMA RawIs ==
  ASSUME LoadInv, todo = <<>>, NEW k \in DOMAIN Raw
  PROVE  /\ Raw[k] \subseteq Names /\ k[2] \in Names /\ k = <<k[1], k[2]>>
         /\ WellFormed => Raw[k] # {}
<1> DEFINE a == CHOOSE a \in SaidAliases : Key(a) = k
<1>1. a \in SaidAliases /\ Key(a) = k BY DEF Raw
<1>2. Raw[k] = a.classes BY DEF Raw
<1> HIDE DEF a
<1>3. {a.name} \cup a.classes \subseteq Names BY <1>1 DEF Names
<1>4. k[2] = a.name /\ k = <<k[1], k[2]>> BY <1>1 DEF Key
<1>5. PICK p \in AliasPlaces : a = AliasAt(p) BY <1>1, SaidOfLoaded
<1>6. WellFormed => a.classes # {} BY <1>5 DEF WellFormed
<1>7. QED BY <1>2, <1>3, <1>4, <1>6

\* While aliases are expanded within aliases, in any order: those still to come are as
\* they were written.  The names of an alias stay within settled names if they were
\* within them, and keep the settled ones they had; and so do, once the alias has been
\* expanded, the names that its names stand for.
Nested ==
  /\ DOMAIN am = DOMAIN Raw
  /\ unvisited \subseteq DOMAIN Raw
  /\ \A k \in unvisited : am[k] = Raw[k]
  /\ \A d, P : Settled(d, P) =>
       \A n : <<d, n>> \in DOMAIN Raw =>
         /\ Raw[<<d, n>>] \subseteq P => am[<<d, n>>] \subseteq P
         /\ Raw[<<d, n>>] \cap P \subseteq am[<<d, n>>]
         /\ <<d, n>> \notin unvisited =>
              /\ Expand(Raw, d, Raw[<<d, n>>]) \subseteq P => am[<<d, n>>] \subseteq P
              /\ Expand(Raw, d, Raw[<<d, n>>]) \cap P \subseteq am[<<d, n>>]

\* Expansion within the aliases as they were written.
LEMMA Within ==
  ASSUME NEW d, NEW P, Settled(d, P), NEW n \in P
  PROVE  IF <<d, n>> \in DOMAIN Raw THEN n \in Raw[<<d, n>>] /\ Raw[<<d, n>>] \subseteq P ELSE TRUE
<1>1. n \in Expand(Raw, d, {n}) /\ Expand(Raw, d, {n}) \subseteq P BY DEF Settled
<1>2. <<d, n>> \in DOMAIN Raw => \A y : y \in Raw[<<d, n>>] <=> y \in Expand(Raw, d, {n})
  BY DEF Expand
<1>3. QED BY <1>1, <1>2

\* The map of aliases begins as the sources have it.
LEMMA NestedStart ==
  ASSUME LoadInv, Gather
  PROVE  Nested'
<1>0. UNCHANGED <<files, configs>> /\ WellFormed /\ unvisited' = DOMAIN am' /\ todo = <<>>
  BY DEF Gather
<1>1. SaidAliases = {AliasAt(p) : p \in AliasPlaces} BY <1>0, SaidOfLoaded
<1>2. DOMAIN Raw = {Key(AliasAt(p)) : p \in AliasPlaces} BY <1>1 DEF Raw
<1>3. DOMAIN am' = DOMAIN Raw BY <1>2 DEF Gather
<1>4. ASSUME NEW k \in DOMAIN Raw PROVE am'[k] = Raw[k]
  <2>1. PICK p \in AliasPlaces : Key(AliasAt(p)) = k BY <1>2
  <2> DEFINE q == CHOOSE q \in AliasPlaces : Key(AliasAt(q)) = k
             a == CHOOSE a \in SaidAliases : Key(a) = k
  <2>2. q \in AliasPlaces /\ Key(AliasAt(q)) = k BY <2>1
  <2>3. q = p BY <1>0, <2>1, <2>2 DEF WellFormed
  <2>4. a \in SaidAliases /\ Key(a) = k BY <1>1, <2>1
  <2>5. PICK b \in AliasPlaces : a = AliasAt(b) BY <1>1, <2>4
  <2>6. b = p BY <1>0, <2>1, <2>4, <2>5 DEF WellFormed
  <2>7. am'[k] = AliasAt(q).classes BY <1>2 DEF Gather
  <2>8. Raw[k] = a.classes BY DEF Raw
  <2>9. QED BY <2>3, <2>5, <2>6, <2>7, <2>8
<1>5. Raw' = Raw BY <1>0, SaidStays
<1>6. QED BY <1>0, <1>3, <1>4, <1>5 DEF Nested

\* An alias is expanded by what its names stand for at that moment.
LEMMA NestedStep ==
  ASSUME LoadInv, Nested, NEW k \in unvisited, Nest(k)
  PROVE  Nested'
<1>0. /\ UNCHANGED <<files, configs>> /\ unvisited' = unvisited \ {k}
      /\ am' = [am EXCEPT ![k] = Expand(am, k[1], am[k])]
  BY DEF Nest
<1>1. Raw' = Raw /\ \A d, P : Settled(d, P)' <=> Settled(d, P) BY <1>0, SaidStays
<1>2. DOMAIN am = DOMAIN Raw /\ k \in DOMAIN Raw /\ am[k] = Raw[k] BY DEF Nested
<1>3. k = <<k[1], k[2]>>
  <2>1. PICK a : k = Key(a) BY <1>2 DEF Raw
  <2>2. QED BY <2>1 DEF Key
<1>4. \A y : y \in am'[k] <=>
        \E x \in Raw[k] : IF <<k[1], x>> \in DOMAIN Raw THEN y \in am[<<k[1], x>>] ELSE y = x
  BY <1>0, <1>2, ExpandIn
<1>5. /\ DOMAIN am' = DOMAIN Raw /\ unvisited' \subseteq DOMAIN Raw
      /\ \A j \in unvisited' : am'[j] = Raw[j]
      /\ \A j \in DOMAIN Raw : j # k => am'[j] = am[j]
  BY <1>0, <1>2 DEF Nested
<1>6. ASSUME NEW d, NEW P, Settled(d, P), NEW n, <<d, n>> \in DOMAIN Raw
      PROVE  /\ Raw[<<d, n>>] \subseteq P => am'[<<d, n>>] \subseteq P
             /\ Raw[<<d, n>>] \cap P \subseteq am'[<<d, n>>]
             /\ <<d, n>> \notin unvisited' =>
                  /\ Expand(Raw, d, Raw[<<d, n>>]) \subseteq P => am'[<<d, n>>] \subseteq P
                  /\ Expand(Raw, d, Raw[<<d, n>>]) \cap P \subseteq am'[<<d, n>>]
  <2>1. CASE <<d, n>> # k
    <3>1. am'[<<d, n>>] = am[<<d, n>>] /\ (<<d, n>> \notin unvisited' => <<d, n>> \notin unvisited)
      BY <1>0, <1>5, <1>6, <2>1
    <3>2. QED BY <1>6, <3>1 DEF Nested
  <2>2. CASE <<d, n>> = k
    <3>1. k[1] = d BY <2>2
    <3>2. \A m : <<d, m>> \in DOMAIN Raw =>
            /\ Raw[<<d, m>>] \subseteq P => am[<<d, m>>] \subseteq P
            /\ Raw[<<d, m>>] \cap P \subseteq am[<<d, m>>]
      BY <1>6 DEF Nested
    <3>3. ASSUME Raw[k] \subseteq P PROVE am'[k] \subseteq P
      <4> SUFFICES ASSUME NEW y \in am'[k] PROVE y \in P
        OBVIOUS
      <4>1. PICK x \in Raw[k] : IF <<d, x>> \in DOMAIN Raw THEN y \in am[<<d, x>>] ELSE y = x
        BY <1>4, <3>1
      <4>2. QED BY <1>6, <3>2, <3>3, <4>1, Within
    <3>4. ASSUME NEW y \in Raw[k], y \in P PROVE y \in am'[k]
      <4>1. CASE <<d, y>> \in DOMAIN Raw
        <5>1. y \in Raw[<<d, y>>] BY <1>6, <3>4, <4>1, Within
        <5>2. y \in am[<<d, y>>] BY <3>2, <3>4, <4>1, <5>1
        <5>3. QED BY <1>4, <3>1, <3>4, <4>1, <5>2
      <4>2. CASE <<d, y>> \notin DOMAIN Raw
        BY <1>4, <3>1, <3>4, <4>2
      <4>3. QED BY <4>1, <4>2
    <3>5. \A y : y \in Expand(Raw, d, Raw[k]) <=>
            \E x \in Raw[k] : IF <<d, x>> \in DOMAIN Raw THEN y \in Raw[<<d, x>>] ELSE y = x
      BY ExpandIn
    <3>6. ASSUME Expand(Raw, d, Raw[k]) \subseteq P PROVE am'[k] \subseteq P
      <4> SUFFICES ASSUME NEW y \in am'[k] PROVE y \in P
        OBVIOUS
      <4>1. PICK x \in Raw[k] : IF <<d, x>> \in DOMAIN Raw THEN y \in am[<<d, x>>] ELSE y = x
        BY <1>4, <3>1
      <4>2. CASE <<d, x>> \in DOMAIN Raw
        <5>1. Raw[<<d, x>>] \subseteq P BY <3>5, <3>6, <4>1, <4>2
        <5>2. QED BY <3>2, <4>1, <4>2, <5>1
      <4>3. CASE <<d, x>> \notin DOMAIN Raw BY <3>5, <3>6, <4>1, <4>3
      <4>4. QED BY <4>2, <4>3
    <3>7. ASSUME NEW y \in Expand(Raw, d, Raw[k]), y \in P PROVE y \in am'[k]
      <4>1. PICK x \in Raw[k] : IF <<d, x>> \in DOMAIN Raw THEN y \in Raw[<<d, x>>] ELSE y = x
        BY <3>5, <3>7
      <4>2. IF <<d, x>> \in DOMAIN Raw THEN y \in am[<<d, x>>] ELSE y = x BY <3>2, <3>7, <4>1
      <4>3. QED BY <1>4, <3>1, <4>2
    <3>8. QED BY <2>2, <3>3, <3>4, <3>6, <3>7
  <2>3. QED BY <2>1, <2>2
<1>7. QED BY <1>1, <1>5, <1>6 DEF Nested

\* When all aliases have been expanded, settled names are those that are meant two
\* aliases deep.
LEMMA NestedEnd ==
  ASSUME Nested, unvisited = {}, NEW d, NEW names, Settled(d, TwoDeep(d, names))
  PROVE  Expand(am, d, names) = TwoDeep(d, names)
<1> DEFINE P == TwoDeep(d, names)
<1> USE DEF TwoDeep
<1>1. DOMAIN am = DOMAIN Raw BY DEF Nested
<1>2. \A n : <<d, n>> \in DOMAIN Raw =>
        /\ Expand(Raw, d, Raw[<<d, n>>]) \subseteq P => am[<<d, n>>] \subseteq P
        /\ Expand(Raw, d, Raw[<<d, n>>]) \cap P \subseteq am[<<d, n>>]
  BY DEF Nested
<1>3. \A y : y \in P <=>
        \E x \in Expand(Raw, d, names) : IF <<d, x>> \in DOMAIN Raw THEN y \in Raw[<<d, x>>] ELSE y = x
  BY ExpandIn
<1>4. \A x : x \in Expand(Raw, d, names) <=>
        \E n \in names : IF <<d, n>> \in DOMAIN Raw THEN x \in Raw[<<d, n>>] ELSE x = n
  BY ExpandIn
<1>5. \A n, y : y \in Expand(Raw, d, Raw[<<d, n>>]) <=>
        \E x \in Raw[<<d, n>>] : IF <<d, x>> \in DOMAIN Raw THEN y \in Raw[<<d, x>>] ELSE y = x
  BY ExpandIn
<1>6. \A y : y \in Expand(am, d, names) <=>
        \E n \in names : IF <<d, n>> \in DOMAIN Raw THEN y \in am[<<d, n>>] ELSE y = n
  BY <1>1, ExpandIn
<1> HIDE DEF P
<1>7. ASSUME NEW n \in names, <<d, n>> \in DOMAIN Raw
      PROVE  Expand(Raw, d, Raw[<<d, n>>]) \subseteq P
  <2> SUFFICES ASSUME NEW y \in Expand(Raw, d, Raw[<<d, n>>]) PROVE y \in P
    OBVIOUS
  <2>1. PICK x \in Raw[<<d, n>>] : IF <<d, x>> \in DOMAIN Raw THEN y \in Raw[<<d, x>>] ELSE y = x
    BY <1>5
  <2>2. x \in Expand(Raw, d, names) BY <1>4, <1>7, <2>1
  <2>3. QED BY <1>3, <2>1, <2>2
<1>8. ASSUME NEW y \in Expand(am, d, names) PROVE y \in P
  <2>1. PICK n \in names : IF <<d, n>> \in DOMAIN Raw THEN y \in am[<<d, n>>] ELSE y = n
    BY <1>6
  <2>2. CASE <<d, n>> \in DOMAIN Raw BY <1>2, <1>7, <2>1, <2>2
  <2>3. CASE <<d, n>> \notin DOMAIN Raw BY <1>3, <1>4, <2>1, <2>3
  <2>4. QED BY <2>2, <2>3
<1>9. ASSUME NEW y \in P PROVE y \in Expand(am, d, names)
  <2>1. PICK x \in Expand(Raw, d, names) : IF <<d, x>> \in DOMAIN Raw THEN y \in Raw[<<d, x>>] ELSE y = x
    BY <1>3
  <2>2. PICK n \in names : IF <<d, n>> \in DOMAIN Raw THEN x \in Raw[<<d, n>>] ELSE x = n
    BY <1>4
  <2>3. CASE <<d, n>> \in DOMAIN Raw
    <3>1. y \in Expand(Raw, d, Raw[<<d, n>>]) BY <1>5, <2>1, <2>2, <2>3
    <3>2. y \in am[<<d, n>>] BY <1>2, <2>3, <3>1
    <3>3. QED BY <1>6, <2>3, <3>2
  <2>4. CASE <<d, n>> \notin DOMAIN Raw BY <1>6, <2>1, <2>2, <2>4
  <2>5. QED BY <2>3, <2>4
<1>10. QED BY <1>8, <1>9 DEF P

\* And a class that is meant so deep is there, whatever else is not.
LEMMA NestedClass ==
  ASSUME Nested, unvisited = {}, NEW d, NEW names, NEW y \in NoAliases(d, TwoDeep(d, names))
  PROVE  y \in Expand(am, d, names)
<1>1. y \in TwoDeep(d, names) /\ <<d, y>> \notin DOMAIN Raw /\ DOMAIN am = DOMAIN Raw
  BY DEF NoAliases, Nested
<1>2. Settled(d, {y}) BY <1>1 DEF Settled, Expand
<1>3. \A n : <<d, n>> \in DOMAIN Raw => Expand(Raw, d, Raw[<<d, n>>]) \cap {y} \subseteq am[<<d, n>>]
  BY <1>2 DEF Nested
<1>4. PICK x \in Expand(Raw, d, names) : IF <<d, x>> \in DOMAIN Raw THEN y \in Raw[<<d, x>>] ELSE y = x
  BY <1>1, ExpandIn DEF TwoDeep
<1>5. PICK n \in names : IF <<d, n>> \in DOMAIN Raw THEN x \in Raw[<<d, n>>] ELSE x = n
  BY <1>4, ExpandIn
<1>6. y \in Expand(am, d, names) <=>
        \E m \in names : IF <<d, m>> \in DOMAIN Raw THEN y \in am[<<d, m>>] ELSE y = m
  <2>1. y \in Expand(am, d, names) <=>
          \E m \in names : IF <<d, m>> \in DOMAIN am THEN y \in am[<<d, m>>] ELSE y = m
    BY ExpandIn
  <2>2. QED BY <1>1, <2>1
<1>7. CASE <<d, n>> \in DOMAIN Raw
  <2>1. y \in Expand(Raw, d, Raw[<<d, n>>]) BY <1>4, <1>5, <1>7, ExpandIn
  <2>2. y \in am[<<d, n>>] BY <1>3, <1>7, <2>1
  <2>3. QED BY <1>5, <1>6, <1>7, <2>2
<1>8. CASE <<d, n>> \notin DOMAIN Raw BY <1>1, <1>4, <1>5, <1>6, <1>8
<1>9. QED BY <1>7, <1>8

\* Names that no alias leads out of, and names that any alias is among all of whose
\* names are.
Shut(d, P) == Expand(Raw, d, P) \subseteq P
Drawn(d, P) == \A n : <<d, n>> \in DOMAIN Raw /\ Raw[<<d, n>>] \subseteq P => n \in P

\* However deep aliases go, expanding them within each other lets no name in and no class
\* out: what holds of the names of an alias as it was written holds of those it has.
SameReach ==
  /\ \A k \in DOMAIN Raw : am[k] # {}
  /\ \A d, P : Shut(d, P) =>
       \A n : <<d, n>> \in DOMAIN Raw /\ Raw[<<d, n>>] \subseteq P => am[<<d, n>>] \subseteq P
  /\ \A d, P : Drawn(d, P) =>
       \A n : <<d, n>> \in DOMAIN Raw /\ am[<<d, n>>] \subseteq P => n \in P

LEMMA ReachStart ==
  ASSUME LoadInv, Gather
  PROVE  SameReach'
<1>1. /\ UNCHANGED <<files, configs>> /\ WellFormed /\ todo = <<>>
      /\ unvisited' = DOMAIN am'
  BY DEF Gather
<1>2. Nested' BY NestedStart
<1>3. DOMAIN am' = DOMAIN Raw' /\ \A k \in DOMAIN Raw' : am'[k] = Raw'[k]
  BY <1>1, <1>2 DEF Nested
<1>4. Raw' = Raw BY <1>1, SaidStays
<1>5. \A k \in DOMAIN Raw : Raw[k] # {} BY <1>1, RawIs
<1>6. \A d, P : Shut(d, P)' <=> Shut(d, P) BY <1>4 DEF Shut, Expand
<1>7. \A d, P : Drawn(d, P)' <=> Drawn(d, P) BY <1>4 DEF Drawn
<1>8. \A d, P : Drawn(d, P) => \A n : <<d, n>> \in DOMAIN Raw /\ Raw[<<d, n>>] \subseteq P => n \in P
  BY DEF Drawn
<1>9. QED BY <1>3, <1>4, <1>5, <1>6, <1>7, <1>8 DEF SameReach

LEMMA ReachStep ==
  ASSUME LoadInv, todo = <<>>, Nested, SameReach, NEW k \in unvisited, Nest(k)
  PROVE  SameReach'
<1>1. UNCHANGED <<files, configs>> /\ am' = [am EXCEPT ![k] = Expand(am, k[1], am[k])]
  BY DEF Nest
<1>2. Raw' = Raw BY <1>1, SaidStays
<1>3. DOMAIN am = DOMAIN Raw /\ k \in DOMAIN Raw /\ am[k] = Raw[k] BY DEF Nested
<1>4. k = <<k[1], k[2]>> BY <1>3, RawIs
<1>5. \A y : y \in am'[k] <=>
        \E x \in Raw[k] : IF <<k[1], x>> \in DOMAIN Raw THEN y \in am[<<k[1], x>>] ELSE y = x
  BY <1>1, <1>3, ExpandIn
<1>6. DOMAIN am' = DOMAIN Raw /\ \A j \in DOMAIN Raw : j # k => am'[j] = am[j]
  BY <1>1, <1>3
<1>7. /\ \A d, P : Shut(d, P)' <=> Shut(d, P)
      /\ \A d, P : Drawn(d, P)' <=> Drawn(d, P)
  BY <1>2 DEF Shut, Drawn, Expand
<1>8. am'[k] # {}
  <2>1. PICK x \in Raw[k] : TRUE BY <1>3 DEF SameReach
  <2>2. CASE <<k[1], x>> \in DOMAIN Raw
    <3>1. PICK y : y \in am[<<k[1], x>>] BY <2>2 DEF SameReach
    <3>2. y \in am'[k] BY <1>5, <2>1, <2>2, <3>1
    <3>3. QED BY <3>2
  <2>3. CASE <<k[1], x>> \notin DOMAIN Raw
    <3>1. x \in am'[k] BY <1>5, <2>1, <2>3
    <3>2. QED BY <3>1
  <2>4. QED BY <2>2, <2>3
<1>9. ASSUME NEW d, NEW P, Shut(d, P), NEW n, <<d, n>> \in DOMAIN Raw, Raw[<<d, n>>] \subseteq P
      PROVE  am'[<<d, n>>] \subseteq P
  <2>1. CASE <<d, n>> # k BY <1>6, <1>9, <2>1 DEF SameReach
  <2>2. CASE <<d, n>> = k
    <3> SUFFICES ASSUME NEW y \in am'[k] PROVE y \in P
      BY <2>2
    <3>1. k[1] = d BY <2>2
    <3>2. PICK x \in Raw[k] : IF <<d, x>> \in DOMAIN Raw THEN y \in am[<<d, x>>] ELSE y = x
      BY <1>5, <3>1
    <3>3. x \in P BY <1>9, <2>2, <3>2
    <3>4. CASE <<d, x>> \in DOMAIN Raw
      <4>1. \A z : z \in Raw[<<d, x>>] => z \in Expand(Raw, d, P) BY <3>3, <3>4, ExpandIn
      <4>2. Raw[<<d, x>>] \subseteq P BY <1>9, <4>1 DEF Shut
      <4>3. am[<<d, x>>] \subseteq P BY <1>9, <3>4, <4>2 DEF SameReach
      <4>4. QED BY <3>2, <3>4, <4>3
    <3>5. CASE <<d, x>> \notin DOMAIN Raw BY <3>2, <3>3, <3>5
    <3>6. QED BY <3>4, <3>5
  <2>3. QED BY <2>1, <2>2
<1>10. ASSUME NEW d, NEW P, Drawn(d, P), NEW n, <<d, n>> \in DOMAIN Raw, am'[<<d, n>>] \subseteq P
       PROVE  n \in P
  <2>1. CASE <<d, n>> # k BY <1>6, <1>10, <2>1 DEF SameReach
  <2>2. CASE <<d, n>> = k
    <3>1. k[1] = d /\ am'[k] \subseteq P BY <1>10, <2>2
    <3>2. ASSUME NEW x \in Raw[k] PROVE x \in P
      <4>1. CASE <<d, x>> \in DOMAIN Raw
        <5>1. \A y \in am[<<d, x>>] : y \in am'[k] BY <1>5, <3>1, <4>1
        <5>2. am[<<d, x>>] \subseteq P BY <3>1, <5>1
        <5>3. QED BY <1>10, <4>1, <5>2 DEF SameReach
      <4>2. CASE <<d, x>> \notin DOMAIN Raw
        <5>1. x \in am'[k] BY <1>5, <3>1, <4>2
        <5>2. QED BY <3>1, <5>1
      <4>3. QED BY <4>1, <4>2
    <3>3. QED BY <1>10, <2>2, <3>2 DEF Drawn
  <2>3. QED BY <2>1, <2>2
<1>11. \A j \in DOMAIN Raw : am'[j] # {} BY <1>6, <1>8 DEF SameReach
<1>12. QED BY <1>2, <1>7, <1>9, <1>10, <1>11 DEF SameReach

\* Names that are used, through all aliases as they are in the end.
LEMMA ReachEnd ==
  ASSUME LoadInv, todo = <<>>, Nested, SameReach, unvisited = {}, NEW d, NEW names \in SUBSET Names
  PROVE  Expanded(d, names, Expand(am, d, names))
<1> DEFINE became == Expand(am, d, names)
<1>1. DOMAIN am = DOMAIN Raw BY DEF Nested
<1>2. \A y : y \in became <=>
        \E n \in names : IF <<d, n>> \in DOMAIN Raw THEN y \in am[<<d, n>>] ELSE y = n
  BY <1>1, ExpandIn
<1>3. \A P, y : y \in Expand(Raw, d, P) <=>
        \E n \in P : IF <<d, n>> \in DOMAIN Raw THEN y \in Raw[<<d, n>>] ELSE y = n
  BY ExpandIn
<1>4. \A n : <<d, n>> \in DOMAIN Raw => Raw[<<d, n>>] \subseteq Names /\ n \in Names
  BY RawIs
<1>5. Shut(d, Names)
  <2>1. ASSUME NEW y \in Expand(Raw, d, Names) PROVE y \in Names
    <3>1. PICK n \in Names : IF <<d, n>> \in DOMAIN Raw THEN y \in Raw[<<d, n>>] ELSE y = n BY <1>3
    <3>2. QED BY <1>4, <3>1
  <2>2. QED BY <2>1 DEF Shut
<1>6. ASSUME NEW X \in SUBSET Names, names \subseteq X, Shut(d, X) PROVE became \subseteq X
  <2> SUFFICES ASSUME NEW y \in became PROVE y \in X
    OBVIOUS
  <2>1. PICK n \in names : IF <<d, n>> \in DOMAIN Raw THEN y \in am[<<d, n>>] ELSE y = n
    BY <1>2
  <2>2. CASE <<d, n>> \in DOMAIN Raw
    <3>1. Raw[<<d, n>>] \subseteq X BY <1>3, <1>6, <2>2 DEF Shut
    <3>2. QED BY <1>6, <2>1, <2>2, <3>1 DEF SameReach
  <2>3. CASE <<d, n>> \notin DOMAIN Raw BY <1>6, <2>1, <2>3
  <2>4. QED BY <2>2, <2>3
<1>7. became \subseteq StandsFor(d, names)
  <2>1. became \subseteq Names BY <1>5, <1>6
  <2>2. QED BY <1>6, <2>1 DEF StandsFor, Shut
<1>8. ASSUME NEW c \in NoAliases(d, StandsFor(d, names)), NEW X \in SUBSET Names,
             became \subseteq X, Shut(d, X)
      PROVE  c \in X
  <2> SUFFICES ASSUME c \notin X PROVE FALSE
    OBVIOUS
  <2> DEFINE Z == UNION {Y \in SUBSET Names : Shut(d, Y) /\ c \notin Y}
  <2>1. c \notin Z /\ Z \subseteq Names /\ X \subseteq Z BY <1>8
  <2>2. Shut(d, Z)
    <3>1. \A n \in Z : \E Y \in SUBSET Names : Shut(d, Y) /\ c \notin Y /\ n \in Y OBVIOUS
    <3>2. \A Y \in SUBSET Names : Shut(d, Y) /\ c \notin Y => Y \subseteq Z OBVIOUS
    <3> HIDE DEF Z
    <3> SUFFICES ASSUME NEW y \in Expand(Raw, d, Z) PROVE y \in Z
      BY DEF Shut
    <3>3. PICK n \in Z : IF <<d, n>> \in DOMAIN Raw THEN y \in Raw[<<d, n>>] ELSE y = n
      BY <1>3
    <3>4. PICK Y \in SUBSET Names : Shut(d, Y) /\ c \notin Y /\ n \in Y BY <3>1
    <3>5. y \in Expand(Raw, d, Y) BY <1>3, <3>3, <3>4
    <3>6. QED BY <3>2, <3>4, <3>5 DEF Shut
  <2>3. c \in StandsFor(d, names) /\ <<d, c>> \notin DOMAIN Raw BY DEF NoAliases
  <2>4. Drawn(d, Z)
    <3> SUFFICES ASSUME NEW n, <<d, n>> \in DOMAIN Raw, Raw[<<d, n>>] \subseteq Z PROVE n \in Z
      BY DEF Drawn
    <3> DEFINE Y == Z \cup {n}
    <3>1. c \notin Y /\ Y \in SUBSET Names BY <1>4, <2>1, <2>3
    <3>2. Shut(d, Y)
      <4> SUFFICES ASSUME NEW y \in Expand(Raw, d, Y) PROVE y \in Y
        BY DEF Shut
      <4>1. PICK m \in Y : IF <<d, m>> \in DOMAIN Raw THEN y \in Raw[<<d, m>>] ELSE y = m BY <1>3
      <4>2. CASE m \in Z
        <5>1. y \in Expand(Raw, d, Z) BY <1>3, <4>1, <4>2
        <5> HIDE DEF Z
        <5>2. QED BY <2>2, <5>1 DEF Shut
      <4>3. CASE m = n BY <4>1, <4>3
      <4>4. QED BY <4>2, <4>3
    <3>3. QED BY <3>1, <3>2
  <2> HIDE DEF Z
  <2>5. ASSUME NEW n \in names PROVE n \in Z
    <3>1. CASE <<d, n>> \in DOMAIN Raw
      <4>1. am[<<d, n>>] \subseteq became BY <1>2, <3>1
      <4> HIDE DEF became
      <4>2. am[<<d, n>>] \subseteq Z BY <1>8, <2>1, <4>1
      <4>3. QED BY <2>4, <3>1, <4>2 DEF SameReach
    <3>2. CASE <<d, n>> \notin DOMAIN Raw
      <4>1. n \in became BY <1>2, <3>2
      <4>2. QED BY <1>8, <2>1, <4>1
    <3>3. QED BY <3>1, <3>2
  <2>6. c \in Z BY <2>1, <2>2, <2>3, <2>5 DEF StandsFor, Shut
  <2>7. QED BY <2>1, <2>6
<1>9. NoAliases(d, StandsFor(d, names)) \subseteq StandsFor(d, became)
  <2>1. NoAliases(d, StandsFor(d, names)) \subseteq Names BY DEF NoAliases, StandsFor
  <2> HIDE DEF became
  <2>2. QED BY <1>8, <2>1 DEF StandsFor, Shut
<1>10. NoAliases(d, TwoDeep(d, names)) \subseteq became BY NestedClass
<1>11. Settled(d, TwoDeep(d, names)) => became = TwoDeep(d, names) BY NestedEnd
<1>12. ASSUME NEW n \in names PROVE became # {}
  <2>1. CASE <<d, n>> \in DOMAIN Raw
    <3>1. PICK y : y \in am[<<d, n>>] BY <2>1 DEF SameReach
    <3>2. y \in became BY <1>2, <2>1, <3>1
    <3>3. QED BY <3>2
  <2>2. CASE <<d, n>> \notin DOMAIN Raw
    <3>1. n \in became BY <1>2, <2>2
    <3>2. QED BY <3>1
  <2>3. QED BY <2>1, <2>2
<1> HIDE DEF became
<1>13. Expanded(d, names, became) BY <1>7, <1>9, <1>10, <1>11, <1>12 DEF Expanded
<1>14. QED BY <1>13 DEF became
--------------------------------------------------------------------------------
(* Stores.                                                                 *)

\* The recursive function that AddStores takes its last value from.
Adding(held, base, d, stores) ==
  held = [n \in 0 .. Len(stores) |->
            IF n = 0 THEN base
            ELSE IF stores[n].domain # d \/ stores[n] \in ToSet(held[n - 1]) THEN held[n - 1]
            ELSE Append(held[n - 1], stores[n])]

\* There is such a function: one for the first stores extends to the next.
LEMMA AddingExists ==
  ASSUME NEW stores, Len(stores) \in Nat, NEW base, NEW d
  PROVE  \E held : Adding(held, base, d, stores)
<1> DEFINE Value(h, n) ==
             IF n = 0 THEN base
             ELSE IF stores[n].domain # d \/ stores[n] \in ToSet(h[n - 1]) THEN h[n - 1]
             ELSE Append(h[n - 1], stores[n])
           Part(m) == \E h : /\ h = [n \in 0 .. m |-> h[n]]
                             /\ \A n \in 0 .. m : h[n] = Value(h, n)
           Lacking == {m \in Nat : ~Part(m)}
<1>1. Part(0)
  <2>1. LET h == [n \in 0 .. 0 |-> base]
        IN  h = [n \in 0 .. 0 |-> h[n]] /\ \A n \in 0 .. 0 : h[n] = Value(h, n)
    OBVIOUS
  <2>2. QED BY <2>1
<1>2. ASSUME NEW m \in Nat, Part(m) PROVE Part(m + 1)
  <2>1. PICK h : h = [n \in 0 .. m |-> h[n]] /\ \A n \in 0 .. m : h[n] = Value(h, n)
    BY <1>2
  <2> DEFINE g == [n \in 0 .. m + 1 |-> IF n = m + 1 THEN Value(h, n) ELSE h[n]]
  <2>2. \A n \in 0 .. m : g[n] = h[n] OBVIOUS
  <2>3. ASSUME NEW n \in 0 .. m + 1 PROVE g[n] = Value(g, n)
    <3>1. n # 0 => g[n - 1] = h[n - 1]
      <4>1. n # 0 => n - 1 \in 0 .. m OBVIOUS
      <4>2. QED BY <2>2, <4>1
    <3>2. Value(g, n) = Value(h, n) BY <3>1
    <3>3. g[n] = Value(h, n)
      <4>1. CASE n = m + 1 BY <4>1
      <4>2. CASE n # m + 1
        <5>1. n \in 0 .. m BY <4>2
        <5>2. QED BY <2>1, <2>2, <5>1
      <4>3. QED BY <4>1, <4>2
    <3>4. QED BY <3>2, <3>3
  <2>4. g = [n \in 0 .. m + 1 |-> g[n]] OBVIOUS
  <2> HIDE DEF g, Value
  <2>5. QED BY <2>3, <2>4
<1>3. Part(Len(stores))
  <2> HIDE DEF Part
  <2>1. SUFFICES Lacking = {} OBVIOUS
  <2>2. SUFFICES ASSUME Lacking # {} PROVE FALSE OBVIOUS
  <2>3. PICK m \in Lacking : \A k \in Lacking : m <= k BY <2>2, Least
  <2>4. m # 0 BY <1>1
  <2>5. m - 1 \in Nat /\ m - 1 \notin Lacking BY <2>3, <2>4
  <2>6. Part(m) BY <1>2, <2>5
  <2>7. QED BY <2>6
<1>4. PICK h : h = [n \in 0 .. Len(stores) |-> h[n]] /\ \A n \in 0 .. Len(stores) : h[n] = Value(h, n)
  BY <1>3
<1>5. h = [n \in 0 .. Len(stores) |-> Value(h, n)]
  <2> HIDE DEF Value
  <2>1. QED BY <1>4
<1>6. QED BY <1>5 DEF Adding

\* What is held after the first n stores.
LEMMA AddingHolds ==
  ASSUME NEW stores, IsList(stores), NEW base, IsList(base), IsInjective(base), NEW d,
         NEW held, Adding(held, base, d, stores)
  PROVE  \A n \in 0 .. Len(stores) :
           /\ IsList(held[n]) /\ IsInjective(held[n])
           /\ ToSet(held[n]) = ToSet(base) \cup {s \in {stores[i] : i \in 1 .. n} : s.domain = d}
<1> DEFINE Right(n) ==
             /\ IsList(held[n]) /\ IsInjective(held[n])
             /\ ToSet(held[n]) = ToSet(base) \cup {s \in {stores[i] : i \in 1 .. n} : s.domain = d}
           Wrong == {n \in 0 .. Len(stores) : ~Right(n)}
<1>1. Len(stores) \in Nat BY DEF IsList
<1>2. Right(0)
  <2>1. held[0] = base BY <1>1 DEF Adding
  <2>2. {stores[i] : i \in 1 .. 0} = {} OBVIOUS
  <2>3. QED BY <2>1, <2>2
<1>3. ASSUME NEW n \in 1 .. Len(stores), Right(n - 1) PROVE Right(n)
  <2> DEFINE before == held[n - 1]
             s == stores[n]
             Early == {stores[i] : i \in 1 .. n - 1}
  <2>1. held[n] = IF s.domain # d \/ s \in ToSet(before) THEN before ELSE Append(before, s)
    <3>1. n \in 0 .. Len(stores) /\ n # 0 BY <1>1
    <3>2. \A k \in 0 .. Len(stores) : held[k] =
            IF k = 0 THEN base
            ELSE IF stores[k].domain # d \/ stores[k] \in ToSet(held[k - 1]) THEN held[k - 1]
            ELSE Append(held[k - 1], stores[k])
      BY Zenon DEF Adding
    <3>3. QED BY <3>1, <3>2
  <2>2. {stores[i] : i \in 1 .. n} = Early \cup {s}
    <3>1. 1 .. n = (1 .. n - 1) \cup {n} OBVIOUS
    <3>2. QED BY <3>1
  <2>3. /\ IsList(before) /\ IsInjective(before)
        /\ ToSet(before) = ToSet(base) \cup {x \in Early : x.domain = d}
    BY <1>3
  <2> HIDE DEF before, s, Early, Right
  <2>4. CASE s.domain # d \/ s \in ToSet(before)
    <3>1. held[n] = before BY <2>1, <2>4
    <3>2. QED BY <2>2, <2>3, <2>4, <3>1 DEF Right
  <2>5. CASE s.domain = d /\ s \notin ToSet(before)
    <3>1. held[n] = Append(before, s) BY <2>1, <2>5
    <3>2. before \in Seq(ToSet(before) \cup {s}) BY <2>3 DEF IsList
    <3>3. s \in ToSet(before) \cup {s} OBVIOUS
    <3>4. /\ Append(before, s) \in Seq(ToSet(before) \cup {s})
          /\ ToSet(Append(before, s)) = ToSet(before) \cup {s}
      <4> DEFINE S == ToSet(before) \cup {s}
      <4>1. before \in Seq(S) /\ s \in S BY <3>2, <3>3
      <4> HIDE DEF S
      <4>2. Append(before, s) \in Seq(S) /\ ToSet(Append(before, s)) = ToSet(before) \cup {s}
        BY <4>1, AppendSet
      <4>3. QED BY <4>2 DEF S
    <3>5. IsInjective(Append(before, s))
      <4>1. /\ DOMAIN Append(before, s) = 1 .. Len(before) + 1 /\ Len(before) \in Nat
            /\ DOMAIN before = 1 .. Len(before)
            /\ Append(before, s)[Len(before) + 1] = s
            /\ \A i \in 1 .. Len(before) : Append(before, s)[i] = before[i]
        BY <3>2
      <4>2. \A i \in 1 .. Len(before) : before[i] # s BY <2>5, <4>1 DEF ToSet
      <4>3. \A i, j \in 1 .. Len(before) : before[i] = before[j] => i = j
        BY <2>3, <4>1 DEF IsInjective
      <4>4. ASSUME NEW i \in 1 .. Len(before) + 1, NEW j \in 1 .. Len(before) + 1,
                   Append(before, s)[i] = Append(before, s)[j]
            PROVE  i = j
        <5>1. i \in 1 .. Len(before) \/ i = Len(before) + 1 BY <4>1
        <5>2. j \in 1 .. Len(before) \/ j = Len(before) + 1 BY <4>1
        <5>3. QED BY <4>1, <4>2, <4>3, <4>4, <5>1, <5>2
      <4>5. QED BY <4>1, <4>4 DEF IsInjective
    <3>6. QED BY <2>2, <2>3, <2>5, <3>1, <3>4, <3>5 DEF Right, IsList
  <2>6. QED BY <2>4, <2>5
<1>4. Wrong = {}
  <2> HIDE DEF Right
  <2> SUFFICES ASSUME Wrong # {} PROVE FALSE
    OBVIOUS
  <2>1. Wrong \subseteq Nat BY <1>1
  <2>2. PICK n \in Wrong : \A k \in Wrong : n <= k BY <2>1, Least
  <2>3. n # 0 BY <1>2
  <2>4. n \in 1 .. Len(stores) /\ n - 1 \in 0 .. Len(stores) BY <1>1, <2>3
  <2>5. n - 1 \notin Wrong BY <1>1, <2>2, <2>4
  <2>6. Right(n - 1) BY <2>4, <2>5
  <2>7. QED BY <1>3, <2>4, <2>6
<1>5. QED BY <1>4

\* A configuration's stores of a domain are added to those it has, each once.
LEMMA StoresAdded ==
  ASSUME NEW d, NEW stores, IsList(stores), IsList(holders[d]), IsInjective(holders[d])
  PROVE  /\ IsList(AddStores(d, stores)) /\ IsInjective(AddStores(d, stores))
         /\ ToSet(AddStores(d, stores)) = ToSet(holders[d]) \cup {s \in ToSet(stores) : s.domain = d}
<1> DEFINE held == CHOOSE held : Adding(held, holders[d], d, stores)
<1>1. stores \in Seq(ToSet(stores)) BY DEF IsList
<1>2. Len(stores) \in Nat /\ DOMAIN stores = 1 .. Len(stores) BY <1>1
<1>3. Adding(held, holders[d], d, stores) BY <1>2, AddingExists
<1>4. AddStores(d, stores) = held[Len(stores)] BY Zenon DEF AddStores, Adding
<1>5. ToSet(stores) = {stores[i] : i \in 1 .. Len(stores)} BY <1>2 DEF ToSet
<1>6. Len(stores) \in 0 .. Len(stores) BY <1>2
<1> HIDE DEF held
<1>7. QED BY <1>3, <1>4, <1>5, <1>6, AddingHolds
--------------------------------------------------------------------------------
(* Building.                                                               *)

\* After expansion, each source's rules are as it says them.
WrittenAsSaid ==
  /\ DOMAIN written = DOMAIN configs
  /\ \A i \in DOMAIN configs :
       /\ written[i] = [j \in DOMAIN files[configs[i]].rules |-> written[i][j]]
       /\ \A j \in DOMAIN files[configs[i]].rules : AsSaid(files[configs[i]].rules[j], written[i][j])

WrittenAt(p) == written[p[1]][p[2]]

LEMMA ExpandedAsSaid ==
  ASSUME LoadInv, todo = <<>>, Nested, SameReach, ExpandRules
  PROVE  WrittenAsSaid'
<1>1. UNCHANGED <<files, configs>> /\ unvisited = {} BY DEF ExpandRules
<1>2. ASSUME NEW i \in DOMAIN configs, NEW j \in DOMAIN files[configs[i]].rules
      PROVE  AsSaid(files[configs[i]].rules[j], ExpandRule(files[configs[i]].rules[j]))
  <2> DEFINE r == files[configs[i]].rules[j]
             s == Expand(am, r.start.domain, r.start.classes)
             g == Expand(am, r.goal.domain, r.goal.classes)
  <2>1. IsFile(files[configs[i]]) BY SaidOfLoaded
  <2>2. r \in ToSet(files[configs[i]].rules) BY DEF ToSet
  <2>3. IsRule(r) BY <2>1, <2>2 DEF IsFile
  <2>4. <<i, j>> \in RulePlaces BY DEF RulePlaces
  <2>5. r = RuleAt(<<i, j>>) BY DEF RuleAt
  <2>6. r \in SaidRules BY <2>4, <2>5, SaidOfLoaded
  <2> HIDE DEF r
  <2>7. r.start.classes \subseteq Names /\ r.goal.classes \subseteq Names
    <3>1. r.start.classes \cup r.goal.classes \subseteq
            UNION {k.start.classes \cup k.goal.classes : k \in SaidRules}
      BY <2>6
    <3>2. QED BY <3>1, Zenon DEF Names
  <2>8. Expanded(r.start.domain, r.start.classes, s) /\ Expanded(r.goal.domain, r.goal.classes, g)
    BY <1>1, <2>7, ReachEnd
  <2> HIDE DEF s, g
  <2> DEFINE w == [name |-> r.name, start |-> [domain |-> r.start.domain, classes |-> s],
                   goal |-> [domain |-> r.goal.domain, classes |-> g], parses |-> r.parses]
  <2>9. ExpandSpec(r.start) = [domain |-> r.start.domain, classes |-> s]
    BY <2>3 DEF ExpandSpec, IsRule, IsSpec, s
  <2>10. ExpandSpec(r.goal) = [domain |-> r.goal.domain, classes |-> g]
    BY <2>3 DEF ExpandSpec, IsRule, IsSpec, g
  <2>11. ExpandRule(r) = w
    <3>1. ExpandRule(r) = [[r EXCEPT !.start = ExpandSpec(r.start)] EXCEPT !.goal = ExpandSpec(r.goal)]
      BY <2>3 DEF ExpandRule, IsRule
    <3>2. [r EXCEPT !.start = ExpandSpec(r.start)] =
            [name |-> r.name, start |-> ExpandSpec(r.start), goal |-> r.goal, parses |-> r.parses]
      BY <2>3 DEF IsRule
    <3>3. QED BY <2>9, <2>10, <3>1, <3>2
  <2>12. /\ w.name = r.name /\ w.parses = r.parses
         /\ w.start.domain = r.start.domain /\ w.goal.domain = r.goal.domain
         /\ w.start.classes = s /\ w.goal.classes = g
    OBVIOUS
  <2> HIDE DEF w
  <2>13. AsSaid(r, w) BY <2>8, <2>12 DEF AsSaid
  <2>14. QED BY <2>11, <2>13 DEF r
<1>3. written' = [i \in DOMAIN configs |->
                    [j \in DOMAIN files[configs[i]].rules |-> ExpandRule(files[configs[i]].rules[j])]]
  BY DEF ExpandRules
<1>4. ASSUME NEW i \in DOMAIN configs
      PROVE  /\ written'[i] = [j \in DOMAIN files[configs[i]].rules |-> written'[i][j]]
             /\ \A j \in DOMAIN files[configs[i]].rules :
                  AsSaid(files[configs[i]].rules[j], written'[i][j])
  BY <1>2, <1>3
<1>5. \A r, w : AsSaid(r, w)' <=> AsSaid(r, w) BY <1>1, SaidStays
<1>6. ASSUME NEW i \in DOMAIN configs, NEW j \in DOMAIN files[configs[i]].rules
      PROVE  AsSaid(files[configs[i]].rules[j], written[i][j])'
  BY <1>1, <1>4, <1>5
<1>7. DOMAIN written' = DOMAIN configs BY <1>3
<1>8. QED BY <1>1, <1>4, <1>6, <1>7 DEF WrittenAsSaid

LEMMA WrittenSame ==
  ASSUME WrittenAsSaid, UNCHANGED <<files, configs, written>>
  PROVE  WrittenAsSaid'
<1>1. \A r, w : AsSaid(r, w)' <=> AsSaid(r, w) BY SaidStays
<1>2. QED BY <1>1 DEF WrittenAsSaid

\* No two rules of the list have one name.
NamesDiffer(list) == \A i, j \in DOMAIN list : list[i].name = list[j].name => i = j

LEMMA JoinNames ==
  ASSUME NEW S, NEW s \in Seq(S), NEW t \in Seq(S), NamesDiffer(s), NamesDiffer(t),
         \A x \in ToSet(s), y \in ToSet(t) : x.name # y.name
  PROVE  NamesDiffer(s \o t)
<1>1. /\ Len(s) \in Nat /\ Len(t) \in Nat /\ DOMAIN s = 1 .. Len(s) /\ DOMAIN t = 1 .. Len(t)
      /\ DOMAIN (s \o t) = 1 .. Len(s) + Len(t)
  OBVIOUS
<1>2. \A i \in 1 .. Len(s) + Len(t) :
        (s \o t)[i] = IF i <= Len(s) THEN s[i] ELSE t[i - Len(s)]
  BY <1>1
<1>3. \A i \in 1 .. Len(s), j \in 1 .. Len(t) : s[i].name # t[j].name BY <1>1 DEF ToSet
<1>4. /\ \A i, j \in 1 .. Len(s) : s[i].name = s[j].name => i = j
      /\ \A i, j \in 1 .. Len(t) : t[i].name = t[j].name => i = j
  BY <1>1 DEF NamesDiffer
<1>5. ASSUME NEW i \in 1 .. Len(s) + Len(t), NEW j \in 1 .. Len(s) + Len(t),
             (s \o t)[i].name = (s \o t)[j].name
      PROVE  i = j
  <2>1. (i \in 1 .. Len(s) /\ i <= Len(s)) \/ (i - Len(s) \in 1 .. Len(t) /\ ~(i <= Len(s)))
    BY <1>1
  <2>2. (j \in 1 .. Len(s) /\ j <= Len(s)) \/ (j - Len(s) \in 1 .. Len(t) /\ ~(j <= Len(s)))
    BY <1>1
  <2>3. CASE i <= Len(s) /\ j <= Len(s) BY <1>2, <1>4, <1>5, <2>1, <2>2, <2>3
  <2>4. CASE ~(i <= Len(s)) /\ ~(j <= Len(s))
    <3>1. i - Len(s) = j - Len(s) BY <1>2, <1>4, <1>5, <2>1, <2>2, <2>4
    <3>2. QED BY <1>1, <3>1
  <2>5. CASE i <= Len(s) /\ ~(j <= Len(s)) BY <1>2, <1>3, <1>5, <2>1, <2>2, <2>5
  <2>6. CASE ~(i <= Len(s)) /\ j <= Len(s) BY <1>2, <1>3, <1>5, <2>1, <2>2, <2>6
  <2>7. QED BY <2>3, <2>4, <2>5, <2>6
<1>6. QED BY <1>1, <1>5 DEF NamesDiffer

LEMMA TailNames ==
  ASSUME NEW S, NEW s \in Seq(S), s # <<>>, NamesDiffer(s)
  PROVE  NamesDiffer(Tail(s)) /\ \A y \in ToSet(Tail(s)) : y.name # Head(s).name
<1>1. /\ Len(s) \in Nat /\ Len(s) > 0 /\ DOMAIN s = 1 .. Len(s) /\ Head(s) = s[1]
      /\ DOMAIN Tail(s) = 1 .. Len(s) - 1 /\ \A i \in 1 .. Len(s) - 1 : Tail(s)[i] = s[i + 1]
  OBVIOUS
<1>2. \A i, j \in 1 .. Len(s) : s[i].name = s[j].name => i = j BY <1>1 DEF NamesDiffer
<1>3. ASSUME NEW i \in 1 .. Len(s) - 1, NEW j \in 1 .. Len(s) - 1, Tail(s)[i].name = Tail(s)[j].name
      PROVE  i = j
  <2>1. i + 1 \in 1 .. Len(s) /\ j + 1 \in 1 .. Len(s) BY <1>1
  <2>2. i + 1 = j + 1 BY <1>1, <1>2, <1>3, <2>1
  <2>3. QED BY <2>2
<1>4. ASSUME NEW i \in 1 .. Len(s) - 1 PROVE Tail(s)[i].name # Head(s).name
  <2>1. i + 1 \in 1 .. Len(s) /\ 1 \in 1 .. Len(s) /\ i + 1 # 1 BY <1>1
  <2>2. s[i + 1].name # s[1].name BY <1>2, <2>1
  <2>3. QED BY <1>1, <2>2
<1>5. QED BY <1>1, <1>3, <1>4 DEF NamesDiffer, ToSet

\* What the engine makes of rules whose classes there are.
ResolvedOf(rs) == {Resolved(r) : r \in {k \in rs : ~Empty(k)}}

\* The stores of the first n sources.
StoresOf(n) == UNION {ToSet(files[configs[i]].stores) : i \in 1 .. n}

\* The configurations that the builder has gone through have given it their stores ...
Held ==
  /\ configured \in 0 .. Len(configs)
  /\ \A d \in Domain :
       /\ IsList(holders[d]) /\ IsInjective(holders[d])
       /\ ToSet(holders[d]) = {s \in StoresOf(configured) : s.domain = d}

\* ... and left it their rules to resolve.
Deferred ==
  /\ rules = <<>>
  /\ IsList(finally)
  /\ ToSet(finally) = {WrittenAt(p) : p \in {q \in RulePlaces : q[1] <= configured}}
  /\ ~Ambiguous => NamesDiffer(finally)

\* When the rules are being resolved, those that have been and those still to be are
\* together the rules that were written, and if all names differ, so do the names of the
\* former and the latter.
Resolving ==
  /\ configured = Len(configs)
  /\ IsList(finally) /\ ToSet(finally) \subseteq EngineRules
  /\ ToSet(rules) \cup ResolvedOf(ToSet(finally)) = ResolvedOf(EngineRules)
  /\ ~Ambiguous => /\ NamesDiffer(finally)
                   /\ \A r \in ToSet(finally), k \in ToSet(rules) : k.name # r.name

BuildInv ==
  /\ phase \in {"load", "nest"} =>
       configured = 0 /\ finally = <<>> /\ rules = <<>> /\ holders = [d \in Domain |-> <<>>]
  /\ phase = "nest" => Nested /\ SameReach
  /\ phase = "configure" => WrittenAsSaid /\ Held /\ Deferred
  /\ phase = "build" => WrittenAsSaid /\ Held /\ Resolving
  /\ BuiltAsWritten

\* The rules at a place, and those written by one source.
LEMMA RuleOfPlace ==
  ASSUME LoadInv, todo = <<>>, NEW i \in 1 .. Len(configs)
  PROVE  /\ IsList(files[configs[i]].rules) /\ IsList(files[configs[i]].stores)
         /\ \A j \in DOMAIN files[configs[i]].rules :
              /\ <<i, j>> \in RulePlaces
              /\ RuleAt(<<i, j>>) = files[configs[i]].rules[j]
              /\ IsRule(RuleAt(<<i, j>>))
<1>1. configs \in Seq(Source) /\ IsFile(files[configs[i]]) BY SaidOfLoaded
<1>2. DOMAIN configs = 1 .. Len(configs) BY <1>1
<1>3. ASSUME NEW j \in DOMAIN files[configs[i]].rules
      PROVE  /\ <<i, j>> \in RulePlaces
             /\ RuleAt(<<i, j>>) = files[configs[i]].rules[j]
             /\ IsRule(RuleAt(<<i, j>>))
  <2>1. <<i, j>> \in RulePlaces BY <1>2 DEF RulePlaces
  <2>2. RuleAt(<<i, j>>) = files[configs[i]].rules[j] BY DEF RuleAt
  <2>3. files[configs[i]].rules[j] \in ToSet(files[configs[i]].rules) BY DEF ToSet
  <2>4. QED BY <1>1, <2>1, <2>2, <2>3 DEF IsFile
<1>4. QED BY <1>1, <1>3 DEF IsFile

\* A place is a source's number and a number in its list.
LEMMA PlaceIs ==
  ASSUME LoadInv, todo = <<>>, NEW p \in RulePlaces
  PROVE  /\ p[1] \in 1 .. Len(configs) /\ p[2] \in DOMAIN files[configs[p[1]]].rules
         /\ p = <<p[1], p[2]>> /\ IsRule(RuleAt(p)) /\ DOMAIN configs = 1 .. Len(configs)
<1>1. DOMAIN configs = 1 .. Len(configs) BY SaidOfLoaded
<1>2. PICK i \in 1 .. Len(configs) : p \in {i} \X DOMAIN files[configs[i]].rules
  BY <1>1 DEF RulePlaces
<1>3. p[1] = i /\ p[2] \in DOMAIN files[configs[i]].rules /\ p = <<p[1], p[2]>> BY <1>2
<1>4. IsRule(RuleAt(p)) BY <1>3, RuleOfPlace
<1>5. QED BY <1>1, <1>3, <1>4

\* What was written is there at the same places, under the same names.
LEMMA WrittenPlaces ==
  ASSUME LoadInv, todo = <<>>, WrittenAsSaid
  PROVE  /\ WrittenRules = {WrittenAt(p) : p \in RulePlaces}
         /\ \A p \in RulePlaces : /\ AsSaid(RuleAt(p), WrittenAt(p))
                                  /\ WrittenAt(p).name = RuleAt(p).name
<1>1. DOMAIN written = 1 .. Len(configs) /\ DOMAIN configs = 1 .. Len(configs)
  BY SaidOfLoaded DEF WrittenAsSaid
<1>2. ASSUME NEW i \in 1 .. Len(configs)
      PROVE  DOMAIN written[i] = DOMAIN files[configs[i]].rules
  BY <1>1 DEF WrittenAsSaid
<1>3. ASSUME NEW w \in WrittenRules PROVE w \in {WrittenAt(p) : p \in RulePlaces}
  <2>1. PICK i \in 1 .. Len(configs) : w \in ToSet(written[i]) BY <1>1 DEF WrittenRules
  <2>2. PICK j \in DOMAIN files[configs[i]].rules : w = written[i][j] BY <1>2, <2>1 DEF ToSet
  <2>3. <<i, j>> \in RulePlaces /\ w = WrittenAt(<<i, j>>) BY <2>2, RuleOfPlace DEF WrittenAt
  <2>4. QED BY <2>3
<1>4. ASSUME NEW p \in RulePlaces
      PROVE  /\ WrittenAt(p) \in WrittenRules
             /\ AsSaid(RuleAt(p), WrittenAt(p)) /\ WrittenAt(p).name = RuleAt(p).name
  <2>1. p[1] \in 1 .. Len(configs) /\ p[2] \in DOMAIN files[configs[p[1]]].rules /\ IsRule(RuleAt(p))
    BY PlaceIs
  <2>2. WrittenAt(p) \in WrittenRules BY <1>1, <1>2, <2>1 DEF WrittenAt, WrittenRules, ToSet
  <2>3. AsSaid(RuleAt(p), WrittenAt(p))
    BY <1>1, <2>1 DEF WrittenAsSaid, WrittenAt, RuleAt
  <2>4. QED BY <2>2, <2>3 DEF AsSaid
<1>5. QED BY <1>3, <1>4

\* A source's configuration adds its stores and, in order, its rules.
LEMMA ConfigureStep ==
  ASSUME LoadInv, todo = <<>>, WrittenAsSaid, Held, Deferred, Configure
  PROVE  (WrittenAsSaid /\ Held /\ Deferred)'
<1> DEFINE c == configured + 1
           stores == files[configs[c]].stores
           more == written[c]
           Places == {q \in RulePlaces : q[1] <= configured}
<1>1. /\ UNCHANGED <<files, configs, written, rules>> /\ configured' = c
      /\ holders' = [d \in Domain |-> AddStores(d, stores)]
      /\ finally' = finally \o more
  BY DEF Configure, Current, loadVars
<1>2. configs \in Seq(Source) /\ Len(configs) \in Nat /\ c \in 1 .. Len(configs)
      /\ DOMAIN configs = 1 .. Len(configs) /\ configured \in Nat
  <2>1. configs \in Seq(Source) BY SaidOfLoaded
  <2>2. QED BY <2>1 DEF Held, Configure
<1>3. WrittenAsSaid' BY <1>1, WrittenSame
<1>4. Held'
  <2>1. IsList(stores) BY <1>2, RuleOfPlace
  <2>2. StoresOf(c) = StoresOf(configured) \cup ToSet(stores)
    <3>1. 1 .. c = (1 .. configured) \cup {c} BY <1>2
    <3>2. QED BY <3>1 DEF StoresOf
  <2>3. StoresOf(configured)' = StoresOf(c) BY <1>1 DEF StoresOf
  <2>4. ASSUME NEW d \in Domain
        PROVE  /\ IsList(holders'[d]) /\ IsInjective(holders'[d])
               /\ ToSet(holders'[d]) = {s \in StoresOf(c) : s.domain = d}
    <3>1. holders'[d] = AddStores(d, stores) BY <1>1
    <3>2. /\ IsList(holders[d]) /\ IsInjective(holders[d])
          /\ ToSet(holders[d]) = {s \in StoresOf(configured) : s.domain = d}
      BY DEF Held
    <3> HIDE DEF stores
    <3>3. /\ IsList(AddStores(d, stores)) /\ IsInjective(AddStores(d, stores))
          /\ ToSet(AddStores(d, stores)) = ToSet(holders[d]) \cup {s \in ToSet(stores) : s.domain = d}
      BY <2>1, <3>2, StoresAdded
    <3>4. QED BY <2>2, <3>1, <3>2, <3>3
  <2> HIDE DEF stores
  <2>5. configured' \in 0 .. Len(configs') BY <1>1, <1>2
  <2>6. ASSUME NEW d \in Domain
        PROVE  /\ IsList(holders[d])' /\ IsInjective(holders[d])'
               /\ ToSet(holders[d])' = {s \in StoresOf(configured)' : s.domain = d}
    BY <2>3, <2>4 DEF IsList, IsInjective, ToSet
  <2>7. QED BY <2>5, <2>6 DEF Held
<1>5. more = [j \in DOMAIN files[configs[c]].rules |-> WrittenAt(<<c, j>>)]
  <2>1. more = [j \in DOMAIN files[configs[c]].rules |-> more[j]] BY <1>2 DEF WrittenAsSaid
  <2>2. \A j : more[j] = WrittenAt(<<c, j>>) BY DEF WrittenAt
  <2> HIDE DEF more
  <2>3. QED BY <2>1, <2>2
<1>6. /\ \A j \in DOMAIN files[configs[c]].rules :
           <<c, j>> \in RulePlaces /\ more[j].name = RuleAt(<<c, j>>).name
      /\ DOMAIN more = DOMAIN files[configs[c]].rules
  BY <1>2, <1>5, RuleOfPlace, WrittenPlaces
<1>7. IsList(more)
  <2>1. IsList(files[configs[c]].rules) BY <1>2, RuleOfPlace
  <2>2. DOMAIN more = 1 .. Len(files[configs[c]].rules) /\ Len(files[configs[c]].rules) \in Nat
    BY <1>6, <2>1 DEF IsList
  <2>3. more = [j \in 1 .. Len(files[configs[c]].rules) |-> more[j]] BY <1>5, <2>2
  <2> HIDE DEF more
  <2>4. \A j \in DOMAIN more : more[j] \in ToSet(more) BY DEF ToSet
  <2>5. QED BY <2>2, <2>3, <2>4 DEF IsList
<1>8. ToSet(more) = {WrittenAt(p) : p \in {q \in RulePlaces : q[1] = c}}
  <2>1. ASSUME NEW p \in RulePlaces, p[1] = c PROVE WrittenAt(p) \in ToSet(more)
    <3>1. p = <<c, p[2]>> /\ p[2] \in DOMAIN files[configs[c]].rules BY <2>1, PlaceIs
    <3>2. QED BY <1>5, <1>6, <3>1 DEF ToSet
  <2>2. ASSUME NEW j \in DOMAIN more
        PROVE  more[j] \in {WrittenAt(p) : p \in {q \in RulePlaces : q[1] = c}}
    BY <1>5, <1>6, <2>2
  <2>3. QED BY <2>1, <2>2 DEF ToSet
<1> HIDE DEF more
<1>9. LET S == ToSet(finally) \cup ToSet(more) IN finally \in Seq(S) /\ more \in Seq(S)
  BY <1>7 DEF Deferred, IsList
<1>10. /\ finally' \in Seq(ToSet(finally) \cup ToSet(more))
       /\ ToSet(finally') = ToSet(finally) \cup ToSet(more)
  <2> DEFINE S == ToSet(finally) \cup ToSet(more)
  <2>1. finally \in Seq(S) /\ more \in Seq(S) BY <1>9
  <2> HIDE DEF S
  <2>2. finally \o more \in Seq(S) /\ ToSet(finally \o more) = ToSet(finally) \cup ToSet(more)
    BY <2>1, JoinSet
  <2>3. QED BY <1>1, <2>2 DEF S
<1>11. ToSet(finally') = {WrittenAt(p) : p \in {q \in RulePlaces : q[1] <= c}}
  <2>1. \A q \in RulePlaces : q[1] <= c <=> q[1] <= configured \/ q[1] = c
    <3>1. \A q \in RulePlaces : q[1] \in Nat BY <1>2, PlaceIs
    <3>2. QED BY <1>2, <3>1
  <2>2. ToSet(finally) = {WrittenAt(p) : p \in {q \in RulePlaces : q[1] <= configured}}
    BY DEF Deferred
  <2> HIDE DEF c
  <2>3. QED BY <1>8, <1>10, <2>1, <2>2
<1>12. ASSUME ~Ambiguous PROVE NamesDiffer(finally')
  <2>1. \A p, q \in RulePlaces : RuleAt(p).name = RuleAt(q).name => p = q
    BY <1>12 DEF Ambiguous
  <2>2. NamesDiffer(more)
    <3> SUFFICES ASSUME NEW i \in DOMAIN more, NEW j \in DOMAIN more, more[i].name = more[j].name
                 PROVE  i = j
      BY DEF NamesDiffer
    <3>1. <<c, i>> = <<c, j>> BY <1>6, <2>1
    <3>2. QED BY <3>1
  <2>3. ASSUME NEW x \in ToSet(finally), NEW y \in ToSet(more) PROVE x.name # y.name
    <3>1. PICK p \in RulePlaces : p[1] <= configured /\ x = WrittenAt(p) BY DEF Deferred
    <3>2. PICK q \in RulePlaces : q[1] = c /\ y = WrittenAt(q) BY <1>8
    <3>3. x.name = RuleAt(p).name /\ y.name = RuleAt(q).name BY <3>1, <3>2, WrittenPlaces
    <3>4. p # q BY <1>2, <3>1, <3>2
    <3>5. QED BY <2>1, <3>3, <3>4
  <2>4. NamesDiffer(finally) BY <1>12 DEF Deferred
  <2> DEFINE S == ToSet(finally) \cup ToSet(more)
  <2>5. finally \in Seq(S) /\ more \in Seq(S) BY <1>9
  <2> HIDE DEF S
  <2>6. NamesDiffer(finally \o more) BY <2>2, <2>3, <2>4, <2>5, JoinNames, Zenon
  <2>7. QED BY <1>1, <2>6
<1>13. Deferred'
  <2>1. /\ RulePlaces' = RulePlaces /\ (Ambiguous' <=> Ambiguous)
    BY <1>1, SaidStays
  <2>3. ToSet(finally)' = ToSet(finally') /\ (NamesDiffer(finally)' <=> NamesDiffer(finally'))
        /\ (IsList(finally)' <=> IsList(finally'))
    BY DEF ToSet, NamesDiffer, IsList
  <2>4. {WrittenAt(p) : p \in {q \in RulePlaces : q[1] <= configured}}' =
          {WrittenAt(p) : p \in {q \in RulePlaces : q[1] <= c}}
    <3>1. \A p : WrittenAt(p)' = WrittenAt(p) BY <1>1 DEF WrittenAt
    <3> HIDE DEF c
    <3>2. QED BY <1>1, <2>1, <3>1
  <2>5. rules' = <<>> BY <1>1 DEF Deferred
  <2>6. IsList(finally') BY <1>10 DEF IsList
  <2> HIDE DEF c
  <2>7. QED BY <1>1, <1>11, <1>12, <2>1, <2>3, <2>4, <2>5, <2>6 DEF Deferred
<1>14. QED BY <1>3, <1>4, <1>13

LEMMA HeldSame ==
  ASSUME Held, UNCHANGED <<files, configs, configured, holders>>
  PROVE  Held'
<1>1. StoresOf(configured)' = StoresOf(configured) BY DEF StoresOf
<1>2. \A d : /\ (IsList(holders[d])' <=> IsList(holders[d]))
            /\ (IsInjective(holders[d])' <=> IsInjective(holders[d]))
            /\ ToSet(holders[d])' = ToSet(holders[d])
  BY DEF IsList, IsInjective, ToSet
<1>3. QED BY <1>1, <1>2 DEF Held

\* All rules are there when the built-in ones have been added.
LEMMA BuiltInStep ==
  ASSUME LoadInv, todo = <<>>, WrittenAsSaid, Held, Deferred, AddBuiltIn
  PROVE  (Held /\ Resolving)'
<1> USE BuildAssumption
<1>1. /\ UNCHANGED <<files, configs, written, rules, configured, holders>> /\ configured = Len(configs)
      /\ finally' = finally \o BuiltIn
  BY DEF AddBuiltIn
<1>2. Held' BY <1>1, HeldSame
<1>3. {q \in RulePlaces : q[1] <= configured} = RulePlaces
  <2>1. Len(configs) \in Nat BY SaidOfLoaded
  <2>2. \A p \in RulePlaces : p[1] <= configured BY <1>1, <2>1, PlaceIs
  <2>3. QED BY <2>2
<1>4. ToSet(finally) = {WrittenAt(p) : p \in RulePlaces} BY <1>3 DEF Deferred
<1>5. ToSet(finally) \cup ToSet(BuiltIn) = EngineRules
  BY <1>4, WrittenPlaces DEF EngineRules
<1>6. LET S == ToSet(finally) \cup ToSet(BuiltIn) IN finally \in Seq(S) /\ BuiltIn \in Seq(S)
  BY DEF Deferred, IsList
<1>7. /\ finally' \in Seq(ToSet(finally) \cup ToSet(BuiltIn))
      /\ ToSet(finally') = ToSet(finally) \cup ToSet(BuiltIn)
  <2> DEFINE S == ToSet(finally) \cup ToSet(BuiltIn)
  <2>1. finally \in Seq(S) /\ BuiltIn \in Seq(S) BY <1>6
  <2> HIDE DEF S
  <2>2. finally \o BuiltIn \in Seq(S) /\ ToSet(finally \o BuiltIn) = ToSet(finally) \cup ToSet(BuiltIn)
    BY <2>1, JoinSet
  <2>3. QED BY <1>1, <2>2 DEF S
<1>8. ASSUME ~Ambiguous PROVE NamesDiffer(finally')
  <2>1. NamesDiffer(finally) BY <1>8 DEF Deferred
  <2>2. NamesDiffer(BuiltIn) BY <1>8 DEF Ambiguous, NamesDiffer
  <2>3. ASSUME NEW x \in ToSet(finally), NEW y \in ToSet(BuiltIn) PROVE x.name # y.name
    <3>1. PICK p \in RulePlaces : x = WrittenAt(p) BY <1>4
    <3>2. PICK i \in DOMAIN BuiltIn : y = BuiltIn[i] BY DEF ToSet
    <3>3. x.name = RuleAt(p).name BY <3>1, WrittenPlaces
    <3>4. QED BY <1>8, <3>2, <3>3 DEF Ambiguous
  <2> DEFINE S == ToSet(finally) \cup ToSet(BuiltIn)
  <2>4. finally \in Seq(S) /\ BuiltIn \in Seq(S) BY <1>6
  <2> HIDE DEF S
  <2>5. NamesDiffer(finally \o BuiltIn) BY <2>1, <2>2, <2>3, <2>4, JoinNames, Zenon
  <2>6. QED BY <1>1, <2>5
<1>9. Resolving'
  <2>1. EngineRules' = EngineRules /\ (Ambiguous' <=> Ambiguous) BY <1>1, SaidStays, CauseStays
  <2>2. ToSet(finally') = EngineRules BY <1>5, <1>7
  <2>3. rules' = <<>> /\ ToSet(rules') = {} BY <1>1 DEF Deferred, ToSet
  <2>4. IsList(finally') BY <1>7 DEF IsList
  <2>5. /\ ToSet(finally)' = ToSet(finally') /\ ToSet(rules)' = ToSet(rules')
        /\ (NamesDiffer(finally)' <=> NamesDiffer(finally')) /\ (IsList(finally)' <=> IsList(finally'))
        /\ \A rs : ResolvedOf(rs)' = ResolvedOf(rs)
    BY DEF ToSet, NamesDiffer, IsList, ResolvedOf, Resolved, Empty, ClassesOf
  <2>6. ResolvedOf(ToSet(finally))' = ResolvedOf(EngineRules) /\ ResolvedOf(EngineRules)' = ResolvedOf(EngineRules)
    BY <2>1, <2>2 DEF ResolvedOf, Resolved, Empty, ClassesOf, ToSet
  <2>7. QED BY <1>1, <1>8, <2>1, <2>2, <2>3, <2>4, <2>5, <2>6 DEF Resolving
<1>10. QED BY <1>2, <1>9

\* The first rule is resolved and added, or ignored for want of a start or a goal.
LEMMA ResolveStep ==
  ASSUME LoadInv, RulesInv, Resolving, NEW r, AddRule(r) \/ IgnoreRule(r)
  PROVE  Resolving'
<1>1. /\ finally # <<>> /\ r = Head(finally) /\ finally' = Tail(finally)
      /\ UNCHANGED <<files, configs, written, configured>>
  BY DEF AddRule, IgnoreRule, Building, loadVars
<1>2. finally \in Seq(ToSet(finally)) BY DEF Resolving, IsList
<1>3. /\ r \in ToSet(finally) /\ Tail(finally) \in Seq(ToSet(finally))
      /\ ToSet(finally) = {r} \cup ToSet(Tail(finally))
  BY <1>1, <1>2, TailSet
<1>4. EngineRules' = EngineRules /\ (Ambiguous' <=> Ambiguous) BY <1>1, SaidStays, CauseStays
<1>5. ASSUME NamesDiffer(finally)
      PROVE  NamesDiffer(finally') /\ \A y \in ToSet(finally') : y.name # r.name
  BY <1>1, <1>2, <1>5, TailNames
<1>6. /\ ToSet(finally)' = ToSet(finally') /\ ToSet(rules)' = ToSet(rules')
      /\ (NamesDiffer(finally)' <=> NamesDiffer(finally')) /\ (IsList(finally)' <=> IsList(finally'))
      /\ ResolvedOf(ToSet(finally))' = ResolvedOf(ToSet(finally'))
      /\ ResolvedOf(EngineRules)' = ResolvedOf(EngineRules)
  BY <1>4 DEF ToSet, NamesDiffer, IsList, ResolvedOf, Resolved, Empty, ClassesOf
<1>7. IsList(finally') /\ ToSet(finally') \subseteq EngineRules
  <2> DEFINE rest == Tail(finally)
  <2>1. rest \in Seq(ToSet(finally)) BY <1>3
  <2>2. rest \in Seq(ToSet(rest))
    <3> HIDE DEF rest
    <3>1. Len(rest) \in Nat /\ DOMAIN rest = 1 .. Len(rest) BY <2>1
    <3>2. rest = [i \in 1 .. Len(rest) |-> rest[i]] BY <2>1
    <3>3. \A i \in 1 .. Len(rest) : rest[i] \in ToSet(rest) BY <3>1 DEF ToSet
    <3>4. QED BY <3>1, <3>2, <3>3
  <2>3. QED BY <1>1, <1>3, <2>2 DEF IsList, Resolving
<1>8. ResolvedOf(ToSet(finally)) = ResolvedOf(ToSet(finally')) \cup (IF Empty(r) THEN {} ELSE {Resolved(r)})
  BY <1>1, <1>3 DEF ResolvedOf
<1>9. /\ ToSet(rules') \cup ResolvedOf(ToSet(finally')) = ResolvedOf(EngineRules)
      /\ \A k \in ToSet(rules') : k \in ToSet(rules) \/ k.name = r.name
  <2>1. CASE AddRule(r)
    <3>1. ~Empty(r) /\ rules' = Append(rules, Resolved(r)) BY <2>1 DEF AddRule
    <3> DEFINE new == Resolved(r)
               S == ToSet(rules) \cup {new}
    <3>2. rules \in Seq(S) /\ new \in S BY DEF RulesInv
    <3>3. new.name = r.name BY DEF Resolved
    <3> HIDE DEF new, S
    <3>4. ToSet(Append(rules, new)) = ToSet(rules) \cup {new} BY <3>2, AppendSet
    <3>5. QED BY <1>8, <3>1, <3>3, <3>4 DEF Resolving, new
  <2>2. CASE IgnoreRule(r)
    <3>1. Empty(r) /\ rules' = rules BY <2>2 DEF IgnoreRule
    <3>2. QED BY <1>8, <3>1 DEF Resolving
  <2>3. QED BY <2>1, <2>2
<1>10. ASSUME ~Ambiguous
       PROVE  NamesDiffer(finally') /\ \A x \in ToSet(finally'), k \in ToSet(rules') : k.name # x.name
  BY <1>1, <1>3, <1>5, <1>9, <1>10 DEF Resolving
<1>11. QED BY <1>1, <1>4, <1>6, <1>7, <1>9, <1>10 DEF Resolving

\* A rule is rejected for a fault of the configuration: if its name is taken, then by
\* another rule.
LEMMA RejectCause ==
  ASSUME LoadInv, todo = <<>>, Resolving, NEW r, RejectRule(r)
  PROVE  Cause
<1>1. finally # <<>> /\ r = Head(finally) BY DEF RejectRule, Building
<1>2. r \in ToSet(finally)
  <2>1. finally \in Seq(ToSet(finally)) BY DEF Resolving, IsList
  <2>2. QED BY <1>1, <2>1, TailSet
<1>3. r \in EngineRules BY <1>2 DEF Resolving
<1>4. CASE Unresolved(r) \/ (~Empty(r) /\ ~r.parses) BY <1>3, <1>4 DEF Cause
<1>5. CASE \E k \in ToSet(rules) : k.name = r.name
  BY <1>2, <1>5 DEF Resolving, Cause
<1>6. QED BY <1>4, <1>5 DEF RejectRule, Acceptable

\* Once all rules are resolved, the engine is as it was written.
LEMMA BuiltStep ==
  ASSUME LoadInv, todo = <<>>, WrittenAsSaid, Held, Resolving, Built
  PROVE  BuiltAsWritten'
<1>1. UNCHANGED <<files, configs, written, rules, holders>> /\ finally = <<>> /\ phase' = "built"
  BY DEF Built, buildVars
<1>2. /\ EngineRules' = EngineRules /\ SaidStores' = SaidStores /\ ToSet(rules)' = ToSet(rules)
      /\ ResolvedOf(EngineRules)' = ResolvedOf(EngineRules)
  BY <1>1, SaidStays, CauseStays DEF ToSet, ResolvedOf, Resolved, Empty, ClassesOf
<1>3. ToSet(finally) = {} BY <1>1 DEF ToSet
<1>4. ToSet(rules) = ResolvedOf(EngineRules) BY <1>3 DEF Resolving, ResolvedOf
<1>5. StoresOf(configured) = SaidStores BY SaidOfLoaded DEF Resolving, StoresOf
<1>6. \A d \in Domain : /\ ToSet(holders[d]) = {s \in SaidStores : s.domain = d}
                        /\ IsInjective(holders[d])
  BY <1>5 DEF Held
<1>7. \A d \in Domain : /\ ToSet(holders[d])' = {s \in SaidStores' : s.domain = d}
                        /\ IsInjective(holders[d])'
  BY <1>1, <1>2, <1>6 DEF ToSet, IsInjective
<1>8. ToSet(rules)' = {Resolved(r) : r \in {k \in EngineRules : ~Empty(k)}}'
  BY <1>2, <1>4 DEF ResolvedOf
<1>9. WrittenRules' = WrittenRules /\ SaidRules' = SaidRules
  BY <1>1, SaidStays DEF WrittenRules, ToSet
<1>10. /\ \A r \in SaidRules : \E w \in WrittenRules : AsSaid(r, w)
       /\ \A w \in WrittenRules : \E r \in SaidRules : AsSaid(r, w)
  BY SaidOfLoaded, WrittenPlaces
<1>11. /\ \A r \in SaidRules' : \E w \in WrittenRules' : AsSaid(r, w)'
       /\ \A w \in WrittenRules' : \E r \in SaidRules' : AsSaid(r, w)'
  BY <1>1, <1>9, <1>10, SaidStays
<1>12. QED BY <1>1, <1>7, <1>8, <1>11 DEF BuiltAsWritten, Failed

\* Nothing that BuildInv speaks of changes.
LEMMA BuildSame ==
  ASSUME BuildInv, UNCHANGED <<files, todo, configs, am, unvisited, written, buildVars>>,
         phase' = phase \/ phase' \notin {"load", "nest", "configure", "build", "built", "failed"}
  PROVE  BuildInv'
<1>1. /\ Raw' = Raw /\ SaidStores' = SaidStores /\ SaidRules' = SaidRules
      /\ RulePlaces' = RulePlaces /\ (\A r, w : AsSaid(r, w)' <=> AsSaid(r, w))
      /\ (\A d, P : Settled(d, P)' <=> Settled(d, P))
      /\ (Ambiguous' <=> Ambiguous) /\ (Nameless' <=> Nameless)
      /\ (Cause' <=> Cause) /\ EngineRules' = EngineRules
  BY SaidStays, CauseStays
<1>2. UNCHANGED <<configured, holders, finally, rules>> BY DEF buildVars
<1>3. Nested /\ SameReach => Nested' /\ SameReach'
  <2>1. \A d, n : Expand(Raw, d, Raw[<<d, n>>])' = Expand(Raw, d, Raw[<<d, n>>])
    BY <1>1 DEF Expand
  <2>2. Nested => Nested' BY <1>1, <2>1 DEF Nested
  <2>3. \A d, P : (Shut(d, P)' <=> Shut(d, P)) /\ (Drawn(d, P)' <=> Drawn(d, P))
    BY <1>1 DEF Shut, Drawn, Expand
  <2>4. SameReach => SameReach' BY <1>1, <2>3 DEF SameReach
  <2>5. QED BY <2>2, <2>4
<1>4. WrittenAsSaid => WrittenAsSaid' BY WrittenSame
<1>5. Held => Held' BY <1>2, HeldSame
<1>6. /\ ToSet(finally)' = ToSet(finally) /\ ToSet(rules)' = ToSet(rules)
      /\ (NamesDiffer(finally)' <=> NamesDiffer(finally)) /\ (IsList(finally)' <=> IsList(finally))
      /\ ResolvedOf(ToSet(finally))' = ResolvedOf(ToSet(finally))
      /\ ResolvedOf(EngineRules)' = ResolvedOf(EngineRules)
  BY <1>1, <1>2 DEF ToSet, NamesDiffer, IsList, ResolvedOf, Resolved, Empty, ClassesOf
<1>7. Resolving => Resolving' BY <1>1, <1>2, <1>6 DEF Resolving
<1>8. Deferred => Deferred'
  <2>1. \A p : WrittenAt(p)' = WrittenAt(p) BY DEF WrittenAt
  <2>2. QED BY <1>1, <1>2, <1>6, <2>1 DEF Deferred
<1>9. BuiltAsWritten'
  <2>1. \A d : IsInjective(holders[d])' <=> IsInjective(holders[d]) BY <1>2 DEF IsInjective
  <2>2. \A d : ToSet(holders[d])' = ToSet(holders[d]) BY <1>2 DEF ToSet
  <2>3. {Resolved(r) : r \in {k \in EngineRules : ~Empty(k)}}' = {Resolved(r) : r \in {k \in EngineRules : ~Empty(k)}}
    BY <1>6 DEF ResolvedOf
  <2>4. WrittenRules' = WrittenRules BY DEF WrittenRules, ToSet
  <2>5. phase' = "built" =>
          /\ \A r \in SaidRules' : \E w \in WrittenRules' : AsSaid(r, w)'
          /\ \A w \in WrittenRules' : \E r \in SaidRules' : AsSaid(r, w)'
    BY <1>1, <2>4 DEF BuildInv, BuiltAsWritten
  <2>6. phase' = "built" =>
          /\ ToSet(rules)' = {Resolved(r) : r \in {k \in EngineRules : ~Empty(k)}}'
          /\ \A d \in Domain : ToSet(holders[d])' = {s \in SaidStores' : s.domain = d}
          /\ \A d \in Domain : IsInjective(holders[d])'
    BY <1>1, <1>6, <2>1, <2>2, <2>3 DEF BuildInv, BuiltAsWritten
  <2>7. Failed' /\ todo' = <<>> => Cause' \/ Nameless'
    BY <1>1 DEF BuildInv, BuiltAsWritten, Failed
  <2>8. QED BY <2>5, <2>6, <2>7 DEF BuiltAsWritten
<1>10. CASE phase' = phase
  BY <1>1, <1>2, <1>3, <1>4, <1>5, <1>7, <1>8, <1>9, <1>10 DEF BuildInv
<1>11. CASE phase' \notin {"load", "nest", "configure", "build", "built", "failed"}
  BY <1>9, <1>11 DEF BuildInv
<1>12. QED BY <1>10, <1>11

LEMMA BuildStart == Init => BuildInv
BY DEF Init, LoadInit, BuildInit, BuildInv, BuiltAsWritten, Failed

LEMMA BuildInvStep ==
  ASSUME LoadInv, RulesInv, BuildInv, [Next]_vars
  PROVE  BuildInv'
<1> USE ConfigAssumption
\* Failing with a cause.
<1>f. ASSUME phase' = "failed", UNCHANGED <<files, configs, written, todo>>,
             Cause \/ Nameless \/ todo # <<>>
      PROVE  BuildInv'
  <2>1. (Nameless' <=> Nameless) /\ (Cause' <=> Cause) BY <1>f, SaidStays, CauseStays
  <2>2. QED BY <1>f, <2>1 DEF BuildInv, BuiltAsWritten, Failed
<1>t. phase \in {"nest", "configure", "build"} => todo = <<>> BY DEF LoadInv, Loaded
<1>1. CASE Skip /\ UNCHANGED buildVars
  BY <1>1 DEF Skip, Loading, buildVars, BuildInv, BuiltAsWritten, Failed
<1>2. CASE Load /\ UNCHANGED buildVars
  BY <1>2 DEF Load, Loading, buildVars, BuildInv, BuiltAsWritten, Failed
<1>3. CASE LoadFails
  BY <1>3, <1>f DEF LoadFails, Loading, Fail
<1>4. CASE Gather /\ UNCHANGED buildVars
  <2>1. Nested' /\ SameReach' BY <1>4, NestedStart, ReachStart
  <2>2. phase = "load" /\ phase' = "nest" BY <1>4 DEF Gather
  <2>3. QED BY <1>4, <2>1, <2>2 DEF buildVars, BuildInv, BuiltAsWritten, Failed
<1>5. CASE GatherFails
  BY <1>5, <1>f DEF GatherFails, Fail, Cause
<1>6. ASSUME NEW k \in unvisited, Nest(k), UNCHANGED buildVars PROVE BuildInv'
  <2>1. phase = "nest" /\ phase' = "nest" BY <1>6 DEF Nest
  <2>2. Nested /\ SameReach BY <2>1 DEF BuildInv
  <2>3. Nested' /\ SameReach' BY <1>6, <1>t, <2>1, <2>2, NestedStep, ReachStep
  <2>4. QED BY <1>6, <2>1, <2>3 DEF buildVars, BuildInv, BuiltAsWritten, Failed
<1>7. CASE ExpandRules /\ UNCHANGED buildVars
  <2>1. /\ phase = "nest" /\ phase' = "configure" /\ UNCHANGED <<files, configs, configured, holders>>
        /\ configured = 0 /\ finally' = <<>> /\ rules' = <<>> /\ holders = [d \in Domain |-> <<>>]
    BY <1>7 DEF ExpandRules, BuildInv, buildVars
  <2>2. todo = <<>> /\ Nested /\ SameReach BY <1>t, <2>1 DEF BuildInv
  <2>4. WrittenAsSaid' BY <1>7, <2>2, ExpandedAsSaid
  <2>5. ToSet(<<>>) = {} /\ IsList(<<>>) /\ IsInjective(<<>>) /\ NamesDiffer(<<>>)
    BY DEF ToSet, IsList, IsInjective, NamesDiffer
  <2>6. Len(configs) \in Nat BY <2>2, SaidOfLoaded
  <2>7. Held'
    <3>1. StoresOf(0) = {} BY DEF StoresOf
    <3>2. \A d \in Domain : holders[d] = <<>> BY <2>1
    <3>3. Held BY <2>1, <2>5, <2>6, <3>1, <3>2 DEF Held
    <3>4. QED BY <2>1, <3>3, HeldSame
  <2>8. Deferred'
    <3>1. RulePlaces' = RulePlaces BY <2>1, SaidStays
    <3>2. \A p \in RulePlaces : ~(p[1] <= 0) BY <2>2, <2>6, PlaceIs
    <3>3. {q \in RulePlaces' : q[1] <= configured'} = {} BY <2>1, <3>1, <3>2
    <3>4. ToSet(finally)' = {} /\ IsList(finally)' /\ NamesDiffer(finally)'
      BY <2>1, <2>5 DEF ToSet, IsList, NamesDiffer
    <3>5. QED BY <2>1, <3>3, <3>4 DEF Deferred
  <2>9. QED BY <2>1, <2>4, <2>7, <2>8 DEF BuildInv, BuiltAsWritten, Failed
<1>8. CASE ExpandFails
  <2>1. phase = "nest" BY <1>8 DEF ExpandFails
  <2>2. PICK p \in RulePlaces : RuleAt(p).name = NoName BY <1>8 DEF ExpandFails
  <2>3. RuleAt(p) \in SaidRules BY <1>t, <2>1, <2>2, SaidOfLoaded
  <2>4. Nameless BY <2>2, <2>3 DEF Nameless
  <2>5. QED BY <1>8, <1>f, <2>4 DEF ExpandFails, Fail
<1>9. CASE Configure
  <2>1. phase = "configure" /\ phase' = "configure" /\ UNCHANGED <<files, configs>>
    BY <1>9 DEF Configure, loadVars
  <2>2. WrittenAsSaid /\ Held /\ Deferred BY <2>1 DEF BuildInv
  <2>3. (WrittenAsSaid /\ Held /\ Deferred)' BY <1>9, <1>t, <2>1, <2>2, ConfigureStep
  <2>4. QED BY <2>1, <2>3 DEF BuildInv, BuiltAsWritten, Failed
<1>10. CASE ConfigureFails
  <2>1. phase = "configure" BY <1>10 DEF ConfigureFails
  <2>2. Cause
    <3>1. PICK s \in ToSet(files[configs[configured + 1]].stores) : s.domain \notin Domain
      BY <1>10 DEF ConfigureFails, Current
    <3>2. configured \in Nat /\ configured + 1 \in 1 .. Len(configs)
      <4>1. configured \in 0 .. Len(configs) BY <2>1 DEF BuildInv, Held
      <4>2. Len(configs) \in Nat BY <1>t, <2>1, SaidOfLoaded
      <4>3. QED BY <1>10, <4>1, <4>2 DEF ConfigureFails
    <3>3. s \in SaidStores BY <1>t, <2>1, <3>1, <3>2, SaidOfLoaded
    <3>4. QED BY <3>1, <3>3 DEF Cause
  <2>3. QED BY <1>10, <1>f, <2>2 DEF ConfigureFails, Fail
<1>11. CASE AddBuiltIn
  <2>1. phase = "configure" /\ phase' = "build" /\ UNCHANGED <<files, configs, written>>
    BY <1>11 DEF AddBuiltIn
  <2>2. WrittenAsSaid /\ Held /\ Deferred BY <2>1 DEF BuildInv
  <2>3. (Held /\ Resolving)' BY <1>11, <1>t, <2>1, <2>2, BuiltInStep
  <2>4. WrittenAsSaid' BY <2>1, <2>2, WrittenSame
  <2>5. QED BY <2>1, <2>3, <2>4 DEF BuildInv, BuiltAsWritten, Failed
<1>12. ASSUME NEW r, AddRule(r) \/ IgnoreRule(r) PROVE BuildInv'
  <2>1. phase = "build" /\ phase' = "build" /\ UNCHANGED <<files, configs, written, configured, holders>>
    BY <1>12 DEF AddRule, IgnoreRule, Building, loadVars
  <2>2. WrittenAsSaid /\ Held /\ Resolving BY <2>1 DEF BuildInv
  <2>3. WrittenAsSaid' /\ Held' BY <2>1, <2>2, WrittenSame, HeldSame
  <2>4. Resolving' BY <1>12, <2>2, ResolveStep
  <2>5. QED BY <2>1, <2>3, <2>4 DEF BuildInv, BuiltAsWritten, Failed
<1>13. ASSUME NEW r, RejectRule(r) PROVE BuildInv'
  <2>1. phase = "build" BY <1>13 DEF RejectRule, Building
  <2>2. Cause BY <1>13, <1>t, <2>1, RejectCause DEF BuildInv
  <2>3. QED BY <1>13, <1>f, <2>2 DEF RejectRule, Fail
<1>14. CASE Built
  <2>1. phase = "build" /\ phase' = "built" BY <1>14 DEF Built
  <2>2. WrittenAsSaid /\ Held /\ Resolving BY <2>1 DEF BuildInv
  <2>3. BuiltAsWritten' BY <1>14, <1>t, <2>1, <2>2, BuiltStep
  <2>4. QED BY <2>1, <2>3 DEF BuildInv
<1>15. CASE \/ \E s \in AllClasses :
                 \/ \E gs \in (SUBSET AllClasses) \ {{}} : Goals(s, gs) \/ Refuse({s} \cup gs)
                 \/ \E d \in 0 .. MaxDepth : Neighbors(s, d)
            \/ Walk \/ EndWalk \/ StartQuery
            \/ \E l \in scope : Follow(l)
            \/ Finish
  <2>1. /\ UNCHANGED <<files, todo, configs, am, unvisited, written, buildVars>>
        /\ phase' = phase \/ phase' \in {"search", "refused", "walk", "done"}
    BY <1>15 DEF Goals, Refuse, Neighbors, Walk, EndWalk, StartQuery, Follow, Finish, Go, loadVars
  <2>2. QED BY <2>1, BuildSame
<1>16. CASE UNCHANGED vars
  BY <1>16, BuildSame DEF vars, loadVars
<1>17. QED
  BY <1>1, <1>2, <1>3, <1>4, <1>5, <1>6, <1>7, <1>8, <1>9, <1>10, <1>11, <1>12, <1>13, <1>14,
     <1>15, <1>16
  DEF Next, BuildNext, LoadNext, BuildStep

\* BuildInv is kept by every step, of building and after.
THEOREM BuildInvariant == Spec => []BuildInv
<1>1. Init => RulesInv BY DEF Init, LoadInit, BuildInit, RulesInv, ToSet
<1>2. Init => LoadInv /\ RulesInv /\ BuildInv BY <1>1, LoadStart, BuildStart DEF Init
<1>3. LoadInv /\ RulesInv /\ BuildInv /\ [Next]_vars => (LoadInv /\ RulesInv /\ BuildInv)'
  BY LoadNextKeeps, RulesStep, BuildInvStep
<1>4. QED BY <1>2, <1>3, PTL DEF Spec

\* "Expand aliases in all rules" (config.expand), and the builder: for any sources,
\* aliases of any depth or in circles, stores and rules, and in whatever order the map of
\* aliases is gone through, each rule stands for the classes that its source says, expanded
\* as far as two aliases deep at least; the engine has the rules so written, as far as their
\* names are classes, and each store once; and a configuration is refused only for a fault
\* of it or, against the documentation, for a rule without a name.
THEOREM BuiltAsWrittenAlways == Spec => []BuiltAsWritten
<1>1. BuildInv => BuiltAsWritten BY DEF BuildInv
<1>2. QED BY <1>1, BuildInvariant, PTL

--------------------------------------------------------------------------------
(* What a search finds.                                                    *)

\* A set of classes that has the start and all that the credited lines lead to.
Linked(X) == request.start \in X /\ \A l \in credited : l.start \in X => l.goal \in X

\* Objects are found from the start over credited lines: no set of classes that is
\* linked misses a class that has objects.
FoundInv ==
  /\ found \in [AllClasses -> SUBSET Object]
  /\ \A l \in scope \cup credited : l.start \in AllClasses /\ l.goal \in AllClasses
  /\ \A l \in credited : found[l.start] # {} /\ found[l.goal] # {}
  /\ Searching => request.start \in AllClasses /\ request.goals \subseteq AllClasses
  /\ \A X \in SUBSET AllClasses : Linked(X) => \A c \in AllClasses : found[c] # {} => c \in X
  /\ Preparing => scope = {} /\ queue = <<>> /\ visited = {}
  /\ phase \in {"search", "done"} \/ (credited = {} /\ \A c \in AllClasses : found[c] = {})

\* Objects for the start class may be added at any time.
LEMMA FoundStart ==
  ASSUME FoundInv, Searching', credited' = credited,
         request'.start \in AllClasses, request'.goals \subseteq AllClasses,
         credited = {} \/ request'.start = request.start,
         phase \in {"search", "done"} => request'.start = request.start,
         \A l \in scope' : l.start \in AllClasses /\ l.goal \in AllClasses,
         phase' \in {"search", "done"},
         NEW objects \in SUBSET Object,
         found' = [found EXCEPT ![request'.start] = objects],
         found[request'.start] \subseteq objects
  PROVE  FoundInv'
<1>1. /\ found' \in [AllClasses -> SUBSET Object]
      /\ \A c \in AllClasses : found[c] # {} => found'[c] # {}
      /\ \A c \in AllClasses : c # request'.start => found'[c] = found[c]
  BY DEF FoundInv
<1>2. ASSUME NEW X \in SUBSET AllClasses, Linked(X)', NEW c \in AllClasses, found'[c] # {}
      PROVE  c \in X
  <2>1. CASE c = request'.start BY <1>2, <2>1 DEF Linked
  <2>2. CASE c # request'.start
    <3>1. found[c] # {} BY <1>1, <1>2, <2>2
    <3>2. request'.start = request.start BY <3>1 DEF FoundInv
    <3>3. Linked(X) BY <1>2, <3>2 DEF Linked
    <3>4. QED BY <3>1, <3>3 DEF FoundInv
  <2>3. QED BY <2>1, <2>2
<1>3. ~Preparing' BY DEF Preparing
<1>4. \A l \in credited : l.start \in AllClasses /\ l.goal \in AllClasses BY DEF FoundInv
<1>5. \A l \in credited' : found'[l.start] # {} /\ found'[l.goal] # {}
  BY <1>1, <1>4 DEF FoundInv
<1>6. QED BY <1>1, <1>2, <1>3, <1>4, <1>5 DEF FoundInv

LEMMA FoundSame ==
  ASSUME FoundInv, UNCHANGED <<found, credited, request>>,
         \A l \in scope' : l.start \in AllClasses /\ l.goal \in AllClasses,
         Searching' => Searching,
         Preparing' => scope' = {} /\ queue' = <<>> /\ visited' = {},
         phase' \in {"search", "done"} \/ phase \notin {"search", "done"}
  PROVE  FoundInv'
BY DEF FoundInv, Linked

LEMMA FoundStep ==
  ASSUME FoundInv, RulesInv, [Next]_vars
  PROVE  FoundInv'
<1>a. \A l \in AllLines : l.start \in AllClasses /\ l.goal \in AllClasses BY LineClasses
<1>1. CASE \/ BuildNext /\ UNCHANGED searchVars
           \/ \E classes : Refuse(classes)
  <2> USE DEF BuildNext, LoadNext, BuildStep, Skip, LoadFails, Load, Loading, Gather, GatherFails,
       Nest, ExpandRules, ExpandFails, Configure, ConfigureFails, AddBuiltIn, Built, AddRule,
       IgnoreRule, RejectRule, Building, Refuse, Go, Fail
  <2>1. UNCHANGED searchVars /\ phase \in {"load", "nest", "configure", "build", "built"}
    BY <1>1
  <2>2. phase' = phase \/ phase' \in {"nest", "configure", "build", "built", "failed", "refused"}
    BY <1>1 DEF loadVars
  <2>3. QED BY <2>1, <2>2, FoundSame DEF searchVars, FoundInv, Searching, Preparing
<1>2. ASSUME NEW s \in AllClasses, NEW gs \in SUBSET AllClasses, Goals(s, gs) PROVE FoundInv'
  <2>1. PICK objects \in SUBSET Object : found' = [found EXCEPT ![s] = objects]
    BY <1>2 DEF Goals, StartWith
  <2>2. /\ request'.start = s /\ request'.goals = gs /\ credited' = credited
        /\ phase = "built" /\ phase' = "search"
    BY <1>2 DEF Goals, Go
  <2>3. scope' \subseteq AllLines BY <1>2 DEF Goals, GoalScope
  <2>4. found[s] = {} /\ credited = {} BY <2>2 DEF FoundInv
  <2>5. QED BY <1>a, <2>1, <2>2, <2>3, <2>4, FoundStart DEF Searching
<1>3. ASSUME NEW s \in AllClasses, NEW d, Neighbors(s, d) PROVE FoundInv'
  <2>1. /\ request'.start = s /\ request'.goals = {} /\ UNCHANGED <<scope, found, credited>>
        /\ phase = "built" /\ phase' = "walk"
    BY <1>3 DEF Neighbors, Go
  <2>2. ~Preparing' BY <2>1 DEF Preparing
  <2>3. QED BY <2>1, <2>2 DEF FoundInv, Linked
<1>4. CASE Walk
  <2>1. /\ scope' \subseteq scope \cup AllLines /\ UNCHANGED <<found, credited, request, phase>>
        /\ phase = "walk"
    BY <1>4 DEF Walk, loadVars
  <2>2. Searching /\ ~Preparing' BY <2>1 DEF Searching, Preparing
  <2>3. QED BY <1>a, <2>1, <2>2, FoundSame DEF FoundInv
<1>5. CASE EndWalk
  <2>1. PICK objects \in SUBSET Object : found' = [found EXCEPT ![request.start] = objects]
    BY <1>5 DEF EndWalk, StartWith
  <2>2. UNCHANGED <<request, scope, credited>> /\ phase = "walk" /\ phase' = "search"
    BY <1>5 DEF EndWalk, Go
  <2>3. /\ request.start \in AllClasses /\ request.goals \subseteq AllClasses
        /\ found[request.start] = {}
    BY <2>2 DEF FoundInv, Searching
  <2>4. QED BY <2>1, <2>2, <2>3, FoundStart DEF Searching, FoundInv
<1>6. CASE StartQuery
  <2>1. PICK objects \in SUBSET Object :
          found' = [found EXCEPT ![request.start] = found[request.start] \cup objects]
    BY <1>6 DEF StartQuery
  <2>2. UNCHANGED <<request, scope, credited, phase>> /\ phase = "search"
    BY <1>6 DEF StartQuery, loadVars
  <2>3. request.start \in AllClasses /\ request.goals \subseteq AllClasses
    BY <2>2 DEF FoundInv, Searching
  <2>4. found[request.start] \cup objects \in SUBSET Object BY <2>3 DEF FoundInv
  <2>5. QED BY <2>1, <2>2, <2>3, <2>4, FoundStart DEF Searching, FoundInv
<1>7. ASSUME NEW l \in scope, Follow(l) PROVE FoundInv'
  <2>1. PICK new \in SUBSET (Object \ found[l.goal]) :
          new # {} /\ found' = [found EXCEPT ![l.goal] = found[l.goal] \cup new]
    BY <1>7 DEF Follow
  <2>2. /\ credited' = credited \cup {l} /\ found[l.start] # {}
        /\ UNCHANGED <<request, scope, phase>> /\ phase = "search"
    BY <1>7 DEF Follow, loadVars
  <2>3. l.start \in AllClasses /\ l.goal \in AllClasses BY DEF FoundInv
  <2>4. /\ found' \in [AllClasses -> SUBSET Object] /\ found'[l.goal] # {}
        /\ \A c \in AllClasses : found[c] # {} => found'[c] # {}
        /\ \A c \in AllClasses : c # l.goal => found'[c] = found[c]
    BY <2>1, <2>3 DEF FoundInv
  <2>5. ASSUME NEW X \in SUBSET AllClasses, Linked(X)', NEW c \in AllClasses, found'[c] # {}
        PROVE  c \in X
    <3>1. Linked(X) BY <2>2, <2>5 DEF Linked
    <3>2. l.start \in X BY <2>2, <2>3, <3>1 DEF FoundInv
    <3>3. l.goal \in X BY <2>2, <2>5, <3>2 DEF Linked
    <3>4. QED BY <2>4, <2>5, <3>1, <3>3 DEF FoundInv
  <2>6. ~Preparing' BY <2>2 DEF Preparing
  <2>7. \A k \in credited' : /\ k.start \in AllClasses /\ k.goal \in AllClasses
                             /\ found'[k.start] # {} /\ found'[k.goal] # {}
    BY <2>2, <2>3, <2>4 DEF FoundInv
  <2>8. QED BY <2>2, <2>4, <2>5, <2>6, <2>7 DEF FoundInv, Searching
<1>8. CASE Finish
  <2>1. UNCHANGED <<request, scope, found, credited>> /\ phase = "search" /\ phase' = "done"
    BY <1>8 DEF Finish, Go
  <2>2. Searching /\ ~Preparing' BY <2>1 DEF Searching, Preparing
  <2>3. QED BY <2>1, <2>2, FoundSame DEF FoundInv
<1>9. CASE UNCHANGED vars
  BY <1>9, FoundSame DEF vars, searchVars, loadVars, FoundInv, Searching, Preparing
<1>10. QED BY <1>1, <1>2, <1>3, <1>4, <1>5, <1>6, <1>7, <1>8, <1>9 DEF Next

--------------------------------------------------------------------------------
(* Ways along lines.                                                       *)

\* LeadTo is the least set with the ends that is closed under going back.
LEMMA LeadToLeast ==
  ASSUME NEW lines, NEW ends
  PROVE  /\ ends \subseteq LeadTo(lines, ends)
         /\ \A l \in lines : l.goal \in LeadTo(lines, ends) => l.start \in LeadTo(lines, ends)
         /\ \A X : ends \subseteq X /\ (\A l \in lines : l.goal \in X => l.start \in X)
              => LeadTo(lines, ends) \subseteq X
<1> DEFINE all == NodesOf(lines) \cup ends
           Closed(X) == ends \subseteq X /\ \A l \in lines : l.goal \in X => l.start \in X
<1>1. \A c : c \in LeadTo(lines, ends) <=> c \in all /\ \A X \in SUBSET all : Closed(X) => c \in X
  BY DEF LeadTo
<1>2. \A l \in lines : l.start \in all /\ l.goal \in all BY DEF NodesOf
<1>3. ASSUME NEW X, Closed(X), NEW c \in LeadTo(lines, ends) PROVE c \in X
  <2>1. Closed(X \cap all) BY <1>2, <1>3
  <2>2. X \cap all \in SUBSET all OBVIOUS
  <2> HIDE DEF Closed
  <2>3. QED BY <1>1, <1>3, <2>1, <2>2
<1>4. QED BY <1>1, <1>2, <1>3

\* LedFrom is the least set with the starts that is closed under going on.
LEMMA LedFromLeast ==
  ASSUME NEW lines, NEW starts
  PROVE  /\ starts \subseteq LedFrom(lines, starts)
         /\ \A l \in lines : l.start \in LedFrom(lines, starts) => l.goal \in LedFrom(lines, starts)
         /\ \A X : starts \subseteq X /\ (\A l \in lines : l.start \in X => l.goal \in X)
              => LedFrom(lines, starts) \subseteq X
<1> DEFINE all == NodesOf(lines) \cup starts
           Closed(X) == starts \subseteq X /\ \A l \in lines : l.start \in X => l.goal \in X
<1>1. \A c : c \in LedFrom(lines, starts) <=> c \in all /\ \A X \in SUBSET all : Closed(X) => c \in X
  BY DEF LedFrom
<1>2. \A l \in lines : l.start \in all /\ l.goal \in all BY DEF NodesOf
<1>3. ASSUME NEW X, Closed(X), NEW c \in LedFrom(lines, starts) PROVE c \in X
  <2>1. Closed(X \cap all) BY <1>2, <1>3
  <2>2. X \cap all \in SUBSET all OBVIOUS
  <2> HIDE DEF Closed
  <2>3. QED BY <1>1, <1>3, <2>1, <2>2
<1>4. QED BY <1>1, <1>2, <1>3

\* What pruning leaves of a result: a class with objects is reached from the start
\* within what is left, since a way to it cannot leave that and come back, and
\* leads to a goal within what is left.
LEMMA PruneWays ==
  ASSUME FoundInv, request.start \in AllClasses, NEW goals \in SUBSET AllClasses,
         NEW g, g = Prune(ResultGraph, goals)
  PROVE  /\ \A c \in g.nodes :
              /\ c \in LedFrom(g.lines, {request.start})
              /\ \E e \in goals : found[e] # {} /\ e \in LedFrom(g.lines, {c})
         /\ \A e \in goals : found[e] # {} => e \in g.nodes
<1> DEFINE N == {c \in AllClasses : found[c] # {}}
           ends == goals \cap N
           kept == LeadTo(credited, ends)
           lines == {l \in credited : l.start \in kept /\ l.goal \in kept}
<1>1. ResultGraph.nodes = N /\ ResultGraph.lines = credited BY DEF ResultGraph, FoundInv
<1>2. g.nodes = kept /\ g.lines = lines BY <1>1 DEF Prune
<1>3. /\ ends \subseteq kept
      /\ \A l \in credited : l.goal \in kept => l.start \in kept
      /\ \A X : ends \subseteq X /\ (\A l \in credited : l.goal \in X => l.start \in X)
           => kept \subseteq X
  BY LeadToLeast
<1> HIDE DEF kept
<1>4. kept \subseteq N
  <2>1. \A l \in credited : l.start \in N BY DEF FoundInv
  <2>2. ends \subseteq N OBVIOUS
  <2> HIDE DEF N, ends
  <2>3. QED BY <1>3, <2>1, <2>2
<1>5. ASSUME NEW c \in kept PROVE c \in LedFrom(lines, {request.start})
  <2> DEFINE F == LedFrom(lines, {request.start})
             X == {x \in AllClasses : x \in kept => x \in F}
  <2>1. request.start \in F /\ \A l \in lines : l.start \in F => l.goal \in F
    BY LedFromLeast
  <2> HIDE DEF F
  <2>2. ASSUME NEW l \in credited, l.start \in X PROVE l.goal \in X
    <3>1. l.goal \in AllClasses BY DEF FoundInv
    <3>2. CASE l.goal \notin kept BY <3>1, <3>2
    <3>3. CASE l.goal \in kept
      <4>1. l.start \in kept /\ l \in lines BY <1>3, <3>3
      <4>2. QED BY <2>1, <2>2, <3>1, <4>1
    <3>4. QED BY <3>2, <3>3
  <2>3. Linked(X) BY <2>1, <2>2 DEF Linked
  <2>4. c \in AllClasses /\ found[c] # {} BY <1>4
  <2>5. X \in SUBSET AllClasses OBVIOUS
  <2> HIDE DEF X
  <2>6. c \in X BY <2>3, <2>4, <2>5 DEF FoundInv
  <2>7. QED BY <2>6 DEF X, F
<1>6. ASSUME NEW c \in kept PROVE \E e \in ends : e \in LedFrom(lines, {c})
  <2> DEFINE Z == {x \in kept : \E e \in ends : e \in LedFrom(lines, {x})}
  <2>1. ends \subseteq Z
    <3>1. SUFFICES ASSUME NEW e \in ends PROVE e \in Z OBVIOUS
    <3>2. e \in LedFrom(lines, {e}) BY LedFromLeast
    <3>3. QED BY <1>3, <3>2
  <2>2. ASSUME NEW l \in credited, l.goal \in Z PROVE l.start \in Z
    <3>1. l.start \in kept /\ l \in lines BY <1>3, <2>2
    <3>2. PICK e \in ends : e \in LedFrom(lines, {l.goal}) BY <2>2
    <3> DEFINE F == LedFrom(lines, {l.start})
    <3>3. {l.start} \subseteq F /\ \A k \in lines : k.start \in F => k.goal \in F
      BY LedFromLeast
    <3>4. {l.goal} \subseteq F BY <3>1, <3>3
    <3> HIDE DEF F
    <3>5. LedFrom(lines, {l.goal}) \subseteq F BY <3>3, <3>4, LedFromLeast
    <3>6. QED BY <3>1, <3>2, <3>5 DEF F
  <2>3. kept \subseteq Z
    <3> HIDE DEF Z
    <3>1. QED BY <1>3, <2>1, <2>2
  <2>4. QED BY <2>3
<1>7. \A e \in goals : found[e] # {} => e \in kept BY <1>3
<1> HIDE DEF lines
<1>8. QED BY <1>2, <1>5, <1>6, <1>7

\* Nothing happens after a search has ended.
LEMMA DoneStays == phase = "done" /\ [Next]_vars => UNCHANGED vars
BY DEF Next, BuildNext, LoadNext, BuildStep, Skip, LoadFails, Load, Loading, Gather, GatherFails,
   Nest, ExpandRules, ExpandFails, Configure, ConfigureFails, AddBuiltIn, Built, AddRule,
   IgnoreRule, RejectRule, Building, Goals, Refuse, Neighbors, Walk, EndWalk, StartQuery, Follow,
   Finish

LEMMA GoalPathsStep ==
  ASSUME FoundInv, RulesInv, GoalPaths, [Next]_vars
  PROVE  GoalPaths'
<1>1. CASE phase = "done"
  BY <1>1, DoneStays DEF GoalPaths, Reaches, vars, searchVars, loadVars
<1>2. CASE phase # "done" /\ phase' = "done"
  <2>1. Finish
    BY <1>2 DEF Next, BuildNext, LoadNext, BuildStep, Skip, LoadFails, Load, Loading, Gather,
       GatherFails, Nest, ExpandRules, ExpandFails, Configure, ConfigureFails, AddBuiltIn, Built,
       AddRule, IgnoreRule, RejectRule, Building, Goals, Refuse, Neighbors, Walk, EndWalk,
       StartQuery, Follow, Finish, Fail, Go, vars, loadVars
  <2>2. /\ UNCHANGED <<request, found>> /\ phase = "search"
        /\ request.goals # {} => graph' = Prune(ResultGraph, request.goals)
    BY <2>1 DEF Finish
  <2>3. request.start \in AllClasses /\ request.goals \in SUBSET AllClasses
    BY <2>2 DEF FoundInv, Searching
  <2>4. ASSUME request.goals # {}
        PROVE /\ \A c \in graph'.nodes :
                  /\ c \in LedFrom(graph'.lines, {request.start})
                  /\ \E e \in request.goals : found[e] # {} /\ e \in LedFrom(graph'.lines, {c})
              /\ \A e \in request.goals : found[e] # {} => e \in graph'.nodes
    <3>1. PICK g : g = graph' OBVIOUS
    <3>2. g = Prune(ResultGraph, request.goals) BY <2>2, <2>4, <3>1
    <3>3. /\ \A c \in g.nodes :
              /\ c \in LedFrom(g.lines, {request.start})
              /\ \E e \in request.goals : found[e] # {} /\ e \in LedFrom(g.lines, {c})
          /\ \A e \in request.goals : found[e] # {} => e \in g.nodes
      BY <2>3, <3>2, PruneWays
    <3>4. QED BY <3>1, <3>3
  <2>5. QED BY <2>2, <2>4 DEF GoalPaths, Reaches
<1>3. CASE phase' # "done" BY <1>3 DEF GoalPaths
<1>4. QED BY <1>1, <1>2, <1>3

\* RulesInv and FoundInv are kept by every step, from the first configuration to
\* the result.
THEOREM FoundInvariant == Spec => [](RulesInv /\ FoundInv)
<1>1. Init => RulesInv /\ FoundInv
  BY DEF Init, BuildInit, LoadInit, RulesInv, FoundInv, ToSet, Searching, Preparing, Linked
<1>2. RulesInv /\ FoundInv /\ [Next]_vars => RulesInv' /\ FoundInv' BY RulesStep, FoundStep
<1>3. QED BY <1>1, <1>2, PTL DEF Spec

\* Whatever rules there are, whatever a search finds along them and whenever it
\* ends, the result of a goal search (Goals, RemoveEmptyGoalPaths) consists of
\* ways from the start to goals that have objects, and has all these goals.
THEOREM GoalPathsAlways == Spec => []GoalPaths
<1>1. Init => GoalPaths BY DEF Init, LoadInit, GoalPaths
<1>2. QED BY <1>1, FoundInvariant, GoalPathsStep, PTL DEF Spec

--------------------------------------------------------------------------------
(* The breadth-first walk.                                                 *)

AllNodes == NodesOf(AllLines)

\* What the next step of the walk takes off the queue and adds.
At == Head(queue)[1]
Depth == Head(queue)[2]
Out == IF Depth < request.depth THEN {l \in AllLines : l.start = At} ELSE {}
Fresh == {l.goal : l \in Out} \ visited

\* The queue has each class once, in the order of depths, which differ by at most
\* one.
WalkShape ==
  /\ request.goals = {} /\ request.depth \in Nat
  /\ request.start \in visited /\ visited \subseteq AllNodes
  /\ queue \in Seq(visited \X Nat)
  /\ \A i, j \in 1 .. Len(queue) : queue[i][1] = queue[j][1] => i = j
  /\ \A i, j \in 1 .. Len(queue) :
       i <= j => queue[i][2] <= queue[j][2] /\ queue[j][2] <= queue[i][2] + 1

LEMMA Enumerated ==
  ASSUME NEW T, IsFiniteSet(T), NEW f \in SetToSeqs(T)
  PROVE  /\ Cardinality(T) \in Nat /\ f \in [1 .. Cardinality(T) -> T]
         /\ \A i, j \in 1 .. Cardinality(T) : f[i] = f[j] => i = j
         /\ \A x \in T : \E i \in 1 .. Cardinality(T) : f[i] = x
<1> DEFINE D == 1 .. Cardinality(T)
<1>1. Cardinality(T) \in Nat BY FS_CardinalityType
<1>2. f \in [D -> T] /\ \A i, j \in D : f[i] = f[j] => i = j BY DEF SetToSeqs
<1>3. IsFiniteSet(D) /\ Cardinality(D) = Cardinality(T)
  <2>1. 1 \in Int /\ Cardinality(T) \in Int BY <1>1
  <2>2. /\ IsFiniteSet(D)
        /\ Cardinality(D) = IF 1 > Cardinality(T) THEN 0 ELSE Cardinality(T) - 1 + 1
    BY <2>1, FS_Interval, Zenon
  <2>3. QED BY <1>1, <2>2
<1> HIDE DEF D
<1>4. f \in Injection(D, T) BY <1>2 DEF Injection, IsInjective
<1>5. f \in Surjection(D, T) BY <1>3, <1>4, FS_Injection
<1>6. \A x \in T : \E i \in D : f[i] = x BY <1>5 DEF Surjection
<1>7. QED BY <1>1, <1>2, <1>6 DEF D

LEMMA NodesFinite ==
  ASSUME RulesInv
  PROVE  AllNodes \subseteq AllClasses /\ IsFiniteSet(AllClasses)
<1>1. AllNodes \subseteq AllClasses BY LineClasses DEF AllNodes, NodesOf
<1> DEFINE Parts == {{d} \X ClassNames[d] : d \in Domain}
<1>2. IsFiniteSet(Parts)
  <2> DEFINE f == [d \in Domain |-> {d} \X ClassNames[d]]
  <2>1. f \in Surjection(Domain, Parts) BY DEF Surjection
  <2> HIDE DEF f, Parts
  <2>2. QED BY <2>1, BuildAssumption, FS_Surjection
<1>3. ASSUME NEW P \in Parts PROVE IsFiniteSet(P)
  <2>1. PICK d \in Domain : P = {d} \X ClassNames[d] BY <1>3
  <2>2. IsFiniteSet({d}) /\ IsFiniteSet(ClassNames[d]) BY BuildAssumption, FS_Singleton
  <2>3. QED BY <2>1, <2>2, FS_Product
<1> HIDE DEF Parts
<1>4. IsFiniteSet(UNION Parts) BY <1>2, <1>3, FS_UNION
<1>5. QED BY <1>1, <1>4 DEF AllClasses, Parts

\* One step of the walk, on the set of the queue's entries.
LEMMA WalkQueue ==
  ASSUME RulesInv, WalkShape, Walk
  PROVE  /\ UNCHANGED <<rules, request, phase>>
         /\ visited' = visited \cup Fresh /\ scope' = scope \cup Out
         /\ <<At, Depth>> \in ToSet(queue) /\ Depth \in Nat
         /\ ToSet(queue)' = (ToSet(queue) \ {<<At, Depth>>}) \cup {<<x, Depth + 1>> : x \in Fresh}
         /\ \A e \in ToSet(queue) :
              /\ e = <<e[1], e[2]>> /\ e[1] \in visited /\ e[2] \in Depth .. Depth + 1
              /\ e[1] = At => e[2] = Depth
         /\ WalkShape'
<1> DEFINE n == Len(queue)
           m == Cardinality(Fresh)
<1>1. /\ UNCHANGED <<rules, request, phase>> /\ queue # <<>>
      /\ visited' = visited \cup Fresh /\ scope' = scope \cup Out
  BY DEF Walk, At, Depth, Out, Fresh, loadVars, buildVars
<1>2. PICK order \in SetToSeqs(Fresh) :
        queue' = Tail(queue) \o [i \in DOMAIN order |-> <<order[i], Depth + 1>>]
  BY DEF Walk, At, Depth, Out, Fresh
<1>3. Fresh \subseteq AllNodes /\ IsFiniteSet(Fresh)
  <2>1. Fresh \subseteq AllNodes BY DEF Fresh, Out, AllNodes, NodesOf
  <2>2. QED BY <2>1, NodesFinite, FS_Subset
<1>4. /\ m \in Nat /\ order \in [1 .. m -> Fresh]
      /\ \A i, j \in 1 .. m : order[i] = order[j] => i = j
      /\ \A x \in Fresh : \E i \in 1 .. m : order[i] = x
  BY <1>3, Enumerated
<1>5. /\ n \in Nat /\ n > 0 /\ \A i \in 1 .. n : queue[i] \in visited \X Nat
      /\ Head(queue) = queue[1] /\ DOMAIN queue = 1 .. n
  BY <1>1 DEF WalkShape
<1>6. /\ At = queue[1][1] /\ Depth = queue[1][2] /\ Depth \in Nat /\ queue[1] = <<At, Depth>>
  BY <1>5 DEF At, Depth
<1> HIDE DEF m
<1> DEFINE T == Tail(queue)
           F == [i \in 1 .. m |-> <<order[i], Depth + 1>>]
           Q == (visited \cup Fresh) \X Nat
<1>7. queue' = T \o F BY <1>2, <1>4
<1>8. T \in Seq(Q) /\ F \in Seq(Q) /\ Len(T) = n - 1 /\ Len(F) = m
  <2>1. queue \in Seq(Q) BY DEF WalkShape
  <2>2. T \in Seq(Q) /\ Len(T) = n - 1 BY <1>1, <1>5, <2>1
  <2>3. F \in [1 .. m -> Q] BY <1>4, <1>6
  <2>4. QED BY <1>4, <2>2, <2>3
<1>9. \A i \in 1 .. n - 1 : T[i] = queue[i + 1] BY <1>1, <1>5
<1>10. \A i \in 1 .. m : F[i] = <<order[i], Depth + 1>> /\ order[i] \in Fresh BY <1>4
<1> HIDE DEF T, F, Q
<1>11. /\ queue' \in Seq(Q) /\ Len(queue') = n - 1 + m /\ DOMAIN queue' = 1 .. n - 1 + m
       /\ \A i \in 1 .. n - 1 : queue'[i] = queue[i + 1]
       /\ \A i \in n .. n - 1 + m :
            i - (n - 1) \in 1 .. m /\ queue'[i] = <<order[i - (n - 1)], Depth + 1>>
  <2>1. T \o F \in Seq(Q) /\ Len(T \o F) = n - 1 + m /\ DOMAIN (T \o F) = 1 .. n - 1 + m
    BY <1>8
  <2>2. \A i \in 1 .. n - 1 + m : (T \o F)[i] = IF i <= n - 1 THEN T[i] ELSE F[i - (n - 1)]
    BY <1>8
  <2>3. ASSUME NEW i \in 1 .. n - 1 PROVE (T \o F)[i] = queue[i + 1]
    <3>1. i \in 1 .. n - 1 + m /\ i <= n - 1 BY <1>4, <1>5
    <3>2. (T \o F)[i] = T[i] BY <2>2, <3>1
    <3>3. QED BY <1>9, <3>2
  <2>4. ASSUME NEW i \in n .. n - 1 + m
        PROVE  i - (n - 1) \in 1 .. m /\ (T \o F)[i] = <<order[i - (n - 1)], Depth + 1>>
    <3>1. i \in 1 .. n - 1 + m /\ ~(i <= n - 1) /\ i - (n - 1) \in 1 .. m BY <1>4, <1>5
    <3>2. (T \o F)[i] = F[i - (n - 1)] BY <2>2, <3>1
    <3>3. QED BY <1>10, <3>1, <3>2
  <2>5. QED BY <1>7, <2>1, <2>3, <2>4
<1>12. ToSet(queue) = {queue[i] : i \in 1 .. n} BY <1>5 DEF ToSet
<1>13. ASSUME NEW i \in 1 .. n
       PROVE  /\ queue[i] = <<queue[i][1], queue[i][2]>> /\ queue[i][1] \in visited
              /\ queue[i][2] \in Depth .. Depth + 1
              /\ queue[i][1] = At => i = 1
  BY <1>5, <1>6 DEF WalkShape
<1>14. ToSet(queue)' = (ToSet(queue) \ {<<At, Depth>>}) \cup {<<x, Depth + 1>> : x \in Fresh}
  <2>1. ToSet(queue)' = {queue'[i] : i \in 1 .. n - 1 + m} BY <1>11 DEF ToSet
  <2>2. ASSUME NEW i \in 1 .. n - 1 + m
        PROVE  queue'[i] \in (ToSet(queue) \ {<<At, Depth>>}) \cup {<<x, Depth + 1>> : x \in Fresh}
    <3>1. CASE i <= n - 1
      <4>1. i + 1 \in 1 .. n /\ i + 1 # 1 /\ queue'[i] = queue[i + 1]
        BY <1>4, <1>5, <1>11, <3>1
      <4>2. queue[i + 1][1] # At BY <1>13, <4>1
      <4>3. queue[i + 1] # <<At, Depth>> BY <4>2
      <4>4. QED BY <1>12, <4>1, <4>3
    <3>2. CASE i > n - 1
      <4>1. i - (n - 1) \in 1 .. m /\ queue'[i] = <<order[i - (n - 1)], Depth + 1>>
        BY <1>4, <1>5, <1>11, <3>2
      <4>2. QED BY <1>4, <4>1
    <3>3. QED BY <1>4, <1>5, <3>1, <3>2
  <2>3. ASSUME NEW e \in ToSet(queue), e # <<At, Depth>> PROVE \E i \in 1 .. n - 1 + m : e = queue'[i]
    <3>1. PICK i \in 1 .. n : e = queue[i] BY <1>12, <2>3
    <3>2. i # 1 BY <1>6, <2>3, <3>1
    <3>3. i - 1 \in 1 .. n - 1 /\ queue'[i - 1] = queue[i] BY <1>5, <1>11, <3>2
    <3>4. QED BY <1>4, <1>5, <3>1, <3>3
  <2>4. ASSUME NEW x \in Fresh PROVE \E i \in 1 .. n - 1 + m : <<x, Depth + 1>> = queue'[i]
    <3>1. PICK i \in 1 .. m : order[i] = x BY <1>4
    <3>2. n - 1 + i \in n .. n - 1 + m /\ (n - 1 + i) - (n - 1) = i BY <1>4, <1>5
    <3>3. queue'[n - 1 + i] = <<x, Depth + 1>> BY <1>11, <3>1, <3>2
    <3>4. n - 1 + i \in 1 .. n - 1 + m BY <1>4, <1>5
    <3> DEFINE j == n - 1 + i
    <3> HIDE DEF j
    <3>5. j \in 1 .. n - 1 + m /\ queue'[j] = <<x, Depth + 1>> BY <3>3, <3>4 DEF j
    <3>6. QED BY <3>5, Zenon
  <2>5. QED BY <2>1, <2>2, <2>3, <2>4
<1>15. \A e \in ToSet(queue) :
         /\ e = <<e[1], e[2]>> /\ e[1] \in visited /\ e[2] \in Depth .. Depth + 1
         /\ e[1] = At => e[2] = Depth
  <2>1. ASSUME NEW e \in ToSet(queue)
        PROVE  /\ e = <<e[1], e[2]>> /\ e[1] \in visited /\ e[2] \in Depth .. Depth + 1
               /\ e[1] = At => e[2] = Depth
    <3>1. PICK i \in 1 .. n : e = queue[i] BY <1>12
    <3>2. e = <<e[1], e[2]>> /\ e[1] \in visited /\ e[2] \in Depth .. Depth + 1 BY <1>13, <3>1
    <3>3. e[1] = At => i = 1 BY <1>13, <3>1
    <3>4. e[1] = At => e[2] = Depth BY <1>6, <3>1, <3>3
    <3>5. QED BY <3>2, <3>4
  <2>2. QED BY <2>1
<1>16. ASSUME NEW i \in 1 .. n - 1 + m
       PROVE  /\ queue'[i][2] \in Depth .. Depth + 1
              /\ i >= n => queue'[i][2] = Depth + 1 /\ queue'[i][1] \notin visited
              /\ i < n => queue'[i][1] \in visited
  <2>1. CASE i < n
    <3>1. i + 1 \in 1 .. n /\ i \in 1 .. n - 1 /\ ~(i >= n) BY <1>4, <1>5, <2>1
    <3>2. queue'[i] = queue[i + 1] BY <1>11, <3>1
    <3>3. QED BY <1>13, <3>1, <3>2
  <2>2. CASE i >= n
    <3>1. i - (n - 1) \in 1 .. m /\ queue'[i] = <<order[i - (n - 1)], Depth + 1>>
      BY <1>4, <1>5, <1>11, <2>2
    <3>2. order[i - (n - 1)] \notin visited BY <1>10, <3>1 DEF Fresh
    <3>3. QED BY <1>6, <2>2, <3>1, <3>2, <1>4, <1>5
  <2>3. QED BY <1>4, <1>5, <2>1, <2>2
<1>17. ASSUME NEW i \in 1 .. n - 1 + m, NEW j \in 1 .. n - 1 + m, queue'[i][1] = queue'[j][1]
       PROVE  i = j
  <2>1. CASE i < n /\ j < n
    <3>1. /\ i + 1 \in 1 .. n /\ j + 1 \in 1 .. n
          /\ queue'[i] = queue[i + 1] /\ queue'[j] = queue[j + 1]
      BY <1>4, <1>5, <1>11, <2>1
    <3>2. i + 1 = j + 1 BY <1>17, <3>1 DEF WalkShape
    <3>3. QED BY <3>2, <1>4, <1>5
  <2>2. CASE i >= n /\ j >= n
    <3>1. /\ i - (n - 1) \in 1 .. m /\ queue'[i] = <<order[i - (n - 1)], Depth + 1>>
          /\ j - (n - 1) \in 1 .. m /\ queue'[j] = <<order[j - (n - 1)], Depth + 1>>
      BY <1>4, <1>5, <1>11, <2>2
    <3>2. order[i - (n - 1)] = order[j - (n - 1)] BY <1>17, <3>1
    <3>3. i - (n - 1) = j - (n - 1) BY <1>4, <3>1, <3>2
    <3>4. QED BY <3>3, <1>4, <1>5
  <2>3. QED BY <1>4, <1>5, <1>16, <1>17, <2>1, <2>2
<1>18. ASSUME NEW i \in 1 .. n - 1 + m, NEW j \in 1 .. n - 1 + m, i <= j
       PROVE  queue'[i][2] <= queue'[j][2] /\ queue'[j][2] <= queue'[i][2] + 1
  <2>1. CASE j < n
    <3>1. /\ i + 1 \in 1 .. n /\ j + 1 \in 1 .. n /\ i + 1 <= j + 1
          /\ queue'[i] = queue[i + 1] /\ queue'[j] = queue[j + 1]
      BY <1>4, <1>5, <1>11, <1>18, <2>1
    <3>2. QED BY <3>1 DEF WalkShape
  <2>2. CASE j >= n
    <3>1. queue'[j][2] = Depth + 1 /\ queue'[i][2] \in Depth .. Depth + 1
      BY <1>16, <2>2
    <3>2. QED BY <1>6, <3>1
  <2>3. QED BY <1>4, <1>5, <2>1, <2>2
<1>19. WalkShape'
  <2>1. queue' \in Seq(visited' \X Nat) BY <1>1, <1>11 DEF Q
  <2>2. /\ request' = request /\ visited' \subseteq AllNodes' /\ request.start \in visited'
    BY <1>1, <1>3 DEF WalkShape, AllNodes, AllLines, ToSet
  <2>3. QED BY <1>11, <1>17, <1>18, <2>1, <2>2 DEF WalkShape
<1>20. QED BY <1>1, <1>6, <1>12, <1>14, <1>15, <1>19, <1>5

--------------------------------------------------------------------------------
(* Ways of n steps.                                                        *)

LEMMA WayEnds ==
  ASSUME NEW lines, NEW u, NEW n \in Nat, NEW w \in Ways(lines, u, n)
  PROVE  /\ w[0] = u
         /\ \A i \in 0 .. n - 1 : \E l \in lines : l.start = w[i] /\ l.goal = w[i + 1]
BY DEF Ways, Between

LEMMA WayZero ==
  ASSUME NEW lines, NEW u
  PROVE  \E w \in Ways(lines, u, 0) : w[0] = u
<1> DEFINE w == [i \in 0 .. 0 |-> u]
<1>1. w \in Ways(lines, u, 0) /\ w[0] = u BY DEF Ways
<1>2. QED BY <1>1

LEMMA WayOn ==
  ASSUME NEW lines, NEW u, NEW n \in Nat, NEW w \in Ways(lines, u, n),
         NEW l \in lines, l.start = w[n]
  PROVE  \E v \in Ways(lines, u, n + 1) : v[n + 1] = l.goal
<1> DEFINE v == [i \in 0 .. n + 1 |-> IF i = n + 1 THEN l.goal ELSE w[i]]
<1>1. /\ w \in [0 .. n -> NodesOf(lines) \cup {u}] /\ w[0] = u
      /\ \A i \in 0 .. n - 1 : Between(lines, w[i], w[i + 1]) # {}
  BY DEF Ways
<1>2. v \in [0 .. n + 1 -> NodesOf(lines) \cup {u}] /\ v[n + 1] = l.goal /\ v[n] = w[n] /\ v[0] = u
  BY <1>1 DEF NodesOf
<1>3. ASSUME NEW i \in 0 .. n PROVE Between(lines, v[i], v[i + 1]) # {}
  <2>1. CASE i = n BY <1>2, <2>1 DEF Between
  <2>2. CASE i # n
    <3>1. i \in 0 .. n - 1 /\ v[i] = w[i] /\ v[i + 1] = w[i + 1] BY <2>2
    <3>2. QED BY <1>1, <3>1
  <2>3. QED BY <2>1, <2>2
<1> HIDE DEF v
<1>4. v \in Ways(lines, u, n + 1) BY <1>2, <1>3 DEF Ways
<1>5. QED BY <1>2, <1>4

LEMMA WayPart ==
  ASSUME NEW lines, NEW u, NEW n \in Nat, NEW w \in Ways(lines, u, n), NEW j \in 0 .. n
  PROVE  [i \in 0 .. j |-> w[i]] \in Ways(lines, u, j)
<1> DEFINE v == [i \in 0 .. j |-> w[i]]
<1>1. /\ w \in [0 .. n -> NodesOf(lines) \cup {u}] /\ w[0] = u
      /\ \A i \in 0 .. n - 1 : Between(lines, w[i], w[i + 1]) # {}
  BY DEF Ways
<1>2. v \in [0 .. j -> NodesOf(lines) \cup {u}] /\ v[0] = u BY <1>1
<1>3. \A i \in 0 .. j - 1 : v[i] = w[i] /\ v[i + 1] = w[i + 1] /\ i \in 0 .. n - 1 OBVIOUS
<1> HIDE DEF v
<1>4. v \in Ways(lines, u, j) BY <1>1, <1>2, <1>3 DEF Ways
<1>5. QED BY <1>4 DEF v

--------------------------------------------------------------------------------
(* The walk finds the lines by distance.                                   *)

\* A way of n steps leads from the start to c.
Near(n, c) == \E w \in Ways(AllLines, request.start, n) : w[n] = c

\* What is queued is as near as its depth says, and what is in scope begins nearer
\* than the depth asked for.
WalkSound ==
  /\ \A e \in ToSet(queue) : Near(e[2], e[1])
  /\ scope \subseteq AllLines
  /\ \A l \in scope : \E n \in 0 .. request.depth - 1 : Near(n, l.start)

Walked(c) == c \in visited /\ \A e \in ToSet(queue) : e[1] # c
Covered(c) == \A l \in AllLines : l.start = c => l \in scope

\* Some class on the way w of n steps waits in the queue, no deeper than it lies on
\* the way.
Pending(w, n) == \E i \in 0 .. n : \E e \in ToSet(queue) : e[1] = w[i] /\ e[2] <= i

\* What has been walked has its lines in scope until the walk comes to the depth
\* asked for; of any shorter way some class is pending or the end is done.
WalkComplete ==
  /\ \A l \in scope : l.goal \in visited
  /\ \/ \A c \in visited : Walked(c) => Covered(c)
     \/ \A e \in ToSet(queue) : e[2] >= request.depth
  /\ \A n \in 0 .. request.depth - 1 : \A w \in Ways(AllLines, request.start, n) :
       Pending(w, n) \/ (Walked(w[n]) /\ Covered(w[n]))

WalkInv == phase = "walk" => WalkShape /\ WalkSound /\ WalkComplete

LEMMA SoundStep ==
  ASSUME RulesInv, WalkShape, WalkSound, Walk
  PROVE  WalkSound'
<1>1. UNCHANGED <<rules, request, phase>> /\ AllLines' = AllLines
  BY WalkQueue DEF AllLines, ToSet
<1>2. \A n, c : Near(n, c)' <=> Near(n, c) BY <1>1 DEF Near
<1>3. Depth \in Nat /\ Near(Depth, At)
  <2>1. <<At, Depth>> \in ToSet(queue) /\ Depth \in Nat BY WalkQueue
  <2>2. QED BY <2>1 DEF WalkSound
<1>4. ASSUME NEW l \in Out PROVE l \in AllLines /\ l.start = At /\ Depth < request.depth
  BY DEF Out
<1>5. ASSUME NEW l \in Out PROVE Near(Depth + 1, l.goal)
  <2>1. PICK w \in Ways(AllLines, request.start, Depth) : w[Depth] = At BY <1>3 DEF Near
  <2>2. QED BY <1>3, <1>4, <1>5, <2>1, WayOn DEF Near
<1>6. ASSUME NEW e \in ToSet(queue)' PROVE Near(e[2], e[1])
  <2>1. e \in ToSet(queue) \/ \E x \in Fresh : e = <<x, Depth + 1>> BY <1>6, WalkQueue
  <2>2. CASE e \in ToSet(queue) BY <2>2 DEF WalkSound
  <2>3. CASE \E x \in Fresh : e = <<x, Depth + 1>>
    <3>1. PICK x \in Fresh : e = <<x, Depth + 1>> BY <2>3
    <3>2. PICK l \in Out : x = l.goal BY DEF Fresh
    <3>3. QED BY <1>5, <3>1, <3>2
  <2>4. QED BY <2>1, <2>2, <2>3
<1>7. scope' = scope \cup Out BY WalkQueue
<1>8. \A l \in scope' : l \in AllLines /\ \E n \in 0 .. request.depth - 1 : Near(n, l.start)
  <2>1. request.depth \in Nat BY DEF WalkShape
  <2>2. ASSUME NEW l \in Out PROVE Depth \in 0 .. request.depth - 1 /\ Near(Depth, l.start)
    BY <1>3, <1>4, <2>1
  <2>3. QED BY <1>4, <1>7, <2>2 DEF WalkSound
<1>9. QED BY <1>1, <1>2, <1>6, <1>8 DEF WalkSound

\* What is taken off the queue joins what has been walked, and nothing else does.
LEMMA WalkedStep ==
  ASSUME RulesInv, WalkShape, Walk
  PROVE  /\ \A c : c = At => Walked(c)'
         /\ \A c : Walked(c) => Walked(c)'
         /\ \A c : Walked(c)' => Walked(c) \/ c = At
         /\ \A c : Covered(c) => Covered(c)'
         /\ \A c : c = At /\ Depth < request.depth => Covered(c)'
<1> DEFINE E == ToSet(queue)
<1>1. /\ visited' = visited \cup Fresh /\ scope' = scope \cup Out /\ rules' = rules
      /\ <<At, Depth>> \in E
      /\ ToSet(queue)' = (E \ {<<At, Depth>>}) \cup {<<x, Depth + 1>> : x \in Fresh}
      /\ \A e \in E : e = <<e[1], e[2]>> /\ e[1] \in visited /\ (e[1] = At => e[2] = Depth)
  BY WalkQueue
<1> HIDE DEF E
<1>2. \A x \in Fresh : x \notin visited BY DEF Fresh
<1>3. At \in visited BY <1>1
<1>4. ASSUME NEW e \in ToSet(queue)'
      PROVE  \/ e \in E /\ e # <<At, Depth>>
             \/ e[1] \in Fresh
  BY <1>1
<1>5. \A e \in ToSet(queue)' : e[1] # At
  <2>1. SUFFICES ASSUME NEW e \in ToSet(queue)', e[1] = At PROVE FALSE OBVIOUS
  <2>2. e \in E /\ e # <<At, Depth>> BY <1>2, <1>3, <1>4, <2>1
  <2>3. QED BY <1>1, <2>1, <2>2
<1>6. \A c : c = At => Walked(c)' BY <1>1, <1>3, <1>5 DEF Walked
<1>7. ASSUME NEW c, Walked(c) PROVE Walked(c)'
  <2>1. c \in visited /\ \A e \in E : e[1] # c BY <1>7 DEF Walked, E
  <2>2. \A e \in ToSet(queue)' : e[1] # c BY <1>2, <1>4, <2>1
  <2>3. QED BY <1>1, <2>1, <2>2 DEF Walked
<1>8. ASSUME NEW c, Walked(c)' PROVE Walked(c) \/ c = At
  <2>1. c \in visited' /\ \A e \in ToSet(queue)' : e[1] # c BY <1>8 DEF Walked
  <2>2. c \notin Fresh
    <3>1. SUFFICES ASSUME c \in Fresh PROVE FALSE OBVIOUS
    <3>2. <<c, Depth + 1>> \in ToSet(queue)' BY <1>1, <3>1
    <3>3. QED BY <2>1, <3>2
  <2>3. c \in visited BY <1>1, <2>1, <2>2
  <2>4. ASSUME NEW e \in E, e[1] = c PROVE c = At
    <3>1. e = <<At, Depth>> BY <1>1, <2>1, <2>4
    <3>2. QED BY <2>4, <3>1
  <2>5. QED BY <2>3, <2>4 DEF Walked, E
<1>9. AllLines' = AllLines BY <1>1 DEF AllLines, ToSet
<1>10. \A c : Covered(c) => Covered(c)' BY <1>1, <1>9 DEF Covered
<1>11. ASSUME Depth < request.depth PROVE \A l \in AllLines : l.start = At => l \in scope'
  BY <1>1, <1>11 DEF Out
<1>12. \A c : c = At /\ Depth < request.depth => Covered(c)' BY <1>9, <1>11 DEF Covered
<1>13. QED BY <1>6, <1>7, <1>8, <1>10, <1>12

LEMMA CompleteStep ==
  ASSUME RulesInv, WalkShape, WalkComplete, Walk
  PROVE  WalkComplete'
<1> DEFINE E == ToSet(queue)
           E2 == ToSet(queue)'
<1>1. /\ visited' = visited \cup Fresh /\ scope' = scope \cup Out /\ UNCHANGED <<rules, request>>
      /\ <<At, Depth>> \in E /\ Depth \in Nat
      /\ E2 = (E \ {<<At, Depth>>}) \cup {<<x, Depth + 1>> : x \in Fresh}
      /\ \A e \in E : e = <<e[1], e[2]>> /\ e[1] \in visited /\ e[2] \in Depth .. Depth + 1
  BY WalkQueue
<1>2. AllLines' = AllLines /\ request.depth \in Nat BY <1>1 DEF AllLines, ToSet, WalkShape
<1>3. /\ \A c : c = At => Walked(c)'
      /\ \A c : Walked(c) => Walked(c)'
      /\ \A c : Walked(c)' => Walked(c) \/ c = At
      /\ \A c : Covered(c) => Covered(c)'
      /\ \A c : c = At /\ Depth < request.depth => Covered(c)'
  BY WalkedStep
<1> HIDE DEF E, E2
<1>4. \A l \in scope' : l.goal \in visited'
  <2>1. \A l \in Out : l.goal \in visited \cup Fresh BY DEF Fresh
  <2>2. QED BY <1>1, <2>1 DEF WalkComplete
<1>5. ASSUME Depth < request.depth PROVE \A c : Walked(c)' => Covered(c)'
  <2>1. \A c \in visited : Walked(c) => Covered(c)
    <3>1. ~ \A e \in E : e[2] >= request.depth BY <1>1, <1>2, <1>5
    <3>2. QED BY <3>1 DEF WalkComplete, E
  <2>2. \A c : Walked(c) => c \in visited BY DEF Walked
  <2>3. QED BY <1>3, <1>5, <2>1, <2>2
<1>6. ASSUME ~(Depth < request.depth) PROVE \A e \in E2 : e[2] >= request.depth
  <2>1. Fresh = {} BY <1>6 DEF Fresh, Out
  <2>2. QED BY <1>1, <1>2, <1>6, <2>1
<1>7. ASSUME NEW n \in 0 .. request.depth - 1, NEW w \in Ways(AllLines, request.start, n)
      PROVE  \/ \E i \in 0 .. n : \E e \in E2 : e[1] = w[i] /\ e[2] <= i
             \/ Walked(w[n])' /\ Covered(w[n])'
  <2>1. CASE Walked(w[n]) /\ Covered(w[n]) BY <1>3, <2>1
  <2>2. CASE Pending(w, n)
    <3>1. PICK i \in 0 .. n, e \in E : e[1] = w[i] /\ e[2] <= i BY <2>2 DEF Pending, E
    <3>2. Depth < request.depth BY <1>1, <1>2, <3>1
    <3> DEFINE J == {j \in 0 .. n : ~Walked(w[j])'}
    <3>3. CASE J = {}
      <4>1. Walked(w[n])' BY <1>2, <3>3
      <4>2. QED BY <1>5, <3>2, <4>1
    <3>4. CASE J # {}
      <4>1. PICK j \in J : \A k \in J : j <= k
        <5>1. J \in SUBSET Nat OBVIOUS
        <5> HIDE DEF J
        <5>2. QED BY <3>4, <5>1, Least
      <4>2. j \in 0 .. n /\ j \in 0 .. request.depth - 1 /\ ~Walked(w[j])'
        BY <1>2
      <4> DEFINE v == [k \in 0 .. j |-> w[k]]
      <4>3. v \in Ways(AllLines, request.start, j) BY <1>2, <4>2, WayPart
      <4>4. v[j] = w[j] /\ \A k \in 0 .. j : v[k] = w[k] BY <4>2
      <4>5. ~Walked(v[j]) BY <1>3, <4>2, <4>4
      <4> HIDE DEF v
      <4>6. Pending(v, j) BY <4>2, <4>3, <4>5 DEF WalkComplete
      <4>7. PICK k \in 0 .. j, f \in E : f[1] = w[k] /\ f[2] <= k
        BY <4>4, <4>6 DEF Pending, E
      <4>8. CASE f # <<At, Depth>>
        <5>1. f \in E2 /\ k \in 0 .. n BY <1>1, <4>2, <4>8
        <5>2. QED BY <4>7, <5>1
      <4>9. CASE f = <<At, Depth>>
        <5>1. w[k] = At /\ Depth <= k BY <4>7, <4>9
        <5>2. k # j BY <1>3, <4>2, <5>1
        <5>3. j - 1 \in 0 .. n /\ j - 1 \in 0 .. n - 1 /\ (j - 1) + 1 = j /\ k < j
          BY <4>2, <5>2
        <5>4. j - 1 \notin J BY <4>1, <4>2, <5>3
        <5>5. Walked(w[j - 1])' BY <5>3, <5>4
        <5>6. PICK l \in AllLines : l.start = w[j - 1] /\ l.goal = w[j]
          BY <1>2, <5>3, WayEnds
        <5>7. l \in scope'
          <6>1. Covered(w[j - 1])' BY <1>5, <3>2, <5>5
          <6>2. QED BY <1>2, <5>6, <6>1 DEF Covered
        <5>8. w[j] \in visited' BY <1>4, <5>6, <5>7
        <5>9. PICK g \in E2 : g[1] = w[j] BY <4>2, <5>8 DEF Walked, E2
        <5>10. g[2] <= Depth + 1 /\ Depth + 1 <= j BY <1>1, <5>1, <5>3, <5>9
        <5>11. g[2] <= j
          <6>1. g[2] \in Nat BY <1>1, <5>9
          <6>2. QED BY <1>1, <4>2, <5>10, <6>1
        <5>12. QED BY <4>2, <5>9, <5>11
      <4>10. QED BY <4>8, <4>9
    <3>5. QED BY <3>3, <3>4
  <2>3. QED BY <1>7, <2>1, <2>2 DEF WalkComplete
<1>8. \A n \in 0 .. request'.depth - 1 : \A w \in Ways(AllLines', request'.start, n) :
        Pending(w, n)' \/ (Walked(w[n])' /\ Covered(w[n])')
  BY <1>1, <1>2, <1>7 DEF Pending, E2
<1>9. \/ \A c \in visited' : Walked(c)' => Covered(c)'
      \/ \A e \in E2 : e[2] >= request.depth
  BY <1>5, <1>6
<1>10. QED BY <1>1, <1>4, <1>8, <1>9 DEF WalkComplete, E2

\* The walk begins with the start alone.
LEMMA WalkStart ==
  ASSUME RulesInv, FoundInv, NEW s \in AllClasses, NEW d \in 0 .. MaxDepth, Neighbors(s, d)
  PROVE  (WalkShape /\ WalkSound /\ WalkComplete)'
<1>1. /\ s \in AllNodes /\ request' = [start |-> s, goals |-> {}, depth |-> d]
      /\ queue' = <<<<s, 0>>>> /\ visited' = {s} /\ scope' = {} /\ rules' = rules
  BY DEF Neighbors, FoundInv, Preparing, AllNodes, Go, buildVars
<1>2. AllLines' = AllLines /\ d \in Nat BY <1>1, SearchAssumption DEF AllLines, ToSet
<1>3. ToSet(queue)' = {<<s, 0>>} BY <1>1 DEF ToSet
<1>4. WalkShape' BY <1>1, <1>2 DEF WalkShape, AllNodes
<1>5. WalkSound'
  <2>1. \E w \in Ways(AllLines, s, 0) : w[0] = s BY WayZero
  <2>2. QED BY <1>1, <1>2, <1>3, <2>1 DEF WalkSound, Near
<1>6. WalkComplete'
  <2>1. ASSUME NEW n \in 0 .. d - 1, NEW w \in Ways(AllLines, s, n)
        PROVE  \E i \in 0 .. n : \E e \in {<<s, 0>>} : e[1] = w[i] /\ e[2] <= i
    <3>1. w[0] = s /\ 0 \in 0 .. n BY <1>2, WayEnds
    <3>2. QED BY <3>1
  <2>2. \A n \in 0 .. request'.depth - 1 : \A w \in Ways(AllLines', request'.start, n) : Pending(w, n)'
    BY <1>1, <1>2, <1>3, <2>1 DEF Pending
  <2>3. \A c \in visited' : ~Walked(c)' BY <1>1, <1>3 DEF Walked
  <2>4. QED BY <1>1, <2>2, <2>3 DEF WalkComplete
<1>7. QED BY <1>4, <1>5, <1>6

\* A step other than of the walk begins no walk but that of Neighbors, and changes
\* nothing that the scope of an answered request depends on.
LEMMA OtherSteps ==
  ASSUME [Next]_vars, ~Walk, ~EndWalk,
         ~ \E s \in AllClasses : \E d \in 0 .. MaxDepth : Neighbors(s, d)
  PROVE  \/ UNCHANGED vars
         \/ /\ phase' # "walk"
            /\ \/ /\ phase \in {"search", "done"}
                  /\ UNCHANGED <<rules, request, scope>>
               \/ phase' \notin {"search", "done"}
               \/ \E s \in AllClasses : \E gs \in (SUBSET AllClasses) \ {{}} : Goals(s, gs)
<1>1. CASE \/ BuildNext /\ UNCHANGED searchVars
           \/ \E classes : Refuse(classes)
  <2> USE DEF BuildNext, LoadNext, BuildStep, Skip, LoadFails, Load, Loading, Gather, GatherFails,
       Nest, ExpandRules, ExpandFails, Configure, ConfigureFails, AddBuiltIn, Built, AddRule,
       IgnoreRule, RejectRule, Building, Refuse, Go, Fail, loadVars
  <2>1. phase \in {"load", "nest", "configure", "build", "built"}
    BY <1>1
  <2>2. phase' = phase \/ phase' \in {"nest", "configure", "build", "built", "failed", "refused"}
    BY <1>1
  <2>3. QED BY <2>1, <2>2
<1>2. CASE StartQuery \/ (\E l \in scope : Follow(l)) \/ Finish
  BY <1>2 DEF StartQuery, Follow, Finish, Go, loadVars, buildVars
<1>3. ASSUME NEW s \in AllClasses, NEW gs \in (SUBSET AllClasses) \ {{}}, Goals(s, gs)
      PROVE  phase' = "search"
  BY <1>3 DEF Goals, Go
<1>4. QED BY <1>1, <1>2, <1>3 DEF Next

\* At the end of the walk the scope is what is near enough.
LEMMA WalkEnd ==
  ASSUME WalkSound, WalkComplete, queue = <<>>
  PROVE  scope = {l \in AllLines : \E n \in 0 .. request.depth - 1 :
                    \E w \in Ways(AllLines, request.start, n) : w[n] = l.start}
<1>1. ToSet(queue) = {} BY DEF ToSet
<1>2. ASSUME NEW l \in AllLines, NEW n \in 0 .. request.depth - 1,
             NEW w \in Ways(AllLines, request.start, n), w[n] = l.start
      PROVE  l \in scope
  <2>1. ~Pending(w, n) BY <1>1 DEF Pending
  <2>2. Covered(w[n]) BY <2>1 DEF WalkComplete
  <2>3. QED BY <1>2, <2>2 DEF Covered
<1>3. QED BY <1>2 DEF WalkSound, Near

LEMMA DistanceStep ==
  ASSUME RulesInv, FoundInv, WalkInv, ScopeByDistance, [Next]_vars
  PROVE  WalkInv' /\ ScopeByDistance'
<1>1. CASE Walk
  <2>1. phase = "walk" /\ phase' = "walk" BY <1>1 DEF Walk, loadVars
  <2>2. WalkShape' BY <1>1, <2>1, WalkQueue DEF WalkInv
  <2>3. WalkSound' BY <1>1, <2>1, SoundStep DEF WalkInv
  <2>4. WalkComplete' BY <1>1, <2>1, CompleteStep DEF WalkInv
  <2>5. QED BY <2>1, <2>2, <2>3, <2>4 DEF WalkInv, ScopeByDistance
<1>2. CASE EndWalk
  <2>1. /\ phase = "walk" /\ phase' = "search" /\ queue = <<>>
        /\ UNCHANGED <<rules, request, scope>>
    BY <1>2 DEF EndWalk, Go, buildVars
  <2>2. AllLines' = AllLines BY <2>1 DEF AllLines, ToSet
  <2>3. scope = {l \in AllLines : \E n \in 0 .. request.depth - 1 :
                    \E w \in Ways(AllLines, request.start, n) : w[n] = l.start}
    BY <2>1, WalkEnd DEF WalkInv
  <2>4. QED BY <2>1, <2>2, <2>3 DEF WalkInv, ScopeByDistance
<1>3. CASE \E s \in AllClasses : \E d \in 0 .. MaxDepth : Neighbors(s, d)
  <2>1. phase' = "walk" BY <1>3 DEF Neighbors, Go
  <2>2. QED BY <1>3, <2>1, WalkStart DEF WalkInv, ScopeByDistance
<1>4. CASE UNCHANGED vars
  <2>1. AllLines' = AllLines BY <1>4 DEF vars, buildVars, AllLines, ToSet
  <2>2. UNCHANGED <<rules, phase, request, queue, visited, scope>>
    BY <1>4 DEF vars, loadVars, buildVars, searchVars
  <2>3. ScopeByDistance' BY <2>1, <2>2 DEF ScopeByDistance
  <2>4. ToSet(queue)' = ToSet(queue) BY <2>2 DEF ToSet
  <2>5. (WalkShape => WalkShape') /\ (WalkSound => WalkSound') /\ (WalkComplete => WalkComplete')
    BY <2>1, <2>2, <2>4 DEF WalkShape, WalkSound, WalkComplete, AllNodes, Near, Pending, Walked, Covered
  <2>6. QED BY <2>2, <2>3, <2>5 DEF WalkInv
<1>5. CASE ~Walk /\ ~EndWalk /\ ~(UNCHANGED vars)
           /\ ~ \E s \in AllClasses : \E d \in 0 .. MaxDepth : Neighbors(s, d)
  <2>1. /\ phase' # "walk"
        /\ \/ /\ phase \in {"search", "done"}
              /\ UNCHANGED <<rules, request, scope>>
           \/ phase' \notin {"search", "done"}
           \/ \E s \in AllClasses : \E gs \in (SUBSET AllClasses) \ {{}} : Goals(s, gs)
    BY <1>5, OtherSteps
  <2>2. CASE phase \in {"search", "done"} /\ UNCHANGED <<rules, request, scope>>
    <3>1. AllLines' = AllLines BY <2>2 DEF AllLines, ToSet
    <3>2. QED BY <2>1, <2>2, <3>1 DEF WalkInv, ScopeByDistance
  <2>3. CASE phase' \notin {"search", "done"} BY <2>1, <2>3 DEF WalkInv, ScopeByDistance
  <2>4. CASE \E s \in AllClasses : \E gs \in (SUBSET AllClasses) \ {{}} : Goals(s, gs)
    <3>1. PICK s \in AllClasses, gs \in (SUBSET AllClasses) \ {{}} : Goals(s, gs) BY <2>4
    <3>2. request' = [start |-> s, goals |-> gs, depth |-> 0] BY <3>1 DEF Goals
    <3>3. gs # {} BY <3>1
    <3>4. request'.goals = gs BY <3>2
    <3>5. request'.goals # {} BY <3>3, <3>4
    <3>6. QED BY <2>1, <3>5 DEF WalkInv, ScopeByDistance
  <2>5. QED BY <2>1, <2>2, <2>3, <2>4
<1>6. QED BY <1>1, <1>2, <1>3, <1>4, <1>5

\* The walk of neighborScope, which compares a depth that another callback has
\* left, puts exactly the lines in scope that begin fewer steps from the start than
\* the request's depth, for any rules, in whatever order it meets the classes.
THEOREM ScopeByDistanceAlways == Spec => []ScopeByDistance
<1>1. Init => WalkInv /\ ScopeByDistance
  BY DEF Init, LoadInit, WalkInv, ScopeByDistance
<1>2. QED BY <1>1, FoundInvariant, DistanceStep, PTL DEF Spec

================================================================================
