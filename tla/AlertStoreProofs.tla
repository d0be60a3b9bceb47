---------------------------- MODULE AlertStoreProofs ----------------------------
(***************************************************************************)
(* Theorems about the alert store: what it finds is an alert of a service  *)
(* that was asked for, and what the rules answered is kept, whatever fails *)
(* and whenever the review of the user's access expires.                   *)
(***************************************************************************)
EXTENDS AlertStore, WellFoundedInduction, TLAPS

--------------------------------------------------------------------------------
(* Lists of objects.                                                       *)

IsObject(o) ==
  o = [labels |-> o.labels, starts |-> o.starts, ends |-> o.ends, receivers |-> o.receivers,
       from |-> o.from, id |-> o.id]

\* A set of positions has a first.
LEMMA First ==
  ASSUME NEW T \in SUBSET Nat, T # {}
  PROVE  \E n \in T : \A m \in T : ~(m < n)
<1> DEFINE R == OpToRel(<, Nat)
<1>1. \A x, y \in Nat : x < y => <<x, y>> \in R BY DEF OpToRel
<1>2. IsWellFoundedOn(R, Nat) BY NatLessThanWellFounded
<1> HIDE DEF R
<1>3. PICK n \in T : \A m \in T : ~(<<m, n>> \in R) BY <1>2, WFMin
<1>4. ASSUME NEW m \in T PROVE ~(m < n) BY <1>1, <1>3
<1>5. QED BY <1>4

\* Alertmanager gives an object times and receivers; it stays the alert that it was.
LEMMA AugmentIs ==
  ASSUME NEW o, IsObject(o), NEW payload
  PROVE  /\ Augment(o, payload).labels = o.labels /\ Augment(o, payload).id = o.id
         /\ (\A i \in payload : ~Shares(o.labels, Managed[i])) => Augment(o, payload) = o
<1> DEFINE sharing == {i \in payload : Shares(o.labels, Managed[i])}
           last == CHOOSE i \in sharing : \A j \in sharing : j <= i
           all == UNION {Managed[i].receivers : i \in sharing}
<1>1. Augment(o, payload) =
        IF sharing = {} THEN o
        ELSE [o EXCEPT !.starts = Managed[last].starts, !.ends = Managed[last].ends,
                       !.from = last, !.receivers = all]
  BY DEF Augment
<1>2. (\A i \in payload : ~Shares(o.labels, Managed[i])) => sharing = {} OBVIOUS
<1> HIDE DEF sharing, last, all
<1>3. QED BY <1>1, <1>2 DEF IsObject

\* What is taken is on the list and within the interval.
LEMMA TakenListed ==
  ASSUME NEW list, NEW x \in Taken(list)
  PROVE  InInterval(x) /\ \E i \in DOMAIN list : x = list[i]
BY DEF Taken

\* Of each ID within the interval there is an object when the list has been taken.
LEMMA TakenKeeps ==
  ASSUME NEW list, DOMAIN list \subseteq Nat, NEW i \in DOMAIN list, InInterval(list[i])
  PROVE  \E o \in result \cup Taken(list) : o.id = list[i].id
<1> DEFINE New(k) == InInterval(list[k]) /\ \A o \in result : o.id # list[k].id
           Same == {k \in DOMAIN list : New(k) /\ list[k].id = list[i].id}
<1>1. CASE \E o \in result : o.id = list[i].id BY <1>1
<1>2. CASE \A o \in result : o.id # list[i].id
  <2>1. i \in Same BY <1>2
  <2>2. Same \in SUBSET Nat OBVIOUS
  <2>3. PICK k \in Same : \A j \in Same : ~(j < k) BY <2>1, <2>2, First
  <2>4. \A j \in DOMAIN list : j < k /\ New(j) => list[j].id # list[k].id BY <2>3
  <2>5. list[k] \in Taken(list) BY <2>3, <2>4 DEF Taken
  <2>6. QED BY <2>3, <2>5
<1>3. QED BY <1>1, <1>2
--------------------------------------------------------------------------------
(* The invariant.                                                          *)

\* An object is an alert of a service that matches a label set of a query; its ID is
\* empty or tells it from alerts with other labels.
Genuine(o) ==
  /\ InInterval(o)
  /\ \E a \in RuleAlerts \cup ManagedAlerts : a.labels = o.labels
  /\ \E q \in Queries : \E i \in DOMAIN q : \A k \in DOMAIN q[i] : Label(o, k) = q[i][k]
  /\ o.id \in {NoID, {o.labels}}

\* An alert is among the results, or there is a reason why not.
Kept(a) ==
  \/ \E o \in result : o.labels = a.labels
  \/ a.starts = "after"
  \/ asked /\ \E b \in ManagedAlerts : Shares(a.labels, b)

\* What has been answered is at hand; and what matches a label set that has been
\* gone through has been kept.
AlertInv ==
  /\ review \in {"unknown", IF allowed THEN "granted" ELSE "denied"}
  /\ todo \subseteq Queries
  /\ pc # "idle" => query \in Queries
  /\ rules \subseteq RuleAlerts /\ got = rules
  /\ \A o \in result : Genuine(o)
  /\ pc = "sub" =>
       /\ sub \in 1 .. Len(query) + 1
       /\ \A i \in 1 .. sub - 1 : \A a \in got : Matches(query[i], a) => Kept(a)
  /\ RuleAlertsKept

LEMMA QueryLists ==
  ASSUME NEW q \in Queries
  PROVE  Len(q) \in Nat /\ DOMAIN q = 1 .. Len(q)
<1>1. q \in Seq(ToSet(q)) BY AlertAssumption
<1>2. QED BY <1>1

\* What matches stays matching as an object, which has the labels of an alert.
LEMMA MatchingGenuine ==
  ASSUME NEW o, InInterval(o), NEW a \in RuleAlerts \cup ManagedAlerts, o.labels = a.labels,
         o.id \in {NoID, {o.labels}}, NEW q \in Queries, NEW i \in DOMAIN q, Matches(q[i], a)
  PROVE  Genuine(o)
<1>1. \A k \in DOMAIN q[i] : Label(o, k) = q[i][k] BY DEF Matches, Label
<1>2. \E b \in RuleAlerts \cup ManagedAlerts : b.labels = o.labels OBVIOUS
<1>3. QED BY <1>1, <1>2 DEF Genuine

\* A label set is gone through: with what Alertmanager answered, or without.
LEMMA CollectStep ==
  ASSUME AlertInv, pc = "sub", sub \in DOMAIN query, NEW payload, Collect(payload),
         payload \subseteq DOMAIN Managed, \A i \in payload : Matches(query[sub], Managed[i]),
         payload # {} => asked', asked => asked'
  PROVE  /\ result \subseteq result'
         /\ \A o \in result' : Genuine(o)
         /\ \A a \in rules : Matches(query[sub], a) => Kept(a)'
<1> DEFINE matching == {a \in rules : Matches(query[sub], a)}
<1>1. query \in Queries /\ rules \subseteq RuleAlerts /\ \A o \in result : Genuine(o)
  BY DEF AlertInv
<1>2. CASE matching # {}
  <2>1. PICK list \in Orders(matching) :
          result' = result \cup Taken([i \in DOMAIN list |-> Augment(RuleObject(list[i]), payload)])
    BY <1>2 DEF Collect
  <2> DEFINE made == [i \in DOMAIN list |-> Augment(RuleObject(list[i]), payload)]
  <2>2. /\ list \in [1 .. Cardinality(matching) -> matching]
        /\ {list[i] : i \in DOMAIN list} = matching
    BY <2>1 DEF Orders, ToSet
  <2>3. DOMAIN list = 1 .. Cardinality(matching) /\ DOMAIN list \subseteq Nat BY <2>2
  <2>4. /\ DOMAIN made = DOMAIN list
        /\ \A i \in DOMAIN list : made[i] = Augment(RuleObject(list[i]), payload)
    OBVIOUS
  <2> HIDE DEF made
  <2>5. \A i \in DOMAIN list : list[i] \in matching BY <2>2, <2>3
  <2>6. ASSUME NEW i \in DOMAIN list
        PROVE  made[i].labels = list[i].labels /\ made[i].id = {list[i].labels}
    <3> DEFINE o == RuleObject(list[i])
    <3>1. IsObject(o) /\ o.labels = list[i].labels /\ o.id = {list[i].labels}
      BY DEF RuleObject, IsObject
    <3> HIDE DEF o
    <3>2. Augment(o, payload).labels = o.labels /\ Augment(o, payload).id = o.id
      BY <3>1, AugmentIs
    <3>3. made[i] = Augment(o, payload) BY <2>4 DEF o
    <3>4. QED BY <3>1, <3>2, <3>3
  <2>7. result' = result \cup Taken(made) BY <2>1 DEF made
  <2>8. ASSUME NEW x \in Taken(made) PROVE Genuine(x)
    <3>1. InInterval(x) BY TakenListed
    <3>2. PICK i \in DOMAIN list : x = made[i] BY TakenListed, <2>4
    <3>3. /\ list[i] \in RuleAlerts \cup ManagedAlerts /\ Matches(query[sub], list[i])
          /\ x.labels = list[i].labels /\ x.id \in {NoID, {x.labels}}
      BY <1>1, <2>5, <2>6, <3>2
    <3>4. QED BY <1>1, <3>1, <3>3, MatchingGenuine
  <2>9. ASSUME NEW a \in rules, Matches(query[sub], a) PROVE Kept(a)'
    <3>1. PICK i \in DOMAIN list : list[i] = a BY <2>2, <2>9
    <3>2. CASE InInterval(made[i])
      <4>1. PICK o \in result' : o.id = made[i].id BY <2>3, <2>4, <2>7, <3>2, TakenKeeps
      <4>2. o.id = {a.labels} BY <2>6, <3>1, <4>1
      <4>3. Genuine(o) BY <1>1, <2>7, <2>8, <4>1
      <4>4. o.labels = a.labels BY <4>2, <4>3 DEF Genuine, NoID
      <4>5. QED BY <4>1, <4>4 DEF Kept
    <3>3. CASE ~InInterval(made[i]) /\ \A k \in payload : ~Shares(a.labels, Managed[k])
      <4> DEFINE o == RuleObject(a)
      <4>1. /\ IsObject(o) /\ o.labels = a.labels
            /\ o.starts = a.starts /\ o.ends = NoTime
        BY DEF RuleObject, IsObject
      <4>2. made[i] = Augment(o, payload) BY <2>4, <3>1
      <4> HIDE DEF o
      <4>3. Augment(o, payload) = o BY <3>3, <4>1, AugmentIs
      <4>4. o.starts = "after" BY <3>3, <4>1, <4>2, <4>3 DEF InInterval, NoTime
      <4>5. QED BY <4>1, <4>4 DEF Kept
    <3>4. CASE \E k \in payload : Shares(a.labels, Managed[k])
      <4>1. asked' BY <3>4
      <4>2. \E b \in ManagedAlerts : Shares(a.labels, b) BY <3>4 DEF ManagedAlerts
      <4>3. QED BY <4>1, <4>2 DEF Kept
    <3>5. QED BY <3>2, <3>3, <3>4
  <2>10. QED BY <1>1, <2>7, <2>8, <2>9
<1>3. CASE matching = {}
  <2> DEFINE made == [i \in payload |-> Augment(FallbackObject(Managed[i]), payload)]
  <2>1. result' = result \cup Taken(made) BY <1>3 DEF Collect
  <2>2. DOMAIN made = payload /\ \A i \in payload : made[i] = Augment(FallbackObject(Managed[i]), payload)
    OBVIOUS
  <2> HIDE DEF made
  <2>3. ASSUME NEW x \in Taken(made) PROVE Genuine(x)
    <3>1. InInterval(x) BY TakenListed
    <3>2. PICK i \in payload : x = made[i] BY TakenListed, <2>2
    <3> DEFINE o == FallbackObject(Managed[i])
    <3>3. IsObject(o) /\ o.labels = Managed[i].labels /\ o.id = NoID
      BY DEF FallbackObject, IsObject
    <3>4. x = Augment(o, payload) BY <2>2, <3>2
    <3> HIDE DEF o
    <3>5. x.labels = Managed[i].labels /\ x.id = NoID BY <3>3, <3>4, AugmentIs
    <3>6. Managed[i] \in RuleAlerts \cup ManagedAlerts /\ Matches(query[sub], Managed[i])
      BY <3>2 DEF ManagedAlerts
    <3>7. QED BY <1>1, <3>1, <3>5, <3>6, MatchingGenuine
  <2>4. \A a \in rules : ~Matches(query[sub], a) BY <1>3
  <2>5. QED BY <1>1, <2>1, <2>3, <2>4
<1>4. QED BY <1>2, <1>3
--------------------------------------------------------------------------------
(* The steps.                                                              *)

\* A review that fails is not remembered.
LEMMA CheckStep ==
  ASSUME NEW access, Check(access), UNCHANGED allowed,
         review \in {"unknown", IF allowed THEN "granted" ELSE "denied"}
  PROVE  review' \in {"unknown", IF allowed' THEN "granted" ELSE "denied"}
BY DEF Check

LEMMA AlertStart == Init => AlertInv
BY DEF Init, AlertInv, RuleAlertsKept

\* Steps of a Get before its label sets: a service answers, or does not.
LEMMA AskingStep ==
  ASSUME AlertInv, UNCHANGED <<allowed, query, result>>, todo' \subseteq todo,
         pc # "idle", pc' \notin {"idle", "sub"},
         review' \in {"unknown", IF allowed' THEN "granted" ELSE "denied"},
         \/ UNCHANGED <<rules, got>>
         \/ \E alerts \in SUBSET RuleAlerts : Answer(alerts)
  PROVE  AlertInv'
<1>1. \A o : Genuine(o)' = Genuine(o) BY DEF Genuine, Label, InInterval
<1>2. rules' \subseteq RuleAlerts /\ got' = rules' BY DEF AlertInv, Answer
<1>3. (\A o \in result : Genuine(o))' BY <1>1 DEF AlertInv
<1>4. RuleAlertsKept' BY DEF RuleAlertsKept
<1>5. QED BY <1>2, <1>3, <1>4 DEF AlertInv

\* Every step keeps the invariant.
LEMMA AlertStep ==
  ASSUME AlertInv, [Next]_vars
  PROVE  AlertInv'
<1>g. \A o : Genuine(o)' = Genuine(o) BY DEF Genuine, Label, InInterval
<1>p. PromAlerts \subseteq RuleAlerts /\ \A t \in Tenant : LokiAlerts[t] \subseteq RuleAlerts
  BY DEF RuleAlerts
<1>n. \A alerts, q : InNamespaces(alerts, q) \subseteq alerts BY DEF InNamespaces
<1>0. SUFFICES ASSUME Next \/ UNCHANGED vars PROVE AlertInv'
  OBVIOUS
<1>1. CASE Reviewed \/ Expire \/ UNCHANGED vars
  <2>1. /\ UNCHANGED <<allowed, todo, pc, query, rules, sub, got, asked, result>>
        /\ review' \in {"unknown", IF allowed' THEN "granted" ELSE "denied"}
    <3>1. review \in {"unknown", IF allowed THEN "granted" ELSE "denied"} BY DEF AlertInv
    <3>2. CASE Reviewed BY <3>1, <3>2, CheckStep DEF Reviewed
    <3>3. CASE Expire BY <3>3 DEF Expire
    <3>4. CASE UNCHANGED vars BY <3>1, <3>4 DEF vars
    <3>5. QED BY <1>1, <3>2, <3>3, <3>4
  <2>2. \A a : Kept(a)' = Kept(a) BY <2>1 DEF Kept
  <2>3. RuleAlertsKept' BY <2>1 DEF AlertInv, RuleAlertsKept
  <2>4. (\A o \in result : Genuine(o))' BY <1>g, <2>1 DEF AlertInv
  <2>5. QED BY <2>1, <2>2, <2>3, <2>4 DEF AlertInv
<1>2. ASSUME NEW q \in todo, Get(q) PROVE AlertInv'
  <2>1. review' \in {"unknown", IF allowed' THEN "granted" ELSE "denied"}
    BY <1>2, CheckStep DEF Get, AlertInv
  <2>2. (\A o \in result : Genuine(o))' BY <1>g, <1>2 DEF AlertInv, Get
  <2>3. RuleAlertsKept' BY <1>2 DEF Get, RuleAlertsKept
  <2>4. todo' \subseteq Queries /\ query' \in Queries /\ rules' = {} /\ got' = {} /\ pc' = "rules"
    BY <1>2 DEF Get, AlertInv
  <2>5. QED BY <2>1, <2>2, <2>3, <2>4 DEF AlertInv
<1>3. CASE QueryRules
  <2>1. review' \in {"unknown", IF allowed' THEN "granted" ELSE "denied"}
    BY <1>3, CheckStep DEF QueryRules, AlertInv
  <2>2. pc = "rules" /\ pc' \in {"loki", "namespaced"} BY <1>3 DEF QueryRules, ToLoki
  <2>3. UNCHANGED <<rules, got>> \/ Answer(PromAlerts) BY <1>3 DEF QueryRules, Failure
  <2>4. UNCHANGED <<allowed, query, result, todo>> BY <1>3 DEF QueryRules
  <2>5. QED BY <1>p, <2>1, <2>2, <2>3, <2>4, AskingStep
<1>4. CASE QueryNamespacedRules
  <2>1. review' \in {"unknown", IF allowed' THEN "granted" ELSE "denied"}
    <3>1. CASE Namespaces(query) = {} BY <1>4, <3>1 DEF QueryNamespacedRules, AlertInv
    <3>2. CASE Namespaces(query) # {}
      BY <1>4, <3>2, CheckStep DEF QueryNamespacedRules, AlertInv
    <3>3. QED BY <3>1, <3>2
  <2>2. pc = "namespaced" /\ pc' = "loki" BY <1>4 DEF QueryNamespacedRules, ToLoki
  <2>3. UNCHANGED <<rules, got>> \/ \E alerts \in SUBSET RuleAlerts : Answer(alerts)
    <3>1. \/ UNCHANGED <<rules, got>> \/ Answer(PromAlerts)
          \/ Answer(InNamespaces(PromAlerts, query))
      BY <1>4 DEF QueryNamespacedRules, Failure
    <3>2. InNamespaces(PromAlerts, query) \subseteq RuleAlerts BY <1>p, <1>n
    <3>3. QED BY <1>p, <3>1, <3>2
  <2>4. UNCHANGED <<allowed, query, result, todo>> BY <1>4 DEF QueryNamespacedRules
  <2>5. QED BY <2>1, <2>2, <2>3, <2>4, AskingStep
<1>5. ASSUME NEW t \in Tenant, QueryLoki(t) PROVE AlertInv'
  <2>1. UNCHANGED <<rules, got>> \/ Answer(InNamespaces(LokiAlerts[t], query))
    BY <1>5 DEF QueryLoki, Failure
  <2>2. InNamespaces(LokiAlerts[t], query) \subseteq RuleAlerts BY <1>p, <1>n
  <2>3. UNCHANGED <<allowed, query, result, todo, review>> /\ pc = "loki" /\ pc' = "loki"
    BY <1>5 DEF QueryLoki
  <2>4. review' \in {"unknown", IF allowed' THEN "granted" ELSE "denied"} BY <2>3 DEF AlertInv
  <2>5. QED BY <2>1, <2>2, <2>3, <2>4, AskingStep
<1>6. CASE ChooseAlertmanager
  <2>1. review' \in {"unknown", IF allowed' THEN "granted" ELSE "denied"}
    BY <1>6, CheckStep DEF ChooseAlertmanager, AlertInv
  <2>2. (\A o \in result : Genuine(o))' BY <1>g, <1>6 DEF AlertInv, ChooseAlertmanager
  <2>3. RuleAlertsKept' BY <1>6 DEF ChooseAlertmanager, RuleAlertsKept
  <2>4. /\ UNCHANGED <<todo, query, rules, got>> /\ query \in Queries /\ sub' = 1 /\ pc' = "sub"
    BY <1>6 DEF ChooseAlertmanager, AlertInv
  <2>5. sub' \in 1 .. Len(query') + 1 /\ 1 .. sub' - 1 = {} BY <2>4, QueryLists
  <2>6. QED BY <2>1, <2>2, <2>3, <2>4, <2>5 DEF AlertInv
<1>7. CASE Subquery
  <2>1. /\ pc = "sub" /\ pc' = "sub" /\ sub \in DOMAIN query /\ sub' = sub + 1
        /\ UNCHANGED <<allowed, todo, review, query, rules, got>>
    BY <1>7 DEF Subquery
  <2>2. /\ result \subseteq result'
        /\ asked => asked'
        /\ \A o \in result' : Genuine(o)
        /\ \A a \in rules : Matches(query[sub], a) => Kept(a)'
    <3>1. CASE Collect({}) /\ UNCHANGED asked BY <2>1, <3>1, CollectStep
    <3>2. CASE Collect(Payload(query[sub])) /\ asked' = TRUE
      <4>1. /\ Payload(query[sub]) \subseteq DOMAIN Managed
            /\ \A i \in Payload(query[sub]) : Matches(query[sub], Managed[i])
        BY DEF Payload
      <4>2. QED BY <2>1, <3>2, <4>1, CollectStep
    <3>3. QED BY <1>7, <3>1, <3>2 DEF Subquery
  <2>3. /\ query \in Queries /\ got = rules
        /\ \A i \in 1 .. sub - 1 : \A a \in got : Matches(query[i], a) => Kept(a)
    BY <2>1 DEF AlertInv
  <2>4. Len(query) \in Nat /\ DOMAIN query = 1 .. Len(query) BY <2>3, QueryLists
  <2>5. \A a : Kept(a) => Kept(a)' BY <2>2 DEF Kept
  <2>6. 1 .. sub' - 1 = (1 .. sub - 1) \cup {sub} /\ sub' \in 1 .. Len(query) + 1 BY <2>1, <2>4
  <2>7. \A i \in 1 .. sub' - 1 : \A a \in got' : Matches(query'[i], a) => Kept(a)'
    BY <2>1, <2>2, <2>3, <2>5, <2>6
  <2>8. (\A o \in result : Genuine(o))' BY <1>g, <2>2
  <2>9. RuleAlertsKept' BY <2>1 DEF RuleAlertsKept
  <2>10. \A i, a : Matches(query[i], a)' = Matches(query'[i], a) BY DEF Matches, Label
  <2>11. QED BY <2>1, <2>6, <2>7, <2>8, <2>9, <2>10 DEF AlertInv
<1>8. CASE Return
  <2>1. /\ pc = "sub" /\ pc' = "idle" /\ sub \notin DOMAIN query
        /\ UNCHANGED <<allowed, todo, review, query, rules, got, asked, result>>
    BY <1>8 DEF Return
  <2>2. /\ query \in Queries /\ sub \in 1 .. Len(query) + 1
        /\ \A i \in 1 .. sub - 1 : \A a \in got : Matches(query[i], a) => Kept(a)
    BY <2>1 DEF AlertInv
  <2>3. Len(query) \in Nat /\ DOMAIN query = 1 .. Len(query) BY <2>2, QueryLists
  <2>4. DOMAIN query = 1 .. sub - 1 BY <2>1, <2>2, <2>3
  <2>5. \A a \in got : (\E i \in DOMAIN query : Matches(query[i], a)) => Kept(a) BY <2>2, <2>4
  <2>6. \A a : (\A i : Matches(query[i], a)' = Matches(query[i], a)) /\ Kept(a)' = Kept(a)
    BY <2>1 DEF Kept, Matches, ManagedAlerts, Shares, Label
  <2>7. (\A a \in got : (\E i \in DOMAIN query : Matches(query[i], a)) => Kept(a))'
    BY <2>1, <2>5, <2>6
  <2>8. RuleAlertsKept' BY <2>7 DEF RuleAlertsKept, Kept
  <2>9. (\A o \in result : Genuine(o))' BY <1>g, <2>1 DEF AlertInv
  <2>10. QED BY <2>1, <2>8, <2>9 DEF AlertInv
<1>9. QED BY <1>0, <1>1, <1>2, <1>3, <1>4, <1>5, <1>6, <1>7, <1>8 DEF Next

\* AlertInv holds throughout a search, whichever calls fail.
THEOREM AlertInvariant == Spec => []AlertInv
<1>1. AlertInv /\ [Next]_vars => AlertInv' BY AlertStep
<1>2. QED BY <1>1, AlertStart, PTL DEF Spec

\* For any alerts of any services and any queries, a search holds nothing as an alert
\* but alerts of the services, within the interval, that match its queries, and the
\* cached review of the user's access (CanAccessPrometheusAPI) is never wrong.
THEOREM SoundAlways == Spec => []Sound
<1>1. AlertInv => Sound BY DEF AlertInv, Genuine, Sound
<1>2. QED BY <1>1, AlertInvariant, PTL

\* However the calls of a Get fail and the review of the user's access changes, no
\* matching alert that the rules were answered with is lost (Store.Get).
THEOREM RuleAlertsKeptAlways == Spec => []RuleAlertsKept
<1>1. AlertInv => RuleAlertsKept BY DEF AlertInv
<1>2. QED BY <1>1, AlertInvariant, PTL
================================================================================
