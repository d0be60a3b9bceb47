------------------------------- MODULE AlertStore ------------------------------
(***************************************************************************)
(* The alert store: one Get after another for the queries of a search, and *)
(* the node's set of results they go into.  A Get asks three services, all *)
(* optional: the rules API of Prometheus, on a port that depends on the    *)
(* user's access; the rules API of Loki, once per tenant; and Alertmanager,*)
(* whose alerts complete those of the rules, or replace them when there    *)
(* are none.  Each call may fail, the reviews of the user's access too.    *)
(*                                                                         *)
(* An alert is its labels and its start and end relative to the constraint *)
(* interval; annotations, values and status are left out.                  *)
(***************************************************************************)
EXTENDS Integers, Sequences, FiniteSets, SequencesExt

CONSTANTS
  Queries,      \* the queries of the search: each a sequence of label sets
  PromAlerts,   \* the alerts of Prometheus: [labels, starts]
  Tenant,
  LokiAlerts,   \* tenant -> the alerts of Loki: [labels, starts]
  Managed       \* the alerts of Alertmanager, in its order: [labels, starts, ends, receivers]

ASSUME AlertAssumption ==
  /\ \A q \in Queries : q \in Seq(ToSet(q))
  /\ Managed \in Seq(ToSet(Managed))

VARIABLES
  allowed,      \* the user has cluster-wide access; does not change
  review,       \* rbacCache for the user's token: "unknown", "granted" or "denied"
  todo,         \* the queries the search has not executed yet: it executes each once
  pc, query,    \* where Get is, and its query
  port,         \* the port of the Prometheus client: "full" or "tenancy"
  tenants,      \* the Loki tenants still to ask
  rules,        \* the alerts of the rules found so far
  am,           \* the port of the Alertmanager client: "full" or "tenancy"
  sub,          \* the label set of the query that is next
  got,          \* history: the alerts of rules that were answered in this Get
  asked,        \* history: Alertmanager answered in this Get
  result        \* result.Set of the node: a set of objects

vars == <<allowed, review, todo, pc, query, port, tenants, rules, am, sub, got, asked, result>>

NoQuery == <<>>
NoID == {}
NoTime == "zero"

Label(a, k) == IF k \in DOMAIN a.labels THEN a.labels[k] ELSE ""
\* They share a label.  Mutant of Matches: any label of the query will do.
Shares(labels, a) == \E k \in DOMAIN labels : Label(a, k) = labels[k]
\* matchesSubquery
Matches(labels, a) == \A k \in DOMAIN labels : Label(a, k) = labels[k]

\* extractNamespacesFromQuery
Namespaces(q) == {Label([labels |-> q[i]], "namespace") : i \in DOMAIN q} \ {""}
InNamespaces(alerts, q) == {a \in alerts : Label(a, "namespace") \in Namespaces(q)}

\* An alert of a rule; its fingerprint is a hash of all its labels.
RuleObject(a) ==
  [labels |-> a.labels, starts |-> a.starts, ends |-> NoTime, receivers |-> {}, from |-> 0, id |-> {a.labels}]
\* An alert that only Alertmanager has: the fingerprint is left empty.
FallbackObject(a) ==
  [labels |-> a.labels, starts |-> NoTime, ends |-> NoTime, receivers |-> {}, from |-> 0, id |-> NoID]

\* augmentAlert, with the alerts of Alertmanager at some positions: `continue'
\* skips the label, not the alert, so each alert that shares a label overwrites the
\* times, and the last one stays.  `from' is that alert's position.
Augment(o, payload) ==
  LET sharing == {i \in payload : Shares(o.labels, Managed[i])}
      last == CHOOSE i \in sharing : \A j \in sharing : j <= i
  IN  IF sharing = {} THEN o
      ELSE [o EXCEPT !.starts = Managed[last].starts, !.ends = Managed[last].ends, !.from = last,
                     !.receivers = UNION {Managed[i].receivers : i \in sharing}]

\* Constraint.CompareTime on both times: zero times are in every interval.
InInterval(o) == o.starts # "after" /\ o.ends # "before"

\* Of a list of objects, those that are appended (Get) and that result.Set.Add takes:
\* an object with the ID of an earlier one is ignored.
Taken(list) ==
  LET New(i) == InInterval(list[i]) /\ \A o \in result : o.id # list[i].id
  IN  {list[i] : i \in {k \in DOMAIN list :
         New(k) /\ \A j \in DOMAIN list : j < k /\ New(j) => list[j].id # list[k].id}}
--------------------------------------------------------------------------------
Init ==
  /\ allowed \in BOOLEAN
  /\ review = "unknown"
  /\ todo = Queries
  /\ pc = "idle"
  /\ query = NoQuery
  /\ port = "full"
  /\ tenants = {}
  /\ rules = {}
  /\ am = "full"
  /\ sub = 0
  /\ got = {}
  /\ asked = FALSE
  /\ result = {}

\* CanAccessPrometheusAPI: the cached answer, or a review, whose failure counts
\* as a refusal for now and is not cached.
Check(access) ==
  IF review # "unknown" THEN access = (review = "granted") /\ UNCHANGED review
  ELSE \/ access = allowed /\ review' = (IF allowed THEN "granted" ELSE "denied")
       \/ access = FALSE /\ UNCHANGED review

\* Another request of the same user has the access reviewed: the cache is the
\* process's, and the metric store uses it too.
Reviewed ==
  /\ review = "unknown"
  /\ \E access \in BOOLEAN : Check(access)
  /\ UNCHANGED <<allowed, todo, pc, query, port, tenants, rules, am, sub, got, asked, result>>

\* The entry of the cache expires, at any time.
Expire ==
  /\ review # "unknown"
  /\ review' = "unknown"
  /\ UNCHANGED <<allowed, todo, pc, query, port, tenants, rules, am, sub, got, asked, result>>

\* Get begins with the Prometheus client, for the port of EffectiveURL.
Get(q) ==
  /\ pc = "idle"
  /\ todo' = todo \ {q}
  /\ query' = q
  /\ \E access \in BOOLEAN : Check(access) /\ port' = IF access THEN "full" ELSE "tenancy"
  /\ pc' = "rules"
  /\ rules' = {}
  /\ got' = {}
  /\ asked' = FALSE
  /\ UNCHANGED <<allowed, tenants, am, sub, result>>

Answer(alerts) == rules' = rules \cup alerts /\ got' = got \cup alerts
Failure == UNCHANGED <<rules, got>>     \* an error is logged and leaves no rules

ToLoki == tenants' = (IF Namespaces(query) = {} THEN {} ELSE Tenant) /\ pc' = "loki"

\* With access, all rules are asked for: without namespaces, which the tenancy
\* port refuses.
QueryRules ==
  /\ pc = "rules"
  /\ \E access \in BOOLEAN :
       /\ Check(access)
       /\ IF access
          THEN ToLoki /\ (Failure \/ (port = "full" /\ Answer(PromAlerts)))
          ELSE Failure /\ pc' = "namespaced" /\ UNCHANGED tenants
  /\ UNCHANGED <<allowed, todo, query, port, am, sub, asked, result>>

\* Without, those of the namespaces of the query: only if it has any, and
\* after one more look at the user's access for the port.
QueryNamespacedRules ==
  /\ pc = "namespaced"
  /\ IF Namespaces(query) = {} THEN Failure /\ UNCHANGED review
     ELSE \E access \in BOOLEAN :
            /\ Check(access)
            /\ Failure \/ Answer(IF access THEN PromAlerts ELSE InNamespaces(PromAlerts, query))
  /\ ToLoki
  /\ UNCHANGED <<allowed, todo, query, port, am, sub, asked, result>>

\* getLokiRules: a tenant that fails is skipped.
\* Mutant: its failure ends the round and leaves no rules of Loki or Prometheus.
QueryLokiAll(t) ==
  /\ pc = "loki"
  /\ t \in tenants
  /\ \/ Answer(InNamespaces(LokiAlerts[t], query)) /\ tenants' = tenants \ {t}
     \/ rules' = {} /\ tenants' = {} /\ UNCHANGED got
  /\ UNCHANGED <<allowed, todo, review, pc, query, port, am, sub, asked, result>>
QueryLoki(t) ==
  /\ pc = "loki"
  /\ t \in tenants
  /\ Answer(InNamespaces(LokiAlerts[t], query)) \/ Failure
  /\ tenants' = tenants \ {t}
  /\ UNCHANGED <<allowed, todo, review, pc, query, port, am, sub, asked, result>>

\* alertmanagerAPIForAccess
ChooseAlertmanager ==
  /\ pc = "loki"
  /\ tenants = {}
  /\ \E access \in BOOLEAN : Check(access) /\ am' = IF access THEN "full" ELSE "tenancy"
  /\ sub' = 1
  /\ pc' = "sub"
  /\ UNCHANGED <<allowed, todo, query, port, tenants, rules, got, asked, result>>

\* The tenancy port requires a namespace.
Answers == am = "full" \/ Namespaces(query) # {}

\* The alerts Alertmanager answers a label set with, by their positions.
Payload(labels) ==
  {i \in DOMAIN Managed :
     /\ Matches(labels, Managed[i])
     /\ am = "tenancy" => Label(Managed[i], "namespace") \in Namespaces(query)}

Orders(S) == {list \in [1 .. Cardinality(S) -> S] : ToSet(list) = S}

\* The matching alerts of the rules, which the services list in any order, completed
\* by what Alertmanager answers -- nothing if it fails --, or, when there are none,
\* the alerts of Alertmanager.
Collect(payload) ==
  LET matching == {a \in rules : Matches(query[sub], a)}
  IN  IF matching # {}
      THEN \E list \in Orders(matching) :
             result' = result \cup
               Taken([i \in DOMAIN list |-> Augment(RuleObject(list[i]), payload)])
      ELSE result' = result \cup
             Taken([i \in payload |-> Augment(FallbackObject(Managed[i]), payload)])

\* getSubquery and the loop around it.
Subquery ==
  /\ pc = "sub"
  /\ sub \in DOMAIN query
  /\ \/ Collect({}) /\ UNCHANGED asked
     \/ Answers /\ Collect(Payload(query[sub])) /\ asked' = TRUE
  /\ sub' = sub + 1
  /\ UNCHANGED <<allowed, todo, review, pc, query, port, tenants, rules, am, got>>

Return ==
  /\ pc = "sub"
  /\ sub \notin DOMAIN query
  /\ pc' = "idle"
  /\ sub' = 0
  /\ UNCHANGED <<allowed, todo, review, query, port, tenants, rules, am, got, asked, result>>

Next ==
  \/ Reviewed
  \/ Expire
  \/ \E q \in todo : Get(q)
  \/ QueryRules
  \/ QueryNamespacedRules
  \/ \E t \in Tenant : QueryLoki(t)
  \/ ChooseAlertmanager
  \/ Subquery
  \/ Return

Spec == Init /\ [][Next]_vars
--------------------------------------------------------------------------------
(* Properties *)

RuleAlerts == PromAlerts \cup UNION {LokiAlerts[t] : t \in Tenant}
ManagedAlerts == {Managed[i] : i \in DOMAIN Managed}

\* What a search holds as an alert is an alert of one of the services, within
\* the interval, that matches a label set of one of its queries, whatever the
\* reviews of the user's access said; a failed review is not remembered.
Sound ==
  /\ review \in {"unknown", IF allowed THEN "granted" ELSE "denied"}
  /\ \A o \in result : InInterval(o)
  /\ \A o \in result :
    /\ \E a \in RuleAlerts \cup ManagedAlerts : a.labels = o.labels
    /\ \E q \in Queries : \E i \in DOMAIN q : \A k \in DOMAIN q[i] : Label(o, k) = q[i][k]

\* A failing service costs nothing that another one has answered: after a Get,
\* each alert of the rules it was answered with that matches the query is among
\* the results of the node, unless it begins after the interval, or an alert of
\* Alertmanager that shares a label has moved its times.
RuleAlertsKept ==
  pc = "idle" /\ query # NoQuery =>
    \A a \in got : (\E i \in DOMAIN query : Matches(query[i], a)) =>
      \/ \E o \in result : o.labels = a.labels
      \/ a.starts = "after"
      \/ asked /\ \E b \in ManagedAlerts : Shares(a.labels, b)

\* "We consider an Alertmanager alert to be the same as a Prometheus alert if the
\* Alertmanager labels are a super-set of the Prometheus labels" (alert.go:609):
\* the times of a Prometheus alert come from such an alert.
TimesOfSame ==
  \A o \in result : o.from # 0 /\ o.id # NoID => Matches(o.labels, Managed[o.from])
================================================================================
