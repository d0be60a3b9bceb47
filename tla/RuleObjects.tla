------------------------------ MODULE RuleObjects ------------------------------
(***************************************************************************)
(* The vocabulary of korrel8r's rules: objects, classes, queries, and what *)
(* a query selects from the store of its domain.                           *)
(*                                                                         *)
(* An object is a record with a field for each part of the object that     *)
(* some rule reads: `class', `labels' (a k8s object's metadata.labels, the *)
(* labels of an alert or metric, the attributes of a log, span or netflow, *)
(* a function from names to values) and, for k8s objects, `name', `ns' and *)
(* the leaves of spec and status the rules follow.  A part the object does *)
(* not have is not in its DOMAIN; the empty string stands for "absent or   *)
(* empty", which the rules that call Require treat alike.                  *)
(*                                                                         *)
(* A rule is an operator from an object to the set of queries it writes.   *)
(* A rule that panics -- a failed type assertion, Require, Fail -- writes  *)
(* nothing at all: quickRule.Apply recovers and drops what was written.    *)
(***************************************************************************)
EXTENDS Naturals, Sequences, FiniteSets

CONSTANTS
  Resources,        \* <<kind, version, group>> -> is the resource namespaced?
  PreferredVersion, \* group -> version, for every group the cluster has
  SafeLabel         \* label -> the Loki label for it, where it differs

\* Discovery puts every resource in a group that has a preferred version.
ASSUME ResourcesAssumption ==
  \A r \in DOMAIN Resources : r[3] \in DOMAIN PreferredVersion /\ Resources[r] \in BOOLEAN

NoLabels == <<>>
NoQueries == {}

Has(o, field) == field \in DOMAIN o
Str(o, field) == IF Has(o, field) THEN o[field] ELSE ""
ListOf(o, field) == IF Has(o, field) THEN o[field] ELSE {}

\* The first value that is not empty, for Default(dflt, v): v unless empty.
Default(dflt, v) == IF v = "" THEN dflt ELSE v

\* RequireAll(values...): the queries, unless a value is empty or missing.
Require(values, queries) == IF "" \in values THEN NoQueries ELSE queries

\* The values of a field over the elements of a list that have it.
Refs(list, field) == {e[field] : e \in {x \in list : Has(x, field)}}

\* The pairs of a map, as a query lists them.
PairsOf(labels) == {<<k, labels[k]>> : k \in DOMAIN labels}
--------------------------------------------------------------------------------
(* Classes *)

K8s(kind, version, group) == <<"k8s", kind, version, group>>
Core(kind) == K8s(kind, "", "")
CoreV1(kind) == K8s(kind, "v1", "")
InGroup(kind, group) == K8s(kind, "", group)
Signal(domain, name) == <<domain, name, "", "">>

SignalClasses ==
  {Signal("alert", "alert"), Signal("incident", "incident"), Signal("metric", "metric"),
   Signal("netflow", "network"), Signal("trace", "span"), Signal("log", "application"),
   Signal("log", "infrastructure"), Signal("log", "audit")}

K8sClasses == {K8s(r[1], r[2], r[3]) : r \in DOMAIN Resources}
Classes == K8sClasses \cup SignalClasses

\* k8s.Class(gvk).Namespaced(): false for a resource that is not known.
Namespaced(class) ==
  LET r == <<class[2], class[3], class[4]>>
  IN  class[1] = "k8s" /\ r \in DOMAIN Resources /\ Resources[r]

\* domain.Class: a name without a version takes the preferred version of its
\* group.  The result is not in Classes when the class is unknown.
ClassOf(name) ==
  IF name[1] = "k8s" /\ name[3] = "" /\ name[4] \in DOMAIN PreferredVersion
  THEN [name EXCEPT ![3] = PreferredVersion[name[4]]]
  ELSE name
--------------------------------------------------------------------------------
(* Queries *)

Query(class, ns, name, labels, fields) ==
  [class |-> class, ns |-> ns, name |-> name, labels |-> labels, fields |-> fields]
Named(class, ns, name) == Query(class, ns, name, {}, {})
Labelled(class, ns, labels) == Query(class, ns, "", labels, {})
Select(class, labels) == Query(class, "", "", labels, {})

\* One query per name, in the namespace of the object: all of them or none.
NamedRefs(o, class, names) ==
  Require({Str(o, "ns")} \cup names, {Named(class, Str(o, "ns"), n) : n \in names})

\* parseQueries: every line must be a valid query of a known class, or the
\* rule yields an error and no query.
ParseQueries(queries) ==
  LET parsed == {[q EXCEPT !.class = ClassOf(@)] : q \in queries}
  IN  IF \A q \in parsed : q.class \in Classes THEN parsed ELSE NoQueries
--------------------------------------------------------------------------------
(* What a store returns for a query *)

LabelsMatch(q, o) == \A l \in q.labels : Str(o.labels, l[1]) = l[2]

\* k8s.Store.Get: by name it is a get of that very namespace and name, else a
\* list restricted by the namespace, the labels and the fields.  The fields the
\* rules write are those of an event's involvedObject.
K8sGet(q, o) ==
  IF q.name # ""
  THEN Str(o, "ns") = q.ns /\ o.name = q.name
  ELSE /\ q.ns \in {"", Str(o, "ns")}
       /\ LabelsMatch(q, o)
       /\ \A f \in q.fields : Has(o, "involvedObject") /\ Str(o.involvedObject, f[1]) = f[2]

\* A log query by namespace and pod name or pod labels; Loki holds the labels
\* of the pod under the names that log.SafeLabel gives them.
LogGet(q, o) ==
  /\ q.ns \in {"", Str(o.labels, "kubernetes_namespace_name")}
  /\ q.name \in {"", Str(o.labels, "kubernetes_pod_name")}
  /\ \A l \in q.labels : Str(o.labels, Default(l[1], Str(SafeLabel, l[1]))) = l[2]

\* incident filterObjects: an incident lists the label sets of its alerts; the
\* query selects it if one of them is a subset of the query's labels, and a
\* query without labels selects every incident.
IncidentGet(q, o) ==
  q.labels = {} \/ \E alert \in o.alertsLabels : PairsOf(alert) \subseteq q.labels

\* alert.Query: a list of label sets, of which an alert must contain one.
AlertGet(q, o) == \E labels \in q.labels : \A l \in labels : Str(o.labels, l[1]) = l[2]

Selects(q, o) ==
  /\ o.class = q.class
  /\ CASE q.class[1] = "k8s" -> K8sGet(q, o)
       [] q.class[1] = "log" -> LogGet(q, o)
       [] q.class[1] = "incident" -> IncidentGet(q, o)
       [] q.class[1] = "alert" -> AlertGet(q, o)
       [] OTHER -> LabelsMatch(q, o)
================================================================================
