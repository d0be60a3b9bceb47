------------------------------ MODULE Correlation ------------------------------
(***************************************************************************)
(* A search seen from the data: from an object, along one rule and one of  *)
(* its queries, to an object that query finds in the stores, and on from   *)
(* there.  The concurrent search of module Traverser takes these steps for *)
(* many objects at once; which steps there are, and so what a search can   *)
(* reach, is decided by the rules alone.                                   *)
(***************************************************************************)
EXTENDS RuleCatalogue

CONSTANT
  Objects   \* what the stores of the cluster hold

VARIABLES
  at,      \* the object reached
  rule,    \* the rule that led there, "" at the start
  home,    \* the namespace of the start object
  left     \* the path left its namespace lawfully: it went through an object
           \* of no namespace, or over a rule that names another one

vars == <<at, rule, home, left>>

NamespaceLabels ==
  {"namespace", "kubernetes_namespace_name", "k8s_namespace_name", "k8s.namespace.name", "SrcK8S_Namespace"}

\* What a cluster sees to: nodes, resource definitions and operators have no
\* namespace, what an event is about has that of the event or none, an owner has a
\* name, and of these labels a flow has that of its source only.
ASSUME ObjectsAssumption ==
  \A o \in Objects :
    /\ o.class \in {ClassOf(c) : c \in {Core("Node"), CRD, K8s("Operator", "v1", OLM)}} => Str(o, "ns") = ""
    /\ \A f \in {"involvedObject", "regarding"} : Has(o, f) => Str(o[f], "ns") \in {"", Str(o, "ns")}
    /\ Has(o, "ownerReferences") => o.ownerReferences[1].name # ""
    /\ o.class[1] = "netflow" =>
         \A l \in NamespaceLabels \ {"SrcK8S_Namespace"} : Str(o.labels, l) = ""

\* The namespace of a k8s object, or the one the labels of a signal tell.
NamespaceOf(o) ==
  IF o.class[1] = "k8s" THEN Str(o, "ns")
  ELSE LET told == {Str(o.labels, l) : l \in NamespaceLabels} \ {""}
       IN  IF Cardinality(told) = 1 THEN CHOOSE ns \in told : TRUE ELSE ""

\* What Store.Get finds, with no constraint.

Found(q) == {o \in Objects : Selects(q, o)}

\* The objects that applying the rule to o finds.
Neighbours(r, o) == UNION {Found(q) : q \in Followed(r, o)}
Usable(r, o) == o.class \in Start[r]
--------------------------------------------------------------------------------
Init ==
  /\ at \in Objects
  /\ rule = ""
  /\ home = NamespaceOf(at)
  /\ left = (home = "")

\* The rules that follow a reference which names its own namespace.
CrossReferences ==
  {"SubscriptionToCatalogSource", "SubscriptionToInstallPlan", "OperatorToCSV", "OperatorToSubscription",
   "PVToPVC", "IncidentToAlert", "AlertToIncident", "AlertToMetric", "NetflowToDstK8s", "NetflowToDstK8sOwner",
   "K8sDstToNetflow", "K8sDstOwnerToNetflow"}

\* traverser.applyRules on one object, then handleQuery for one of its queries.
Follow(r) ==
  /\ Usable(r, at)
  /\ at' \in Neighbours(r, at)
  /\ rule' = r
  /\ left' = (left \/ NamespaceOf(at') = "" \/ r \in CrossReferences)
  /\ UNCHANGED home

Next == \E r \in Rules : Follow(r)
Spec == Init /\ [][Next]_vars
--------------------------------------------------------------------------------
(* Properties *)

\* A search that starts in a namespace stays there as long as it follows only
\* references within the namespace: no rule lists the objects of all
\* namespaces, or drops the namespace from a query about a namespaced object.
StaysInNamespace == ~left => NamespaceOf(at) = home

\* A class the cluster has; the queries that a rule writes.
Serves(name) == ClassOf(name) \in Classes
Written(r, o) == {[q EXCEPT !.class = ClassOf(@)] : q \in ApplyFunc(r, o)}

\* A single class that the cluster lacks costs such a rule the queries for all its
\* classes: parseQueries (rules.go:77) gives up at the first bad line.
OperandRules == {"CSVToPartOf", "InstanceToOperands", "ClusterInstanceToOperands"}
LosesAll(r) == r \in OperandRules /\ \E c \in Annotations[r].goal : ~Serves(c)

\* The end of a flow is of a kind that the rule does not declare, or that the
\* cluster lacks: a pod that nothing owns is its own owner.
EndType ==
  [NetflowToSrcK8s |-> "SrcK8S_Type", NetflowToSrcK8sOwner |-> "SrcK8S_OwnerType",
   NetflowToDstK8s |-> "DstK8S_Type", NetflowToDstK8sOwner |-> "DstK8S_OwnerType"]
Undeclared(r, o) ==
  r \in DOMAIN EndType /\ \A c \in Annotations[r].goal : c[2] = Str(o.labels, EndType[r]) => ~Serves(c)

\* A rule for any class follows a reference to one that the cluster lacks.
Dangling(r, o) == Annotations[r].goal = AnyK8s /\ \A q \in Written(r, o) : q.class \notin Classes

\* What a rule writes is followed, all of it or nothing, and it is nothing in just
\* these three cases.  In the first, quickrules.go:178 and TestRulesUnknownClasses
\* have it that an unknown class is only skipped: the annotation skips it, but the
\* queries for the classes the cluster does have are lost with it.  In the second,
\* the search drops a query whose class is no goal of the rule without a trace
\* (traverse.go:485).
OnlyKnownLosses ==
  \A r \in Rules : Usable(r, at) =>
    Followed(r, at) = IF LosesAll(r) \/ Undeclared(r, at) \/ Dangling(r, at) THEN NoQueries ELSE Written(r, at)

\* The rules that lead back where another came from.
InverseOf == [
  PodToAlert |-> "AlertToPod", PodToLokiAlert |-> "AlertToPod", DeploymentToAlert |-> "AlertToDeployment",
  DaemonSetToAlert |-> "AlertToDaemonSet", StatefulSetToAlert |-> "AlertToStatefulSet",
  PodDisruptionBudgetToAlert |-> "AlertToPodDisruptionBudget",
  VmToAlert |-> "AlertToVM", VmiToAlert |-> "AlertToVMI", VmimToAlert |-> "AlertToVmim",
  AlertToIncident |-> "IncidentToAlert",
  PodToLogs |-> "LogToPod", LogToPod |-> "PodToLogs",
  PodToTrace |-> "TraceToPod", TraceToPod |-> "PodToTrace",
  K8sSrcToNetflow |-> "NetflowToSrcK8s", NetflowToSrcK8s |-> "K8sSrcToNetflow",
  K8sDstToNetflow |-> "NetflowToDstK8s", NetflowToDstK8s |-> "K8sDstToNetflow",
  NetflowToSrcK8sOwner |-> "K8sSrcOwnerToNetflow", NetflowToDstK8sOwner |-> "K8sDstOwnerToNetflow",
  ServiceToEndpointSlice |-> "EndpointSliceToService", EndpointSliceToService |-> "ServiceToEndpointSlice",
  AllToEvent |-> "EventToAll"]

\* From what such a rule finds, its inverse leads back to the start object: the
\* two agree on the labels, the namespace and the class they put in a query.
LeadsBack ==
  [][rule' \in DOMAIN InverseOf => at \in Neighbours(InverseOf[rule'], at')]_vars

\* A rule that goes straight to what two others reach in two steps.
Shortcuts ==
  {<<"SelectorToLogs", "SelectorToPods", "PodToLogs">>, <<"ServiceToLogs", "ServiceToPods", "PodToLogs">>,
   <<"VmiToLogs", "VmiToPod", "PodToLogs">>}

\* The direct rule finds exactly what the two steps find: for a workload, a
\* Service or a machine, the logs by label are the logs of the pods by name.
ShortcutsAgree ==
  \A s \in Shortcuts : Usable(s[1], at) =>
    Neighbours(s[1], at) = UNION {Neighbours(s[3], o) : o \in Neighbours(s[2], at)}
--------------------------------------------------------------------------------
(* What the theorems about the queries of a rule ask of a cluster; the one of the *)
(* run meets it.                                                                  *)

\* The cluster serves these groups in the version that some rules write.
BuiltInGroups == {"", "apps", CRDGroup}
VersionsWritten == \A g \in BuiltInGroups \cap DOMAIN PreferredVersion : PreferredVersion[g] = "v1"

\* Its objects are of classes it serves; an event tells the class it is about.
ObjectsServed ==
  \A o \in Objects :
    /\ o.class \in Classes
    /\ \A f \in {"involvedObject", "regarding"} : Has(o, f) => {"kind", "version", "group"} \subseteq DOMAIN o[f]

Ends ==
  {<<"SrcK8S_Namespace", "SrcK8S_Type", "SrcK8S_Name">>, <<"SrcK8S_Namespace", "SrcK8S_OwnerType", "SrcK8S_OwnerName">>,
   <<"DstK8S_Namespace", "DstK8S_Type", "DstK8S_Name">>, <<"DstK8S_Namespace", "DstK8S_OwnerType", "DstK8S_OwnerName">>}

\* A flow that tells the type of an end, or of its owner, tells the name and the
\* namespace too.
FlowsComplete ==
  \A o \in Objects, e \in Ends :
    o.class[1] = "netflow" /\ Str(o.labels, e[2]) # "" =>
      /\ {e[1], e[3]} \subseteq DOMAIN o.labels
      /\ o.labels[e[3]] # ""

\* The labels that the cluster selects pods by.
SelectorLabels ==
  (UNION {DOMAIN o.matchLabels : o \in {x \in Objects : Has(x, "matchLabels")}})
    \cup (UNION {DOMAIN o.selector : o \in {x \in Objects : Has(x, "selector")}})
    \cup {"kubevirt.io", "vm.kubevirt.io/name"}

PodsOf(log) ==
  {p \in Objects : /\ p.class = ClassOf(Core("Pod"))
                   /\ Str(p, "ns") = Str(log.labels, "kubernetes_namespace_name")
                   /\ p.name = Str(log.labels, "kubernetes_pod_name")}

\* A log that tells a namespace is that of a pod there, is of the class that holds
\* the logs of the namespace, and carries the labels of the pod.
LogsOfPods ==
  \A l \in Objects :
    l.class[1] = "log" /\ Str(l.labels, "kubernetes_namespace_name") # "" =>
      /\ l.class = LogType(Str(l.labels, "kubernetes_namespace_name"))
      /\ Str(l.labels, "kubernetes_pod_name") # ""
      /\ PodsOf(l) # {}
      /\ \A p \in PodsOf(l), k \in SelectorLabels :
           Str(l.labels, Default(k, Str(SafeLabel, k))) = Str(p.labels, k)

\* An alert has labels, and those that tell its namespace or its pod agree; a workload
\* has a namespace.
Agree(labels, l, m) == "" \in {Str(labels, l), Str(labels, m)} \/ Str(labels, l) = Str(labels, m)
ObjectsNamed ==
  \A o \in Objects :
    /\ o.class[1] = "alert" =>
         /\ DOMAIN o.labels # {}
         /\ Agree(o.labels, "namespace", "kubernetes_namespace_name")
         /\ Agree(o.labels, "pod", "kubernetes_pod_name")
    /\ o.class \in {ClassOf(c) : c \in Owners} => Str(o, "ns") # ""
================================================================================
