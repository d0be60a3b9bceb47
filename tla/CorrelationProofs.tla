--------------------------- MODULE CorrelationProofs ---------------------------
(***************************************************************************)
(* A search stays in its namespace, whatever the cluster holds: each rule  *)
(* is taken on its own, and the queries that it writes for an object of a  *)
(* namespace find objects of that namespace or of none.  What a rule       *)
(* writes is followed, by its classes: those of its annotation, which a    *)
(* usable rule with one goal has, or that of a reference; what it loses is *)
(* the operands, the ends of flows and the references listed there.  The   *)
(* shortcuts to the logs agree with the way over the pods, by what the     *)
(* lists by label and the queries by name find.  A rule and its inverse    *)
(* put the same labels, namespace, name and class in their queries, each   *)
(* from what the other one finds.                                          *)
(***************************************************************************)
EXTENDS Correlation, FiniteSetTheorems, TLAPS

--------------------------------------------------------------------------------
(* Classes and namespaces.                                                 *)

IsClass(c) == c = <<c[1], c[2], c[3], c[4]>>
OfDomain(c, domain) == IsClass(c) /\ c[1] = domain

LEMMA Domains ==
  /\ \A kind, version, group : OfDomain(K8s(kind, version, group), "k8s")
  /\ \A kind : OfDomain(Core(kind), "k8s") /\ OfDomain(CoreV1(kind), "k8s")
  /\ \A kind, group : OfDomain(InGroup(kind, group), "k8s")
  /\ \A type : OfDomain(TypeToK8s(type), "k8s")
  /\ \A domain, name : OfDomain(Signal(domain, name), domain)
  /\ \A ns : OfDomain(LogType(ns), "log")
BY DEF K8s, Core, CoreV1, InGroup, TypeToK8s, Signal, LogType, OfDomain, IsClass

LEMMA K8sNames ==
  \A c \in {PVC, Deployment, DaemonSet, StatefulSet, ReplicaSet, EndpointSlice, StorageClass, CRD,
            CSV, Subscription, InstallPlan, CatalogSource, VM, VMI, VMIM, VMSnapshot, VMRestore,
            VMExport, DataVolume, NetAttachDef} : OfDomain(c, "k8s")
BY Domains
DEF PVC, Deployment, DaemonSet, StatefulSet, ReplicaSet, EndpointSlice, StorageClass, CRD,
    CSV, Subscription, InstallPlan, CatalogSource, VM, VMI, VMIM, VMSnapshot, VMRestore,
    VMExport, DataVolume, NetAttachDef

\* A class stays in its domain when it is given its version.
LEMMA SameDomain ==
  ASSUME NEW c, IsClass(c)
  PROVE  ClassOf(c)[1] = c[1]
BY DEF ClassOf, IsClass

Told(o) == {Str(o.labels, l) : l \in NamespaceLabels} \ {""}

LEMMA ToldFinite ==
  ASSUME NEW o
  PROVE  IsFiniteSet(Told(o))
<1> DEFINE v(l) == Str(o.labels, l)
           two == {v("namespace")} \cup {v("kubernetes_namespace_name")}
           three == two \cup {v("k8s_namespace_name")}
           four == three \cup {v("k8s.namespace.name")}
           five == four \cup {v("SrcK8S_Namespace")}
<1>1. Told(o) \subseteq five BY DEF Told, NamespaceLabels
<1> HIDE DEF v
<1>2. IsFiniteSet({v("namespace")}) BY FS_Singleton
<1>3. IsFiniteSet(two) BY <1>2, FS_AddElement
<1>4. IsFiniteSet(three)
  <2> HIDE DEF two
  <2>1. QED BY <1>3, FS_AddElement
<1>5. IsFiniteSet(four)
  <2> HIDE DEF three
  <2>1. QED BY <1>4, FS_AddElement
<1>6. IsFiniteSet(five)
  <2> HIDE DEF four
  <2>1. QED BY <1>5, FS_AddElement
<1>7. QED BY <1>1, <1>6, FS_Subset

\* A signal that tells a namespace has that namespace, or none if it tells another too.
LEMMA ToldNamespace ==
  ASSUME NEW o, o.class[1] # "k8s", NEW ns \in Told(o)
  PROVE  NamespaceOf(o) \in {ns, ""}
<1>1. IsFiniteSet(Told(o)) BY ToldFinite
<1>2. CASE Cardinality(Told(o)) = 1
  <2>1. PICK x : Told(o) = {x} BY <1>1, <1>2, FS_Singleton
  <2>2. NamespaceOf(o) = (CHOOSE m \in Told(o) : TRUE) BY <1>2 DEF NamespaceOf, Told
  <2>3. QED BY <2>1, <2>2
<1>3. CASE Cardinality(Told(o)) # 1
  BY <1>3 DEF NamespaceOf, Told
<1>4. QED BY <1>2, <1>3

LEMMA HasTold ==
  ASSUME NEW o, o.class[1] # "k8s", NamespaceOf(o) # ""
  PROVE  NamespaceOf(o) \in Told(o)
<1>1. Cardinality(Told(o)) = 1 BY DEF NamespaceOf, Told
<1>2. PICK x : Told(o) = {x} BY <1>1, ToldFinite, FS_Singleton
<1>3. NamespaceOf(o) = (CHOOSE m \in Told(o) : TRUE) BY <1>1 DEF NamespaceOf, Told
<1>4. QED BY <1>2, <1>3

\* And one that has a namespace tells no other.
LEMMA NamespaceTold ==
  ASSUME NEW o, o.class[1] # "k8s", NamespaceOf(o) # "", NEW l \in NamespaceLabels
  PROVE  Str(o.labels, l) \in {NamespaceOf(o), ""}
<1>1. CASE Str(o.labels, l) \in Told(o) BY <1>1, ToldNamespace
<1>2. CASE Str(o.labels, l) \notin Told(o) BY <1>2 DEF Told
<1>3. QED BY <1>1, <1>2
--------------------------------------------------------------------------------
(* Queries.                                                                *)

IsQuery(q) ==
  q = Query(q.class, q.ns, q.name, q.labels, q.fields) /\ IsClass(q.class)

\* A query about a namespace: it asks for objects there or for one of none by its name,
\* or for signals that tell the namespace.
About(q, ns) ==
  /\ IsQuery(q)
  /\ \/ q.class[1] = "k8s" /\ (q.ns = ns \/ (q.ns = "" /\ q.name # ""))
     \/ q.class[1] = "log" /\ q.ns = ns
     \/ q.class[1] \in {"metric", "netflow", "trace"} /\ \E l \in NamespaceLabels : <<l, ns>> \in q.labels
     \/ q.class[1] = "alert" /\ \A labels \in q.labels : <<"namespace", ns>> \in labels

Within(queries, ns) == \A q \in queries : About(q, ns)

\* Such a query finds what is in the namespace, or what has none.
LEMMA FoundWithin ==
  ASSUME NEW q, NEW ns, ns # "", About(q, ns), NEW o, Selects([q EXCEPT !.class = ClassOf(@)], o)
  PROVE  NamespaceOf(o) \in {ns, ""}
<1> DEFINE p == [q EXCEPT !.class = ClassOf(@)]
<1>1. /\ p.ns = q.ns /\ p.name = q.name /\ p.labels = q.labels /\ p.class = ClassOf(q.class)
  BY DEF About, IsQuery, Query
<1>2. p.class[1] = q.class[1]
  <2>1. IsClass(q.class) BY DEF About, IsQuery
  <2>2. ClassOf(q.class)[1] = q.class[1] BY <2>1, SameDomain, Zenon
  <2>3. QED BY <1>1, <2>2
<1> HIDE DEF p
<1>3. o.class = p.class /\ Selects(p, o) BY DEF Selects, p
<1>4. CASE q.class[1] = "k8s"
  <2>1. K8sGet(p, o) BY <1>2, <1>3, <1>4 DEF Selects
  <2>2. NamespaceOf(o) = Str(o, "ns") BY <1>2, <1>3, <1>4 DEF NamespaceOf
  <2>3. q.ns = ns \/ (q.ns = "" /\ q.name # "") BY <1>4 DEF About
  <2>4. QED BY <1>1, <2>1, <2>2, <2>3 DEF K8sGet
<1>5. CASE q.class[1] = "log"
  <2>1. LogGet(p, o) BY <1>2, <1>3, <1>5 DEF Selects
  <2>2. Str(o.labels, "kubernetes_namespace_name") = ns BY <1>1, <1>5, <2>1 DEF LogGet, About
  <2>3. ns \in Told(o) BY <2>2 DEF Told, NamespaceLabels
  <2>4. QED BY <1>2, <1>3, <1>5, <2>3, ToldNamespace
<1>6. CASE q.class[1] \in {"metric", "netflow", "trace"}
  <2>1. LabelsMatch(p, o) BY <1>2, <1>3, <1>6 DEF Selects
  <2>2. PICK l \in NamespaceLabels : <<l, ns>> \in q.labels BY <1>6 DEF About
  <2>3. Str(o.labels, l) = ns
    <3>1. \A m \in q.labels : Str(o.labels, m[1]) = m[2] BY <1>1, <2>1 DEF LabelsMatch
    <3>2. Str(o.labels, <<l, ns>>[1]) = <<l, ns>>[2] BY <2>2, <3>1, Zenon
    <3>3. QED BY <3>2
  <2>4. ns \in Told(o) BY <2>3 DEF Told
  <2>5. QED BY <1>2, <1>3, <1>6, <2>4, ToldNamespace
<1>7. CASE q.class[1] = "alert"
  <2>1. AlertGet(p, o) BY <1>2, <1>3, <1>7 DEF Selects
  <2>2. PICK labels \in q.labels : \A l \in labels : Str(o.labels, l[1]) = l[2]
    BY <1>1, <2>1 DEF AlertGet
  <2>3. <<"namespace", ns>> \in labels BY <1>7 DEF About
  <2>4. ns \in Told(o) BY <2>2, <2>3 DEF Told, NamespaceLabels
  <2>5. QED BY <1>2, <1>3, <1>7, <2>4, ToldNamespace
<1>8. QED BY <1>4, <1>5, <1>6, <1>7 DEF About
--------------------------------------------------------------------------------
(* The forms of queries.                                                   *)

LEMMA NamedAbout ==
  ASSUME NEW class, NEW n, NEW name, NEW ns,
         \/ OfDomain(class, "k8s") /\ (n = ns \/ (n = "" /\ name # ""))
         \/ OfDomain(class, "log") /\ n = ns
  PROVE  About(Named(class, n, name), ns)
BY DEF About, IsQuery, Named, Query, OfDomain

LEMMA LabelledAbout ==
  ASSUME NEW class, NEW labels, NEW ns, OfDomain(class, "k8s") \/ OfDomain(class, "log")
  PROVE  About(Labelled(class, ns, labels), ns)
BY DEF About, IsQuery, Labelled, Query, OfDomain

LEMMA SelectAbout ==
  ASSUME NEW domain \in {"metric", "netflow", "trace"}, NEW name, NEW labels, NEW ns,
         NEW l \in NamespaceLabels, <<l, ns>> \in labels
  PROVE  About(Select(Signal(domain, name), labels), ns)
BY Domains DEF About, IsQuery, Select, Query, OfDomain

LEMMA AlertAbout ==
  ASSUME NEW labels, NEW ns, <<"namespace", ns>> \in labels
  PROVE  About(Select(Signal("alert", "alert"), {labels}), ns)
BY Domains DEF About, IsQuery, Select, Query, OfDomain

LEMMA AllWithin ==
  ASSUME NEW values, NEW queries, NEW ns, Within(queries, ns)
  PROVE  Within(Require(values, queries), ns)
BY DEF Require, Within, NoQueries

Namespace(ns) == ns # ""

\* An object of a namespace.
Here(o, ns) == ns # "" /\ Str(o, "ns") = ns

LEMMA HereIs ==
  ASSUME NEW o, NEW ns, Here(o, ns)
  PROVE  o.ns = ns /\ Has(o, "ns")
BY DEF Here, Str, Has

LEMMA NamedRefsWithin ==
  ASSUME NEW o, NEW ns, Here(o, ns), NEW class, OfDomain(class, "k8s"), NEW names
  PROVE  Within(NamedRefs(o, class, names), ns)
<1> DEFINE queries == {Named(class, Str(o, "ns"), n) : n \in names}
<1>1. \A n : About(Named(class, ns, n), ns) BY NamedAbout
<1>2. Within(queries, ns) BY <1>1 DEF Within, Here
<1>3. NamedRefs(o, class, names) = Require({Str(o, "ns")} \cup names, queries) BY DEF NamedRefs
<1> HIDE DEF queries
<1>4. QED BY <1>2, <1>3, AllWithin

LEMMA NamesakeWithin ==
  ASSUME NEW o, NEW ns, Here(o, ns), NEW class, OfDomain(class, "k8s") \/ OfDomain(class, "log")
  PROVE  Within(Namesake(o, class), ns)
<1>1. o.ns = ns BY HereIs
<1>2. About(Named(class, ns, o.name), ns) BY NamedAbout
<1>3. Within({Named(class, ns, o.name)}, ns) BY <1>2 DEF Within
<1>4. QED BY <1>1, <1>3, AllWithin DEF Namesake

LEMMA LabelledWithin ==
  ASSUME NEW o, NEW ns, Here(o, ns), NEW class, OfDomain(class, "k8s") \/ OfDomain(class, "log"),
         NEW labels, NEW label
  PROVE  /\ Within(ByLabels(o, class, labels), ns)
         /\ Within(LabelledWithName(o, class, label), ns)
         /\ Within(LauncherOf(o, class), ns)
<1>1. o.ns = ns /\ Str(o, "ns") = ns BY HereIs DEF Here
<1>2. \A x : Within({Labelled(class, ns, x)}, ns) BY LabelledAbout DEF Within
<1>3. Within(ByLabels(o, class, labels), ns)
  <2>1. Within(NoQueries, ns) BY DEF Within, NoQueries
  <2>2. QED BY <1>1, <1>2, <2>1, AllWithin DEF ByLabels
<1>4. Within(LabelledWithName(o, class, label), ns)
  BY <1>1, <1>2, AllWithin DEF LabelledWithName
<1>5. Within(LauncherOf(o, class), ns) BY <1>1, <1>2, AllWithin DEF LauncherOf
<1>6. QED BY <1>3, <1>4, <1>5

LEMMA SignalsWithin ==
  ASSUME NEW o, NEW ns, Here(o, ns), NEW label
  PROVE  Within(AlertsOn(o, label), ns) /\ Within(MetricsOn(o), ns)
<1>1. o.ns = ns BY HereIs
<1> DEFINE labels == {<<"namespace", o.ns>>, <<label, o.name>>}
           alert == Select(Signal("alert", "alert"), {labels})
           metric == Select(Signal("metric", "metric"), {<<"namespace", o.ns>>, <<"name", o.name>>})
<1>2. About(alert, ns)
  <2>1. <<"namespace", ns>> \in labels BY <1>1
  <2> HIDE DEF labels
  <2>2. QED BY <2>1, AlertAbout
<1>3. About(metric, ns)
  <2>1. "namespace" \in NamespaceLabels BY DEF NamespaceLabels
  <2>2. QED BY <1>1, <2>1, SelectAbout
<1>4. /\ AlertsOn(o, label) = Require({Str(o, "ns"), o.name}, {alert})
      /\ MetricsOn(o) = Require({Str(o, "ns"), o.name}, {metric})
  BY DEF AlertsOn, MetricsOn
<1> HIDE DEF alert, metric
<1>5. Within({alert}, ns) /\ Within({metric}, ns) BY <1>2, <1>3 DEF Within
<1>6. QED BY <1>4, <1>5, AllWithin

\* An object without a namespace, asked for by its name.
LEMMA ClusterWide ==
  ASSUME NEW class, OfDomain(class, "k8s"), NEW name, NEW ns, NEW values, "" \notin values => name # ""
  PROVE  Within(Require(values, {Named(class, "", name)}), ns)
<1>1. name # "" => Within({Named(class, "", name)}, ns) BY NamedAbout DEF Within
<1>2. QED BY <1>1 DEF Require, Within, NoQueries

\* A k8s object that a signal of the namespace names.
LEMMA NamedByWithin ==
  ASSUME NEW class, OfDomain(class, "k8s"), NEW n, NEW name, NEW ns, n = ns \/ n = ""
  PROVE  Within(NamedByLabels(class, n, name), ns)
<1> DEFINE q == Named(class, n, name)
<1>1. "" \notin {n, name} => About(q, ns) BY NamedAbout
<1>2. NamedByLabels(class, n, name) = Require({n, name}, {q}) BY DEF NamedByLabels
<1> HIDE DEF q
<1>3. QED BY <1>1, <1>2 DEF Require, Within, NoQueries
--------------------------------------------------------------------------------
(* The rules, by what they follow from a k8s object.                       *)

\* References by name, to objects of the same namespace.
LEMMA ReferencesStay ==
  ASSUME NEW o, NEW ns, Here(o, ns)
  PROVE  /\ Within(PodToPVC(o), ns)
         /\ Within(PodToConfigMap(o), ns)
         /\ Within(PodToSecret(o), ns)
         /\ Within(PodToServiceAccount(o), ns)
         /\ Within(EndpointSliceToService(o), ns)
         /\ Within(IngressToService(o), ns)
         /\ Within(InstallPlanToCSV(o), ns)
         /\ Within(CSVToDeployment(o), ns)
         /\ Within(VmimToVmi(o), ns)
         /\ Within(VmToPVC(o), ns)
         /\ Within(VmiToPVC(o), ns)
         /\ Within(VmToDataVolume(o), ns)
         /\ Within(VmiToDataVolume(o), ns)
         /\ Within(VmToSecret(o), ns)
         /\ Within(VmiToSecret(o), ns)
         /\ Within(VmToConfigMap(o), ns)
         /\ Within(VmiToConfigMap(o), ns)
         /\ Within(VmToServiceAccount(o), ns)
         /\ Within(VmiToServiceAccount(o), ns)
         /\ Within(VmToNetAttachDef(o), ns)
         /\ Within(VmiToNetAttachDef(o), ns)
         /\ Within(VmSnapshotToVm(o), ns)
         /\ Within(VmRestoreToVm(o), ns)
         /\ Within(VmRestoreToVmSnapshot(o), ns)
         /\ Within(VmExportToVm(o), ns)
         /\ Within(VmExportToVmSnapshot(o), ns)
         /\ Within(VmExportToPVC(o), ns)
<1>1. \A class, names : OfDomain(class, "k8s") => Within(NamedRefs(o, class, names), ns)
  BY NamedRefsWithin
<1>2. Within(NoQueries, ns) BY DEF Within, NoQueries
<1>3. /\ \A names : Within(NamedRefs(o, Core("ConfigMap"), names), ns)
      /\ \A names : Within(NamedRefs(o, Core("Secret"), names), ns)
      /\ \A names : Within(NamedRefs(o, Core("ServiceAccount"), names), ns)
      /\ \A names : Within(NamedRefs(o, Core("Service"), names), ns)
      /\ \A names : Within(NamedRefs(o, PVC, names), ns)
      /\ \A names : Within(NamedRefs(o, CSV, names), ns)
      /\ \A names : Within(NamedRefs(o, Deployment, names), ns)
      /\ \A names : Within(NamedRefs(o, DataVolume, names), ns)
      /\ \A names : Within(NamedRefs(o, NetAttachDef, names), ns)
      /\ \A names : Within(NamedRefs(o, VM, names), ns)
      /\ \A names : Within(NamedRefs(o, VMI, names), ns)
      /\ \A names : Within(NamedRefs(o, VMSnapshot, names), ns)
  BY <1>1, Domains, K8sNames
<1>4. \A kind : /\ Within(ExportSource(o, kind, VM), ns)
                /\ Within(ExportSource(o, kind, VMSnapshot), ns)
                /\ Within(ExportSource(o, kind, PVC), ns)
  BY <1>2, <1>3 DEF ExportSource
<1>5. QED
  BY <1>2, <1>3, <1>4
  DEF PodToPVC, PodToConfigMap, PodToSecret, PodToServiceAccount, EndpointSliceToService,
      IngressToService, InstallPlanToCSV, CSVToDeployment, VmimToVmi, VmToPVC, VmiToPVC,
      VmToDataVolume, VmiToDataVolume, VmToSecret, VmiToSecret, VmToConfigMap, VmiToConfigMap,
      VmToServiceAccount, VmiToServiceAccount, VmToNetAttachDef, VmiToNetAttachDef,
      VmSnapshotToVm, VmRestoreToVm, VmRestoreToVmSnapshot, VmExportToVm, VmExportToVmSnapshot,
      VmExportToPVC

\* Labels and names, of objects of the same namespace.
LEMMA SelectorsStay ==
  ASSUME NEW o, NEW ns, Here(o, ns)
  PROVE  /\ Within(SelectorToPods(o), ns)
         /\ Within(SelectorToLogs(o), ns)
         /\ Within(ServiceToPods(o), ns)
         /\ Within(ServiceToLogs(o), ns)
         /\ Within(PodToLogs(o), ns)
         /\ Within(VmToVmi(o), ns)
         /\ Within(VmiToPod(o), ns)
         /\ Within(VmiToLogs(o), ns)
         /\ Within(VmiToVmim(o), ns)
         /\ Within(DataVolumeToPVC(o), ns)
         /\ Within(DataVolumeToImporterPod(o), ns)
         /\ Within(VmToVmSnapshot(o), ns)
         /\ Within(VmToVmRestore(o), ns)
<1>1. \A class : OfDomain(class, "k8s") \/ OfDomain(class, "log") =>
        /\ \A labels : Within(ByLabels(o, class, labels), ns)
        /\ \A label : Within(LabelledWithName(o, class, label), ns)
        /\ Within(LauncherOf(o, class), ns)
        /\ Within(Namesake(o, class), ns)
  BY LabelledWithin, NamesakeWithin
<1>2. QED
  BY <1>1, Domains, K8sNames
  DEF SelectorToPods, SelectorToLogs, ServiceToPods, ServiceToLogs, PodToLogs, VmToVmi, VmiToPod,
      VmiToLogs, VmiToVmim, DataVolumeToPVC, DataVolumeToImporterPod, VmToVmSnapshot, VmToVmRestore

\* Alerts, metrics, flows and spans that tell the namespace.
LEMMA SignalsStay ==
  ASSUME NEW o, NEW ns, Here(o, ns)
  PROVE  /\ Within(VmToAlert(o), ns)
         /\ Within(VmiToAlert(o), ns)
         /\ Within(VmimToAlert(o), ns)
         /\ Within(PodToAlert(o), ns)
         /\ Within(PodToLokiAlert(o), ns)
         /\ Within(DeploymentToAlert(o), ns)
         /\ Within(PodDisruptionBudgetToAlert(o), ns)
         /\ Within(DaemonSetToAlert(o), ns)
         /\ Within(StatefulSetToAlert(o), ns)
         /\ Within(VmToMetric(o), ns)
         /\ Within(VmiToMetric(o), ns)
         /\ Within(AllToMetric(o), ns)
         /\ Within(K8sSrcToNetflow(o), ns)
         /\ Within(K8sSrcOwnerToNetflow(o), ns)
         /\ Within(PodToTrace(o), ns)
<1>1. \A label : Within(AlertsOn(o, label), ns) /\ Within(MetricsOn(o), ns) BY SignalsWithin
<1>2. o.ns = ns /\ Str(o, "ns") = ns BY HereIs DEF Here
<1>3. ASSUME NEW domain \in {"metric", "netflow", "trace"}, NEW name, NEW labels,
             NEW l \in NamespaceLabels, <<l, ns>> \in labels, NEW values
      PROVE  Within(Require(values, {Select(Signal(domain, name), labels)}), ns)
  <2>1. About(Select(Signal(domain, name), labels), ns) BY <1>3, SelectAbout
  <2>2. Within({Select(Signal(domain, name), labels)}, ns) BY <2>1 DEF Within
  <2>3. QED BY <2>2, AllWithin
<1>4. {"namespace", "SrcK8S_Namespace", "k8s.namespace.name"} \subseteq NamespaceLabels
  BY DEF NamespaceLabels
<1>5. Within(AllToMetric(o), ns)
  <2> DEFINE labels == {<<"namespace", o.ns>>, <<Default(Kind(o), Str(Lower, Kind(o))), o.name>>}
  <2>1. <<"namespace", ns>> \in labels BY <1>2
  <2>2. AllToMetric(o) = Require({Str(o, "ns"), o.name}, {Select(Signal("metric", "metric"), labels)})
    BY DEF AllToMetric
  <2> HIDE DEF labels
  <2>3. QED BY <1>3, <1>4, <2>1, <2>2
<1>6. Within(K8sSrcToNetflow(o), ns)
  <2> DEFINE labels == {<<"SrcK8S_Type", Kind(o)>>, <<"SrcK8S_Namespace", Str(o, "ns")>>, <<"SrcK8S_Name", o.name>>}
  <2>1. <<"SrcK8S_Namespace", ns>> \in labels BY <1>2
  <2>2. K8sSrcToNetflow(o) = Require({o.name}, {Select(Signal("netflow", "network"), labels)})
    BY DEF K8sSrcToNetflow, Flow
  <2> HIDE DEF labels
  <2>3. QED BY <1>3, <1>4, <2>1, <2>2
<1>7. Within(K8sSrcOwnerToNetflow(o), ns)
  <2> DEFINE labels == {<<"SrcK8S_Namespace", o.ns>>, <<"SrcK8S_OwnerName", o.name>>}
  <2>1. <<"SrcK8S_Namespace", ns>> \in labels BY <1>2
  <2>2. K8sSrcOwnerToNetflow(o) =
          Require({Str(o, "ns"), o.name}, {Select(Signal("netflow", "network"), labels)})
    BY DEF K8sSrcOwnerToNetflow, Flow
  <2> HIDE DEF labels
  <2>3. QED BY <1>3, <1>4, <2>1, <2>2
<1>8. Within(PodToTrace(o), ns)
  <2> DEFINE labels == {<<"k8s.namespace.name", o.ns>>, <<"k8s.pod.name", o.name>>}
  <2>1. <<"k8s.namespace.name", ns>> \in labels BY <1>2
  <2>2. PodToTrace(o) = Require({Str(o, "ns"), o.name}, {Select(Signal("trace", "span"), labels)})
    BY DEF PodToTrace
  <2> HIDE DEF labels
  <2>3. QED BY <1>3, <1>4, <2>1, <2>2
<1>9. QED
  BY <1>1, <1>5, <1>6, <1>7, <1>8
  DEF VmToAlert, VmiToAlert, VmimToAlert, PodToAlert, PodToLokiAlert, DeploymentToAlert,
      PodDisruptionBudgetToAlert, DaemonSetToAlert, StatefulSetToAlert, VmToMetric, VmiToMetric

\* What a k8s object of a namespace refers to that may be elsewhere: its owner, what it
\* is an event about, what it scales, what has no namespace, and its operands.
LEMMA OthersStay ==
  ASSUME NEW o \in Objects, NEW ns, Here(o, ns)
  PROVE  /\ Within(DependentToOwner(o), ns)
         /\ Within(AllToEvent(o), ns)
         /\ Within(EventToAll(o), ns)
         /\ Within(Event2ToAll(o), ns)
         /\ Within(HPAToTarget(o), ns)
         /\ Within(ServiceToEndpointSlice(o), ns)
         /\ Within(PVCToPV(o), ns)
         /\ Within(PVToStorageClass(o), ns)
         /\ Within(PVCToStorageClass(o), ns)
         /\ Within(SubscriptionToCSV(o), ns)
         /\ Within(CSVToCRD(o), ns)
         /\ Within(VmiToNode(o), ns)
         /\ Within(VmToInstancetype(o), ns)
         /\ Within(VmToPreference(o), ns)
         /\ Within(CSVToPartOf(o), ns)
         /\ Within(InstanceToOperands(o), ns)
         /\ Within(ClusterInstanceToOperands(o), ns)
<1>1. o.ns = ns /\ Str(o, "ns") = ns /\ ns # "" BY HereIs DEF Here
<1>2. Within(NoQueries, ns) BY DEF Within, NoQueries
<1>3. ASSUME NEW class, OfDomain(class, "k8s"), NEW n, NEW name, n = ns \/ (n = "" /\ name # "")
      PROVE  Within({Named(class, n, name)}, ns)
  <2>1. About(Named(class, n, name), ns)
    <3>1. CASE n = ns BY <1>3, <3>1, NamedAbout
    <3>2. CASE n = "" /\ name # "" BY <1>3, <3>2, NamedAbout
    <3>3. QED BY <1>3, <3>1, <3>2
  <2>2. QED BY <2>1 DEF Within
<1>4. Within(DependentToOwner(o), ns)
  <2> DEFINE ref == o.ownerReferences[1]
             class == K8s(ref.kind, ref.version, ref.group)
             n == IF Namespaced(class) THEN Str(o, "ns") ELSE ""
  <2>1. CASE Has(o, "ownerReferences")
    <3>1. OfDomain(class, "k8s") BY Domains
    <3>2. ref.name # "" BY <2>1, ObjectsAssumption
    <3>3. n = ns \/ n = "" BY <1>1
    <3>4. DependentToOwner(o) = {Named(class, n, ref.name)} BY <2>1 DEF DependentToOwner
    <3> HIDE DEF ref, class, n
    <3>5. QED BY <1>3, <3>1, <3>2, <3>3, <3>4
  <2>2. QED BY <1>2, <2>1 DEF DependentToOwner
<1>5. Within(AllToEvent(o), ns)
  <2> DEFINE fields == {<<"version", o.class[3]>>, <<"group", o.class[4]>>, <<"kind", Kind(o)>>,
                        <<"name", o.name>>, <<"ns", o.ns>>}
             q == Query(Core("Event"), o.ns, "", {}, fields)
  <2>1. AllToEvent(o) = Require({Str(o, "ns"), o.name}, {q}) BY DEF AllToEvent
  <2> HIDE DEF fields
  <2>2. OfDomain(Core("Event"), "k8s") BY Domains
  <2>3. About(q, ns) BY <1>1, <2>2 DEF About, IsQuery, Query, OfDomain
  <2> HIDE DEF q
  <2>4. Within({q}, ns) BY <2>3 DEF Within
  <2>5. QED BY <2>1, <2>4, AllWithin
<1>6. ASSUME NEW ref, Str(ref, "ns") = ns \/ Str(ref, "ns") = ""
      PROVE  Within(ReferredTo(ref), ns)
  <2> DEFINE class == K8s(ref.kind, ref.version, ref.group)
  <2>1. OfDomain(class, "k8s") BY Domains
  <2>2. ReferredTo(ref) = Require({Str(ref, "name")}, {Named(class, Str(ref, "ns"), ref.name)})
    BY DEF ReferredTo
  <2> HIDE DEF class
  <2>3. Str(ref, "name") # "" => ref.name # "" BY DEF Str, Has
  <2>4. "" \notin {Str(ref, "name")} => Within({Named(class, Str(ref, "ns"), ref.name)}, ns)
    BY <1>3, <1>6, <2>1, <2>3
  <2> DEFINE q == Named(class, Str(ref, "ns"), ref.name)
  <2> HIDE DEF q
  <2>5. QED BY <2>2, <2>4 DEF Require, Within, NoQueries, q
<1>7. Within(EventToAll(o), ns) /\ Within(Event2ToAll(o), ns)
  <2>1. ASSUME Has(o, "involvedObject") PROVE Within(EventToAll(o), ns)
    <3> DEFINE ref == o["involvedObject"]
    <3>1. Str(ref, "ns") = ns \/ Str(ref, "ns") = "" BY <1>1, <2>1, ObjectsAssumption
    <3>2. Within(ReferredTo(ref), ns)
      <4> HIDE DEF ref
      <4>1. QED BY <1>6, <3>1
    <3>3. EventToAll(o) = ReferredTo(o["involvedObject"]) BY <2>1 DEF EventToAll
    <3>4. QED BY <3>2, <3>3
  <2>2. ASSUME Has(o, "regarding") PROVE Within(Event2ToAll(o), ns)
    <3> DEFINE ref == o["regarding"]
    <3>1. Str(ref, "ns") = ns \/ Str(ref, "ns") = "" BY <1>1, <2>2, ObjectsAssumption
    <3>2. Within(ReferredTo(ref), ns)
      <4> HIDE DEF ref
      <4>1. QED BY <1>6, <3>1
    <3>3. Event2ToAll(o) = ReferredTo(o["regarding"]) BY <2>2 DEF Event2ToAll
    <3>4. QED BY <3>2, <3>3
  <2>3. QED BY <1>2, <2>1, <2>2 DEF EventToAll, Event2ToAll
<1>8. Within(HPAToTarget(o), ns)
  <2> DEFINE ref == o.scaleTargetRef
             class == K8s(ref.kind, ref.version, ref.group)
  <2>1. OfDomain(class, "k8s") BY Domains
  <2>2. HPAToTarget(o) = Require({Str(o, "ns")}, {Named(class, o.ns, ref.name)}) BY DEF HPAToTarget
  <2> HIDE DEF ref, class
  <2>3. Within({Named(class, o.ns, ref.name)}, ns) BY <1>1, <1>3, <2>1
  <2>4. QED BY <2>2, <2>3, AllWithin
<1>9. ASSUME NEW labels, NEW class, OfDomain(class, "k8s")
      PROVE  Within({Labelled(class, o.ns, labels)}, ns)
  BY <1>1, <1>9, LabelledAbout DEF Within
<1>10. Within(ServiceToEndpointSlice(o), ns)
  BY <1>9, K8sNames, AllWithin DEF ServiceToEndpointSlice
<1>11. ASSUME NEW class, OfDomain(class, "k8s"), NEW field
       PROVE  Within(Require({Str(o, field)}, {Named(class, "", o[field])}), ns)
  <2>1. Str(o, field) # "" => o[field] # "" BY DEF Str
  <2>2. QED BY <1>11, <2>1, ClusterWide
<1>12. /\ Within(PVCToPV(o), ns) /\ Within(PVToStorageClass(o), ns)
       /\ Within(PVCToStorageClass(o), ns) /\ Within(SubscriptionToCSV(o), ns)
       /\ Within(VmiToNode(o), ns)
  <2>1. /\ OfDomain(Core("PersistentVolume"), "k8s") /\ OfDomain(Core("Node"), "k8s")
        /\ OfDomain(StorageClass, "k8s") /\ OfDomain(CSV, "k8s")
    BY Domains, K8sNames
  <2>2. Within(PVCToPV(o), ns)
    <3>1. PVCToPV(o) = Require({Str(o, "volumeName")}, {Named(Core("PersistentVolume"), "", o["volumeName"])})
      BY DEF PVCToPV
    <3>2. QED BY <1>11, <2>1, <3>1
  <2>3. Within(ToStorageClass(o), ns)
    <3>1. ToStorageClass(o) = Require({Str(o, "storageClassName")}, {Named(StorageClass, "", o["storageClassName"])})
      BY DEF ToStorageClass
    <3>2. QED BY <1>11, <2>1, <3>1
  <2>4. Within(SubscriptionToCSV(o), ns)
    <3>1. SubscriptionToCSV(o) = Require({Str(o, "currentCSV")}, {Named(CSV, "", o["currentCSV"])})
      BY DEF SubscriptionToCSV
    <3>2. QED BY <1>11, <2>1, <3>1
  <2>5. Within(VmiToNode(o), ns)
    <3>1. VmiToNode(o) = Require({Str(o, "nodeName")}, {Named(Core("Node"), "", o["nodeName"])})
      BY DEF VmiToNode
    <3>2. QED BY <1>11, <2>1, <3>1
  <2>6. QED BY <2>2, <2>3, <2>4, <2>5 DEF PVToStorageClass, PVCToStorageClass
<1>13. Within(CSVToCRD(o), ns)
  <2> DEFINE owned == ListOf(o, "owned")
             queries == {Named(CRD, "", n) : n \in owned}
  <2>1. OfDomain(CRD, "k8s") BY K8sNames
  <2>2. "" \notin owned => Within(queries, ns) BY <2>1, NamedAbout DEF Within
  <2>3. CSVToCRD(o) = Require(owned, queries) BY DEF CSVToCRD
  <2> HIDE DEF owned, queries
  <2>4. QED BY <2>2, <2>3 DEF Require, Within, NoQueries
<1>14. ASSUME NEW field, NEW kind, NEW clusterKind
       PROVE  Within(NamespacedOrCluster(o, field, kind, clusterKind), ns)
  <2> DEFINE q == IF Str(o[field], "kind") = kind
                  THEN Named(InGroup(kind, Types), o.ns, o[field].name)
                  ELSE Named(InGroup(clusterKind, Types), "", o[field].name)
             values == {Str(o, "ns"), Str(o[field], "name")}
  <2>1. NamespacedOrCluster(o, field, kind, clusterKind) =
          IF ~Has(o, field) THEN NoQueries ELSE Require(values, {q})
    BY DEF NamespacedOrCluster
  <2>2. "" \notin values => o[field].name # "" BY DEF Str, Has
  <2>3. "" \notin values => Within({q}, ns) BY <1>1, <1>3, <2>2, Domains
  <2> HIDE DEF q, values
  <2>4. QED BY <1>2, <2>1, <2>3 DEF Require, Within, NoQueries
<1>15. Within(VmToInstancetype(o), ns) /\ Within(VmToPreference(o), ns)
  BY <1>14 DEF VmToInstancetype, VmToPreference
<1>16. ASSUME NEW classes, \A c \in classes : OfDomain(c, "k8s"), NEW label, NEW value, NEW values
       PROVE  Within(Require(values, Operands(classes, o.ns, label, value)), ns)
  <2>1. Within(Operands(classes, o.ns, label, value), ns)
    BY <1>1, <1>16, LabelledAbout DEF Operands, Within
  <2>2. QED BY <2>1, AllWithin
<1>17. /\ \A c \in PartOfClasses : OfDomain(c, "k8s")
       /\ \A c \in OperandClasses : OfDomain(c, "k8s")
  BY Domains, K8sNames DEF PartOfClasses, OperandClasses
<1>18. Within(CSVToPartOf(o), ns) BY <1>16, <1>17 DEF CSVToPartOf
<1>19. Within(InstanceToOperands(o), ns) BY <1>2, <1>16, <1>17 DEF InstanceToOperands
<1>20. Within(ClusterInstanceToOperands(o), ns) BY <1>1, <1>2 DEF ClusterInstanceToOperands
<1>21. QED
  BY <1>4, <1>5, <1>7, <1>8, <1>10, <1>12, <1>13, <1>15, <1>18, <1>19, <1>20

\* The classes without a namespace that rules lead out of.
ClusterClasses == {Core("Node"), CRD, K8s("Operator", "v1", OLM)}

LEMMA ClusterStays ==
  ASSUME NEW o \in Objects, NEW ns, Here(o, ns)
  PROVE  o.class \notin {ClassOf(c) : c \in ClusterClasses}
BY ObjectsAssumption DEF Here, ClusterClasses

--------------------------------------------------------------------------------
(* The rules, by what they follow from a signal.                           *)

\* A signal that has a namespace names objects there, or of none.
LEMMA NamesStay ==
  ASSUME NEW o \in Objects, o.class[1] # "k8s", NEW ns, Namespace(ns), NamespaceOf(o) = ns
  PROVE  /\ Within(AlertToDeployment(o), ns)
         /\ Within(AlertToPod(o), ns)
         /\ Within(AlertToPodDisruptionBudget(o), ns)
         /\ Within(AlertToDaemonSet(o), ns)
         /\ Within(AlertToStatefulSet(o), ns)
         /\ Within(AlertToVM(o), ns)
         /\ Within(AlertToVMI(o), ns)
         /\ Within(AlertToVmim(o), ns)
         /\ Within(LogToPod(o), ns)
         /\ Within(MetricToPod(o), ns)
         /\ Within(MetricToDeployment(o), ns)
         /\ Within(MetricToDaemonSet(o), ns)
         /\ Within(MetricToStatefulSet(o), ns)
         /\ Within(MetricToNode(o), ns)
         /\ Within(TraceToPod(o), ns)
         /\ o.class[1] = "netflow" => Within(NetflowToSrcK8s(o), ns)
         /\ o.class[1] = "netflow" => Within(NetflowToSrcK8sOwner(o), ns)
<1>1. \A l \in NamespaceLabels : Str(o.labels, l) \in {ns, ""} BY NamespaceTold, Zenon DEF Namespace
<1>2. /\ Str(o.labels, "namespace") \in {ns, ""}
      /\ Str(o.labels, "kubernetes_namespace_name") \in {ns, ""}
      /\ Str(o.labels, "k8s_namespace_name") \in {ns, ""}
      /\ Str(o.labels, "k8s.namespace.name") \in {ns, ""}
      /\ Str(o.labels, "SrcK8S_Namespace") \in {ns, ""}
  BY <1>1 DEF NamespaceLabels
<1>3. ASSUME NEW class, OfDomain(class, "k8s"), NEW n, n = ns \/ n = "", NEW name
      PROVE  Within(NamedByLabels(class, n, name), ns)
  BY <1>3, NamedByWithin, Zenon
<1>4. \A label, class : OfDomain(class, "k8s") => Within(AlertNames(o, label, class), ns)
  BY <1>2, <1>3 DEF AlertNames
<1>5. \A label, otel, class : OfDomain(class, "k8s") => Within(MetricNames(o, label, otel, class), ns)
  BY <1>2, <1>3 DEF MetricNames, Default
<1>6. Within(AlertToPod(o), ns) /\ Within(LogToPod(o), ns) /\ Within(TraceToPod(o), ns)
  BY <1>2, <1>3, Domains DEF AlertToPod, LogToPod, TraceToPod, Default
<1>7. Within(MetricToNode(o), ns)
  BY ClusterWide, Domains DEF MetricToNode
<1>8. ASSUME o.class[1] = "netflow", NEW type, NEW name
      PROVE  Within(Endpoint(o, type, "SrcK8S_Namespace", name), ns)
  <2>1. o.labels["SrcK8S_Namespace"] = ns \/ "SrcK8S_Namespace" \notin DOMAIN o.labels
    <3>1. ns \in Told(o)
      <4>1. NamespaceOf(o) # "" BY Zenon DEF Namespace
      <4>2. NamespaceOf(o) \in Told(o) BY <4>1, HasTold, Zenon
      <4>3. QED BY <4>2
    <3>2. PICK l \in NamespaceLabels : Str(o.labels, l) = ns BY <3>1 DEF Told
    <3>3. l = "SrcK8S_Namespace"
      <4>1. ASSUME l \in NamespaceLabels \ {"SrcK8S_Namespace"} PROVE Str(o.labels, l) = ""
        BY <1>8, <4>1, ObjectsAssumption, Zenon
      <4>2. QED BY <3>2, <4>1, Zenon DEF Namespace
    <3>4. QED BY <3>2, <3>3 DEF Str, Has
  <2>2. OfDomain(TypeToK8s(o.labels[type]), "k8s") BY Domains
  <2>3. Within({Named(TypeToK8s(o.labels[type]), ns, o.labels[name])}, ns)
    BY <2>2, NamedAbout DEF Within
  <2>4. Within(NoQueries, ns) BY DEF Within, NoQueries
  <2>5. QED BY <2>1, <2>3, <2>4 DEF Endpoint
<1>9. QED
  BY <1>4, <1>5, <1>6, <1>7, <1>8, Domains, K8sNames
  DEF AlertToDeployment, AlertToPodDisruptionBudget, AlertToDaemonSet, AlertToStatefulSet, AlertToVM,
      AlertToVMI, AlertToVmim, MetricToPod, MetricToDeployment, MetricToDaemonSet,
      MetricToStatefulSet, NetflowToSrcK8s, NetflowToSrcK8sOwner
--------------------------------------------------------------------------------
(* The catalogue: which rule is which of these, and what it starts from.   *)

ReferenceRules ==
  {"PodToPVC", "PodToConfigMap", "PodToSecret", "PodToServiceAccount", "EndpointSliceToService",
   "IngressToService", "InstallPlanToCSV", "CSVToDeployment", "VmimToVmi", "VmToPVC", "VmiToPVC",
   "VmToDataVolume", "VmiToDataVolume", "VmToSecret", "VmiToSecret", "VmToConfigMap",
   "VmiToConfigMap", "VmToServiceAccount", "VmiToServiceAccount", "VmToNetAttachDef",
   "VmiToNetAttachDef", "VmSnapshotToVm", "VmRestoreToVm", "VmRestoreToVmSnapshot",
   "VmExportToVm", "VmExportToVmSnapshot", "VmExportToPVC"}
SelectorRules ==
  {"SelectorToPods", "SelectorToLogs", "ServiceToPods", "ServiceToLogs", "PodToLogs", "VmToVmi",
   "VmiToPod", "VmiToLogs", "VmiToVmim", "DataVolumeToPVC", "DataVolumeToImporterPod",
   "VmToVmSnapshot", "VmToVmRestore"}
MentionRules ==
  {"VmToAlert", "VmiToAlert", "VmimToAlert", "PodToAlert", "PodToLokiAlert", "DeploymentToAlert",
   "PodDisruptionBudgetToAlert", "DaemonSetToAlert", "StatefulSetToAlert", "VmToMetric",
   "VmiToMetric", "AllToMetric", "K8sSrcToNetflow", "K8sSrcOwnerToNetflow", "PodToTrace"}
OtherRules ==
  {"DependentToOwner", "AllToEvent", "EventToAll", "Event2ToAll", "HPAToTarget",
   "ServiceToEndpointSlice", "PVCToPV", "PVToStorageClass", "PVCToStorageClass",
   "SubscriptionToCSV", "CSVToCRD", "VmiToNode", "VmToInstancetype", "VmToPreference",
   "CSVToPartOf", "InstanceToOperands", "ClusterInstanceToOperands"}
NameRules ==
  {"AlertToDeployment", "AlertToPod", "AlertToPodDisruptionBudget", "AlertToDaemonSet",
   "AlertToStatefulSet", "AlertToVM", "AlertToVMI", "AlertToVmim", "LogToPod", "MetricToPod",
   "MetricToDeployment", "MetricToDaemonSet", "MetricToStatefulSet", "MetricToNode", "TraceToPod"}
FlowRules ==
  {"NetflowToSrcK8s", "NetflowToSrcK8sOwner"}
ClusterRules ==
  {"CRDToInstances", "NodeToVmi", "OperatorToCRD"}
K8sRuleNames == ReferenceRules \cup SelectorRules \cup MentionRules \cup OtherRules

LEMMA RuleNames ==
  DOMAIN Annotations = {"DependentToOwner", "AllToEvent", "AllToMetric", "SelectorToPods",
    "SelectorToLogs", "K8sSrcToNetflow", "K8sSrcOwnerToNetflow", "K8sDstToNetflow",
    "K8sDstOwnerToNetflow", "ServiceToPods", "EventToAll", "Event2ToAll", "PodToPVC",
    "PodToConfigMap", "PodToSecret", "PodToServiceAccount", "ServiceToEndpointSlice",
    "EndpointSliceToService", "PVCToPV", "PVToPVC", "PVToStorageClass", "PVCToStorageClass",
    "SubscriptionToCSV", "CSVToCRD", "CRDToInstances", "CSVToDeployment",
    "SubscriptionToInstallPlan", "InstallPlanToCSV", "SubscriptionToCatalogSource",
    "OperatorToCRD", "OperatorToCSV", "OperatorToSubscription", "IngressToService",
    "CSVToPartOf", "HPAToTarget", "InstanceToOperands", "ClusterInstanceToOperands", "VmToVmi",
    "VmiToPod", "VmiToNode", "VmToPVC", "VmToAlert", "VmiToAlert", "VmimToAlert", "VmToMetric",
    "VmiToMetric", "VmiToLogs", "VmimToVmi", "VmiToVmim", "DataVolumeToPVC", "VmToDataVolume",
    "VmiToPVC", "VmiToDataVolume", "VmSnapshotToVm", "VmToVmSnapshot", "VmRestoreToVm",
    "VmToVmRestore", "VmRestoreToVmSnapshot", "VmExportToVm", "VmExportToVmSnapshot",
    "VmExportToPVC", "NodeToVmi", "DataVolumeToImporterPod", "VmToNetAttachDef",
    "VmiToNetAttachDef", "VmToSecret", "VmiToSecret", "VmToConfigMap", "VmiToConfigMap",
    "VmToServiceAccount", "VmiToServiceAccount", "VmToInstancetype", "VmToPreference",
    "AlertToDeployment", "AlertToPod", "AlertToPodDisruptionBudget", "AlertToDaemonSet",
    "AlertToStatefulSet", "AlertToMetric", "PodToAlert", "PodToLokiAlert", "DeploymentToAlert",
    "PodDisruptionBudgetToAlert", "DaemonSetToAlert", "StatefulSetToAlert", "AlertToVM",
    "AlertToVMI", "AlertToVmim", "AlertToIncident", "IncidentToAlert", "LogToPod", "PodToLogs",
    "ServiceToLogs", "MetricToPod", "MetricToDeployment", "MetricToDaemonSet",
    "MetricToStatefulSet", "MetricToNode", "NetflowToSrcK8s", "NetflowToSrcK8sOwner",
    "NetflowToDstK8s", "NetflowToDstK8sOwner", "TraceToPod", "PodToTrace"}
BY Zenon DEF Annotations

LEMMA EveryRule ==
  DOMAIN Annotations \subseteq
    K8sRuleNames \cup NameRules \cup FlowRules \cup ClusterRules \cup CrossReferences
BY RuleNames
DEF K8sRuleNames, ReferenceRules, SelectorRules, MentionRules, OtherRules, NameRules, FlowRules,
    ClusterRules, CrossReferences

LEMMA ReferencesApply ==
  ASSUME NEW o
  PROVE  /\ ApplyFunc("PodToPVC", o) = PodToPVC(o)
         /\ ApplyFunc("PodToConfigMap", o) = PodToConfigMap(o)
         /\ ApplyFunc("PodToSecret", o) = PodToSecret(o)
         /\ ApplyFunc("PodToServiceAccount", o) = PodToServiceAccount(o)
         /\ ApplyFunc("EndpointSliceToService", o) = EndpointSliceToService(o)
         /\ ApplyFunc("IngressToService", o) = IngressToService(o)
         /\ ApplyFunc("InstallPlanToCSV", o) = InstallPlanToCSV(o)
         /\ ApplyFunc("CSVToDeployment", o) = CSVToDeployment(o)
         /\ ApplyFunc("VmimToVmi", o) = VmimToVmi(o)
         /\ ApplyFunc("VmToPVC", o) = VmToPVC(o)
         /\ ApplyFunc("VmiToPVC", o) = VmiToPVC(o)
         /\ ApplyFunc("VmToDataVolume", o) = VmToDataVolume(o)
         /\ ApplyFunc("VmiToDataVolume", o) = VmiToDataVolume(o)
         /\ ApplyFunc("VmToSecret", o) = VmToSecret(o)
         /\ ApplyFunc("VmiToSecret", o) = VmiToSecret(o)
         /\ ApplyFunc("VmToConfigMap", o) = VmToConfigMap(o)
         /\ ApplyFunc("VmiToConfigMap", o) = VmiToConfigMap(o)
         /\ ApplyFunc("VmToServiceAccount", o) = VmToServiceAccount(o)
         /\ ApplyFunc("VmiToServiceAccount", o) = VmiToServiceAccount(o)
         /\ ApplyFunc("VmToNetAttachDef", o) = VmToNetAttachDef(o)
         /\ ApplyFunc("VmiToNetAttachDef", o) = VmiToNetAttachDef(o)
         /\ ApplyFunc("VmSnapshotToVm", o) = VmSnapshotToVm(o)
         /\ ApplyFunc("VmRestoreToVm", o) = VmRestoreToVm(o)
         /\ ApplyFunc("VmRestoreToVmSnapshot", o) = VmRestoreToVmSnapshot(o)
         /\ ApplyFunc("VmExportToVm", o) = VmExportToVm(o)
         /\ ApplyFunc("VmExportToVmSnapshot", o) = VmExportToVmSnapshot(o)
         /\ ApplyFunc("VmExportToPVC", o) = VmExportToPVC(o)
BY DEF ApplyFunc

LEMMA SelectorsApply ==
  ASSUME NEW o
  PROVE  /\ ApplyFunc("SelectorToPods", o) = SelectorToPods(o)
         /\ ApplyFunc("SelectorToLogs", o) = SelectorToLogs(o)
         /\ ApplyFunc("ServiceToPods", o) = ServiceToPods(o)
         /\ ApplyFunc("ServiceToLogs", o) = ServiceToLogs(o)
         /\ ApplyFunc("PodToLogs", o) = PodToLogs(o)
         /\ ApplyFunc("VmToVmi", o) = VmToVmi(o)
         /\ ApplyFunc("VmiToPod", o) = VmiToPod(o)
         /\ ApplyFunc("VmiToLogs", o) = VmiToLogs(o)
         /\ ApplyFunc("VmiToVmim", o) = VmiToVmim(o)
         /\ ApplyFunc("DataVolumeToPVC", o) = DataVolumeToPVC(o)
         /\ ApplyFunc("DataVolumeToImporterPod", o) = DataVolumeToImporterPod(o)
         /\ ApplyFunc("VmToVmSnapshot", o) = VmToVmSnapshot(o)
         /\ ApplyFunc("VmToVmRestore", o) = VmToVmRestore(o)
BY DEF ApplyFunc

LEMMA MentionsApply ==
  ASSUME NEW o
  PROVE  /\ ApplyFunc("VmToAlert", o) = VmToAlert(o)
         /\ ApplyFunc("VmiToAlert", o) = VmiToAlert(o)
         /\ ApplyFunc("VmimToAlert", o) = VmimToAlert(o)
         /\ ApplyFunc("PodToAlert", o) = PodToAlert(o)
         /\ ApplyFunc("PodToLokiAlert", o) = PodToLokiAlert(o)
         /\ ApplyFunc("DeploymentToAlert", o) = DeploymentToAlert(o)
         /\ ApplyFunc("PodDisruptionBudgetToAlert", o) = PodDisruptionBudgetToAlert(o)
         /\ ApplyFunc("DaemonSetToAlert", o) = DaemonSetToAlert(o)
         /\ ApplyFunc("StatefulSetToAlert", o) = StatefulSetToAlert(o)
         /\ ApplyFunc("VmToMetric", o) = VmToMetric(o)
         /\ ApplyFunc("VmiToMetric", o) = VmiToMetric(o)
         /\ ApplyFunc("AllToMetric", o) = AllToMetric(o)
         /\ ApplyFunc("K8sSrcToNetflow", o) = K8sSrcToNetflow(o)
         /\ ApplyFunc("K8sSrcOwnerToNetflow", o) = K8sSrcOwnerToNetflow(o)
         /\ ApplyFunc("PodToTrace", o) = PodToTrace(o)
BY DEF ApplyFunc

LEMMA OthersApply ==
  ASSUME NEW o
  PROVE  /\ ApplyFunc("DependentToOwner", o) = DependentToOwner(o)
         /\ ApplyFunc("AllToEvent", o) = AllToEvent(o)
         /\ ApplyFunc("EventToAll", o) = EventToAll(o)
         /\ ApplyFunc("Event2ToAll", o) = Event2ToAll(o)
         /\ ApplyFunc("HPAToTarget", o) = HPAToTarget(o)
         /\ ApplyFunc("ServiceToEndpointSlice", o) = ServiceToEndpointSlice(o)
         /\ ApplyFunc("PVCToPV", o) = PVCToPV(o)
         /\ ApplyFunc("PVToStorageClass", o) = PVToStorageClass(o)
         /\ ApplyFunc("PVCToStorageClass", o) = PVCToStorageClass(o)
         /\ ApplyFunc("SubscriptionToCSV", o) = SubscriptionToCSV(o)
         /\ ApplyFunc("CSVToCRD", o) = CSVToCRD(o)
         /\ ApplyFunc("VmiToNode", o) = VmiToNode(o)
         /\ ApplyFunc("VmToInstancetype", o) = VmToInstancetype(o)
         /\ ApplyFunc("VmToPreference", o) = VmToPreference(o)
         /\ ApplyFunc("CSVToPartOf", o) = CSVToPartOf(o)
         /\ ApplyFunc("InstanceToOperands", o) = InstanceToOperands(o)
         /\ ApplyFunc("ClusterInstanceToOperands", o) = ClusterInstanceToOperands(o)
BY DEF ApplyFunc

LEMMA NamesApply ==
  ASSUME NEW o
  PROVE  /\ ApplyFunc("AlertToDeployment", o) = AlertToDeployment(o)
         /\ ApplyFunc("AlertToPod", o) = AlertToPod(o)
         /\ ApplyFunc("AlertToPodDisruptionBudget", o) = AlertToPodDisruptionBudget(o)
         /\ ApplyFunc("AlertToDaemonSet", o) = AlertToDaemonSet(o)
         /\ ApplyFunc("AlertToStatefulSet", o) = AlertToStatefulSet(o)
         /\ ApplyFunc("AlertToVM", o) = AlertToVM(o)
         /\ ApplyFunc("AlertToVMI", o) = AlertToVMI(o)
         /\ ApplyFunc("AlertToVmim", o) = AlertToVmim(o)
         /\ ApplyFunc("LogToPod", o) = LogToPod(o)
         /\ ApplyFunc("MetricToPod", o) = MetricToPod(o)
         /\ ApplyFunc("MetricToDeployment", o) = MetricToDeployment(o)
         /\ ApplyFunc("MetricToDaemonSet", o) = MetricToDaemonSet(o)
         /\ ApplyFunc("MetricToStatefulSet", o) = MetricToStatefulSet(o)
         /\ ApplyFunc("MetricToNode", o) = MetricToNode(o)
         /\ ApplyFunc("TraceToPod", o) = TraceToPod(o)
         /\ ApplyFunc("NetflowToSrcK8s", o) = NetflowToSrcK8s(o)
         /\ ApplyFunc("NetflowToSrcK8sOwner", o) = NetflowToSrcK8sOwner(o)
BY DEF ApplyFunc

--------------------------------------------------------------------------------
(* The classes that a rule starts from.                                    *)

LEMMA SignalClass ==
  ASSUME NEW c, c[1] # "k8s"
  PROVE  ClassOf(c) = c
BY Zenon DEF ClassOf

LEMMA RuleStart == \A start, goal : Rule(start, goal).start = start
BY DEF Rule

LEMMA StartsIn ==
  ASSUME NEW r \in DOMAIN Annotations
  PROVE  \A c \in Start[r] : \E n \in Annotations[r].start : c = ClassOf(n)
BY DEF Start, Resolve

LEMMA SignalStarts ==
  ASSUME NEW r \in NameRules \cup FlowRules, NEW c \in Start[r]
  PROVE  c[1] # "k8s" /\ (r \in FlowRules => c[1] = "netflow")
<1>1. /\ \A n \in AnyAlert : n[1] = "alert"
      /\ \A n \in AnyLog : n[1] = "log"
      /\ \A n \in Metrics : n[1] = "metric"
      /\ \A n \in Spans : n[1] = "trace"
      /\ \A n \in Flows : n[1] = "netflow"
  BY DEF AllOf, AnyAlert, AnyLog, Metrics, Spans, Flows
<1>2. /\ r \in DOMAIN Annotations
      /\ r \in NameRules => Annotations[r].start \in {AnyAlert, AnyLog, Metrics, Spans}
      /\ r \in FlowRules => Annotations[r].start = Flows
  <2>1. /\ Annotations["AlertToDeployment"].start = AnyAlert
        /\ Annotations["AlertToPod"].start = AnyAlert
        /\ Annotations["AlertToPodDisruptionBudget"].start = AnyAlert
        /\ Annotations["AlertToDaemonSet"].start = AnyAlert
        /\ Annotations["AlertToStatefulSet"].start = AnyAlert
        /\ Annotations["AlertToVM"].start = AnyAlert
    BY Zenon DEF Annotations, Rule
  <2>2. /\ Annotations["AlertToVMI"].start = AnyAlert
        /\ Annotations["AlertToVmim"].start = AnyAlert
        /\ Annotations["LogToPod"].start = AnyLog
        /\ Annotations["MetricToPod"].start = Metrics
        /\ Annotations["MetricToDeployment"].start = Metrics
        /\ Annotations["MetricToDaemonSet"].start = Metrics
    BY Zenon DEF Annotations, Rule
  <2>3. /\ Annotations["MetricToStatefulSet"].start = Metrics
        /\ Annotations["MetricToNode"].start = Metrics
        /\ Annotations["TraceToPod"].start = Spans
        /\ Annotations["NetflowToSrcK8s"].start = Flows
        /\ Annotations["NetflowToSrcK8sOwner"].start = Flows
    BY Zenon DEF Annotations, Rule
  <2>4. r \in DOMAIN Annotations BY RuleNames DEF NameRules, FlowRules
  <2>5. QED BY <2>1, <2>2, <2>3, <2>4 DEF NameRules, FlowRules
<1>3. PICK n \in Annotations[r].start : c = ClassOf(n) BY <1>2, StartsIn
<1>4. n[1] # "k8s" /\ (r \in FlowRules => n[1] = "netflow") BY <1>1, <1>2
<1>5. QED BY <1>3, <1>4, SignalClass

LEMMA ClusterStarts ==
  ASSUME NEW r \in ClusterRules, NEW c \in Start[r]
  PROVE  c \in {ClassOf(n) : n \in ClusterClasses}
<1>1. /\ r \in DOMAIN Annotations
      /\ Annotations[r].start \subseteq ClusterClasses
  <2>1. /\ Annotations["CRDToInstances"].start = {CRD}
        /\ Annotations["NodeToVmi"].start = {Core("Node")}
        /\ Annotations["OperatorToCRD"].start = {K8s("Operator", "v1", "operators.coreos.com")}
    BY Zenon DEF Annotations, Rule
  <2>2. r \in DOMAIN Annotations BY RuleNames DEF ClusterRules
  <2>3. QED BY <2>1, <2>2 DEF ClusterRules, ClusterClasses, OLM
<1>2. QED BY <1>1, StartsIn

\* All its classes are k8s classes.
OfK8s(classes) == \A n \in classes : OfDomain(n, "k8s")

LEMMA K8sStarts ==
  ASSUME NEW r \in K8sRuleNames \cup ClusterRules, NEW c \in Start[r]
  PROVE  c[1] = "k8s"
<1>1. OfK8s(AnyK8s)
  <2>1. \A n \in K8sClasses : OfDomain(n, "k8s") BY Domains DEF K8sClasses
  <2>2. \A n \in SignalClasses : n[1] # "k8s" BY Domains DEF SignalClasses, OfDomain
  <2>3. QED BY <2>1, <2>2 DEF AnyK8s, AllOf, Classes, OfK8s
<1>2. OfK8s(Workloads) /\ OfK8s(Owners) /\ OfK8s(Endpoints) /\ OfK8s(Pods)
  BY Domains, K8sNames DEF Workloads, Owners, Endpoints, Pods, OfK8s
<1>3. /\ OfK8s({CRD}) /\ OfK8s({CSV})
      /\ OfK8s({DaemonSet}) /\ OfK8s({DataVolume})
      /\ OfK8s({Deployment}) /\ OfK8s({EndpointSlice})
      /\ OfK8s({InstallPlan}) /\ OfK8s({PVC})
      /\ OfK8s({StatefulSet}) /\ OfK8s({Subscription})
      /\ OfK8s({VMExport}) /\ OfK8s({VMIM})
      /\ OfK8s({VMI}) /\ OfK8s({VMRestore})
      /\ OfK8s({VMSnapshot}) /\ OfK8s({VM})
      /\ OfK8s({Core("Node")}) /\ OfK8s({Core("PersistentVolume")})
      /\ OfK8s({Core("Service")}) /\ OfK8s({CoreV1("Event")})
      /\ OfK8s({InGroup("HorizontalPodAutoscaler", "autoscaling")})
      /\ OfK8s({InGroup("Ingress", "networking.k8s.io")})
      /\ OfK8s({K8s("Event", "v1", "events.k8s.io")})
      /\ OfK8s({K8s("Operator", "v1", "operators.coreos.com")})
      /\ OfK8s({K8s("PodDisruptionBudget", "v1", "policy")})
  BY Domains, K8sNames DEF OfK8s
<1>4. r \in DOMAIN Annotations /\ OfK8s(Annotations[r].start)
  <2>1. \A i \in ReferenceRules : OfK8s(Annotations[i].start)
    <3>1. \A i \in {"PodToPVC", "PodToConfigMap", "PodToSecret", "PodToServiceAccount",
                    "EndpointSliceToService", "IngressToService", "InstallPlanToCSV"} :
            OfK8s(Annotations[i].start)
      <4>1. /\ Annotations["PodToPVC"].start = Pods
            /\ Annotations["PodToConfigMap"].start = Pods
            /\ Annotations["PodToSecret"].start = Pods
            /\ Annotations["PodToServiceAccount"].start = Pods
            /\ Annotations["EndpointSliceToService"].start = {EndpointSlice}
            /\ Annotations["IngressToService"].start = {InGroup("Ingress", "networking.k8s.io")}
            /\ Annotations["InstallPlanToCSV"].start = {InstallPlan}
        BY Zenon DEF Annotations, Rule
      <4>2. QED BY <1>1, <1>2, <1>3, <4>1
    <3>2. \A i \in {"CSVToDeployment", "VmimToVmi", "VmToPVC", "VmiToPVC",
                    "VmToDataVolume", "VmiToDataVolume", "VmToSecret"} :
            OfK8s(Annotations[i].start)
      <4>1. /\ Annotations["CSVToDeployment"].start = {CSV}
            /\ Annotations["VmimToVmi"].start = {VMIM}
            /\ Annotations["VmToPVC"].start = {VM}
            /\ Annotations["VmiToPVC"].start = {VMI}
            /\ Annotations["VmToDataVolume"].start = {VM}
            /\ Annotations["VmiToDataVolume"].start = {VMI}
            /\ Annotations["VmToSecret"].start = {VM}
        BY Zenon DEF Annotations, Rule
      <4>2. QED BY <1>1, <1>2, <1>3, <4>1
    <3>3. \A i \in {"VmiToSecret", "VmToConfigMap", "VmiToConfigMap",
                    "VmToServiceAccount", "VmiToServiceAccount", "VmToNetAttachDef",
                    "VmiToNetAttachDef"} :
            OfK8s(Annotations[i].start)
      <4>1. /\ Annotations["VmiToSecret"].start = {VMI}
            /\ Annotations["VmToConfigMap"].start = {VM}
            /\ Annotations["VmiToConfigMap"].start = {VMI}
            /\ Annotations["VmToServiceAccount"].start = {VM}
            /\ Annotations["VmiToServiceAccount"].start = {VMI}
            /\ Annotations["VmToNetAttachDef"].start = {VM}
            /\ Annotations["VmiToNetAttachDef"].start = {VMI}
        BY Zenon DEF Annotations, Rule
      <4>2. QED BY <1>1, <1>2, <1>3, <4>1
    <3>4. \A i \in {"VmSnapshotToVm", "VmRestoreToVm", "VmRestoreToVmSnapshot",
                    "VmExportToVm", "VmExportToVmSnapshot", "VmExportToPVC"} :
            OfK8s(Annotations[i].start)
      <4>1. /\ Annotations["VmSnapshotToVm"].start = {VMSnapshot}
            /\ Annotations["VmRestoreToVm"].start = {VMRestore}
            /\ Annotations["VmRestoreToVmSnapshot"].start = {VMRestore}
            /\ Annotations["VmExportToVm"].start = {VMExport}
            /\ Annotations["VmExportToVmSnapshot"].start = {VMExport}
            /\ Annotations["VmExportToPVC"].start = {VMExport}
        BY Zenon DEF Annotations, Rule
      <4>2. QED BY <1>1, <1>2, <1>3, <4>1
    <3>5. QED BY <3>1, <3>2, <3>3, <3>4 DEF ReferenceRules
  <2>2. \A i \in SelectorRules : OfK8s(Annotations[i].start)
    <3>1. \A i \in {"SelectorToPods", "SelectorToLogs", "ServiceToPods", "ServiceToLogs",
                    "PodToLogs", "VmToVmi", "VmiToPod"} :
            OfK8s(Annotations[i].start)
      <4>1. /\ Annotations["SelectorToPods"].start = Workloads
            /\ Annotations["SelectorToLogs"].start = Workloads
            /\ Annotations["ServiceToPods"].start = {Core("Service")}
            /\ Annotations["ServiceToLogs"].start = {Core("Service")}
            /\ Annotations["PodToLogs"].start = Pods
            /\ Annotations["VmToVmi"].start = {VM}
            /\ Annotations["VmiToPod"].start = {VMI}
        BY Zenon DEF Annotations, Rule
      <4>2. QED BY <1>1, <1>2, <1>3, <4>1
    <3>2. \A i \in {"VmiToLogs", "VmiToVmim", "DataVolumeToPVC",
                    "DataVolumeToImporterPod", "VmToVmSnapshot", "VmToVmRestore"} :
            OfK8s(Annotations[i].start)
      <4>1. /\ Annotations["VmiToLogs"].start = {VMI}
            /\ Annotations["VmiToVmim"].start = {VMI}
            /\ Annotations["DataVolumeToPVC"].start = {DataVolume}
            /\ Annotations["DataVolumeToImporterPod"].start = {DataVolume}
            /\ Annotations["VmToVmSnapshot"].start = {VM}
            /\ Annotations["VmToVmRestore"].start = {VM}
        BY Zenon DEF Annotations, Rule
      <4>2. QED BY <1>1, <1>2, <1>3, <4>1
    <3>3. QED BY <3>1, <3>2 DEF SelectorRules
  <2>3. \A i \in MentionRules : OfK8s(Annotations[i].start)
    <3>1. \A i \in {"VmToAlert", "VmiToAlert", "VmimToAlert", "PodToAlert",
                    "PodToLokiAlert", "DeploymentToAlert", "PodDisruptionBudgetToAlert"} :
            OfK8s(Annotations[i].start)
      <4>1. /\ Annotations["VmToAlert"].start = {VM}
            /\ Annotations["VmiToAlert"].start = {VMI}
            /\ Annotations["VmimToAlert"].start = {VMIM}
            /\ Annotations["PodToAlert"].start = Pods
            /\ Annotations["PodToLokiAlert"].start = Pods
            /\ Annotations["DeploymentToAlert"].start = {Deployment}
            /\ Annotations["PodDisruptionBudgetToAlert"].start = {K8s("PodDisruptionBudget", "v1", "policy")}
        BY Zenon DEF Annotations, Rule
      <4>2. QED BY <1>1, <1>2, <1>3, <4>1
    <3>2. \A i \in {"DaemonSetToAlert", "StatefulSetToAlert", "VmToMetric",
                    "VmiToMetric", "AllToMetric", "K8sSrcToNetflow",
                    "K8sSrcOwnerToNetflow"} :
            OfK8s(Annotations[i].start)
      <4>1. /\ Annotations["DaemonSetToAlert"].start = {DaemonSet}
            /\ Annotations["StatefulSetToAlert"].start = {StatefulSet}
            /\ Annotations["VmToMetric"].start = {VM}
            /\ Annotations["VmiToMetric"].start = {VMI}
            /\ Annotations["AllToMetric"].start = AnyK8s
            /\ Annotations["K8sSrcToNetflow"].start = Endpoints
            /\ Annotations["K8sSrcOwnerToNetflow"].start = Owners
        BY Zenon DEF Annotations, Rule
      <4>2. QED BY <1>1, <1>2, <1>3, <4>1
    <3>3. \A i \in {"PodToTrace"} : OfK8s(Annotations[i].start)
      <4>1. /\ Annotations["PodToTrace"].start = Pods
        BY Zenon DEF Annotations, Rule
      <4>2. QED BY <1>1, <1>2, <1>3, <4>1
    <3>4. QED BY <3>1, <3>2, <3>3 DEF MentionRules
  <2>4. \A i \in OtherRules : OfK8s(Annotations[i].start)
    <3>1. \A i \in {"DependentToOwner", "AllToEvent", "EventToAll", "Event2ToAll",
                    "HPAToTarget", "ServiceToEndpointSlice", "PVCToPV"} :
            OfK8s(Annotations[i].start)
      <4>1. /\ Annotations["DependentToOwner"].start = AnyK8s
            /\ Annotations["AllToEvent"].start = AnyK8s
            /\ Annotations["EventToAll"].start = {CoreV1("Event")}
            /\ Annotations["Event2ToAll"].start = {K8s("Event", "v1", "events.k8s.io")}
            /\ Annotations["HPAToTarget"].start = {InGroup("HorizontalPodAutoscaler", "autoscaling")}
            /\ Annotations["ServiceToEndpointSlice"].start = {Core("Service")}
            /\ Annotations["PVCToPV"].start = {PVC}
        BY Zenon DEF Annotations, Rule
      <4>2. QED BY <1>1, <1>2, <1>3, <4>1
    <3>2. \A i \in {"PVToStorageClass", "PVCToStorageClass", "SubscriptionToCSV",
                    "CSVToCRD", "VmiToNode", "VmToInstancetype", "VmToPreference"} :
            OfK8s(Annotations[i].start)
      <4>1. /\ Annotations["PVToStorageClass"].start = {Core("PersistentVolume")}
            /\ Annotations["PVCToStorageClass"].start = {PVC}
            /\ Annotations["SubscriptionToCSV"].start = {Subscription}
            /\ Annotations["CSVToCRD"].start = {CSV}
            /\ Annotations["VmiToNode"].start = {VMI}
            /\ Annotations["VmToInstancetype"].start = {VM}
            /\ Annotations["VmToPreference"].start = {VM}
        BY Zenon DEF Annotations, Rule
      <4>2. QED BY <1>1, <1>2, <1>3, <4>1
    <3>3. \A i \in {"CSVToPartOf", "InstanceToOperands", "ClusterInstanceToOperands"} :
            OfK8s(Annotations[i].start)
      <4>1. /\ Annotations["CSVToPartOf"].start = {CSV}
            /\ Annotations["InstanceToOperands"].start = AnyK8s
            /\ Annotations["ClusterInstanceToOperands"].start = AnyK8s
        BY Zenon DEF Annotations, Rule
      <4>2. QED BY <1>1, <1>2, <1>3, <4>1
    <3>4. QED BY <3>1, <3>2, <3>3 DEF OtherRules
  <2>5. \A i \in ClusterRules : OfK8s(Annotations[i].start)
    <3>1. \A i \in {"CRDToInstances", "NodeToVmi", "OperatorToCRD"} : OfK8s(Annotations[i].start)
      <4>1. /\ Annotations["CRDToInstances"].start = {CRD}
            /\ Annotations["NodeToVmi"].start = {Core("Node")}
            /\ Annotations["OperatorToCRD"].start = {K8s("Operator", "v1", "operators.coreos.com")}
        BY Zenon DEF Annotations, Rule
      <4>2. QED BY <1>1, <1>2, <1>3, <4>1
    <3>2. QED BY <3>1 DEF ClusterRules
  <2>6. r \in DOMAIN Annotations
    BY RuleNames DEF K8sRuleNames, ClusterRules, ReferenceRules, SelectorRules, MentionRules, OtherRules
  <2>7. QED BY <2>1, <2>2, <2>3, <2>4, <2>5, <2>6 DEF K8sRuleNames
<1>5. PICK n \in Annotations[r].start : c = ClassOf(n) BY <1>4, StartsIn
<1>6. IsClass(n) /\ n[1] = "k8s" BY <1>4, <1>5 DEF OfK8s, OfDomain
<1>7. QED BY <1>5, <1>6, SameDomain

--------------------------------------------------------------------------------
(* Each rule stays in the namespace.                                       *)

LEMMA RuleStays ==
  ASSUME NEW o \in Objects, NEW ns, Namespace(ns), NamespaceOf(o) = ns,
         NEW r \in Rules \ CrossReferences, Usable(r, o)
  PROVE  Within(ApplyFunc(r, o), ns)
<1>1. r \in DOMAIN Annotations BY DEF Rules
<1>2. o.class \in Start[r] BY DEF Usable
<1>3. CASE r \in K8sRuleNames \cup ClusterRules
  <2>1. o.class[1] = "k8s" BY <1>2, <1>3, K8sStarts
  <2>2. Here(o, ns) BY <2>1, Zenon DEF NamespaceOf, Here, Namespace
  <2>3. r \notin ClusterRules BY <1>2, <2>2, ClusterStays, ClusterStarts
  <2>4. CASE r \in ReferenceRules BY <2>2, <2>4, ReferencesStay, ReferencesApply DEF ReferenceRules
  <2>5. CASE r \in SelectorRules BY <2>2, <2>5, SelectorsStay, SelectorsApply DEF SelectorRules
  <2>6. CASE r \in MentionRules BY <2>2, <2>6, SignalsStay, MentionsApply DEF MentionRules
  <2>7. CASE r \in OtherRules BY <2>2, <2>7, OthersStay, OthersApply DEF OtherRules
  <2>8. QED BY <1>3, <2>3, <2>4, <2>5, <2>6, <2>7 DEF K8sRuleNames
<1>4. CASE r \in NameRules \cup FlowRules
  <2>1. o.class[1] # "k8s" /\ (r \in FlowRules => o.class[1] = "netflow") BY <1>2, <1>4, SignalStarts
  <2>2. CASE r \in NameRules BY <2>1, <2>2, NamesStay, NamesApply DEF NameRules
  <2>3. CASE r \in FlowRules BY <2>1, <2>3, NamesStay, NamesApply DEF FlowRules
  <2>4. QED BY <1>4, <2>2, <2>3
<1>5. QED BY <1>1, <1>3, <1>4, EveryRule

\* What a rule finds from an object of a namespace is there, or in none.
LEMMA NeighboursWithin ==
  ASSUME NEW o \in Objects, NEW ns, Namespace(ns), NamespaceOf(o) = ns,
         NEW r \in Rules \ CrossReferences, Usable(r, o), NEW n \in Neighbours(r, o)
  PROVE  n \in Objects /\ NamespaceOf(n) \in {ns, ""}
<1>1. PICK p \in Followed(r, o) : n \in Found(p) BY DEF Neighbours
<1>2. n \in Objects /\ Selects(p, n) BY <1>1 DEF Found
<1>3. PICK q \in ApplyFunc(r, o) : p = [q EXCEPT !.class = ClassOf(@)]
  BY <1>1 DEF Followed, Apply, ParseQueries, NoQueries
<1>4. About(q, ns) BY <1>3, RuleStays DEF Within
<1>5. Selects([q EXCEPT !.class = ClassOf(@)], n) BY <1>2, <1>3
<1>6. QED BY <1>2, <1>4, <1>5, FoundWithin, Zenon DEF Namespace

--------------------------------------------------------------------------------
(* The search.                                                             *)

\* The inductive invariant: the search is at an object of the cluster, and as long as it
\* has not left it, in its namespace.
StaysInv ==
  /\ at \in Objects
  /\ ~left => NamespaceOf(at) = home /\ home # ""

LEMMA StaysInit == Init => StaysInv
BY Zenon DEF Init, StaysInv

LEMMA StaysNext == StaysInv /\ [Next]_vars => StaysInv'
<1> SUFFICES ASSUME StaysInv, [Next]_vars PROVE StaysInv' OBVIOUS
<1>1. ASSUME NEW r \in Rules, Follow(r) PROVE StaysInv'
  <2>1. at' \in Objects BY <1>1 DEF Follow, Neighbours, Found
  <2>2. ASSUME ~left' PROVE NamespaceOf(at') = home /\ home # ""
    <3>1. ~left /\ NamespaceOf(at') # "" /\ r \notin CrossReferences
      BY <1>1, <2>2, Zenon DEF Follow
    <3>2. at \in Objects /\ NamespaceOf(at) = home /\ home # "" BY <3>1, Zenon DEF StaysInv
    <3>3. Usable(r, at) /\ at' \in Neighbours(r, at) BY <1>1 DEF Follow
    <3>4. r \in Rules \ CrossReferences BY <1>1, <3>1
    <3>5. NamespaceOf(at') \in {home, ""} BY <3>2, <3>3, <3>4, NeighboursWithin, Zenon DEF Namespace
    <3>6. QED BY <3>1, <3>2, <3>5, Zenon
  <2>3. home' = home BY <1>1 DEF Follow
  <2>4. NamespaceOf(at)' = NamespaceOf(at') OBVIOUS
  <2>5. QED BY <2>1, <2>2, <2>3, <2>4, Zenon DEF StaysInv
<1>2. CASE UNCHANGED vars BY <1>2, Zenon DEF vars, StaysInv
<1>3. QED BY <1>1, <1>2 DEF Next

\* A search that starts in a namespace and follows no reference out of it stays there,
\* whatever rules of the catalogue the cluster makes usable and whatever it holds.
THEOREM StaysInNamespaceAlways == Spec => []StaysInNamespace
<1>1. StaysInv => StaysInNamespace BY Zenon DEF StaysInv, StaysInNamespace
<1>2. QED BY <1>1, StaysInit, StaysNext, PTL DEF Spec
--------------------------------------------------------------------------------
(* The classes of the queries that a rule writes.                          *)

Formed(q) == q = Query(q.class, q.ns, q.name, q.labels, q.fields)
WrittenFor(queries, goal) == \A q \in queries : Formed(q) /\ q.class \in goal

LEMMA FormsWritten ==
  ASSUME NEW class, NEW goal, class \in goal
  PROVE  /\ \A ns, name : Formed(Named(class, ns, name)) /\ Named(class, ns, name).class \in goal
         /\ \A ns, labels : Formed(Labelled(class, ns, labels)) /\ Labelled(class, ns, labels).class \in goal
         /\ \A labels : Formed(Select(class, labels)) /\ Select(class, labels).class \in goal
BY DEF Formed, Named, Labelled, Select, Query

\* What is required of an object makes a rule write all its queries or none.
LEMMA RequireWritten ==
  ASSUME NEW values, NEW queries, NEW goal, WrittenFor(queries, goal)
  PROVE  WrittenFor(Require(values, queries), goal)
BY DEF Require, WrittenFor, NoQueries

\* The shapes of the rules, for queries about one class.
ShapesFor(o, class, goal) ==
  /\ WrittenFor(NoQueries, goal)
  /\ \A ns, name : WrittenFor({Named(class, ns, name)}, goal)
  /\ \A values, ns, name : WrittenFor(Require(values, {Named(class, ns, name)}), goal)
  /\ \A values, ns, labels : WrittenFor(Require(values, {Labelled(class, ns, labels)}), goal)
  /\ \A labels : WrittenFor({Select(class, labels)}, goal)
  /\ \A values, labels : WrittenFor(Require(values, {Select(class, labels)}), goal)
  /\ \A names : WrittenFor(NamedRefs(o, class, names), goal)
  /\ \A labels : WrittenFor(ByLabels(o, class, labels), goal)
  /\ \A label : WrittenFor(LabelledWithName(o, class, label), goal)
  /\ WrittenFor(LauncherOf(o, class), goal)
  /\ WrittenFor(Namesake(o, class), goal)
  /\ \A ns, name : WrittenFor(NamedByLabels(class, ns, name), goal)
  /\ \A kind : WrittenFor(ExportSource(o, kind, class), goal)

LEMMA ShapesWritten ==
  ASSUME NEW o, NEW class, NEW goal, class \in goal
  PROVE  ShapesFor(o, class, goal)
<1>1. /\ WrittenFor(NoQueries, goal)
      /\ \A ns, name : WrittenFor({Named(class, ns, name)}, goal)
      /\ \A ns, labels : WrittenFor({Labelled(class, ns, labels)}, goal)
      /\ \A labels : WrittenFor({Select(class, labels)}, goal)
  BY FormsWritten DEF WrittenFor, NoQueries
<1>2. /\ \A values, ns, name : WrittenFor(Require(values, {Named(class, ns, name)}), goal)
      /\ \A values, ns, labels : WrittenFor(Require(values, {Labelled(class, ns, labels)}), goal)
      /\ \A values, labels : WrittenFor(Require(values, {Select(class, labels)}), goal)
  BY <1>1, RequireWritten
<1>3. ASSUME NEW names PROVE WrittenFor(NamedRefs(o, class, names), goal)
  <2> DEFINE queries == {Named(class, Str(o, "ns"), n) : n \in names}
  <2>1. WrittenFor(queries, goal) BY FormsWritten DEF WrittenFor
  <2>2. NamedRefs(o, class, names) = Require({Str(o, "ns")} \cup names, queries) BY DEF NamedRefs
  <2> HIDE DEF queries
  <2>3. QED BY <2>1, <2>2, RequireWritten
<1>4. /\ \A labels : WrittenFor(ByLabels(o, class, labels), goal)
      /\ \A label : WrittenFor(LabelledWithName(o, class, label), goal)
      /\ WrittenFor(LauncherOf(o, class), goal)
      /\ WrittenFor(Namesake(o, class), goal)
      /\ \A ns, name : WrittenFor(NamedByLabels(class, ns, name), goal)
      /\ \A kind : WrittenFor(ExportSource(o, kind, class), goal)
  BY <1>1, <1>2, <1>3 DEF ByLabels, LabelledWithName, LauncherOf, Namesake, NamedByLabels, ExportSource
<1>5. QED BY <1>1, <1>2, <1>3, <1>4 DEF ShapesFor

\* The classes of the signals.
LEMMA SignalGoals ==
  /\ Signal("alert", "alert") \in AnyAlert
  /\ Signal("incident", "incident") \in Incidents
  /\ Signal("metric", "metric") \in Metrics
  /\ Signal("netflow", "network") \in Flows
  /\ Signal("trace", "span") \in Spans
  /\ \A ns : LogType(ns) \in AnyLog
BY DEF AnyAlert, Incidents, Metrics, Flows, Spans, AnyLog, AllOf, Classes, SignalClasses, Signal, LogType
ToPods == {"SelectorToPods", "ServiceToPods", "VmiToPod", "DataVolumeToImporterPod", "LogToPod",
  "MetricToPod", "TraceToPod"}
ToAlerts == {"VmToAlert", "VmiToAlert", "VmimToAlert", "PodToAlert", "PodToLokiAlert",
  "DeploymentToAlert", "PodDisruptionBudgetToAlert", "DaemonSetToAlert", "StatefulSetToAlert",
  "IncidentToAlert"}
ToMeasures == {"AllToMetric", "VmToMetric", "VmiToMetric", "AlertToMetric", "AlertToIncident",
  "PodToTrace"}
ToLogsAndFlows == {"SelectorToLogs", "K8sSrcToNetflow", "K8sSrcOwnerToNetflow",
  "K8sDstToNetflow", "K8sDstOwnerToNetflow", "VmiToLogs", "PodToLogs", "ServiceToLogs"}
ToStorage == {"PodToPVC", "PVCToPV", "PVToPVC", "PVToStorageClass", "PVCToStorageClass",
  "VmToPVC", "DataVolumeToPVC", "VmiToPVC", "VmExportToPVC"}
ToSettings == {"PodToConfigMap", "PodToSecret", "PodToServiceAccount", "VmToSecret",
  "VmiToSecret", "VmToConfigMap", "VmiToConfigMap", "VmToServiceAccount", "VmiToServiceAccount"}
ToNetwork == {"AllToEvent", "ServiceToEndpointSlice", "EndpointSliceToService",
  "IngressToService", "VmiToNode", "VmToNetAttachDef", "VmiToNetAttachDef", "MetricToNode"}
ToOperators == {"SubscriptionToCSV", "SubscriptionToInstallPlan", "InstallPlanToCSV",
  "SubscriptionToCatalogSource", "OperatorToCRD", "OperatorToCSV", "OperatorToSubscription"}
ToWorkloads == {"CSVToDeployment", "AlertToDeployment", "AlertToPod",
  "AlertToPodDisruptionBudget", "AlertToDaemonSet", "AlertToStatefulSet", "MetricToDeployment",
  "MetricToDaemonSet", "MetricToStatefulSet"}
ToOperands == {"CSVToPartOf", "InstanceToOperands", "ClusterInstanceToOperands"}
ToMachines == {"VmToVmi", "VmimToVmi", "VmiToVmim", "VmSnapshotToVm", "VmRestoreToVm",
  "VmExportToVm", "NodeToVmi", "AlertToVM", "AlertToVMI", "AlertToVmim"}
ToVolumes == {"VmToDataVolume", "VmiToDataVolume", "VmToVmSnapshot", "VmToVmRestore",
  "VmRestoreToVmSnapshot", "VmExportToVmSnapshot"}
ByReference == {"DependentToOwner", "EventToAll", "Event2ToAll", "CRDToInstances",
  "HPAToTarget", "VmToInstancetype", "VmToPreference"}

LEMMA CrossApply ==
  ASSUME NEW o
  PROVE  /\ ApplyFunc("K8sDstToNetflow", o) = K8sDstToNetflow(o)
         /\ ApplyFunc("K8sDstOwnerToNetflow", o) = K8sDstOwnerToNetflow(o)
         /\ ApplyFunc("PVToPVC", o) = PVToPVC(o)
         /\ ApplyFunc("CRDToInstances", o) = CRDToInstances(o)
         /\ ApplyFunc("SubscriptionToInstallPlan", o) = SubscriptionToInstallPlan(o)
         /\ ApplyFunc("SubscriptionToCatalogSource", o) = SubscriptionToCatalogSource(o)
         /\ ApplyFunc("OperatorToCRD", o) = OperatorToCRD(o)
         /\ ApplyFunc("OperatorToCSV", o) = OperatorToCSV(o)
         /\ ApplyFunc("OperatorToSubscription", o) = OperatorToSubscription(o)
         /\ ApplyFunc("NodeToVmi", o) = NodeToVmi(o)
         /\ ApplyFunc("AlertToMetric", o) = AlertToMetric(o)
         /\ ApplyFunc("AlertToIncident", o) = AlertToIncident(o)
         /\ ApplyFunc("IncidentToAlert", o) = IncidentToAlert(o)
         /\ ApplyFunc("NetflowToDstK8s", o) = NetflowToDstK8s(o)
         /\ ApplyFunc("NetflowToDstK8sOwner", o) = NetflowToDstK8sOwner(o)
BY DEF ApplyFunc

\* A goal of one class, or of signals, is served if the rule is usable at all.
Sure(goal) == (\E c : goal = {c}) \/ goal \subseteq SignalClasses
WritesGoals(rules, o) == \A r \in rules : WrittenFor(ApplyFunc(r, o), Annotations[r].goal) /\ Sure(Annotations[r].goal)

LEMMA SureGoals ==
  /\ \A c : Sure({c})
  /\ Sure(Pods) /\ Sure(AnyAlert) /\ Sure(AnyLog) /\ Sure(Metrics) /\ Sure(Flows) /\ Sure(Spans) /\ Sure(Incidents)
<1>1. \A c : Sure({c}) BY Zenon DEF Sure
<1>2. Sure(Pods) BY Zenon DEF Sure, Pods
<1>3. \A domain : domain # "k8s" => Sure(AllOf(domain))
  BY DEF Sure, AllOf, Classes, K8sClasses, K8s
<1>4. QED BY <1>1, <1>2, <1>3 DEF AnyAlert, AnyLog, Metrics, Flows, Spans, Incidents

LEMMA ToPodsWritten ==
  ASSUME NEW o
  PROVE  WritesGoals(ToPods, o)
<1>1. /\ Annotations["SelectorToPods"].goal = Pods
      /\ Annotations["ServiceToPods"].goal = Pods
      /\ Annotations["VmiToPod"].goal = Pods
      /\ Annotations["DataVolumeToImporterPod"].goal = Pods
  BY Zenon DEF Annotations, Rule
<1>2. /\ Annotations["LogToPod"].goal = Pods
      /\ Annotations["MetricToPod"].goal = Pods
      /\ Annotations["TraceToPod"].goal = Pods
  BY Zenon DEF Annotations, Rule
<1>3. /\ ShapesFor(o, Core("Pod"), Pods)
  BY ShapesWritten DEF Pods
<1>4. /\ WrittenFor(SelectorToPods(o), Pods)
      /\ WrittenFor(ServiceToPods(o), Pods)
      /\ WrittenFor(VmiToPod(o), Pods)
      /\ WrittenFor(DataVolumeToImporterPod(o), Pods)
      /\ WrittenFor(LogToPod(o), Pods)
      /\ WrittenFor(MetricToPod(o), Pods)
      /\ WrittenFor(TraceToPod(o), Pods)
  BY <1>3, Zenon DEF ShapesFor, SelectorToPods, ServiceToPods, VmiToPod, DataVolumeToImporterPod,
      LogToPod, MetricToPod, TraceToPod, MetricNames
<1>5. QED BY <1>1, <1>2, <1>4, NamesApply, SelectorsApply, SureGoals, Zenon DEF WritesGoals, ToPods

LEMMA ToAlertsWritten ==
  ASSUME NEW o
  PROVE  WritesGoals(ToAlerts, o)
<1>1. /\ Annotations["VmToAlert"].goal = AnyAlert
      /\ Annotations["VmiToAlert"].goal = AnyAlert
      /\ Annotations["VmimToAlert"].goal = AnyAlert
      /\ Annotations["PodToAlert"].goal = AnyAlert
      /\ Annotations["PodToLokiAlert"].goal = AnyAlert
  BY Zenon DEF Annotations, Rule
<1>2. /\ Annotations["DeploymentToAlert"].goal = AnyAlert
      /\ Annotations["PodDisruptionBudgetToAlert"].goal = AnyAlert
      /\ Annotations["DaemonSetToAlert"].goal = AnyAlert
      /\ Annotations["StatefulSetToAlert"].goal = AnyAlert
      /\ Annotations["IncidentToAlert"].goal = AnyAlert
  BY Zenon DEF Annotations, Rule
<1>3. /\ ShapesFor(o, Signal("alert", "alert"), AnyAlert)
  BY ShapesWritten, SignalGoals
<1>4. /\ WrittenFor(VmToAlert(o), AnyAlert)
      /\ WrittenFor(VmiToAlert(o), AnyAlert)
      /\ WrittenFor(VmimToAlert(o), AnyAlert)
      /\ WrittenFor(PodToAlert(o), AnyAlert)
      /\ WrittenFor(PodToLokiAlert(o), AnyAlert)
      /\ WrittenFor(DeploymentToAlert(o), AnyAlert)
      /\ WrittenFor(PodDisruptionBudgetToAlert(o), AnyAlert)
      /\ WrittenFor(DaemonSetToAlert(o), AnyAlert)
      /\ WrittenFor(StatefulSetToAlert(o), AnyAlert)
      /\ WrittenFor(IncidentToAlert(o), AnyAlert)
  BY <1>3, Zenon DEF ShapesFor, VmToAlert, VmiToAlert, VmimToAlert, PodToAlert, PodToLokiAlert,
      DeploymentToAlert, PodDisruptionBudgetToAlert, DaemonSetToAlert, StatefulSetToAlert,
      IncidentToAlert, AlertsOn
<1>5. QED BY <1>1, <1>2, <1>4, CrossApply, MentionsApply, SureGoals, Zenon DEF WritesGoals, ToAlerts

LEMMA ToMeasuresWritten ==
  ASSUME NEW o
  PROVE  WritesGoals(ToMeasures, o)
<1>1. /\ Annotations["AllToMetric"].goal = Metrics
      /\ Annotations["VmToMetric"].goal = Metrics
      /\ Annotations["VmiToMetric"].goal = Metrics
      /\ Annotations["AlertToMetric"].goal = Metrics
      /\ Annotations["AlertToIncident"].goal = Incidents
      /\ Annotations["PodToTrace"].goal = Spans
  BY Zenon DEF Annotations, Rule
<1>2. /\ ShapesFor(o, Signal("metric", "metric"), Metrics)
      /\ ShapesFor(o, Signal("incident", "incident"), Incidents)
      /\ ShapesFor(o, Signal("trace", "span"), Spans)
  BY ShapesWritten, SignalGoals
<1>3. /\ WrittenFor(AllToMetric(o), Metrics)
      /\ WrittenFor(VmToMetric(o), Metrics)
      /\ WrittenFor(VmiToMetric(o), Metrics)
      /\ WrittenFor(AlertToMetric(o), Metrics)
      /\ WrittenFor(AlertToIncident(o), Incidents)
      /\ WrittenFor(PodToTrace(o), Spans)
  BY <1>2, Zenon DEF ShapesFor, AllToMetric, VmToMetric, VmiToMetric, AlertToMetric, AlertToIncident,
      PodToTrace, MetricsOn
<1>4. QED BY <1>1, <1>3, CrossApply, MentionsApply, SureGoals, Zenon DEF WritesGoals, ToMeasures

LEMMA ToLogsAndFlowsWritten ==
  ASSUME NEW o
  PROVE  WritesGoals(ToLogsAndFlows, o)
<1>1. /\ Annotations["SelectorToLogs"].goal = AnyLog
      /\ Annotations["K8sSrcToNetflow"].goal = Flows
      /\ Annotations["K8sSrcOwnerToNetflow"].goal = Flows
      /\ Annotations["K8sDstToNetflow"].goal = Flows
  BY Zenon DEF Annotations, Rule
<1>2. /\ Annotations["K8sDstOwnerToNetflow"].goal = Flows
      /\ Annotations["VmiToLogs"].goal = AnyLog
      /\ Annotations["PodToLogs"].goal = AnyLog
      /\ Annotations["ServiceToLogs"].goal = AnyLog
  BY Zenon DEF Annotations, Rule
<1>3. /\ \A ns : ShapesFor(o, LogType(ns), AnyLog)
      /\ ShapesFor(o, Signal("netflow", "network"), Flows)
  BY ShapesWritten, SignalGoals
<1>4. /\ WrittenFor(SelectorToLogs(o), AnyLog)
      /\ WrittenFor(K8sSrcToNetflow(o), Flows)
      /\ WrittenFor(K8sSrcOwnerToNetflow(o), Flows)
      /\ WrittenFor(K8sDstToNetflow(o), Flows)
      /\ WrittenFor(K8sDstOwnerToNetflow(o), Flows)
      /\ WrittenFor(VmiToLogs(o), AnyLog)
      /\ WrittenFor(PodToLogs(o), AnyLog)
      /\ WrittenFor(ServiceToLogs(o), AnyLog)
  BY <1>3, Zenon DEF ShapesFor, SelectorToLogs, K8sSrcToNetflow, K8sSrcOwnerToNetflow, K8sDstToNetflow,
      K8sDstOwnerToNetflow, VmiToLogs, PodToLogs, ServiceToLogs, Flow
<1>5. /\ WrittenFor(ApplyFunc("K8sDstToNetflow", o), Flows)
      /\ WrittenFor(ApplyFunc("K8sDstOwnerToNetflow", o), Flows)
  BY <1>4, CrossApply, Zenon
<1>6. /\ WrittenFor(ApplyFunc("K8sSrcToNetflow", o), Flows)
      /\ WrittenFor(ApplyFunc("K8sSrcOwnerToNetflow", o), Flows)
  BY <1>4, MentionsApply, Zenon
<1>7. /\ WrittenFor(ApplyFunc("SelectorToLogs", o), AnyLog)
      /\ WrittenFor(ApplyFunc("VmiToLogs", o), AnyLog)
      /\ WrittenFor(ApplyFunc("PodToLogs", o), AnyLog)
      /\ WrittenFor(ApplyFunc("ServiceToLogs", o), AnyLog)
  BY <1>4, SelectorsApply, Zenon
<1>8. QED BY <1>1, <1>2, <1>5, <1>6, <1>7, SureGoals, Zenon DEF WritesGoals, ToLogsAndFlows

LEMMA ToStorageWritten ==
  ASSUME NEW o
  PROVE  WritesGoals(ToStorage, o)
<1>1. /\ Annotations["PodToPVC"].goal = {PVC}
      /\ Annotations["PVCToPV"].goal = {Core("PersistentVolume")}
      /\ Annotations["PVToPVC"].goal = {PVC}
      /\ Annotations["PVToStorageClass"].goal = {StorageClass}
      /\ Annotations["PVCToStorageClass"].goal = {StorageClass}
  BY Zenon DEF Annotations, Rule
<1>2. /\ Annotations["VmToPVC"].goal = {PVC}
      /\ Annotations["DataVolumeToPVC"].goal = {PVC}
      /\ Annotations["VmiToPVC"].goal = {PVC}
      /\ Annotations["VmExportToPVC"].goal = {PVC}
  BY Zenon DEF Annotations, Rule
<1>3. /\ ShapesFor(o, PVC, {PVC})
      /\ ShapesFor(o, Core("PersistentVolume"), {Core("PersistentVolume")})
      /\ ShapesFor(o, StorageClass, {StorageClass})
  BY ShapesWritten
<1>4. /\ WrittenFor(PodToPVC(o), {PVC})
      /\ WrittenFor(PVCToPV(o), {Core("PersistentVolume")})
      /\ WrittenFor(PVToPVC(o), {PVC})
      /\ WrittenFor(PVToStorageClass(o), {StorageClass})
      /\ WrittenFor(PVCToStorageClass(o), {StorageClass})
      /\ WrittenFor(VmToPVC(o), {PVC})
      /\ WrittenFor(DataVolumeToPVC(o), {PVC})
      /\ WrittenFor(VmiToPVC(o), {PVC})
      /\ WrittenFor(VmExportToPVC(o), {PVC})
  BY <1>3, Zenon DEF ShapesFor, PodToPVC, PVCToPV, PVToPVC, PVToStorageClass, PVCToStorageClass,
      VmToPVC, DataVolumeToPVC, VmiToPVC, VmExportToPVC, ToStorageClass
<1>5. WrittenFor(ApplyFunc("PVToPVC", o), {PVC}) BY <1>4, CrossApply, Zenon
<1>6. /\ WrittenFor(ApplyFunc("PVCToPV", o), {Core("PersistentVolume")})
      /\ WrittenFor(ApplyFunc("PVToStorageClass", o), {StorageClass})
      /\ WrittenFor(ApplyFunc("PVCToStorageClass", o), {StorageClass})
  BY <1>4, OthersApply, Zenon
<1>7. /\ WrittenFor(ApplyFunc("PodToPVC", o), {PVC})
      /\ WrittenFor(ApplyFunc("VmToPVC", o), {PVC})
      /\ WrittenFor(ApplyFunc("VmiToPVC", o), {PVC})
      /\ WrittenFor(ApplyFunc("VmExportToPVC", o), {PVC})
  BY <1>4, ReferencesApply, Zenon
<1>8. WrittenFor(ApplyFunc("DataVolumeToPVC", o), {PVC}) BY <1>4, SelectorsApply, Zenon
<1>9. \A r \in ToStorage : Sure(Annotations[r].goal)
  <2>1. Sure({PVC}) /\ Sure({Core("PersistentVolume")}) /\ Sure({StorageClass}) BY SureGoals, Zenon
  <2>2. QED BY <1>1, <1>2, <2>1 DEF ToStorage
<1>10. \A r \in ToStorage : WrittenFor(ApplyFunc(r, o), Annotations[r].goal)
  BY <1>1, <1>2, <1>5, <1>6, <1>7, <1>8, Zenon DEF ToStorage
<1>11. QED BY <1>9, <1>10, Zenon DEF WritesGoals

LEMMA ToSettingsWritten ==
  ASSUME NEW o
  PROVE  WritesGoals(ToSettings, o)
<1>1. /\ Annotations["PodToConfigMap"].goal = {Core("ConfigMap")}
      /\ Annotations["PodToSecret"].goal = {Core("Secret")}
      /\ Annotations["PodToServiceAccount"].goal = {Core("ServiceAccount")}
      /\ Annotations["VmToSecret"].goal = {Core("Secret")}
      /\ Annotations["VmiToSecret"].goal = {Core("Secret")}
  BY Zenon DEF Annotations, Rule
<1>2. /\ Annotations["VmToConfigMap"].goal = {Core("ConfigMap")}
      /\ Annotations["VmiToConfigMap"].goal = {Core("ConfigMap")}
      /\ Annotations["VmToServiceAccount"].goal = {Core("ServiceAccount")}
      /\ Annotations["VmiToServiceAccount"].goal = {Core("ServiceAccount")}
  BY Zenon DEF Annotations, Rule
<1>3. /\ ShapesFor(o, Core("ConfigMap"), {Core("ConfigMap")})
      /\ ShapesFor(o, Core("Secret"), {Core("Secret")})
      /\ ShapesFor(o, Core("ServiceAccount"), {Core("ServiceAccount")})
  BY ShapesWritten
<1>4. /\ WrittenFor(PodToConfigMap(o), {Core("ConfigMap")})
      /\ WrittenFor(PodToSecret(o), {Core("Secret")})
      /\ WrittenFor(PodToServiceAccount(o), {Core("ServiceAccount")})
      /\ WrittenFor(VmToSecret(o), {Core("Secret")})
      /\ WrittenFor(VmiToSecret(o), {Core("Secret")})
      /\ WrittenFor(VmToConfigMap(o), {Core("ConfigMap")})
      /\ WrittenFor(VmiToConfigMap(o), {Core("ConfigMap")})
      /\ WrittenFor(VmToServiceAccount(o), {Core("ServiceAccount")})
      /\ WrittenFor(VmiToServiceAccount(o), {Core("ServiceAccount")})
  BY <1>3, Zenon DEF ShapesFor, PodToConfigMap, PodToSecret, PodToServiceAccount, VmToSecret,
      VmiToSecret, VmToConfigMap, VmiToConfigMap, VmToServiceAccount, VmiToServiceAccount
<1>5. \A r \in ToSettings : Sure(Annotations[r].goal)
  <2>1. /\ Sure({Core("ConfigMap")})
        /\ Sure({Core("Secret")})
        /\ Sure({Core("ServiceAccount")})
    BY SureGoals, Zenon
  <2>2. QED BY <1>1, <1>2, <2>1 DEF ToSettings
<1>6. \A r \in ToSettings : WrittenFor(ApplyFunc(r, o), Annotations[r].goal)
  BY <1>1, <1>2, <1>4, ReferencesApply, Zenon DEF ToSettings
<1>7. QED BY <1>5, <1>6, Zenon DEF WritesGoals

LEMMA ToNetworkWritten ==
  ASSUME NEW o
  PROVE  WritesGoals(ToNetwork, o)
<1>1. /\ Annotations["AllToEvent"].goal = {Core("Event")}
      /\ Annotations["ServiceToEndpointSlice"].goal = {EndpointSlice}
      /\ Annotations["EndpointSliceToService"].goal = {Core("Service")}
      /\ Annotations["IngressToService"].goal = {Core("Service")}
  BY Zenon DEF Annotations, Rule
<1>2. /\ Annotations["VmiToNode"].goal = {Core("Node")}
      /\ Annotations["VmToNetAttachDef"].goal = {NetAttachDef}
      /\ Annotations["VmiToNetAttachDef"].goal = {NetAttachDef}
      /\ Annotations["MetricToNode"].goal = {Core("Node")}
  BY Zenon DEF Annotations, Rule
<1>3. /\ ShapesFor(o, EndpointSlice, {EndpointSlice})
      /\ ShapesFor(o, Core("Service"), {Core("Service")})
      /\ ShapesFor(o, NetAttachDef, {NetAttachDef})
      /\ ShapesFor(o, Core("Node"), {Core("Node")})
  BY ShapesWritten
<1>4. WrittenFor(AllToEvent(o), {Core("Event")})
  <2>1. \A ns, name, fields : WrittenFor({Query(Core("Event"), ns, name, {}, fields)}, {Core("Event")})
    BY DEF WrittenFor, Formed, Query
  <2>2. QED BY <2>1, RequireWritten, Zenon DEF AllToEvent
<1>5. /\ WrittenFor(ServiceToEndpointSlice(o), {EndpointSlice})
      /\ WrittenFor(EndpointSliceToService(o), {Core("Service")})
      /\ WrittenFor(IngressToService(o), {Core("Service")})
      /\ WrittenFor(VmiToNode(o), {Core("Node")})
      /\ WrittenFor(VmToNetAttachDef(o), {NetAttachDef})
      /\ WrittenFor(VmiToNetAttachDef(o), {NetAttachDef})
      /\ WrittenFor(MetricToNode(o), {Core("Node")})
  BY <1>3, Zenon DEF ShapesFor, ServiceToEndpointSlice, EndpointSliceToService,
      IngressToService, VmiToNode, VmToNetAttachDef, VmiToNetAttachDef, MetricToNode
<1>6. WrittenFor(ApplyFunc("MetricToNode", o), {Core("Node")}) BY <1>4, <1>5, NamesApply, Zenon
<1>7. /\ WrittenFor(ApplyFunc("ServiceToEndpointSlice", o), {EndpointSlice})
      /\ WrittenFor(ApplyFunc("VmiToNode", o), {Core("Node")})
      /\ WrittenFor(ApplyFunc("AllToEvent", o), {Core("Event")})
  BY <1>4, <1>5, OthersApply, Zenon
<1>8. /\ WrittenFor(ApplyFunc("EndpointSliceToService", o), {Core("Service")})
      /\ WrittenFor(ApplyFunc("IngressToService", o), {Core("Service")})
      /\ WrittenFor(ApplyFunc("VmToNetAttachDef", o), {NetAttachDef})
      /\ WrittenFor(ApplyFunc("VmiToNetAttachDef", o), {NetAttachDef})
  BY <1>4, <1>5, ReferencesApply, Zenon
<1>9. \A r \in ToNetwork : Sure(Annotations[r].goal)
  <2>1. /\ Sure({Core("Event")})
        /\ Sure({EndpointSlice})
        /\ Sure({Core("Service")})
        /\ Sure({Core("Node")})
        /\ Sure({NetAttachDef})
    BY SureGoals, Zenon
  <2>2. QED BY <1>1, <1>2, <2>1 DEF ToNetwork
<1>10. \A r \in ToNetwork : WrittenFor(ApplyFunc(r, o), Annotations[r].goal)
  BY <1>1, <1>2, <1>6, <1>7, <1>8, Zenon DEF ToNetwork
<1>11. QED BY <1>9, <1>10, Zenon DEF WritesGoals

LEMMA ToOperatorsWritten ==
  ASSUME NEW o
  PROVE  WritesGoals(ToOperators, o)
<1>1. /\ Annotations["SubscriptionToCSV"].goal = {CSV}
      /\ Annotations["SubscriptionToInstallPlan"].goal = {InstallPlan}
      /\ Annotations["InstallPlanToCSV"].goal = {CSV}
      /\ Annotations["SubscriptionToCatalogSource"].goal = {CatalogSource}
  BY Zenon DEF Annotations, Rule
<1>2. /\ Annotations["OperatorToCRD"].goal = {CRD}
      /\ Annotations["OperatorToCSV"].goal = {CSV}
      /\ Annotations["OperatorToSubscription"].goal = {Subscription}
  BY Zenon DEF Annotations, Rule
<1>3. /\ ShapesFor(o, CSV, {CSV})
      /\ ShapesFor(o, InstallPlan, {InstallPlan})
      /\ ShapesFor(o, CatalogSource, {CatalogSource})
  BY ShapesWritten
<1>4. /\ WrittenFor(SubscriptionToCSV(o), {CSV})
      /\ WrittenFor(SubscriptionToInstallPlan(o), {InstallPlan})
      /\ WrittenFor(InstallPlanToCSV(o), {CSV})
      /\ WrittenFor(SubscriptionToCatalogSource(o), {CatalogSource})
  BY <1>3, Zenon DEF ShapesFor, SubscriptionToCSV, SubscriptionToInstallPlan, InstallPlanToCSV,
      SubscriptionToCatalogSource
<1>5. /\ WrittenFor(OperatorToCRD(o), {CRD})
      /\ WrittenFor(OperatorToCSV(o), {CSV})
      /\ WrittenFor(OperatorToSubscription(o), {Subscription})
  <2>1. \A class, ns, name : Formed(Named(class, ns, name)) /\ Named(class, ns, name).class \in {class}
    <3>1. \A class : class \in {class} OBVIOUS
    <3>2. QED BY <3>1, FormsWritten
  <2>2. WrittenFor(OperatorToCRD(o), {CRD}) BY <2>1, Zenon DEF WrittenFor, OperatorToCRD
  <2>3. WrittenFor(OperatorToCSV(o), {CSV}) BY <2>1, SMT DEF WrittenFor, OperatorToCSV
  <2>4. WrittenFor(OperatorToSubscription(o), {Subscription})
    BY <2>1, SMT DEF WrittenFor, OperatorToSubscription
  <2>5. QED BY <2>2, <2>3, <2>4
<1>6. /\ WrittenFor(ApplyFunc("SubscriptionToInstallPlan", o), {InstallPlan})
      /\ WrittenFor(ApplyFunc("SubscriptionToCatalogSource", o), {CatalogSource})
      /\ WrittenFor(ApplyFunc("OperatorToCRD", o), {CRD})
      /\ WrittenFor(ApplyFunc("OperatorToCSV", o), {CSV})
      /\ WrittenFor(ApplyFunc("OperatorToSubscription", o), {Subscription})
  BY <1>4, <1>5, CrossApply, Zenon
<1>7. WrittenFor(ApplyFunc("SubscriptionToCSV", o), {CSV}) BY <1>4, <1>5, OthersApply, Zenon
<1>8. WrittenFor(ApplyFunc("InstallPlanToCSV", o), {CSV}) BY <1>4, <1>5, ReferencesApply, Zenon
<1>9. \A r \in ToOperators : Sure(Annotations[r].goal)
  <2>1. /\ Sure({CSV})
        /\ Sure({InstallPlan})
        /\ Sure({CatalogSource})
        /\ Sure({CRD})
        /\ Sure({Subscription})
    BY SureGoals, Zenon
  <2>2. QED BY <1>1, <1>2, <2>1 DEF ToOperators
<1>10. \A r \in ToOperators : WrittenFor(ApplyFunc(r, o), Annotations[r].goal)
  BY <1>1, <1>2, <1>6, <1>7, <1>8, Zenon DEF ToOperators
<1>11. QED BY <1>9, <1>10, Zenon DEF WritesGoals

LEMMA ToWorkloadsWritten ==
  ASSUME NEW o
  PROVE  WritesGoals(ToWorkloads, o)
<1>1. /\ Annotations["CSVToDeployment"].goal = {Deployment}
      /\ Annotations["AlertToDeployment"].goal = {Deployment}
      /\ Annotations["AlertToPod"].goal = {CoreV1("Pod")}
      /\ Annotations["AlertToPodDisruptionBudget"].goal = {K8s("PodDisruptionBudget", "v1", "policy")}
      /\ Annotations["AlertToDaemonSet"].goal = {DaemonSet}
  BY Zenon DEF Annotations, Rule
<1>2. /\ Annotations["AlertToStatefulSet"].goal = {StatefulSet}
      /\ Annotations["MetricToDeployment"].goal = {Deployment}
      /\ Annotations["MetricToDaemonSet"].goal = {DaemonSet}
      /\ Annotations["MetricToStatefulSet"].goal = {StatefulSet}
  BY Zenon DEF Annotations, Rule
<1>3. /\ ShapesFor(o, Deployment, {Deployment})
      /\ ShapesFor(o, DaemonSet, {DaemonSet})
      /\ ShapesFor(o, StatefulSet, {StatefulSet})
      /\ ShapesFor(o, K8s("PodDisruptionBudget", "v1", "policy"), {K8s("PodDisruptionBudget", "v1", "policy")})
      /\ ShapesFor(o, CoreV1("Pod"), {CoreV1("Pod")})
  BY ShapesWritten
<1>4. /\ WrittenFor(CSVToDeployment(o), {Deployment})
      /\ WrittenFor(AlertToDeployment(o), {Deployment})
      /\ WrittenFor(AlertToPod(o), {CoreV1("Pod")})
      /\ WrittenFor(AlertToPodDisruptionBudget(o), {K8s("PodDisruptionBudget", "v1", "policy")})
      /\ WrittenFor(AlertToDaemonSet(o), {DaemonSet})
      /\ WrittenFor(AlertToStatefulSet(o), {StatefulSet})
      /\ WrittenFor(MetricToDeployment(o), {Deployment})
      /\ WrittenFor(MetricToDaemonSet(o), {DaemonSet})
      /\ WrittenFor(MetricToStatefulSet(o), {StatefulSet})
  BY <1>3, Zenon DEF ShapesFor, CSVToDeployment, AlertToDeployment, AlertToPod,
      AlertToPodDisruptionBudget, AlertToDaemonSet, AlertToStatefulSet, MetricToDeployment,
      MetricToDaemonSet, MetricToStatefulSet, AlertNames, MetricNames
<1>5. \A r \in ToWorkloads : Sure(Annotations[r].goal)
  <2>1. /\ Sure({Deployment})
        /\ Sure({CoreV1("Pod")})
        /\ Sure({K8s("PodDisruptionBudget", "v1", "policy")})
        /\ Sure({DaemonSet})
        /\ Sure({StatefulSet})
    BY SureGoals, Zenon
  <2>2. QED BY <1>1, <1>2, <2>1 DEF ToWorkloads
<1>6. \A r \in ToWorkloads : WrittenFor(ApplyFunc(r, o), Annotations[r].goal)
  BY <1>1, <1>2, <1>4, NamesApply, ReferencesApply, Zenon DEF ToWorkloads
<1>7. QED BY <1>5, <1>6, Zenon DEF WritesGoals

LEMMA ToOperandsWritten ==
  ASSUME NEW o
  PROVE  \A r \in ToOperands : WrittenFor(ApplyFunc(r, o), Annotations[r].goal)
<1>1. /\ Annotations["CSVToPartOf"].goal = PartOfClasses
      /\ Annotations["InstanceToOperands"].goal = OperandClasses
      /\ Annotations["ClusterInstanceToOperands"].goal = ClusterOperandClasses
  BY Zenon DEF Annotations, Rule
<1>2. \A classes, ns, label, value : WrittenFor(Operands(classes, ns, label, value), classes)
  BY FormsWritten DEF WrittenFor, Operands
<1>3. /\ WrittenFor(CSVToPartOf(o), PartOfClasses)
      /\ WrittenFor(InstanceToOperands(o), OperandClasses)
      /\ WrittenFor(ClusterInstanceToOperands(o), ClusterOperandClasses)
  <2>1. \A classes : WrittenFor(NoQueries, classes) BY DEF WrittenFor, NoQueries
  <2>2. QED BY <1>2, <2>1, RequireWritten DEF CSVToPartOf, InstanceToOperands, ClusterInstanceToOperands
<1>4. QED BY <1>1, <1>3, OthersApply, Zenon DEF ToOperands

LEMMA ToMachinesWritten ==
  ASSUME NEW o
  PROVE  WritesGoals(ToMachines, o)
<1>1. /\ Annotations["VmToVmi"].goal = {VMI}
      /\ Annotations["VmimToVmi"].goal = {VMI}
      /\ Annotations["VmiToVmim"].goal = {VMIM}
      /\ Annotations["VmSnapshotToVm"].goal = {VM}
      /\ Annotations["VmRestoreToVm"].goal = {VM}
  BY Zenon DEF Annotations, Rule
<1>2. /\ Annotations["VmExportToVm"].goal = {VM}
      /\ Annotations["NodeToVmi"].goal = {VMI}
      /\ Annotations["AlertToVM"].goal = {VM}
      /\ Annotations["AlertToVMI"].goal = {VMI}
      /\ Annotations["AlertToVmim"].goal = {VMIM}
  BY Zenon DEF Annotations, Rule
<1>3. /\ ShapesFor(o, VMI, {VMI})
      /\ ShapesFor(o, VMIM, {VMIM})
      /\ ShapesFor(o, VM, {VM})
  BY ShapesWritten
<1>4. /\ WrittenFor(VmToVmi(o), {VMI})
      /\ WrittenFor(VmimToVmi(o), {VMI})
      /\ WrittenFor(VmiToVmim(o), {VMIM})
      /\ WrittenFor(VmSnapshotToVm(o), {VM})
      /\ WrittenFor(VmRestoreToVm(o), {VM})
      /\ WrittenFor(VmExportToVm(o), {VM})
      /\ WrittenFor(NodeToVmi(o), {VMI})
      /\ WrittenFor(AlertToVM(o), {VM})
      /\ WrittenFor(AlertToVMI(o), {VMI})
      /\ WrittenFor(AlertToVmim(o), {VMIM})
  BY <1>3, Zenon DEF ShapesFor, VmToVmi, VmimToVmi, VmiToVmim, VmSnapshotToVm, VmRestoreToVm,
      VmExportToVm, NodeToVmi, AlertToVM, AlertToVMI, AlertToVmim, AlertNames
<1>5. WrittenFor(ApplyFunc("NodeToVmi", o), {VMI}) BY <1>4, CrossApply, Zenon
<1>6. /\ WrittenFor(ApplyFunc("AlertToVM", o), {VM})
      /\ WrittenFor(ApplyFunc("AlertToVMI", o), {VMI})
      /\ WrittenFor(ApplyFunc("AlertToVmim", o), {VMIM})
  BY <1>4, NamesApply, Zenon
<1>7. /\ WrittenFor(ApplyFunc("VmimToVmi", o), {VMI})
      /\ WrittenFor(ApplyFunc("VmSnapshotToVm", o), {VM})
      /\ WrittenFor(ApplyFunc("VmRestoreToVm", o), {VM})
      /\ WrittenFor(ApplyFunc("VmExportToVm", o), {VM})
  BY <1>4, ReferencesApply, Zenon
<1>8. /\ WrittenFor(ApplyFunc("VmToVmi", o), {VMI})
      /\ WrittenFor(ApplyFunc("VmiToVmim", o), {VMIM})
  BY <1>4, SelectorsApply, Zenon
<1>9. \A r \in ToMachines : Sure(Annotations[r].goal)
  <2>1. /\ Sure({VMI})
        /\ Sure({VMIM})
        /\ Sure({VM})
    BY SureGoals, Zenon
  <2>2. QED BY <1>1, <1>2, <2>1 DEF ToMachines
<1>10. \A r \in ToMachines : WrittenFor(ApplyFunc(r, o), Annotations[r].goal)
  BY <1>1, <1>2, <1>5, <1>6, <1>7, <1>8, Zenon DEF ToMachines
<1>11. QED BY <1>9, <1>10, Zenon DEF WritesGoals

LEMMA ToVolumesWritten ==
  ASSUME NEW o
  PROVE  WritesGoals(ToVolumes, o)
<1>1. /\ Annotations["VmToDataVolume"].goal = {DataVolume}
      /\ Annotations["VmiToDataVolume"].goal = {DataVolume}
      /\ Annotations["VmToVmSnapshot"].goal = {VMSnapshot}
      /\ Annotations["VmToVmRestore"].goal = {VMRestore}
      /\ Annotations["VmRestoreToVmSnapshot"].goal = {VMSnapshot}
      /\ Annotations["VmExportToVmSnapshot"].goal = {VMSnapshot}
  BY Zenon DEF Annotations, Rule
<1>2. /\ ShapesFor(o, DataVolume, {DataVolume})
      /\ ShapesFor(o, VMSnapshot, {VMSnapshot})
      /\ ShapesFor(o, VMRestore, {VMRestore})
  BY ShapesWritten
<1>3. /\ WrittenFor(VmToDataVolume(o), {DataVolume})
      /\ WrittenFor(VmiToDataVolume(o), {DataVolume})
      /\ WrittenFor(VmToVmSnapshot(o), {VMSnapshot})
      /\ WrittenFor(VmToVmRestore(o), {VMRestore})
      /\ WrittenFor(VmRestoreToVmSnapshot(o), {VMSnapshot})
      /\ WrittenFor(VmExportToVmSnapshot(o), {VMSnapshot})
  BY <1>2, Zenon DEF ShapesFor, VmToDataVolume, VmiToDataVolume, VmToVmSnapshot, VmToVmRestore,
      VmRestoreToVmSnapshot, VmExportToVmSnapshot
<1>4. \A r \in ToVolumes : Sure(Annotations[r].goal)
  <2>1. Sure({DataVolume}) /\ Sure({VMSnapshot}) /\ Sure({VMRestore}) BY SureGoals, Zenon
  <2>2. QED BY <1>1, <2>1 DEF ToVolumes
<1>5. \A r \in ToVolumes : WrittenFor(ApplyFunc(r, o), Annotations[r].goal)
  BY <1>1, <1>3, ReferencesApply, SelectorsApply, Zenon DEF ToVolumes
<1>6. QED BY <1>4, <1>5, Zenon DEF WritesGoals
--------------------------------------------------------------------------------
(* The classes that a cluster serves.                                      *)

LEMMA ClassOfK8s ==
  ASSUME NEW kind, NEW version, NEW group
  PROVE  \E v : ClassOf(K8s(kind, version, group)) = K8s(kind, v, group)
<1> DEFINE c == K8s(kind, version, group)
<1>1. c[1] = "k8s" /\ c[3] = version /\ c[4] = group /\ c = <<"k8s", kind, version, group>> BY DEF K8s
<1>2. \A v : [c EXCEPT ![3] = v] = K8s(kind, v, group) BY DEF K8s
<1> HIDE DEF c
<1>3. ClassOf(c) = c \/ ClassOf(c) = [c EXCEPT ![3] = PreferredVersion[c[4]]] BY Zenon DEF ClassOf
<1>4. QED BY <1>2, <1>3 DEF c

LEMMA ServedGroup ==
  ASSUME NEW kind, NEW version, NEW group, Serves(K8s(kind, version, group))
  PROVE  group \in DOMAIN PreferredVersion
<1>1. PICK v : ClassOf(K8s(kind, version, group)) = K8s(kind, v, group) BY ClassOfK8s
<1>2. K8s(kind, v, group) \in Classes BY <1>1 DEF Serves
<1>3. K8s(kind, v, group) \in K8sClasses BY <1>2 DEF Classes, SignalClasses, Signal, K8s
<1>4. PICK r \in DOMAIN Resources : K8s(kind, v, group) = K8s(r[1], r[2], r[3]) BY <1>3 DEF K8sClasses
<1>5. r[3] = group BY <1>4 DEF K8s
<1>6. QED BY <1>5, ResourcesAssumption

LEMMA SameClass ==
  ASSUME NEW kind, NEW version, NEW group
  PROVE  ClassOf(ClassOf(K8s(kind, version, group))) = ClassOf(K8s(kind, version, group))
<1> DEFINE c == K8s(kind, version, group)
           d == [c EXCEPT ![3] = PreferredVersion[c[4]]]
<1>1. [d EXCEPT ![3] = PreferredVersion[d[4]]] = d
  <2>1. d = K8s(kind, PreferredVersion[group], group) BY DEF K8s
  <2> HIDE DEF d
  <2>2. QED BY <2>1 DEF K8s
<1> HIDE DEF c
<1>2. ClassOf(c) = d \/ (ClassOf(c) = c /\ ClassOf(c) # d) BY Zenon DEF ClassOf
<1>3. CASE ClassOf(c) = d
  <2> HIDE DEF d
  <2>1. ClassOf(d) = d \/ ClassOf(d) = [d EXCEPT ![3] = PreferredVersion[d[4]]] BY Zenon DEF ClassOf
  <2>2. ClassOf(d) = d BY <1>1, <2>1
  <2>3. ClassOf(ClassOf(c)) = ClassOf(c) BY <1>3, <2>2
  <2>4. QED BY <2>3 DEF c
<1>4. CASE ClassOf(c) = c
  <2>1. ClassOf(ClassOf(c)) = ClassOf(c) BY <1>4
  <2>2. QED BY <2>1 DEF c
<1>5. QED BY <1>2, <1>3, <1>4

\* Whatever k8s class the cluster serves is a goal of a rule for any.
LEMMA AnyK8sGoal ==
  ASSUME NEW kind, NEW version, NEW group, Serves(K8s(kind, version, group))
  PROVE  ClassOf(K8s(kind, version, group)) \in Resolve(AnyK8s)
<1> DEFINE c == ClassOf(K8s(kind, version, group))
<1>1. PICK v : c = K8s(kind, v, group) BY ClassOfK8s
<1>2. c[1] = "k8s" BY <1>1 DEF K8s
<1>3. c \in Classes BY DEF Serves
<1>4. ClassOf(c) = c BY SameClass
<1> HIDE DEF c
<1>5. c \in AnyK8s BY <1>2, <1>3 DEF AnyK8s, AllOf
<1>6. c \in Resolve(AnyK8s) BY <1>3, <1>4, <1>5 DEF Resolve
<1>7. QED BY <1>6 DEF c

\* The built-in groups are served in version v1.
LEMMA BuiltInVersion ==
  ASSUME VersionsWritten, NEW kind, NEW version, NEW group \in BuiltInGroups, Serves(K8s(kind, version, group))
  PROVE  ClassOf(InGroup(kind, group)) = K8s(kind, "v1", group) /\ ClassOf(K8s(kind, "v1", group)) = K8s(kind, "v1", group)
<1> DEFINE c == InGroup(kind, group)
           d == K8s(kind, "v1", group)
<1>1. group \in DOMAIN PreferredVersion BY ServedGroup
<1>2. PreferredVersion[group] = "v1" BY <1>1 DEF VersionsWritten
<1>3. c[1] = "k8s" /\ c[4] = group /\ [c EXCEPT ![3] = "v1"] = d
  <2>1. \A v : LET e == K8s(kind, v, group)
              IN  e[1] = "k8s" /\ e[4] = group /\ [e EXCEPT ![3] = "v1"] = d
    BY DEF K8s
  <2>2. QED BY <2>1, Zenon DEF InGroup
<1>4. c[3] = ""
  <2>1. \A v : K8s(kind, v, group)[3] = v BY DEF K8s
  <2>2. QED BY <2>1, Zenon DEF InGroup
<1> HIDE DEF c, d
<1>5. ClassOf(c) = [c EXCEPT ![3] = PreferredVersion[c[4]]] BY <1>1, <1>3, <1>4, Zenon DEF ClassOf
<1>6. ClassOf(c) = d BY <1>2, <1>3, <1>5
<1>7. ClassOf(d) = d
  <2>1. ClassOf(ClassOf(c)) = ClassOf(c) BY SameClass, Zenon DEF c, InGroup
  <2>2. QED BY <1>6, <2>1
<1>8. QED BY <1>6, <1>7 DEF c, d
--------------------------------------------------------------------------------
(* What a rule writes is followed, but for the losses that are known.      *)

\* The queries that are for a declared goal of the rule, once their class is resolved.
Met(r, queries) == \A q \in queries : Formed(q) /\ ClassOf(q.class) \in Goal[r]

LEMMA WrittenMet ==
  ASSUME NEW o, NEW r \in Rules, WrittenFor(ApplyFunc(r, o), Annotations[r].goal),
         \A c \in Annotations[r].goal : Serves(c)
  PROVE  Met(r, ApplyFunc(r, o))
<1>1. r \in DOMAIN Annotations BY DEF Rules
<1>2. \A c \in Annotations[r].goal : ClassOf(c) \in Goal[r]
  BY <1>1 DEF Serves, Goal, Resolve
<1>3. QED BY <1>2 DEF Met, WrittenFor

LEMMA SureServed ==
  ASSUME NEW r \in Rules, Sure(Annotations[r].goal)
  PROVE  \A c \in Annotations[r].goal : Serves(c)
<1>1. CASE \E c : Annotations[r].goal = {c}
  BY <1>1 DEF Rules, Goal, Resolve, Serves
<1>2. CASE Annotations[r].goal \subseteq SignalClasses
  <2>1. \A c \in SignalClasses : c[1] # "k8s" BY Domains DEF OfDomain, SignalClasses
  <2>2. \A c \in SignalClasses : ClassOf(c) = c BY <2>1, SignalClass
  <2>3. QED BY <1>2, <2>2 DEF Serves, Classes
<1>3. QED BY <1>1, <1>2 DEF Sure

\* At most one query, for a k8s class.
OneK8s(queries) ==
  \A q \in queries :
    /\ queries = {q}
    /\ Formed(q)
    /\ \E kind, version, group : q.class = K8s(kind, version, group)

LEMMA OneK8sForms ==
  ASSUME NEW c, \E kind, version, group : c = K8s(kind, version, group)
  PROVE  /\ \A ns, name : OneK8s({Named(c, ns, name)})
         /\ \A ns, labels : OneK8s({Labelled(c, ns, labels)})
BY DEF OneK8s, Formed, Named, Labelled, Query

LEMMA RequireSome == \A values, queries : Require(values, queries) \in {NoQueries, queries}
BY DEF Require

LEMMA OneK8sRequire ==
  OneK8s(NoQueries) /\ \A values, queries : OneK8s(queries) => OneK8s(Require(values, queries))
<1>1. OneK8s(NoQueries) BY DEF OneK8s, NoQueries
<1>2. QED BY <1>1, RequireSome DEF OneK8s

LEMMA ByReferenceOne ==
  ASSUME NEW o, NEW r \in ByReference
  PROVE  OneK8s(ApplyFunc(r, o)) /\ Annotations[r].goal = AnyK8s
<1>1. /\ Annotations["DependentToOwner"].goal = AnyK8s
      /\ Annotations["EventToAll"].goal = AnyK8s
      /\ Annotations["Event2ToAll"].goal = AnyK8s
      /\ Annotations["CRDToInstances"].goal = AnyK8s
      /\ Annotations["HPAToTarget"].goal = AnyK8s
      /\ Annotations["VmToInstancetype"].goal = AnyK8s
      /\ Annotations["VmToPreference"].goal = AnyK8s
  BY Zenon DEF Annotations, Rule
<1>2. Annotations[r].goal = AnyK8s BY <1>1 DEF ByReference
<1>3. /\ \A kind, version, group, ns, name : OneK8s({Named(K8s(kind, version, group), ns, name)})
      /\ \A kind, version, group, ns, labels : OneK8s({Labelled(K8s(kind, version, group), ns, labels)})
  BY OneK8sForms
<1>4. OneK8s(DependentToOwner(o))
  <2>1. CASE Has(o, "ownerReferences")
    <3> DEFINE ref == o.ownerReferences[1]
               c == K8s(ref.kind, ref.version, ref.group)
    <3>1. DependentToOwner(o) = {Named(c, IF Namespaced(c) THEN Str(o, "ns") ELSE "", ref.name)}
      BY <2>1, Zenon DEF DependentToOwner
    <3>2. \A ns, name : OneK8s({Named(c, ns, name)}) BY <1>3
    <3> HIDE DEF c, ref
    <3>3. QED BY <3>1, <3>2, Zenon
  <2>2. QED BY <2>1, OneK8sRequire, Zenon DEF DependentToOwner
<1>5. OneK8s(EventToAll(o)) /\ OneK8s(Event2ToAll(o))
  <2>1. \A ref : OneK8s(ReferredTo(ref)) BY <1>3, OneK8sRequire DEF ReferredTo
  <2>2. QED BY <2>1, OneK8sRequire, Zenon DEF EventToAll, Event2ToAll
<1>6. OneK8s(CRDToInstances(o)) BY <1>3, OneK8sRequire, Zenon DEF CRDToInstances
<1>7. OneK8s(HPAToTarget(o))
  <2> DEFINE c == K8s(o.scaleTargetRef.kind, o.scaleTargetRef.version, o.scaleTargetRef.group)
  <2>1. HPAToTarget(o) = Require({Str(o, "ns")}, {Named(c, o.ns, o.scaleTargetRef.name)})
    BY Zenon DEF HPAToTarget
  <2>2. OneK8s({Named(c, o.ns, o.scaleTargetRef.name)}) BY <1>3
  <2> HIDE DEF c
  <2>3. QED BY <2>1, <2>2, OneK8sRequire
<1>8. \A f, kind, clusterKind : OneK8s(NamespacedOrCluster(o, f, kind, clusterKind))
  <2> SUFFICES ASSUME NEW f, NEW kind, NEW clusterKind
               PROVE  OneK8s(NamespacedOrCluster(o, f, kind, clusterKind))
    OBVIOUS
  <2> DEFINE q == IF Str(o[f], "kind") = kind
                  THEN Named(InGroup(kind, Types), o.ns, o[f].name)
                  ELSE Named(InGroup(clusterKind, Types), "", o[f].name)
  <2>1. \A k, ns, name : OneK8s({Named(InGroup(k, Types), ns, name)})
    <3>1. \A k : \E v : InGroup(k, Types) = K8s(k, v, Types) BY Zenon DEF InGroup
    <3>2. QED BY <3>1, OneK8sForms
  <2>2. OneK8s({q}) BY <2>1, Zenon
  <2>3. Has(o, f) => NamespacedOrCluster(o, f, kind, clusterKind) = Require({Str(o, "ns"), Str(o[f], "name")}, {q})
    BY Zenon DEF NamespacedOrCluster
  <2>4. ~Has(o, f) => NamespacedOrCluster(o, f, kind, clusterKind) = NoQueries BY Zenon DEF NamespacedOrCluster
  <2> HIDE DEF q
  <2>5. QED BY <2>2, <2>3, <2>4, OneK8sRequire, Zenon
<1>9. OneK8s(VmToInstancetype(o)) /\ OneK8s(VmToPreference(o))
  BY <1>8, Zenon DEF VmToInstancetype, VmToPreference
<1>10. OneK8s(ApplyFunc(r, o))
  BY <1>4, <1>5, <1>6, <1>7, <1>9, OthersApply, CrossApply DEF ByReference
<1>11. QED BY <1>2, <1>10

\* A reference to a class that the cluster has is followed.
LEMMA ByReferenceMet ==
  ASSUME NEW o, NEW r \in ByReference \cap Rules, ~Dangling(r, o)
  PROVE  Met(r, ApplyFunc(r, o))
<1>1. OneK8s(ApplyFunc(r, o)) /\ Annotations[r].goal = AnyK8s BY ByReferenceOne
<1>2. PICK p \in Written(r, o) : p.class \in Classes BY <1>1 DEF Dangling
<1>3. PICK q \in ApplyFunc(r, o) : p = [q EXCEPT !.class = ClassOf(@)] BY <1>2 DEF Written
<1>4. PICK kind, version, group : q.class = K8s(kind, version, group) BY <1>1, <1>3 DEF OneK8s
<1>5. p.class = ClassOf(q.class) BY <1>1, <1>3 DEF OneK8s, Formed, Query
<1>6. Serves(K8s(kind, version, group)) BY <1>2, <1>4, <1>5 DEF Serves
<1>7. ClassOf(q.class) \in Goal[r] BY <1>1, <1>4, <1>6, AnyK8sGoal DEF Goal, Rules
<1>8. QED BY <1>1, <1>3, <1>7 DEF OneK8s, Met

EndKinds == {"Pod", "Service", "Node"}
EndRules == {"NetflowToSrcK8s", "NetflowToDstK8s"}
OwnerRules == {"NetflowToSrcK8sOwner", "NetflowToDstK8sOwner"}

\* The labels that tell an end, and what declares the kinds of it.
LEMMA FlowEnds ==
  ASSUME NEW r \in EndRules \cup OwnerRules, NEW o
  PROVE  /\ r \in DOMAIN EndType
         /\ \E ns, name : ApplyFunc(r, o) = Endpoint(o, EndType[r], ns, name)
         /\ Annotations[r].goal \in {Endpoints, Owners}
<1>1. /\ Annotations["NetflowToSrcK8s"].goal = Endpoints
      /\ Annotations["NetflowToDstK8s"].goal = Endpoints
      /\ Annotations["NetflowToSrcK8sOwner"].goal = Owners
      /\ Annotations["NetflowToDstK8sOwner"].goal = Owners
  BY Zenon DEF Annotations, Rule
<1>2. /\ EndType["NetflowToSrcK8s"] = "SrcK8S_Type"
      /\ EndType["NetflowToDstK8s"] = "DstK8S_Type"
      /\ EndType["NetflowToSrcK8sOwner"] = "SrcK8S_OwnerType"
      /\ EndType["NetflowToDstK8sOwner"] = "DstK8S_OwnerType"
      /\ DOMAIN EndType = EndRules \cup OwnerRules
  BY DEF EndType, EndRules, OwnerRules
<1>3. /\ ApplyFunc("NetflowToSrcK8s", o) = Endpoint(o, "SrcK8S_Type", "SrcK8S_Namespace", "SrcK8S_Name")
      /\ ApplyFunc("NetflowToDstK8s", o) = Endpoint(o, "DstK8S_Type", "DstK8S_Namespace", "DstK8S_Name")
  BY NamesApply, CrossApply DEF NetflowToSrcK8s, NetflowToDstK8s
<1>4. /\ ApplyFunc("NetflowToSrcK8sOwner", o) =
            Endpoint(o, "SrcK8S_OwnerType", "SrcK8S_Namespace", "SrcK8S_OwnerName")
      /\ ApplyFunc("NetflowToDstK8sOwner", o) =
            Endpoint(o, "DstK8S_OwnerType", "DstK8S_Namespace", "DstK8S_OwnerName")
  BY NamesApply, CrossApply DEF NetflowToSrcK8sOwner, NetflowToDstK8sOwner
<1>5. QED BY <1>1, <1>2, <1>3, <1>4 DEF EndRules, OwnerRules

\* The kinds of an end are in the core group, those of an owner in apps.
LEMMA EndGoal ==
  ASSUME NEW c \in Endpoints \cup Owners
  PROVE  \E group \in BuiltInGroups :
           /\ c = InGroup(c[2], group)
           /\ TypeToK8s(c[2]) = K8s(c[2], "v1", group)
<1>1. \A kind : Core(kind)[2] = kind /\ Core(kind) = InGroup(kind, "")
  BY DEF Core, InGroup, K8s
<1>2. \A kind, group : InGroup(kind, group)[2] = kind BY DEF InGroup, K8s
<1>3. CASE c \in Endpoints
  <2>1. PICK kind \in {"Node", "Pod", "Service"} : c = Core(kind) BY <1>3 DEF Endpoints
  <2>2. kind \notin {"Deployment", "DaemonSet", "StatefulSet", "ReplicaSet"} BY <2>1
  <2>3. TypeToK8s(kind) = K8s(kind, "v1", "") BY <2>2, Zenon DEF TypeToK8s
  <2>4. "" \in BuiltInGroups BY Zenon DEF BuiltInGroups
  <2>5. QED BY <1>1, <2>1, <2>3, <2>4, Zenon
<1>4. CASE c \in Owners
  <2>1. PICK kind \in {"Deployment", "DaemonSet", "StatefulSet", "ReplicaSet"} : c = InGroup(kind, "apps")
    BY <1>4, Zenon DEF Owners, Deployment, DaemonSet, StatefulSet, ReplicaSet
  <2>2. TypeToK8s(kind) = K8s(kind, "v1", "apps") BY <2>1, Zenon DEF TypeToK8s
  <2>3. "apps" \in BuiltInGroups BY Zenon DEF BuiltInGroups
  <2>4. QED BY <1>2, <2>1, <2>2, <2>3, Zenon
<1>5. QED BY <1>3, <1>4

\* The query for an end is for the kind that the flow tells.
LEMMA EndpointKind ==
  ASSUME NEW o, NEW type, NEW ns, NEW name, NEW q \in Endpoint(o, type, ns, name)
  PROVE  Formed(q) /\ q.class = TypeToK8s(Str(o.labels, type))
<1> DEFINE kind == Str(o.labels, type)
<1>1. \A n, m : Formed(Named(TypeToK8s(kind), n, m)) /\ Named(TypeToK8s(kind), n, m).class = TypeToK8s(kind)
  BY DEF Formed, Named, Query
<1>2. \E n, m : q = Named(TypeToK8s(kind), n, m)
  BY Zenon DEF Endpoint, NoQueries, Str, Has
<1> HIDE DEF kind
<1>3. QED BY <1>1, <1>2 DEF kind

\* An end of a declared kind that the cluster serves is followed.
LEMMA FlowMet ==
  ASSUME VersionsWritten, NEW o, NEW r \in (EndRules \cup OwnerRules) \cap Rules, ~Undeclared(r, o)
  PROVE  Met(r, ApplyFunc(r, o))
<1> DEFINE kind == Str(o.labels, EndType[r])
<1>1. r \in DOMAIN Annotations BY DEF Rules
<1>2. PICK c \in Annotations[r].goal : c[2] = kind /\ Serves(c) BY FlowEnds DEF Undeclared
<1>3. PICK group \in BuiltInGroups : c = InGroup(kind, group) /\ TypeToK8s(kind) = K8s(kind, "v1", group)
  BY <1>2, EndGoal, FlowEnds
<1>4. PICK v : c = K8s(kind, v, group) BY <1>3, Zenon DEF InGroup
<1> HIDE DEF kind
<1>5. ClassOf(TypeToK8s(kind)) = ClassOf(c) BY <1>2, <1>3, <1>4, BuiltInVersion
<1>6. ClassOf(TypeToK8s(kind)) \in Goal[r] BY <1>1, <1>2, <1>5 DEF Serves, Goal, Resolve
<1>7. \A q \in ApplyFunc(r, o) : Formed(q) /\ q.class = TypeToK8s(kind) BY FlowEnds, EndpointKind DEF kind
<1>8. QED BY <1>6, <1>7 DEF Met

\* The definition of a resource is asked for in the version that the rule declares.
LEMMA CRDMet ==
  ASSUME VersionsWritten, NEW o, "CSVToCRD" \in Rules
  PROVE  Met("CSVToCRD", ApplyFunc("CSVToCRD", o))
<1> DEFINE r == "CSVToCRD"
           c == K8s("CustomResourceDefinition", "v1", CRDGroup)
<1>1. Annotations[r].goal = {c} BY Zenon DEF Annotations, Rule
<1>2. r \in DOMAIN Annotations BY DEF Rules
<1>3. c \in Annotations[r].goal /\ Serves(c) BY <1>1, SureServed DEF Sure
<1>4. CRDGroup \in BuiltInGroups BY Zenon DEF BuiltInGroups
<1>5. ClassOf(CRD) = ClassOf(c) BY <1>3, <1>4, BuiltInVersion DEF CRD
<1>6. ClassOf(CRD) \in Goal[r] BY <1>2, <1>3, <1>5 DEF Serves, Goal, Resolve
<1> HIDE DEF c, r
<1>7. \A ns, name : Formed(Named(CRD, ns, name)) /\ Named(CRD, ns, name).class = CRD
  BY DEF Formed, Named, Query
<1>8. Met(r, {Named(CRD, "", n) : n \in ListOf(o, "owned")}) BY <1>6, <1>7, Zenon DEF Met
<1>9. CSVToCRD(o) = Require(ListOf(o, "owned"), {Named(CRD, "", n) : n \in ListOf(o, "owned")})
  BY Zenon DEF CSVToCRD
<1>10. ApplyFunc(r, o) = CSVToCRD(o) BY OthersApply DEF r
<1>11. Met(r, NoQueries) BY DEF Met, NoQueries
<1>12. Met(r, Require(ListOf(o, "owned"), {Named(CRD, "", n) : n \in ListOf(o, "owned")}))
  BY <1>8, <1>11, RequireSome, Zenon DEF Require
<1>13. Met(r, ApplyFunc(r, o)) BY <1>9, <1>10, <1>12, Zenon
<1>14. QED BY <1>13 DEF r

LEMMA EveryGoal ==
  DOMAIN Annotations \subseteq
    ToPods \cup ToAlerts \cup ToMeasures \cup ToLogsAndFlows \cup ToStorage \cup ToSettings \cup ToNetwork
      \cup ToOperators \cup ToWorkloads \cup ToOperands \cup ToMachines \cup ToVolumes
      \cup ByReference \cup EndRules \cup OwnerRules \cup {"CSVToCRD"}
BY RuleNames
DEF ToPods, ToAlerts, ToMeasures, ToLogsAndFlows, ToStorage, ToSettings, ToNetwork,
    ToOperators, ToWorkloads, ToOperands, ToMachines, ToVolumes, ByReference, EndRules, OwnerRules

LEMMA OperandGoals ==
  ASSUME NEW r \in ToOperands, NEW o
  PROVE  /\ OperandRules = ToOperands
         /\ \E ns, label, value :
              ApplyFunc(r, o) \in {NoQueries, Operands(Annotations[r].goal, ns, label, value)}
<1>1. /\ Annotations["CSVToPartOf"].goal = PartOfClasses
      /\ Annotations["InstanceToOperands"].goal = OperandClasses
      /\ Annotations["ClusterInstanceToOperands"].goal = ClusterOperandClasses
  BY Zenon DEF Annotations, Rule
<1> DEFINE AllOrNone(queries, classes) ==
             \E ns, label, value : queries \in {NoQueries, Operands(classes, ns, label, value)}
<1>2. /\ \A classes : AllOrNone(NoQueries, classes)
      /\ \A classes, values, ns, label, value :
           AllOrNone(Require(values, Operands(classes, ns, label, value)), classes)
  BY RequireSome
<1> HIDE DEF AllOrNone
<1>3. /\ AllOrNone(CSVToPartOf(o), PartOfClasses)
      /\ AllOrNone(InstanceToOperands(o), OperandClasses)
      /\ AllOrNone(ClusterInstanceToOperands(o), ClusterOperandClasses)
  BY <1>2, Zenon DEF CSVToPartOf, InstanceToOperands, ClusterInstanceToOperands
<1>4. AllOrNone(ApplyFunc(r, o), Annotations[r].goal) BY <1>1, <1>3, OthersApply DEF ToOperands
<1>5. OperandRules = ToOperands BY DEF ToOperands, OperandRules
<1>6. QED BY <1>4, <1>5 DEF AllOrNone

Lost(r, o) == LosesAll(r) \/ Undeclared(r, o) \/ Dangling(r, o)

LEMMA RuleMet ==
  ASSUME VersionsWritten, NEW o, NEW r \in Rules, ~Lost(r, o)
  PROVE  Met(r, ApplyFunc(r, o))
<1>1. CASE r \in ToPods \cup ToAlerts \cup ToMeasures \cup ToLogsAndFlows \cup ToStorage \cup ToSettings
             \cup ToNetwork \cup ToOperators \cup ToWorkloads \cup ToMachines \cup ToVolumes
  <2>1. WrittenFor(ApplyFunc(r, o), Annotations[r].goal) /\ Sure(Annotations[r].goal)
    BY <1>1, ToPodsWritten, ToAlertsWritten, ToMeasuresWritten, ToLogsAndFlowsWritten, ToStorageWritten,
       ToSettingsWritten, ToNetworkWritten, ToOperatorsWritten, ToWorkloadsWritten,
       ToMachinesWritten, ToVolumesWritten
    DEF WritesGoals
  <2>2. QED BY <2>1, SureServed, WrittenMet
<1>2. CASE r \in ToOperands
  <2>1. \A c \in Annotations[r].goal : Serves(c) BY <1>2, OperandGoals DEF Lost, LosesAll
  <2>2. QED BY <1>2, <2>1, ToOperandsWritten, WrittenMet
<1>3. CASE r \in ByReference BY <1>3, ByReferenceMet DEF Lost
<1>4. CASE r \in EndRules \cup OwnerRules BY <1>4, FlowMet DEF Lost
<1>5. CASE r = "CSVToCRD" BY <1>5, CRDMet
<1>6. r \in DOMAIN Annotations BY DEF Rules
<1>7. QED BY <1>1, <1>2, <1>3, <1>4, <1>5, <1>6, EveryGoal

\* What is met is followed.
LEMMA MetFollowed ==
  ASSUME NEW r \in DOMAIN Annotations, NEW o, Met(r, ApplyFunc(r, o))
  PROVE  Followed(r, o) = Written(r, o)
<1>1. \A q : Formed(q) => [q EXCEPT !.class = ClassOf(@)].class = ClassOf(q.class) BY DEF Formed, Query
<1>2. \A p \in Written(r, o) : p.class \in Goal[r] BY <1>1 DEF Written, Met
<1>3. Goal[r] \subseteq Classes BY DEF Goal, Resolve
<1>4. Apply(r, o) = Written(r, o) BY <1>2, <1>3 DEF Apply, ParseQueries, Written
<1>5. QED BY <1>2, <1>4 DEF Followed

\* A query for a class that the cluster lacks takes the others with it.
LEMMA OneLosesAll ==
  ASSUME NEW r, NEW o, NEW p \in Written(r, o), p.class \notin Classes
  PROVE  Followed(r, o) = NoQueries
<1>1. Apply(r, o) = NoQueries BY DEF Apply, ParseQueries, Written
<1>2. QED BY <1>1 DEF Followed, NoQueries

LEMMA EmptyFollowed ==
  ASSUME NEW r, NEW o, Written(r, o) = {}
  PROVE  Followed(r, o) = NoQueries
BY DEF Followed, Apply, ParseQueries, Written, NoQueries

LEMMA OperandsLost ==
  ASSUME NEW r \in Rules, NEW o, LosesAll(r)
  PROVE  Followed(r, o) = NoQueries
<1>1. r \in ToOperands BY DEF LosesAll, OperandRules, ToOperands
<1>2. PICK c \in Annotations[r].goal : ~Serves(c) BY DEF LosesAll
<1>3. PICK ns, label, value : ApplyFunc(r, o) \in {NoQueries, Operands(Annotations[r].goal, ns, label, value)}
  BY <1>1, OperandGoals
<1>4. CASE ApplyFunc(r, o) = NoQueries BY <1>4, EmptyFollowed DEF Written, NoQueries
<1>5. CASE ApplyFunc(r, o) = Operands(Annotations[r].goal, ns, label, value)
  <2> DEFINE q == Labelled(c, ns, {<<label, value>>})
             p == [q EXCEPT !.class = ClassOf(@)]
  <2>1. q \in ApplyFunc(r, o) BY <1>5 DEF Operands
  <2>2. p.class = ClassOf(c) BY DEF Labelled, Query
  <2>3. p \in Written(r, o) BY <2>1 DEF Written
  <2> HIDE DEF p, q
  <2>4. QED BY <1>2, <2>2, <2>3, OneLosesAll DEF Serves
<1>6. QED BY <1>3, <1>4, <1>5

LEMMA EndsLost ==
  ASSUME NEW r \in Rules, NEW o, Undeclared(r, o)
  PROVE  Followed(r, o) = NoQueries
<1> DEFINE kind == Str(o.labels, EndType[r])
<1>1. r \in EndRules \cup OwnerRules BY DEF Undeclared, EndType, EndRules, OwnerRules
<1>2. r \in DOMAIN Annotations BY DEF Rules
<1>3. SUFFICES ASSUME NEW p \in Followed(r, o) PROVE FALSE BY DEF NoQueries
<1>4. p \in Written(r, o) /\ p.class \in Goal[r]
  BY DEF Followed, Apply, ParseQueries, Written, NoQueries
<1>5. PICK q \in ApplyFunc(r, o) : p = [q EXCEPT !.class = ClassOf(@)] BY <1>4 DEF Written
<1>6. Formed(q) /\ q.class = TypeToK8s(kind) BY <1>1, <1>5, FlowEnds, EndpointKind
<1>7. p.class = ClassOf(TypeToK8s(kind)) BY <1>5, <1>6 DEF Formed, Query
<1>8. p.class[2] = kind
  <2>1. \E group : TypeToK8s(kind) = K8s(kind, "v1", group) BY Zenon DEF TypeToK8s
  <2>2. \E v, g : p.class = K8s(kind, v, g) BY <1>7, <2>1, ClassOfK8s
  <2>3. QED BY <2>2 DEF K8s
<1>9. PICK c \in Annotations[r].goal : p.class = ClassOf(c) /\ Serves(c)
  BY <1>2, <1>4 DEF Goal, Resolve, Serves
<1>10. c[2] = p.class[2]
  <2>1. PICK group : c = InGroup(c[2], group) BY <1>1, EndGoal, FlowEnds
  <2>2. PICK v : c = K8s(c[2], v, group) BY <2>1, Zenon DEF InGroup
  <2>3. PICK w : ClassOf(c) = K8s(c[2], w, group) BY <2>2, ClassOfK8s
  <2>4. QED BY <1>9, <2>3 DEF K8s
<1>11. QED BY <1>8, <1>9, <1>10 DEF Undeclared

LEMMA ReferencesLost ==
  ASSUME NEW r, NEW o, Dangling(r, o)
  PROVE  Followed(r, o) = NoQueries
BY OneLosesAll, EmptyFollowed DEF Dangling

\* On a cluster that has the built-in groups in version v1, whatever else it serves
\* and holds: what any rule writes for an object is followed, but for the operands of
\* which it lacks a class (rules.go:77), the ends of a flow that the rule does not
\* declare (traverse.go:485), and the references to a class it lacks.
THEOREM OnlyKnownLossesAlways ==
  ASSUME VersionsWritten
  PROVE  Spec => []OnlyKnownLosses
<1>1. ASSUME NEW r \in Rules, NEW o
      PROVE  Followed(r, o) = IF Lost(r, o) THEN NoQueries ELSE Written(r, o)
  <2>1. CASE Lost(r, o) BY <2>1, OperandsLost, EndsLost, ReferencesLost DEF Lost
  <2>2. CASE ~Lost(r, o) BY <2>2, RuleMet, MetFollowed DEF Rules
  <2>3. QED BY <2>1, <2>2
<1>2. OnlyKnownLosses BY <1>1 DEF OnlyKnownLosses, Lost
<1>3. QED BY <1>2, PTL
--------------------------------------------------------------------------------
(* A shortcut finds what the long way finds: lists by labels, lists by name. *)

Given(s) == s # ""
Parsed(q) == [q EXCEPT !.class = ClassOf(@)]

\* Pods by their labels, logs by the labels of their pod, and logs by its name.
ListedPods(class, ns, labels) ==
  {o \in Objects : o.class = class /\ Str(o, "ns") = ns /\ \A l \in labels : Str(o.labels, l[1]) = l[2]}
ListedLogs(class, ns, labels) ==
  {o \in Objects : /\ o.class = class /\ Str(o.labels, "kubernetes_namespace_name") = ns
                   /\ \A l \in labels : Str(o.labels, Default(l[1], Str(SafeLabel, l[1]))) = l[2]}
NamedLogs(class, ns, name) ==
  {o \in Objects : /\ o.class = class /\ Str(o.labels, "kubernetes_namespace_name") = ns
                   /\ Str(o.labels, "kubernetes_pod_name") = name}

LEMMA PodsListed ==
  ASSUME NEW ns, Given(ns), NEW labels, NEW class, class[1] = "k8s"
  PROVE  Found(Labelled(class, ns, labels)) = ListedPods(class, ns, labels)
<1> DEFINE q == Labelled(class, ns, labels)
<1>1. q.class = class /\ q.ns = ns /\ q.labels = labels /\ q.fields = {} BY DEF Labelled, Query
<1>2. q.name = "" BY Zenon DEF Labelled, Query
<1> HIDE DEF q
<1>3. ASSUME NEW o
      PROVE  Selects(q, o) <=> o.class = class /\ Str(o, "ns") = ns /\ \A l \in labels : Str(o.labels, l[1]) = l[2]
  <2>1. Selects(q, o) <=> o.class = class /\ K8sGet(q, o) BY <1>1 DEF Selects
  <2>2. K8sGet(q, o) <=> q.ns \in {"", Str(o, "ns")} /\ LabelsMatch(q, o) BY <1>1, <1>2, Zenon DEF K8sGet
  <2>3. q.ns \in {"", Str(o, "ns")} <=> Str(o, "ns") = ns BY <1>1, Zenon DEF Given
  <2>4. QED BY <1>1, <2>1, <2>2, <2>3 DEF LabelsMatch
<1>4. QED BY <1>3, Zenon DEF Found, ListedPods, q

LEMMA LogsListed ==
  ASSUME NEW ns, Given(ns), NEW labels, NEW class, class[1] = "log"
  PROVE  Found(Labelled(class, ns, labels)) = ListedLogs(class, ns, labels)
<1> DEFINE q == Labelled(class, ns, labels)
<1>1. q.class = class /\ q.ns = ns /\ q.labels = labels BY DEF Labelled, Query
<1>2. q.name = "" BY Zenon DEF Labelled, Query
<1> HIDE DEF q
<1>3. ASSUME NEW o
      PROVE  Selects(q, o) <=>
               /\ o.class = class /\ Str(o.labels, "kubernetes_namespace_name") = ns
               /\ \A l \in labels : Str(o.labels, Default(l[1], Str(SafeLabel, l[1]))) = l[2]
  <2>1. Selects(q, o) <=> o.class = class /\ LogGet(q, o) BY <1>1 DEF Selects
  <2>2. q.ns \in {"", Str(o.labels, "kubernetes_namespace_name")} <=> Str(o.labels, "kubernetes_namespace_name") = ns
    BY <1>1, Zenon DEF Given
  <2>3. q.name \in {"", Str(o.labels, "kubernetes_pod_name")} BY <1>2, Zenon
  <2>4. QED BY <1>1, <2>1, <2>2, <2>3 DEF LogGet
<1>4. QED BY <1>3, Zenon DEF Found, ListedLogs, q

LEMMA LogsNamed ==
  ASSUME NEW ns, Given(ns), NEW name, Given(name), NEW class, class[1] = "log"
  PROVE  Found(Named(class, ns, name)) = NamedLogs(class, ns, name)
<1> DEFINE q == Named(class, ns, name)
<1>1. q.class = class /\ q.ns = ns /\ q.name = name /\ q.labels = {} BY DEF Named, Query
<1> HIDE DEF q
<1>2. ASSUME NEW o
      PROVE  Selects(q, o) <=>
               /\ o.class = class /\ Str(o.labels, "kubernetes_namespace_name") = ns
               /\ Str(o.labels, "kubernetes_pod_name") = name
  <2>1. Selects(q, o) <=> o.class = class /\ LogGet(q, o) BY <1>1 DEF Selects
  <2>2. /\ q.ns \in {"", Str(o.labels, "kubernetes_namespace_name")} <=> Str(o.labels, "kubernetes_namespace_name") = ns
        /\ q.name \in {"", Str(o.labels, "kubernetes_pod_name")} <=> Str(o.labels, "kubernetes_pod_name") = name
    BY <1>1, Zenon DEF Given
  <2>3. QED BY <1>1, <2>1, <2>2 DEF LogGet
<1>3. QED BY <1>2, Zenon DEF Found, NamedLogs, q

LEMMA ParsedQuery ==
  ASSUME NEW class, NEW ns, NEW name, NEW labels, NEW fields
  PROVE  /\ Query(class, ns, name, labels, fields).class = class
         /\ Parsed(Query(class, ns, name, labels, fields)) = Query(ClassOf(class), ns, name, labels, fields)
BY DEF Query, Parsed

LEMMA ParsedForms ==
  ASSUME NEW class, NEW ns, NEW name, NEW labels
  PROVE  /\ Parsed(Named(class, ns, name)) = Named(ClassOf(class), ns, name)
         /\ Parsed(Labelled(class, ns, labels)) = Labelled(ClassOf(class), ns, labels)
         /\ Formed(Named(class, ns, name)) /\ Formed(Labelled(class, ns, labels))
         /\ Named(class, ns, name).class = class /\ Labelled(class, ns, labels).class = class
<1>1. ASSUME NEW n, NEW ls PROVE Parsed(Query(class, ns, n, ls, {})) = Query(ClassOf(class), ns, n, ls, {})
  BY ParsedQuery
<1>2. Parsed(Named(class, ns, name)) = Named(ClassOf(class), ns, name) BY <1>1 DEF Named
<1>3. Parsed(Labelled(class, ns, labels)) = Labelled(ClassOf(class), ns, labels) BY <1>1, Zenon DEF Labelled
<1>4. class \in {class} OBVIOUS
<1>5. /\ Formed(Named(class, ns, name)) /\ Named(class, ns, name).class \in {class}
      /\ Formed(Labelled(class, ns, labels)) /\ Labelled(class, ns, labels).class \in {class}
  BY <1>4, FormsWritten
<1>6. QED BY <1>2, <1>3, <1>5

\* Where a rule that writes one query leads: to what the query finds, if the rule declares
\* its class.  An object of a class that is not known there is not.
LEMMA OneNeighbours ==
  ASSUME ObjectsServed, NEW r \in DOMAIN Annotations, NEW o, NEW q, Formed(q),
         ClassOf(q.class) \in Classes => ClassOf(q.class) \in Goal[r]
  PROVE  /\ ApplyFunc(r, o) = {q} => Neighbours(r, o) = Found(Parsed(q))
         /\ ApplyFunc(r, o) = NoQueries => Neighbours(r, o) = {}
<1> DEFINE p == [q EXCEPT !.class = ClassOf(@)]
<1>1. p.class = ClassOf(q.class) BY DEF Formed, Query
<1>2. \A queries : queries = {q} => {[x EXCEPT !.class = ClassOf(@)] : x \in queries} = {p} OBVIOUS
<1> HIDE DEF p
<1>3. ASSUME ApplyFunc(r, o) = {q} PROVE Neighbours(r, o) = Found(p)
  <2>1. CASE p.class \in Classes
    <3>1. Apply(r, o) = {p} BY <1>2, <1>3, <2>1 DEF Apply, ParseQueries
    <3>2. Followed(r, o) = {p} BY <1>1, <2>1, <3>1 DEF Followed
    <3>3. QED BY <3>2 DEF Neighbours
  <2>2. CASE p.class \notin Classes
    <3>1. Apply(r, o) = NoQueries BY <1>2, <1>3, <2>2 DEF Apply, ParseQueries
    <3>2. Neighbours(r, o) = {} BY <3>1 DEF Neighbours, Followed, NoQueries
    <3>3. Found(p) = {} BY <2>2 DEF Found, Selects, ObjectsServed
    <3>4. QED BY <3>2, <3>3
  <2>3. QED BY <2>1, <2>2
<1>4. ASSUME ApplyFunc(r, o) = NoQueries PROVE Neighbours(r, o) = {}
  <2>1. Apply(r, o) = NoQueries BY <1>4 DEF Apply, ParseQueries, NoQueries
  <2>2. QED BY <2>1 DEF Neighbours, Followed, NoQueries
<1>5. QED BY <1>3, <1>4 DEF p, Parsed

\* The goal of a rule has what its annotation declares and the cluster knows.
LEMMA DeclaredGoal ==
  ASSUME NEW r \in DOMAIN Annotations, NEW c \in Annotations[r].goal
  PROVE  ClassOf(c) \in Classes => ClassOf(c) \in Goal[r]
BY DEF Goal, Resolve

LEMMA LogTypes ==
  ASSUME NEW ns
  PROVE  LogType(ns)[1] = "log" /\ ClassOf(LogType(ns)) = LogType(ns)
<1>1. LogType(ns)[1] = "log" BY Domains DEF OfDomain
<1>2. QED BY <1>1, SignalClass

\* A rule to any log may write for each of the two types.
LEMMA LogGoal ==
  ASSUME NEW r \in DOMAIN Annotations, Annotations[r].goal = AnyLog, NEW ns
  PROVE  LogType(ns) \in Goal[r]
<1>1. LogType(ns) \in AnyLog BY SignalGoals
<1>2. LogType(ns) \in Classes BY <1>1 DEF AnyLog, AllOf
<1>3. QED BY <1>1, <1>2, LogTypes, DeclaredGoal

PodClass == ClassOf(Core("Pod"))

LEMMA PodClassK8s == PodClass[1] = "k8s"
BY Domains, SameDomain DEF PodClass, OfDomain

\* The logs of a pod.
LEMMA PodToLogsFinds ==
  ASSUME ObjectsServed, NEW p
  PROVE  Neighbours("PodToLogs", p) =
           {l \in NamedLogs(LogType(Str(p, "ns")), Str(p, "ns"), p.name) : Given(Str(p, "ns")) /\ Given(p.name)}
<1> DEFINE ns == Str(p, "ns")
           q == Named(LogType(ns), p.ns, p.name)
<1>1. "PodToLogs" \in DOMAIN Annotations BY RuleNames
<1>2. Annotations["PodToLogs"].goal = AnyLog BY Zenon DEF Annotations, Rule
<1>3. q.class = LogType(ns) /\ Parsed(q) = Named(LogType(ns), p.ns, p.name) /\ Formed(q) BY ParsedForms, LogTypes
<1>4. ClassOf(q.class) \in Goal["PodToLogs"] BY <1>1, <1>2, <1>3, LogTypes, LogGoal
<1>5. ApplyFunc("PodToLogs", p) = Require({ns, p.name}, {q}) BY SelectorsApply, Zenon DEF PodToLogs, Namesake
<1>6. Given(ns) => p.ns = ns BY Zenon DEF Str, Has, Given
<1> HIDE DEF q, ns
<1>7. CASE Given(ns) /\ Given(p.name)
  <2>1. ApplyFunc("PodToLogs", p) = {q} BY <1>5, <1>7, Zenon DEF Require, Given
  <2>2. Neighbours("PodToLogs", p) = Found(Named(LogType(ns), ns, p.name))
    BY <1>1, <1>3, <1>4, <1>6, <1>7, <2>1, OneNeighbours
  <2>3. Neighbours("PodToLogs", p) = NamedLogs(LogType(ns), ns, p.name) BY <1>7, <2>2, LogTypes, LogsNamed
  <2>4. QED BY <1>7, <2>3 DEF ns
<1>8. CASE ~Given(ns) \/ ~Given(p.name)
  <2>1. ApplyFunc("PodToLogs", p) = NoQueries BY <1>5, <1>8, Zenon DEF Require, Given
  <2>2. Neighbours("PodToLogs", p) = {} BY <1>1, <1>3, <1>4, <2>1, OneNeighbours
  <2>3. QED BY <1>8, <2>2 DEF ns
<1>9. QED BY <1>7, <1>8

\* The logs by the labels of the pods are the logs by the names of these pods.
LEMMA LogsAgree ==
  ASSUME ObjectsServed, LogsOfPods, NEW ns, Given(ns), NEW labels, \A l \in labels : l[1] \in SelectorLabels
  PROVE  Found(Labelled(LogType(ns), ns, labels)) =
           UNION {Neighbours("PodToLogs", p) : p \in Found(Labelled(PodClass, ns, labels))}
<1>1. Found(Labelled(LogType(ns), ns, labels)) = ListedLogs(LogType(ns), ns, labels) BY LogsListed, LogTypes
<1>2. Found(Labelled(PodClass, ns, labels)) = ListedPods(PodClass, ns, labels) BY PodsListed, PodClassK8s
<1>3. ASSUME NEW log \in Objects, log.class = LogType(ns), Str(log.labels, "kubernetes_namespace_name") = ns
      PROVE  /\ Given(Str(log.labels, "kubernetes_pod_name"))
             /\ \E p \in Objects : /\ p.class = PodClass /\ Str(p, "ns") = ns
                                   /\ p.name = Str(log.labels, "kubernetes_pod_name")
             /\ \A p \in Objects : p.class = PodClass /\ Str(p, "ns") = ns
                                     /\ p.name = Str(log.labels, "kubernetes_pod_name")
                  => \A k \in SelectorLabels : Str(log.labels, Default(k, Str(SafeLabel, k))) = Str(p.labels, k)
  <2>1. log.class[1] = "log" BY <1>3, LogTypes
  <2>2. /\ Given(Str(log.labels, "kubernetes_pod_name"))
        /\ PodsOf(log) # {}
        /\ \A p \in PodsOf(log), k \in SelectorLabels :
             Str(log.labels, Default(k, Str(SafeLabel, k))) = Str(p.labels, k)
    BY <1>3, <2>1, Zenon DEF LogsOfPods, Given
  <2>3. PodsOf(log) = {p \in Objects : /\ p.class = PodClass /\ Str(p, "ns") = ns
                                       /\ p.name = Str(log.labels, "kubernetes_pod_name")}
    BY <1>3, Zenon DEF PodsOf, PodClass
  <2>4. QED BY <2>2, <2>3
<1>4. ASSUME NEW log
      PROVE  log \in ListedLogs(LogType(ns), ns, labels) <=>
               \E p \in ListedPods(PodClass, ns, labels) : log \in Neighbours("PodToLogs", p)
  <2>1. ASSUME log \in ListedLogs(LogType(ns), ns, labels)
        PROVE  \E p \in ListedPods(PodClass, ns, labels) : log \in Neighbours("PodToLogs", p)
    <3>1. /\ log \in Objects /\ log.class = LogType(ns) /\ Str(log.labels, "kubernetes_namespace_name") = ns
          /\ \A l \in labels : Str(log.labels, Default(l[1], Str(SafeLabel, l[1]))) = l[2]
      BY <2>1 DEF ListedLogs
    <3>2. PICK p \in Objects : /\ p.class = PodClass /\ Str(p, "ns") = ns
                               /\ p.name = Str(log.labels, "kubernetes_pod_name")
      BY <1>3, <3>1
    <3>3. \A k \in SelectorLabels : Str(log.labels, Default(k, Str(SafeLabel, k))) = Str(p.labels, k)
      BY <1>3, <3>1, <3>2
    <3>4. p \in ListedPods(PodClass, ns, labels) BY <3>1, <3>2, <3>3 DEF ListedPods
    <3>5. Given(p.name) BY <1>3, <3>1, <3>2
    <3>6. log \in NamedLogs(LogType(ns), ns, p.name) BY <3>1, <3>2 DEF NamedLogs
    <3>7. log \in Neighbours("PodToLogs", p) BY <3>2, <3>5, <3>6, PodToLogsFinds
    <3>8. QED BY <3>4, <3>7
  <2>2. ASSUME NEW p \in ListedPods(PodClass, ns, labels), log \in Neighbours("PodToLogs", p)
        PROVE  log \in ListedLogs(LogType(ns), ns, labels)
    <3>1. /\ p \in Objects /\ p.class = PodClass /\ Str(p, "ns") = ns
          /\ \A l \in labels : Str(p.labels, l[1]) = l[2]
      BY <2>2 DEF ListedPods
    <3>2. log \in NamedLogs(LogType(ns), ns, p.name) BY <2>2, <3>1, PodToLogsFinds
    <3>3. /\ log \in Objects /\ log.class = LogType(ns)
          /\ Str(log.labels, "kubernetes_namespace_name") = ns
          /\ Str(log.labels, "kubernetes_pod_name") = p.name
      BY <3>2 DEF NamedLogs
    <3>4. \A k \in SelectorLabels : Str(log.labels, Default(k, Str(SafeLabel, k))) = Str(p.labels, k)
      BY <1>3, <3>1, <3>3
    <3>5. QED BY <3>1, <3>3, <3>4 DEF ListedLogs
  <2>3. QED BY <2>1, <2>2
<1>5. QED BY <1>1, <1>2, <1>4

\* The label sets that a shortcut selects pods by.
Selecting(labels) == \A l \in labels : l[1] \in SelectorLabels
\* Two rules that list logs, and pods, by the same labels, or neither writes anything.
SameList(direct, second, o, labels) ==
  \/ /\ Given(Str(o, "ns"))
     /\ ApplyFunc(direct, o) = {Labelled(LogType(Str(o, "ns")), Str(o, "ns"), labels)}
     /\ ApplyFunc(second, o) = {Labelled(Core("Pod"), Str(o, "ns"), labels)}
  \/ ApplyFunc(direct, o) = NoQueries /\ ApplyFunc(second, o) = NoQueries

LEMMA ShortcutAgrees ==
  ASSUME ObjectsServed, LogsOfPods, NEW o, NEW labels, Selecting(labels),
         NEW direct \in DOMAIN Annotations, NEW second \in DOMAIN Annotations,
         Annotations[direct].goal = AnyLog, Annotations[second].goal = Pods,
         SameList(direct, second, o, labels)
  PROVE  Neighbours(direct, o) = UNION {Neighbours("PodToLogs", p) : p \in Neighbours(second, o)}
<1> DEFINE ns == Str(o, "ns")
           logs == Labelled(LogType(ns), ns, labels)
           pods == Labelled(Core("Pod"), ns, labels)
<1>1. Parsed(logs) = logs /\ Formed(logs) /\ ClassOf(logs.class) \in Goal[direct]
  BY ParsedForms, LogTypes, LogGoal
<1>2. Parsed(pods) = Labelled(PodClass, ns, labels) /\ Formed(pods) /\ pods.class = Core("Pod")
  BY ParsedForms DEF PodClass
<1>3. ClassOf(pods.class) \in Classes => ClassOf(pods.class) \in Goal[second]
  BY <1>2, DeclaredGoal DEF Pods
<1>4. /\ ApplyFunc(direct, o) = {logs} => Neighbours(direct, o) = Found(logs)
      /\ ApplyFunc(direct, o) = NoQueries => Neighbours(direct, o) = {}
  BY <1>1, OneNeighbours
<1>5. /\ ApplyFunc(second, o) = {pods} => Neighbours(second, o) = Found(Labelled(PodClass, ns, labels))
      /\ ApplyFunc(second, o) = NoQueries => Neighbours(second, o) = {}
  BY <1>2, <1>3, OneNeighbours
<1>6. Given(ns) => Found(logs) = UNION {Neighbours("PodToLogs", p) : p \in Found(Labelled(PodClass, ns, labels))}
  BY LogsAgree DEF Selecting
<1> HIDE DEF logs
<1>7. CASE Given(ns) /\ ApplyFunc(direct, o) = {logs} /\ ApplyFunc(second, o) = {pods}
  BY <1>4, <1>5, <1>6, <1>7
<1>8. CASE ApplyFunc(direct, o) = NoQueries /\ ApplyFunc(second, o) = NoQueries
  BY <1>4, <1>5, <1>8
<1>9. QED BY <1>7, <1>8 DEF SameList, logs

\* The three shortcuts and their labels.
LEMMA PairsSelecting ==
  ASSUME NEW o \in Objects
  PROVE  Selecting(MatchLabels(o)) /\ Selecting(Selector(o))
<1>1. ASSUME NEW labels, DOMAIN labels \subseteq SelectorLabels PROVE Selecting(PairsOf(labels))
  BY <1>1 DEF Selecting, PairsOf
<1>2. Has(o, "matchLabels") => DOMAIN o.matchLabels \subseteq SelectorLabels BY DEF SelectorLabels
<1>3. Has(o, "selector") => DOMAIN o.selector \subseteq SelectorLabels BY DEF SelectorLabels
<1>4. Selecting({}) BY DEF Selecting
<1>5. Selecting(MatchLabels(o))
  <2>1. CASE Has(o, "matchLabels")
    <3>1. Selecting(PairsOf(o.matchLabels)) BY <1>1, <1>2, <2>1
    <3>2. QED BY <2>1, <3>1, Zenon DEF MatchLabels
  <2>2. CASE ~Has(o, "matchLabels") BY <1>4, <2>2, Zenon DEF MatchLabels
  <2>3. QED BY <2>1, <2>2
<1>6. Selecting(Selector(o))
  <2>1. CASE Has(o, "selector")
    <3>1. Selecting(PairsOf(o.selector)) BY <1>1, <1>3, <2>1
    <3>2. QED BY <2>1, <3>1, Zenon DEF Selector
  <2>2. CASE ~Has(o, "selector") BY <1>4, <2>2, Zenon DEF Selector
  <2>3. QED BY <2>1, <2>2
<1>7. QED BY <1>5, <1>6

LEMMA LauncherSelecting ==
  ASSUME NEW name
  PROVE  Selecting({<<"kubevirt.io", "virt-launcher">>, <<"vm.kubevirt.io/name", name>>})
<1>1. {"kubevirt.io", "vm.kubevirt.io/name"} \subseteq SelectorLabels BY DEF SelectorLabels
<1>2. \A k1, v1, k2, v2 : k1 \in SelectorLabels /\ k2 \in SelectorLabels => Selecting({<<k1, v1>>, <<k2, v2>>})
  BY DEF Selecting
<1>3. QED BY <1>1, <1>2

LEMMA ByLabelsSame ==
  ASSUME NEW o, NEW labels, NEW direct, NEW second,
         ApplyFunc(direct, o) = ByLabels(o, LogType(Str(o, "ns")), labels),
         ApplyFunc(second, o) = ByLabels(o, Core("Pod"), labels)
  PROVE  SameList(direct, second, o, labels)
BY Zenon DEF SameList, ByLabels, Require, Given

LEMMA LauncherSame ==
  ASSUME NEW o, NEW direct, NEW second,
         ApplyFunc(direct, o) = LauncherOf(o, LogType(Str(o, "ns"))),
         ApplyFunc(second, o) = LauncherOf(o, Core("Pod"))
  PROVE  SameList(direct, second, o, {<<"kubevirt.io", "virt-launcher">>, <<"vm.kubevirt.io/name", o.name>>})
<1> DEFINE labels == {<<"kubevirt.io", "virt-launcher">>, <<"vm.kubevirt.io/name", o.name>>}
<1>1. \A class : LauncherOf(o, class) = Require({Str(o, "ns"), o.name}, {Labelled(class, o.ns, labels)})
  BY DEF LauncherOf
<1> HIDE DEF labels
<1>2. Given(Str(o, "ns")) => o.ns = Str(o, "ns") BY Zenon DEF Str, Has, Given
<1>3. CASE Given(Str(o, "ns")) /\ Given(o.name)
  <2>1. \A queries : Require({Str(o, "ns"), o.name}, queries) = queries BY <1>3, Zenon DEF Require, Given
  <2>2. QED BY <1>1, <1>2, <1>3, <2>1 DEF SameList, labels
<1>4. CASE ~Given(Str(o, "ns")) \/ ~Given(o.name)
  <2>1. \A queries : Require({Str(o, "ns"), o.name}, queries) = NoQueries BY <1>4, Zenon DEF Require, Given
  <2>2. QED BY <1>1, <2>1 DEF SameList, labels
<1>5. QED BY <1>3, <1>4

\* From every object the three rules that go straight to the logs find what the pods
\* in between lead to, on a cluster whose logs carry the labels of their pods.
THEOREM ShortcutsAgreeAlways ==
  ASSUME ObjectsServed, LogsOfPods
  PROVE  Spec => []ShortcutsAgree
<1>1. ASSUME at \in Objects PROVE ShortcutsAgree
  <2>1. {"SelectorToLogs", "SelectorToPods", "ServiceToLogs", "ServiceToPods", "VmiToLogs", "VmiToPod"}
          \subseteq DOMAIN Annotations
    BY RuleNames
  <2>2. /\ Annotations["SelectorToLogs"].goal = AnyLog /\ Annotations["SelectorToPods"].goal = Pods
        /\ Annotations["ServiceToLogs"].goal = AnyLog /\ Annotations["ServiceToPods"].goal = Pods
        /\ Annotations["VmiToLogs"].goal = AnyLog /\ Annotations["VmiToPod"].goal = Pods
    BY Zenon DEF Annotations, Rule
  <2>3. Neighbours("SelectorToLogs", at) = UNION {Neighbours("PodToLogs", p) : p \in Neighbours("SelectorToPods", at)}
    <3>1. SameList("SelectorToLogs", "SelectorToPods", at, MatchLabels(at))
      BY ByLabelsSame, SelectorsApply, Zenon DEF SelectorToLogs, SelectorToPods
    <3>2. QED BY <1>1, <2>1, <2>2, <3>1, PairsSelecting, ShortcutAgrees
  <2>4. Neighbours("ServiceToLogs", at) = UNION {Neighbours("PodToLogs", p) : p \in Neighbours("ServiceToPods", at)}
    <3>1. SameList("ServiceToLogs", "ServiceToPods", at, Selector(at))
      BY ByLabelsSame, SelectorsApply, Zenon DEF ServiceToLogs, ServiceToPods
    <3>2. QED BY <1>1, <2>1, <2>2, <3>1, PairsSelecting, ShortcutAgrees
  <2>5. Neighbours("VmiToLogs", at) = UNION {Neighbours("PodToLogs", p) : p \in Neighbours("VmiToPod", at)}
    <3>1. SameList("VmiToLogs", "VmiToPod", at, {<<"kubevirt.io", "virt-launcher">>, <<"vm.kubevirt.io/name", at.name>>})
      BY LauncherSame, SelectorsApply, Zenon DEF VmiToLogs, VmiToPod
    <3>2. QED BY <2>1, <2>2, <3>1, LauncherSelecting, ShortcutAgrees
  <2>6. \A s \in Shortcuts :
          Neighbours(s[1], at) = UNION {Neighbours(s[3], p) : p \in Neighbours(s[2], at)}
    BY <2>3, <2>4, <2>5 DEF Shortcuts
  <2>7. QED BY <2>6 DEF ShortcutsAgree
<1>2. StaysInv => at \in Objects BY DEF StaysInv
<1>3. QED BY <1>1, <1>2, StaysInit, StaysNext, PTL DEF Spec

--------------------------------------------------------------------------------
(* A rule and its inverse: what each query selects.                              *)

LEMMA FoundBy ==
  ASSUME NEW r, NEW o, NEW t \in Neighbours(r, o)
  PROVE  t \in Objects /\ \E q \in ApplyFunc(r, o) : Selects(Parsed(q), t)
<1>1. PICK p \in Followed(r, o) : t \in Found(p) BY DEF Neighbours
<1>2. t \in Objects /\ Selects(p, t) BY <1>1 DEF Found
<1>3. PICK q \in ApplyFunc(r, o) : p = Parsed(q)
  BY <1>1 DEF Followed, Apply, ParseQueries, NoQueries, Parsed
<1>4. QED BY <1>2, <1>3

\* The object that the one query of a rule selects is found, if the rule declares its class.
LEMMA LedBack ==
  ASSUME ObjectsServed, NEW i \in DOMAIN Annotations, NEW t, NEW q, Formed(q), ApplyFunc(i, t) = {q},
         NEW c \in Annotations[i].goal, ClassOf(c) = ClassOf(q.class),
         NEW o \in Objects, Selects(Parsed(q), o)
  PROVE  o \in Neighbours(i, t)
<1>1. ClassOf(q.class) \in Classes => ClassOf(q.class) \in Goal[i] BY DeclaredGoal
<1>2. Neighbours(i, t) = Found(Parsed(q)) BY <1>1, OneNeighbours
<1>3. QED BY <1>2 DEF Found

LEMMA NamedSelects ==
  ASSUME NEW c, OfDomain(c, "k8s"), NEW ns, NEW name, Given(name), NEW o
  PROVE  Selects(Parsed(Named(c, ns, name)), o) <=> o.class = ClassOf(c) /\ Str(o, "ns") = ns /\ o.name = name
<1> DEFINE q == Parsed(Named(c, ns, name))
<1>1. q = Named(ClassOf(c), ns, name) BY ParsedForms
<1>2. q.class = ClassOf(c) /\ q.ns = ns /\ q.name = name BY <1>1 DEF Named, Query
<1>3. ClassOf(c)[1] = "k8s" BY SameDomain DEF OfDomain
<1> HIDE DEF q
<1>4. Selects(q, o) <=> o.class = q.class /\ K8sGet(q, o) BY <1>2, <1>3 DEF Selects
<1>5. K8sGet(q, o) <=> Str(o, "ns") = q.ns /\ o.name = q.name BY <1>2, Zenon DEF K8sGet, Given
<1>6. QED BY <1>2, <1>4, <1>5 DEF q

LEMMA ParsedSelect ==
  ASSUME NEW class, NEW labels
  PROVE  /\ Parsed(Select(class, labels)) = Select(ClassOf(class), labels)
         /\ Select(class, labels).class = class /\ Select(class, labels).labels = labels
<1>1. ASSUME NEW n, NEW m PROVE Parsed(Query(class, n, m, labels, {})) = Query(ClassOf(class), n, m, labels, {})
  BY ParsedQuery
<1>2. Parsed(Select(class, labels)) = Select(ClassOf(class), labels) BY <1>1, Zenon DEF Select
<1>3. Select(class, labels).class = class /\ Select(class, labels).labels = labels BY DEF Select, Query
<1>4. QED BY <1>2, <1>3

\* What a query by one of the labels tells about a signal.
Labels(o, labels) == \A l \in labels : Str(o.labels, l[1]) = l[2]

LEMMA LabelledSelects ==
  ASSUME NEW domain \in {"metric", "netflow", "trace"}, NEW n, NEW labels, NEW o
  PROVE  /\ Selects(Parsed(Select(Signal(domain, n), labels)), o) <=> o.class = Signal(domain, n) /\ Labels(o, labels)
         /\ Formed(Select(Signal(domain, n), labels)) /\ Select(Signal(domain, n), labels).class = Signal(domain, n)
<1> DEFINE c == Signal(domain, n)
           q == Parsed(Select(c, labels))
<1>1. c[1] = domain BY Domains DEF OfDomain
<1>2. ClassOf(c) = c BY <1>1, SignalClass
<1>4. q = Select(c, labels) BY <1>2, ParsedSelect
<1>5. q.class = c /\ q.labels = labels BY <1>4, ParsedSelect
<1>6. c \in {c} OBVIOUS
<1>7. Formed(Select(c, labels)) /\ Select(c, labels).class \in {c} BY <1>6, FormsWritten
<1> HIDE DEF q, c
<1>8. Selects(q, o) <=> o.class = c /\ LabelsMatch(q, o) BY <1>1, <1>5 DEF Selects
<1>9. QED BY <1>5, <1>7, <1>8 DEF LabelsMatch, Labels, q, c

LEMMA AlertsSelect ==
  ASSUME NEW labels, NEW o
  PROVE  /\ Selects(Parsed(Select(Signal("alert", "alert"), labels)), o) <=>
              o.class = Signal("alert", "alert") /\ \E ls \in labels : Labels(o, ls)
         /\ Formed(Select(Signal("alert", "alert"), labels))
         /\ Select(Signal("alert", "alert"), labels).class = Signal("alert", "alert")
<1> DEFINE c == Signal("alert", "alert")
           q == Parsed(Select(c, labels))
<1>1. c[1] = "alert" BY Domains DEF OfDomain
<1>2. ClassOf(c) = c BY <1>1, SignalClass
<1>4. q = Select(c, labels) BY <1>2, ParsedSelect
<1>5. q.class = c /\ q.labels = labels BY <1>4, ParsedSelect
<1>6. c \in {c} OBVIOUS
<1>7. Formed(Select(c, labels)) /\ Select(c, labels).class \in {c} BY <1>6, FormsWritten
<1> HIDE DEF q, c
<1>8. Selects(q, o) <=> o.class = c /\ AlertGet(q, o) BY <1>1, <1>5 DEF Selects
<1>9. QED BY <1>5, <1>7, <1>8 DEF AlertGet, Labels, q, c

LEMMA IncidentsSelect ==
  ASSUME NEW labels, NEW o
  PROVE  Selects(Parsed(Select(Signal("incident", "incident"), labels)), o) =>
           labels = {} \/ \E alert \in o.alertsLabels : PairsOf(alert) \subseteq labels
<1> DEFINE c == Signal("incident", "incident")
           q == Parsed(Select(c, labels))
<1>1. c[1] = "incident" BY Domains DEF OfDomain
<1>2. ClassOf(c) = c BY <1>1, SignalClass
<1>4. q = Select(c, labels) BY <1>2, ParsedSelect
<1>5. q.class = c /\ q.labels = labels BY <1>4, ParsedSelect
<1> HIDE DEF q, c
<1>6. Selects(q, o) => IncidentGet(q, o) BY <1>1, <1>5 DEF Selects
<1>7. QED BY <1>5, <1>6 DEF IncidentGet, q, c

LEMMA RequireAll ==
  ASSUME NEW values, NEW q, \A v \in values : Given(v)
  PROVE  Require(values, {q}) = {q}
BY Zenon DEF Require, NoQueries, Given

LEMMA NamedGiven ==
  ASSUME NEW class, NEW ns, NEW name, Given(ns), Given(name)
  PROVE  NamedByLabels(class, ns, name) = {Named(class, ns, name)}
BY RequireAll DEF NamedByLabels

LEMMA RequireOnly ==
  ASSUME NEW values, NEW queries, NEW x \in Require(values, queries)
  PROVE  x \in queries /\ \A v \in values : Given(v)
BY Zenon DEF Require, NoQueries, Given

LEMMA GivenNs ==
  ASSUME NEW o, Given(Str(o, "ns"))
  PROVE  o.ns = Str(o, "ns")
BY Zenon DEF Given, Str, Has

\* The class of what a rule finds is one that it declares.
LEMMA FoundClass ==
  ASSUME NEW r \in DOMAIN Annotations, NEW o, NEW t \in Neighbours(r, o)
  PROVE  \E c \in Annotations[r].goal : t.class = ClassOf(c)
<1>1. PICK p \in Followed(r, o) : t \in Found(p) BY DEF Neighbours
<1>2. t.class = p.class /\ p.class \in Goal[r] BY <1>1 DEF Found, Selects, Followed
<1>3. QED BY <1>2 DEF Goal, Resolve

LEMMA SignalOf ==
  ASSUME NEW c \in Classes
  PROVE  /\ c[1] = "netflow" => c = Signal("netflow", "network")
         /\ c[1] = "trace" => c = Signal("trace", "span")
         /\ c[1] = "alert" => c = Signal("alert", "alert")
<1>1. \A n \in K8sClasses : n[1] = "k8s" BY Domains DEF K8sClasses, OfDomain
<1>2. \A domain, n : Signal(domain, n)[1] = domain BY Domains DEF OfDomain
<1>3. QED BY <1>1, <1>2 DEF Classes, SignalClasses

\* An alert on an object tells its namespace and its name.
LEMMA AlertsLeadBack ==
  ASSUME ObjectsServed, NEW o \in Objects, NEW r, NEW t \in Neighbours(r, o), NEW label,
         ApplyFunc(r, o) = AlertsOn(o, label),
         NEW i \in DOMAIN Annotations, NEW c \in Annotations[i].goal, NEW d, OfDomain(d, "k8s"), o.class = ClassOf(c),
         ClassOf(d) = ClassOf(c),
         NEW ns, NEW name, ApplyFunc(i, t) = NamedByLabels(d, ns, name),
         Given(Str(t.labels, "namespace")) /\ Given(Str(t.labels, label)) =>
           ns = Str(t.labels, "namespace") /\ name = Str(t.labels, label)
  PROVE  o \in Neighbours(i, t)
<1> DEFINE pairs == {<<"namespace", o.ns>>, <<label, o.name>>}
           q == Named(d, ns, name)
<1>1. PICK p \in AlertsOn(o, label) : Selects(Parsed(p), t) BY FoundBy
<1>2. /\ p = Select(Signal("alert", "alert"), {pairs})
      /\ Given(Str(o, "ns")) /\ Given(o.name)
  <2> DEFINE one == Select(Signal("alert", "alert"), {pairs})
  <2>1. p \in Require({Str(o, "ns"), o.name}, {one}) BY <1>1 DEF AlertsOn
  <2> HIDE DEF one, pairs
  <2>2. p \in {one} /\ \A v \in {Str(o, "ns"), o.name} : Given(v) BY <2>1, RequireOnly
  <2>3. QED BY <2>2 DEF one
<1>3. o.ns = Str(o, "ns") BY <1>2, GivenNs
<1>4. Labels(t, pairs)
  <2> HIDE DEF pairs
  <2>1. \E ls \in {pairs} : Labels(t, ls) BY <1>1, <1>2, AlertsSelect
  <2>2. QED BY <2>1
<1>5. Str(t.labels, "namespace") = Str(o, "ns") /\ Str(t.labels, label) = o.name BY <1>3, <1>4 DEF Labels
<1>6. ns = Str(o, "ns") /\ name = o.name BY <1>2, <1>5
<1>7. ApplyFunc(i, t) = {q} BY <1>2, <1>6, NamedGiven
<1>8. Selects(Parsed(q), o) BY <1>2, <1>6, NamedSelects
<1>9. Formed(q) /\ q.class = d BY ParsedForms
<1> HIDE DEF q
<1>10. QED BY <1>7, <1>8, <1>9, LedBack

\* So does a log, or a span, of a pod.
LEMMA SpansLeadBack ==
  ASSUME ObjectsServed, NEW o \in Objects, NEW t \in Neighbours("PodToTrace", o), o.class = PodClass
  PROVE  o \in Neighbours("TraceToPod", t)
<1> DEFINE pairs == {<<"k8s.namespace.name", o.ns>>, <<"k8s.pod.name", o.name>>}
           q == Named(Core("Pod"), Str(o, "ns"), o.name)
<1>1. PICK p \in PodToTrace(o) : Selects(Parsed(p), t) BY FoundBy, MentionsApply
<1>2. /\ p = Select(Signal("trace", "span"), pairs)
      /\ Given(Str(o, "ns")) /\ Given(o.name)
  <2> DEFINE one == Select(Signal("trace", "span"), pairs)
  <2>1. p \in Require({Str(o, "ns"), o.name}, {one}) BY <1>1 DEF PodToTrace
  <2> HIDE DEF one, pairs
  <2>2. p \in {one} /\ \A v \in {Str(o, "ns"), o.name} : Given(v) BY <2>1, RequireOnly
  <2>3. QED BY <2>2 DEF one
<1>3. o.ns = Str(o, "ns") BY <1>2, GivenNs
<1>4. Labels(t, pairs) BY <1>1, <1>2, LabelledSelects
<1>5. Str(t.labels, "k8s.namespace.name") = Str(o, "ns") /\ Str(t.labels, "k8s.pod.name") = o.name
  BY <1>3, <1>4 DEF Labels
<1>6. ApplyFunc("TraceToPod", t) = {q}
  <2>1. TraceToPod(t) = NamedByLabels(Core("Pod"), Str(o, "ns"), o.name) BY <1>5 DEF TraceToPod
  <2>2. TraceToPod(t) = {q} BY <1>2, <2>1, NamedGiven
  <2> HIDE DEF q
  <2>3. QED BY <2>2, NamesApply
<1>7. Selects(Parsed(q), o) BY <1>2, NamedSelects, Domains DEF PodClass
<1>8. Formed(q) /\ q.class = Core("Pod") BY ParsedForms
<1>9. "TraceToPod" \in DOMAIN Annotations BY RuleNames
<1>10. Annotations["TraceToPod"].goal = Pods BY Zenon DEF Annotations, Rule
<1> HIDE DEF q
<1>11. QED BY <1>6, <1>7, <1>8, <1>9, <1>10, LedBack DEF Pods

LEMMA SpanLeadsBack ==
  ASSUME ObjectsServed, NEW o \in Objects, NEW t \in Neighbours("TraceToPod", o),
         o.class = Signal("trace", "span")
  PROVE  o \in Neighbours("PodToTrace", t)
<1> DEFINE ns == Str(o.labels, "k8s.namespace.name")
           name == Str(o.labels, "k8s.pod.name")
           q == Select(Signal("trace", "span"), {<<"k8s.namespace.name", t.ns>>, <<"k8s.pod.name", t.name>>})
<1>1. PICK p \in TraceToPod(o) : Selects(Parsed(p), t) BY FoundBy, NamesApply
<1>2. p = Named(Core("Pod"), ns, name) /\ Given(ns) /\ Given(name)
  BY <1>1, RequireOnly DEF TraceToPod, NamedByLabels
<1>3. Str(t, "ns") = ns /\ t.name = name BY <1>1, <1>2, NamedSelects, Domains
<1>4. t.ns = ns BY <1>2, <1>3, GivenNs
<1>5. ApplyFunc("PodToTrace", t) = {q}
  <2>1. Given(Str(t, "ns")) /\ Given(t.name) BY <1>2, <1>3
  <2>2. PodToTrace(t) = Require({Str(t, "ns"), t.name}, {q}) BY DEF PodToTrace
  <2> HIDE DEF q
  <2>3. PodToTrace(t) = {q} BY <2>1, <2>2, RequireAll
  <2>4. QED BY <2>3, MentionsApply
<1>6. Labels(o, {<<"k8s.namespace.name", t.ns>>, <<"k8s.pod.name", t.name>>}) BY <1>3, <1>4 DEF Labels
<1>7. Selects(Parsed(q), o) /\ Formed(q) /\ q.class = Signal("trace", "span") BY <1>6, LabelledSelects
<1>8. "PodToTrace" \in DOMAIN Annotations BY RuleNames
<1>9. Annotations["PodToTrace"].goal = Spans BY Zenon DEF Annotations, Rule
<1> HIDE DEF q
<1>10. QED BY <1>5, <1>7, <1>8, <1>9, SignalGoals, LedBack

LEMMA LogsLeadBack ==
  ASSUME ObjectsServed, NEW o \in Objects, NEW t \in Neighbours("PodToLogs", o), o.class = PodClass
  PROVE  o \in Neighbours("LogToPod", t)
<1> DEFINE q == Named(Core("Pod"), Str(o, "ns"), o.name)
<1>1. /\ Given(Str(o, "ns")) /\ Given(o.name)
      /\ Str(t.labels, "kubernetes_namespace_name") = Str(o, "ns")
      /\ Str(t.labels, "kubernetes_pod_name") = o.name
  BY PodToLogsFinds DEF NamedLogs
<1>2. ApplyFunc("LogToPod", t) = {q}
  <2>1. LogToPod(t) = NamedByLabels(Core("Pod"), Str(o, "ns"), o.name) BY <1>1 DEF LogToPod
  <2>2. LogToPod(t) = {q} BY <1>1, <2>1, NamedGiven
  <2> HIDE DEF q
  <2>3. QED BY <2>2, NamesApply
<1>3. Selects(Parsed(q), o) BY <1>1, NamedSelects, Domains DEF PodClass
<1>4. Formed(q) /\ q.class = Core("Pod") BY ParsedForms
<1>5. "LogToPod" \in DOMAIN Annotations BY RuleNames
<1>6. Annotations["LogToPod"].goal = Pods BY Zenon DEF Annotations, Rule
<1> HIDE DEF q
<1>7. QED BY <1>2, <1>3, <1>4, <1>5, <1>6, LedBack DEF Pods

LEMMA LogLeadsBack ==
  ASSUME ObjectsServed, LogsOfPods, NEW o \in Objects, NEW t \in Neighbours("LogToPod", o), o.class[1] = "log"
  PROVE  o \in Neighbours("PodToLogs", t)
<1> DEFINE ns == Str(o.labels, "kubernetes_namespace_name")
           name == Str(o.labels, "kubernetes_pod_name")
<1>1. PICK p \in LogToPod(o) : Selects(Parsed(p), t) BY FoundBy, NamesApply
<1>2. p = Named(Core("Pod"), ns, name) /\ Given(ns) /\ Given(name)
  BY <1>1, RequireOnly DEF LogToPod, NamedByLabels
<1>3. Str(t, "ns") = ns /\ t.name = name BY <1>1, <1>2, NamedSelects, Domains
<1>4. o.class = LogType(ns) BY <1>2, Zenon DEF LogsOfPods, Given
<1>5. o \in NamedLogs(LogType(ns), ns, name) BY <1>4 DEF NamedLogs
<1>6. QED BY <1>2, <1>3, <1>5, PodToLogsFinds

\* A flow names its two ends by labels, and so does the query for the flows of an end.
EndLabels(type, ns, name, kind, namespace, n) == {<<type, kind>>, <<ns, namespace>>, <<name, n>>}

LEMMA EndLeadsBack ==
  ASSUME VersionsWritten, ObjectsServed, FlowsComplete, NEW o \in Objects, NEW r, NEW t \in Neighbours(r, o),
         NEW e \in Ends, e[2] \in {"SrcK8S_Type", "DstK8S_Type"},
         ApplyFunc(r, o) = Require({o.name}, {Flow(EndLabels(e[2], e[1], e[3], Kind(o), Str(o, "ns"), o.name))}),
         NEW i \in DOMAIN Annotations, Annotations[i].goal = Endpoints, ApplyFunc(i, t) = Endpoint(t, e[2], e[1], e[3]),
         NEW kind \in EndKinds, o.class = ClassOf(Core(kind))
  PROVE  o \in Neighbours(i, t)
<1> DEFINE pairs == EndLabels(e[2], e[1], e[3], Kind(o), Str(o, "ns"), o.name)
           q == Named(TypeToK8s(kind), Str(o, "ns"), o.name)
<1>1. o.class = K8s(kind, "v1", "") /\ ClassOf(TypeToK8s(kind)) = ClassOf(Core(kind))
  <2>1. InGroup(kind, "") = Core(kind) /\ \E v : Core(kind) = K8s(kind, v, "") BY Zenon DEF InGroup, Core
  <2>2. Serves(Core(kind)) BY DEF ObjectsServed, Serves
  <2>3. "" \in BuiltInGroups BY Zenon DEF BuiltInGroups
  <2>4. \A v, g : Serves(K8s(kind, v, g)) /\ g \in BuiltInGroups =>
          ClassOf(InGroup(kind, g)) = K8s(kind, "v1", g) /\ ClassOf(K8s(kind, "v1", g)) = K8s(kind, "v1", g)
    BY BuiltInVersion
  <2>5. ClassOf(Core(kind)) = K8s(kind, "v1", "") /\ ClassOf(K8s(kind, "v1", "")) = K8s(kind, "v1", "")
    BY <2>1, <2>2, <2>3, <2>4, Zenon
  <2>6. kind \notin {"Deployment", "DaemonSet", "StatefulSet", "ReplicaSet"} BY DEF EndKinds
  <2>7. TypeToK8s(kind) = K8s(kind, "v1", "") BY <2>6, Zenon DEF TypeToK8s
  <2>8. QED BY <2>5, <2>7, Zenon
<1>2. Kind(o) = kind
  <2>1. \A v, g : K8s(kind, v, g)[2] = kind BY DEF K8s
  <2>2. QED BY <1>1, <2>1, Zenon DEF Kind
<1>3. Given(kind) BY Zenon DEF EndKinds, Given
<1>4. PICK p \in Require({o.name}, {Flow(pairs)}) : Selects(Parsed(p), t) BY FoundBy
<1>5. t \in Objects BY FoundBy
<1> HIDE DEF pairs
<1>6. p = Flow(pairs) /\ Given(o.name) BY <1>4, RequireOnly
<1>7. t.class = Signal("netflow", "network") /\ Labels(t, pairs) BY <1>4, <1>6, LabelledSelects DEF Flow
<1>8. Str(t.labels, e[2]) = kind /\ Str(t.labels, e[1]) = Str(o, "ns") /\ Str(t.labels, e[3]) = o.name
  BY <1>2, <1>7 DEF Labels, pairs, EndLabels
<1>9. t.class[1] = "netflow" BY <1>7, Domains DEF OfDomain
<1>10. {e[1], e[3]} \subseteq DOMAIN t.labels BY <1>3, <1>5, <1>8, <1>9, Zenon DEF FlowsComplete, Given
<1>11. e[2] \in DOMAIN t.labels BY <1>3, <1>8, Zenon DEF Str, Has, Given
<1>12. t.labels[e[2]] = kind /\ t.labels[e[1]] = Str(o, "ns") /\ t.labels[e[3]] = o.name
  BY <1>8, <1>10, <1>11, Zenon DEF Str, Has
<1>13. Endpoint(t, e[2], e[1], e[3]) = {q} BY <1>3, <1>10, <1>11, <1>12, Zenon DEF Endpoint, Given
<1>14. Selects(Parsed(q), o) BY <1>1, <1>6, NamedSelects, Domains
<1>15. Formed(q) /\ q.class = TypeToK8s(kind) BY ParsedForms
<1>16. Core(kind) \in Annotations[i].goal BY DEF EndKinds, Endpoints
<1> HIDE DEF q
<1>17. QED BY <1>1, <1>13, <1>14, <1>15, <1>16, LedBack

\* What the end of a flow leads to, in its terms.
LEMMA EndFound ==
  ASSUME FlowsComplete, NEW o \in Objects, o.class[1] = "netflow", NEW r, NEW t \in Neighbours(r, o), NEW e \in Ends,
         ApplyFunc(r, o) = Endpoint(o, e[2], e[1], e[3])
  PROVE  /\ Given(t.name) /\ Str(o.labels, e[3]) = t.name
         /\ Str(o.labels, e[1]) = Str(t, "ns")
         /\ Str(o.labels, e[2]) = Kind(t)
<1>1. PICK p \in Endpoint(o, e[2], e[1], e[3]) : Selects(Parsed(p), t) BY FoundBy
<1> DEFINE kind == o.labels[e[2]]
           q == Named(TypeToK8s(kind), o.labels[e[1]], o.labels[e[3]])
<1>2. p = q /\ {e[2], e[1], e[3]} \subseteq DOMAIN o.labels /\ Given(kind)
  BY <1>1, Zenon DEF Endpoint, NoQueries, Given
<1>3. /\ Str(o.labels, e[1]) = o.labels[e[1]] /\ Str(o.labels, e[2]) = kind
      /\ Str(o.labels, e[3]) = o.labels[e[3]]
  BY <1>2, Zenon DEF Str, Has
<1>4. Given(o.labels[e[3]]) BY <1>2, <1>3, Zenon DEF FlowsComplete, Given
<1>5. t.class = ClassOf(TypeToK8s(kind)) /\ Str(t, "ns") = o.labels[e[1]] /\ t.name = o.labels[e[3]]
  BY <1>1, <1>2, <1>4, NamedSelects, Domains
<1>6. Kind(t) = kind
  <2>1. \E g : TypeToK8s(kind) = K8s(kind, "v1", g) BY Zenon DEF TypeToK8s
  <2>2. \E v, g : t.class = K8s(kind, v, g) BY <1>5, <2>1, ClassOfK8s
  <2>3. QED BY <2>2 DEF K8s, Kind
<1>7. QED BY <1>3, <1>4, <1>5, <1>6

LEMMA FlowLeadsBack ==
  ASSUME ObjectsServed, FlowsComplete, NEW o \in Objects, o.class = Signal("netflow", "network"),
         NEW r, NEW t \in Neighbours(r, o), NEW e \in Ends,
         ApplyFunc(r, o) = Endpoint(o, e[2], e[1], e[3]),
         NEW i \in DOMAIN Annotations, Annotations[i].goal = Flows,
         ApplyFunc(i, t) = Require({t.name}, {Flow(EndLabels(e[2], e[1], e[3], Kind(t), Str(t, "ns"), t.name))})
  PROVE  o \in Neighbours(i, t)
<1> DEFINE pairs == EndLabels(e[2], e[1], e[3], Kind(t), Str(t, "ns"), t.name)
           q == Flow(pairs)
<1>1. o.class[1] = "netflow" BY Domains DEF OfDomain
<1>2. /\ Given(t.name) /\ Str(o.labels, e[3]) = t.name
      /\ Str(o.labels, e[1]) = Str(t, "ns")
      /\ Str(o.labels, e[2]) = Kind(t)
  BY <1>1, EndFound
<1>3. Labels(o, pairs) BY <1>2 DEF Labels, EndLabels
<1> HIDE DEF pairs
<1>4. Selects(Parsed(q), o) /\ Formed(q) /\ q.class = Signal("netflow", "network")
  BY <1>3, LabelledSelects DEF Flow
<1>5. ApplyFunc(i, t) = Require({t.name}, {q}) BY DEF pairs
<1> HIDE DEF q
<1>6. ApplyFunc(i, t) = {q} BY <1>2, <1>5, RequireAll
<1>7. QED BY <1>4, <1>6, SignalGoals, LedBack

LEMMA OwnedFlowLeadsBack ==
  ASSUME ObjectsServed, FlowsComplete, ObjectsNamed, NEW o \in Objects, o.class = Signal("netflow", "network"),
         NEW r \in DOMAIN Annotations, Annotations[r].goal = Owners, NEW t \in Neighbours(r, o), NEW e \in Ends,
         ApplyFunc(r, o) = Endpoint(o, e[2], e[1], e[3]),
         NEW i \in DOMAIN Annotations, Annotations[i].goal = Flows,
         ApplyFunc(i, t) = Require({Str(t, "ns"), t.name}, {Flow({<<e[1], t.ns>>, <<e[3], t.name>>})})
  PROVE  o \in Neighbours(i, t)
<1> DEFINE pairs == {<<e[1], t.ns>>, <<e[3], t.name>>}
           q == Flow(pairs)
<1>1. o.class[1] = "netflow" BY Domains DEF OfDomain
<1>2. Given(t.name) /\ Str(o.labels, e[3]) = t.name /\ Str(o.labels, e[1]) = Str(t, "ns") BY <1>1, EndFound
<1>3. t \in Objects /\ t.class \in {ClassOf(c) : c \in Owners} BY FoundBy, FoundClass
<1>4. Given(Str(t, "ns")) BY <1>3, Zenon DEF ObjectsNamed, Given
<1>5. t.ns = Str(t, "ns") BY <1>4, GivenNs
<1>6. Labels(o, pairs) BY <1>2, <1>5 DEF Labels
<1> HIDE DEF pairs
<1>7. Selects(Parsed(q), o) /\ Formed(q) /\ q.class = Signal("netflow", "network")
  BY <1>6, LabelledSelects DEF Flow
<1>8. ApplyFunc(i, t) = Require({Str(t, "ns"), t.name}, {q}) BY DEF pairs
<1> HIDE DEF q
<1>9. ApplyFunc(i, t) = {q} BY <1>2, <1>4, <1>8, RequireAll
<1>10. QED BY <1>7, <1>9, SignalGoals, LedBack

LEMMA ListedSelects ==
  ASSUME NEW c, OfDomain(c, "k8s"), NEW ns, Given(ns), NEW labels, NEW o
  PROVE  Selects(Parsed(Labelled(c, ns, labels)), o) <=> o.class = ClassOf(c) /\ Str(o, "ns") = ns /\ Labels(o, labels)
<1> DEFINE q == Parsed(Labelled(c, ns, labels))
<1>1. q = Labelled(ClassOf(c), ns, labels) BY ParsedForms
<1>2. q.class = ClassOf(c) /\ q.ns = ns /\ q.labels = labels /\ q.fields = {}
  <2>1. \A d : Labelled(d, ns, labels).class = d /\ Labelled(d, ns, labels).ns = ns
                 /\ Labelled(d, ns, labels).labels = labels /\ Labelled(d, ns, labels).fields = {}
    BY DEF Labelled, Query
  <2>2. QED BY <1>1, <2>1, Zenon
<1>3. q.name = ""
  <2>1. Labelled(ClassOf(c), ns, labels).name = "" BY Zenon DEF Labelled, Query
  <2>2. QED BY <1>1, <2>1, Zenon
<1>4. ClassOf(c)[1] = "k8s" BY SameDomain DEF OfDomain
<1> HIDE DEF q
<1>5. Selects(q, o) <=> o.class = q.class /\ K8sGet(q, o) BY <1>2, <1>4 DEF Selects
<1>6. K8sGet(q, o) <=> q.ns \in {"", Str(o, "ns")} /\ LabelsMatch(q, o) BY <1>2, <1>3, Zenon DEF K8sGet
<1>7. q.ns \in {"", Str(o, "ns")} <=> Str(o, "ns") = ns BY <1>2, Zenon DEF Given
<1>8. QED BY <1>2, <1>5, <1>6, <1>7 DEF LabelsMatch, Labels, q

\* The slices of a Service, and the Service of a slice.
LEMMA SlicesLeadBack ==
  ASSUME ObjectsServed, NEW o \in Objects, o.class = ClassOf(Core("Service")),
         NEW t \in Neighbours("ServiceToEndpointSlice", o)
  PROVE  o \in Neighbours("EndpointSliceToService", t)
<1> DEFINE pairs == {<<"kubernetes.io/service-name", o.name>>}
           one == Labelled(EndpointSlice, o.ns, pairs)
           q == Named(Core("Service"), Str(o, "ns"), o.name)
<1>1. PICK p \in ServiceToEndpointSlice(o) : Selects(Parsed(p), t) BY FoundBy, OthersApply
<1>2. p = one /\ Given(Str(o, "ns")) /\ Given(o.name)
  <2>1. p \in Require({Str(o, "ns"), o.name}, {one}) BY <1>1 DEF ServiceToEndpointSlice
  <2> HIDE DEF one
  <2>2. QED BY <2>1, RequireOnly
<1>3. o.ns = Str(o, "ns") BY <1>2, GivenNs
<1> HIDE DEF pairs
<1>4. Str(t, "ns") = Str(o, "ns") /\ Labels(t, pairs) BY <1>1, <1>2, <1>3, ListedSelects, K8sNames
<1>5. Str(t.labels, "kubernetes.io/service-name") = o.name BY <1>4 DEF Labels, pairs
<1>6. ApplyFunc("EndpointSliceToService", t) = {q}
  <2> DEFINE n == Str(t.labels, "kubernetes.io/service-name")
  <2>1. EndpointSliceToService(t) = NamedRefs(t, Core("Service"), {n}) BY DEF EndpointSliceToService
  <2>2. n = o.name BY <1>5
  <2> HIDE DEF n, q
  <2>3. NamedRefs(t, Core("Service"), {n}) = Require({Str(t, "ns")} \cup {n}, {Named(Core("Service"), Str(t, "ns"), x) : x \in {n}})
    BY DEF NamedRefs
  <2>4. {Named(Core("Service"), Str(t, "ns"), x) : x \in {n}} = {q} BY <1>4, <2>2 DEF q
  <2>5. \A v \in {Str(t, "ns")} \cup {n} : Given(v) BY <1>2, <1>4, <2>2
  <2>6. EndpointSliceToService(t) = {q} BY <2>1, <2>3, <2>4, <2>5, RequireAll
  <2>7. QED BY <2>6, ReferencesApply
<1>7. Selects(Parsed(q), o) BY <1>2, NamedSelects, Domains
<1>8. Formed(q) /\ q.class = Core("Service") BY ParsedForms
<1>9. "EndpointSliceToService" \in DOMAIN Annotations BY RuleNames
<1>10. Annotations["EndpointSliceToService"].goal = {Core("Service")} BY Zenon DEF Annotations, Rule
<1> HIDE DEF q
<1>11. QED BY <1>6, <1>7, <1>8, <1>9, <1>10, LedBack

LEMMA SliceLeadsBack ==
  ASSUME ObjectsServed, NEW o \in Objects, o.class = ClassOf(EndpointSlice),
         NEW t \in Neighbours("EndpointSliceToService", o)
  PROVE  o \in Neighbours("ServiceToEndpointSlice", t)
<1> DEFINE n == Str(o.labels, "kubernetes.io/service-name")
           pairs == {<<"kubernetes.io/service-name", t.name>>}
           q == Labelled(EndpointSlice, t.ns, pairs)
<1>1. PICK p \in EndpointSliceToService(o) : Selects(Parsed(p), t) BY FoundBy, ReferencesApply
<1>2. p = Named(Core("Service"), Str(o, "ns"), n) /\ Given(Str(o, "ns")) /\ Given(n)
  <2>1. p \in NamedRefs(o, Core("Service"), {n}) BY <1>1 DEF EndpointSliceToService
  <2> HIDE DEF n
  <2>2. p \in Require({Str(o, "ns")} \cup {n}, {Named(Core("Service"), Str(o, "ns"), x) : x \in {n}})
    BY <2>1 DEF NamedRefs
  <2>3. /\ p \in {Named(Core("Service"), Str(o, "ns"), x) : x \in {n}}
        /\ \A v \in {Str(o, "ns")} \cup {n} : Given(v)
    BY <2>2, RequireOnly
  <2>4. QED BY <2>3
<1>3. Str(t, "ns") = Str(o, "ns") /\ t.name = n
  <2> HIDE DEF n
  <2>1. QED BY <1>1, <1>2, NamedSelects, Domains
<1>4. t.ns = Str(t, "ns") BY <1>2, <1>3, GivenNs
<1>5. Labels(o, pairs) BY <1>3 DEF Labels
<1> HIDE DEF pairs
<1>6. Selects(Parsed(q), o) BY <1>2, <1>3, <1>4, <1>5, ListedSelects, K8sNames
<1>7. Formed(q) /\ q.class = EndpointSlice BY ParsedForms
<1>8. ServiceToEndpointSlice(t) = Require({Str(t, "ns"), t.name}, {q}) BY DEF ServiceToEndpointSlice, pairs
<1>9. "ServiceToEndpointSlice" \in DOMAIN Annotations BY RuleNames
<1>10. Annotations["ServiceToEndpointSlice"].goal = {EndpointSlice} BY Zenon DEF Annotations, Rule
<1> HIDE DEF q, n
<1>11. ServiceToEndpointSlice(t) = {q}
  <2>1. \A v \in {Str(t, "ns"), t.name} : Given(v) BY <1>2, <1>3
  <2>2. QED BY <1>8, <2>1, RequireAll
<1>12. ApplyFunc("ServiceToEndpointSlice", t) = {q} BY <1>11, OthersApply
<1>13. QED BY <1>6, <1>7, <1>9, <1>10, <1>12, LedBack

\* An incident lists the labels of the alert that led to it.
LEMMA IncidentLeadsBack ==
  ASSUME ObjectsServed, ObjectsNamed, NEW o \in Objects, o.class = Signal("alert", "alert"),
         NEW t \in Neighbours("AlertToIncident", o)
  PROVE  o \in Neighbours("IncidentToAlert", t)
<1> DEFINE q == Select(Signal("alert", "alert"), {PairsOf(labels) : labels \in t.alertsLabels})
<1>1. PICK p \in AlertToIncident(o) : Selects(Parsed(p), t) BY FoundBy, NamesApply, CrossApply
<1>2. p = Select(Signal("incident", "incident"), PairsOf(o.labels)) BY <1>1 DEF AlertToIncident
<1>3. PairsOf(o.labels) # {}
  <2>1. o.class[1] = "alert" BY Domains DEF OfDomain
  <2>2. DOMAIN o.labels # {} BY <2>1, Zenon DEF ObjectsNamed
  <2>3. QED BY <2>2 DEF PairsOf
<1>4. PICK alert \in t.alertsLabels : PairsOf(alert) \subseteq PairsOf(o.labels)
  BY <1>1, <1>2, <1>3, IncidentsSelect
<1>5. Labels(o, PairsOf(alert))
  <2>1. \A k : k \in DOMAIN o.labels => Str(o.labels, k) = o.labels[k] BY Zenon DEF Str, Has
  <2>2. Labels(o, PairsOf(o.labels)) BY <2>1 DEF Labels, PairsOf
  <2>3. QED BY <1>4, <2>2 DEF Labels
<1>6. \E ls \in {PairsOf(labels) : labels \in t.alertsLabels} : Labels(o, ls) BY <1>4, <1>5
<1>7. Selects(Parsed(q), o) /\ Formed(q) /\ q.class = Signal("alert", "alert") BY <1>6, AlertsSelect
<1>8. IncidentToAlert(t) = {q} BY <1>4, Zenon DEF IncidentToAlert
<1>9. "IncidentToAlert" \in DOMAIN Annotations BY RuleNames
<1>10. Annotations["IncidentToAlert"].goal = AnyAlert BY Zenon DEF Annotations, Rule
<1> HIDE DEF q
<1>11. ApplyFunc("IncidentToAlert", t) = {q} BY <1>8, CrossApply, ReferencesApply
<1>12. QED BY <1>7, <1>9, <1>10, <1>11, SignalGoals, LedBack

\* A class of the cluster that a rule for any k8s object starts from.
LEMMA K8sStart ==
  ASSUME NEW r \in DOMAIN Annotations, Annotations[r].start = AnyK8s, NEW o, Usable(r, o)
  PROVE  /\ o.class \in AnyK8s /\ OfDomain(o.class, "k8s") /\ ClassOf(o.class) = o.class
         /\ o.class = K8s(o.class[2], o.class[3], o.class[4])
<1>1. PICK n \in AnyK8s : o.class = ClassOf(n) /\ o.class \in Classes BY StartsIn DEF Usable, Start, Resolve
<1>2. \E kind, version, group : n = K8s(kind, version, group)
  <2>1. n \in K8sClasses
    <3>1. \A m \in SignalClasses : m[1] # "k8s" BY Domains DEF SignalClasses, OfDomain
    <3>2. QED BY <3>1 DEF AnyK8s, AllOf, Classes
  <2>2. QED BY <2>1 DEF K8sClasses
<1>3. ClassOf(o.class) = o.class BY <1>1, <1>2, SameClass
<1>4. \E kind, version, group : o.class = K8s(kind, version, group) BY <1>1, <1>2, ClassOfK8s
<1>5. OfDomain(o.class, "k8s") BY <1>4, Domains
<1>6. o.class = K8s(o.class[2], o.class[3], o.class[4]) BY <1>4 DEF K8s
<1>7. o.class \in AnyK8s BY <1>1, <1>5 DEF AnyK8s, AllOf, OfDomain
<1>8. QED BY <1>3, <1>5, <1>6, <1>7

EventFields(o) ==
  {<<"version", o.class[3]>>, <<"group", o.class[4]>>, <<"kind", Kind(o)>>, <<"name", o.name>>, <<"ns", o.ns>>}

\* What an event found by its fields is about.
LEMMA EventSelects ==
  ASSUME NEW ns, NEW none, ~Given(none), NEW fields, fields # {},
         NEW t, Selects(Parsed(Query(Core("Event"), ns, none, {}, fields)), t)
  PROVE  /\ Has(t, "involvedObject")
         /\ \A f \in fields : Str(t.involvedObject, f[1]) = f[2]
<1> DEFINE q == Parsed(Query(Core("Event"), ns, none, {}, fields))
<1>1. q.class = ClassOf(Core("Event")) /\ q.fields = fields /\ q.name = none
  <2>1. q = Query(ClassOf(Core("Event")), ns, none, {}, fields) BY ParsedQuery
  <2> HIDE DEF q
  <2>2. QED BY <2>1 DEF Query
<1>2. q.class[1] = "k8s" BY <1>1, SameDomain, Domains DEF OfDomain
<1> HIDE DEF q
<1>3. Selects(q, t) BY DEF q
<1>4. K8sGet(q, t) BY <1>2, <1>3 DEF Selects
<1>5. \A f \in fields : Has(t, "involvedObject") /\ Str(t.involvedObject, f[1]) = f[2]
  BY <1>1, <1>4, Zenon DEF K8sGet, Given
<1>6. QED BY <1>5

LEMMA EventLeadsBack ==
  ASSUME ObjectsServed, NEW o \in Objects, NEW t \in Neighbours("AllToEvent", o), Usable("AllToEvent", o)
  PROVE  o \in Neighbours("EventToAll", t)
<1> DEFINE ref == t.involvedObject
           q == Named(o.class, Str(o, "ns"), o.name)
<1>1. "AllToEvent" \in DOMAIN Annotations /\ "EventToAll" \in DOMAIN Annotations BY RuleNames
<1>2. Annotations["AllToEvent"].start = AnyK8s /\ Annotations["EventToAll"].goal = AnyK8s
  BY Zenon DEF Annotations, Rule
<1>3. /\ o.class \in AnyK8s /\ OfDomain(o.class, "k8s") /\ ClassOf(o.class) = o.class
      /\ o.class = K8s(o.class[2], o.class[3], o.class[4])
  BY <1>1, <1>2, K8sStart
<1>4. PICK p \in AllToEvent(o) : Selects(Parsed(p), t) BY FoundBy, OthersApply
<1>5. t \in Objects BY FoundBy
<1>6. p = Query(Core("Event"), o.ns, "", {}, EventFields(o)) /\ Given(Str(o, "ns")) /\ Given(o.name)
  <2> DEFINE one == Query(Core("Event"), o.ns, "", {}, EventFields(o))
  <2>1. p \in Require({Str(o, "ns"), o.name}, {one}) BY <1>4, Zenon DEF AllToEvent, EventFields
  <2> HIDE DEF one
  <2>2. p = one /\ Given(Str(o, "ns")) /\ Given(o.name) BY <2>1, RequireOnly
  <2>3. QED BY <2>2 DEF one
<1>7. o.ns = Str(o, "ns") BY <1>6, GivenNs
<1>8. EventFields(o) # {} BY DEF EventFields
<1>9. Has(t, "involvedObject") /\ \A f \in EventFields(o) : Str(ref, f[1]) = f[2]
  <2>1. ASSUME NEW none, ~Given(none), p = Query(Core("Event"), o.ns, none, {}, EventFields(o))
        PROVE  Has(t, "involvedObject") /\ \A f \in EventFields(o) : Str(ref, f[1]) = f[2]
    BY <1>4, <1>8, <2>1, EventSelects
  <2>2. ~Given("") BY Zenon DEF Given
  <2>3. QED BY <1>6, <2>1, <2>2, Zenon
<1>10. /\ Str(ref, "version") = o.class[3] /\ Str(ref, "group") = o.class[4] /\ Str(ref, "kind") = o.class[2]
       /\ Str(ref, "name") = o.name /\ Str(ref, "ns") = Str(o, "ns")
  BY <1>7, <1>9 DEF EventFields, Kind
<1>11. {"kind", "version", "group"} \subseteq DOMAIN ref BY <1>5, <1>9 DEF ObjectsServed
<1>12. ref.kind = o.class[2] /\ ref.version = o.class[3] /\ ref.group = o.class[4]
  BY <1>10, <1>11 DEF Str, Has
<1>13. ref.name = o.name BY <1>6, <1>10, Zenon DEF Str, Has, Given
<1>14. EventToAll(t) = ReferredTo(ref) BY <1>9, Zenon DEF EventToAll
<1> HIDE DEF ref
<1>15. ReferredTo(ref) = Require({Str(ref, "name")}, {q}) BY <1>3, <1>10, <1>12, <1>13 DEF ReferredTo
<1> HIDE DEF q
<1>16. ReferredTo(ref) = {q}
  <2>1. \A v \in {Str(ref, "name")} : Given(v) BY <1>6, <1>10, Zenon
  <2>2. Require({Str(ref, "name")}, {q}) = {q} BY <2>1, RequireAll
  <2>3. QED BY <1>15, <2>2, Zenon
<1>17. ApplyFunc("EventToAll", t) = {q} BY <1>14, <1>16, OthersApply
<1>18. Selects(Parsed(q), o) BY <1>3, <1>6, NamedSelects DEF q
<1>19. Formed(q) /\ q.class = o.class BY ParsedForms DEF q
<1>20. QED BY <1>1, <1>2, <1>3, <1>17, <1>18, <1>19, LedBack

\* What a rule starts from: one class, or the signals of one domain.
LEMMA OneStart ==
  ASSUME NEW r \in DOMAIN Annotations, NEW c, Annotations[r].start = {c}, NEW o, Usable(r, o)
  PROVE  o.class = ClassOf(c) /\ o.class \in Classes
BY StartsIn DEF Usable, Start, Resolve

LEMMA SignalStart ==
  ASSUME NEW r \in DOMAIN Annotations, NEW domain, domain # "k8s", Annotations[r].start = AllOf(domain),
         NEW o, Usable(r, o)
  PROVE  o.class[1] = domain /\ o.class \in Classes
<1>1. PICK n \in AllOf(domain) : o.class = ClassOf(n) BY StartsIn DEF Usable
<1>2. n[1] = domain /\ n \in Classes BY DEF AllOf
<1>3. QED BY <1>1, <1>2, SignalClass

LEMMA EndStart ==
  ASSUME NEW r \in DOMAIN Annotations, Annotations[r].start = Endpoints, NEW o, Usable(r, o)
  PROVE  \E kind \in EndKinds : o.class = ClassOf(Core(kind))
BY StartsIn DEF Usable, Endpoints, EndKinds

LEMMA AlertsNamedLeadBack ==
  ASSUME ObjectsServed, NEW o \in Objects, NEW r \in DOMAIN Annotations, Usable(r, o), NEW t \in Neighbours(r, o),
         NEW label, NEW c, OfDomain(c, "k8s"), Annotations[r].start = {c}, ApplyFunc(r, o) = AlertsOn(o, label),
         NEW i \in DOMAIN Annotations, Annotations[i].goal = {c}, ApplyFunc(i, t) = AlertNames(t, label, c)
  PROVE  o \in Neighbours(i, t)
<1>1. o.class = ClassOf(c) BY OneStart
<1>2. ApplyFunc(i, t) = NamedByLabels(c, Str(t.labels, "namespace"), Str(t.labels, label)) BY DEF AlertNames
<1>3. QED BY <1>1, <1>2, AlertsLeadBack

\* The label of a log on a pod, or that of the pod itself, tells the name.
LEMMA PodAlertsLeadBack ==
  ASSUME VersionsWritten, ObjectsServed, ObjectsNamed, NEW o \in Objects, NEW r \in {"PodToAlert", "PodToLokiAlert"},
         Usable(r, o), NEW t \in Neighbours(r, o)
  PROVE  o \in Neighbours("AlertToPod", t)
<1> DEFINE ns == Default(Str(t.labels, "namespace"), Str(t.labels, "kubernetes_namespace_name"))
           name == Default(Str(t.labels, "pod"), Str(t.labels, "kubernetes_pod_name"))
           label == IF r = "PodToAlert" THEN "pod" ELSE "kubernetes_pod_name"
<1>1. r \in DOMAIN Annotations /\ "AlertToPod" \in DOMAIN Annotations BY RuleNames
<1>2. /\ Annotations["PodToAlert"].start = Pods /\ Annotations["PodToLokiAlert"].start = Pods
      /\ Annotations["AlertToPod"].goal = {CoreV1("Pod")}
      /\ Annotations["PodToAlert"].goal = AnyAlert /\ Annotations["PodToLokiAlert"].goal = AnyAlert
  BY Zenon DEF Annotations, Rule
<1>3. o.class = ClassOf(Core("Pod")) /\ o.class \in Classes
  <2>1. Annotations[r].start = {Core("Pod")} BY <1>2 DEF Pods
  <2>2. QED BY <1>1, <2>1, OneStart
<1>4. ClassOf(CoreV1("Pod")) = ClassOf(Core("Pod"))
  <2>1. InGroup("Pod", "") = Core("Pod") /\ CoreV1("Pod") = K8s("Pod", "v1", "")
        /\ \E v : Core("Pod") = K8s("Pod", v, "")
    BY Zenon DEF InGroup, Core, CoreV1
  <2>2. Serves(Core("Pod")) BY <1>3 DEF Serves
  <2>3. "" \in BuiltInGroups BY Zenon DEF BuiltInGroups
  <2>4. \A v, g : Serves(K8s("Pod", v, g)) /\ g \in BuiltInGroups =>
          ClassOf(InGroup("Pod", g)) = K8s("Pod", "v1", g) /\ ClassOf(K8s("Pod", "v1", g)) = K8s("Pod", "v1", g)
    BY BuiltInVersion
  <2>5. QED BY <2>1, <2>2, <2>3, <2>4, Zenon
<1>5. ApplyFunc(r, o) = AlertsOn(o, label)
  <2>1. ApplyFunc("PodToAlert", o) = AlertsOn(o, "pod")
        /\ ApplyFunc("PodToLokiAlert", o) = AlertsOn(o, "kubernetes_pod_name")
    BY MentionsApply DEF PodToAlert, PodToLokiAlert
  <2>2. QED BY <2>1
<1>6. ApplyFunc("AlertToPod", t) = NamedByLabels(CoreV1("Pod"), ns, name) BY NamesApply, Zenon DEF AlertToPod
<1>7. t \in Objects /\ t.class[1] = "alert"
  <2>1. PICK n \in AnyAlert : t.class = ClassOf(n) BY <1>1, <1>2, FoundClass
  <2>2. n[1] = "alert" BY DEF AnyAlert, AllOf
  <2>3. QED BY <2>1, <2>2, SignalClass, FoundBy
<1>8. /\ Agree(t.labels, "namespace", "kubernetes_namespace_name")
      /\ Agree(t.labels, "pod", "kubernetes_pod_name")
  BY <1>7, Zenon DEF ObjectsNamed
<1>9. ASSUME NEW l, NEW m, Agree(t.labels, l, m), Given(Str(t.labels, l)) \/ Given(Str(t.labels, m))
      PROVE  /\ Given(Str(t.labels, l)) => Default(Str(t.labels, l), Str(t.labels, m)) = Str(t.labels, l)
             /\ Given(Str(t.labels, m)) => Default(Str(t.labels, l), Str(t.labels, m)) = Str(t.labels, m)
  BY <1>9, Zenon DEF Agree, Default, Given
<1>10. Given(Str(t.labels, "namespace")) => ns = Str(t.labels, "namespace") BY <1>8, <1>9
<1>11. Given(Str(t.labels, label)) => name = Str(t.labels, label) BY <1>8, <1>9
<1>12. CoreV1("Pod") \in Annotations["AlertToPod"].goal BY <1>2
<1> HIDE DEF ns, name, label
<1>13. QED BY <1>1, <1>3, <1>4, <1>5, <1>6, <1>10, <1>11, <1>12, Domains, AlertsLeadBack

NamedAlertRules ==
  {"DeploymentToAlert", "DaemonSetToAlert", "StatefulSetToAlert", "PodDisruptionBudgetToAlert",
   "VmToAlert", "VmiToAlert", "VmimToAlert"}
K8sToFlowRules == {"K8sSrcToNetflow", "K8sDstToNetflow"}

LEMMA NamedAlertRulesLeadBack ==
  ASSUME ObjectsServed, NEW o \in Objects, NEW r \in NamedAlertRules, Usable(r, o), NEW t \in Neighbours(r, o)
  PROVE  o \in Neighbours(InverseOf[r], t)
<1>1. r \in DOMAIN Annotations BY RuleNames DEF NamedAlertRules
<1>2. {"AlertToDeployment", "AlertToDaemonSet", "AlertToStatefulSet", "AlertToPodDisruptionBudget",
       "AlertToVM", "AlertToVMI", "AlertToVmim"} \subseteq DOMAIN Annotations
  BY RuleNames
<1>3. ASSUME NEW c, OfDomain(c, "k8s"), NEW label, NEW i \in DOMAIN Annotations, Annotations[r].start = {c},
             Annotations[i].goal = {c}, ApplyFunc(r, o) = AlertsOn(o, label), ApplyFunc(i, t) = AlertNames(t, label, c)
      PROVE  o \in Neighbours(i, t)
  BY <1>1, <1>3, AlertsNamedLeadBack
<1>4. CASE r = "DeploymentToAlert"
  <2>1. /\ Annotations["DeploymentToAlert"].start = {Deployment}
        /\ Annotations["AlertToDeployment"].goal = {Deployment}
        /\ InverseOf["DeploymentToAlert"] = "AlertToDeployment"
    BY Zenon DEF Annotations, Rule, InverseOf
  <2>2. ApplyFunc(r, o) = AlertsOn(o, "deployment") BY <1>4, MentionsApply DEF DeploymentToAlert
  <2>3. ApplyFunc("AlertToDeployment", t) = AlertNames(t, "deployment", Deployment)
    BY NamesApply DEF AlertToDeployment
  <2>4. QED BY <1>2, <1>3, <1>4, <2>1, <2>2, <2>3, K8sNames
<1>5. CASE r = "DaemonSetToAlert"
  <2>1. /\ Annotations["DaemonSetToAlert"].start = {DaemonSet}
        /\ Annotations["AlertToDaemonSet"].goal = {DaemonSet}
        /\ InverseOf["DaemonSetToAlert"] = "AlertToDaemonSet"
    BY Zenon DEF Annotations, Rule, InverseOf
  <2>2. ApplyFunc(r, o) = AlertsOn(o, "daemonset") BY <1>5, MentionsApply DEF DaemonSetToAlert
  <2>3. ApplyFunc("AlertToDaemonSet", t) = AlertNames(t, "daemonset", DaemonSet)
    BY NamesApply DEF AlertToDaemonSet
  <2>4. QED BY <1>2, <1>3, <1>5, <2>1, <2>2, <2>3, K8sNames
<1>6. CASE r = "StatefulSetToAlert"
  <2>1. /\ Annotations["StatefulSetToAlert"].start = {StatefulSet}
        /\ Annotations["AlertToStatefulSet"].goal = {StatefulSet}
        /\ InverseOf["StatefulSetToAlert"] = "AlertToStatefulSet"
    BY Zenon DEF Annotations, Rule, InverseOf
  <2>2. ApplyFunc(r, o) = AlertsOn(o, "statefulset") BY <1>6, MentionsApply DEF StatefulSetToAlert
  <2>3. ApplyFunc("AlertToStatefulSet", t) = AlertNames(t, "statefulset", StatefulSet)
    BY NamesApply DEF AlertToStatefulSet
  <2>4. QED BY <1>2, <1>3, <1>6, <2>1, <2>2, <2>3, K8sNames
<1>7. CASE r = "PodDisruptionBudgetToAlert"
  <2> DEFINE PDB == K8s("PodDisruptionBudget", "v1", "policy")
  <2>1. /\ Annotations["PodDisruptionBudgetToAlert"].start = {PDB}
        /\ Annotations["AlertToPodDisruptionBudget"].goal = {PDB}
        /\ InverseOf["PodDisruptionBudgetToAlert"] = "AlertToPodDisruptionBudget"
    BY Zenon DEF Annotations, Rule, InverseOf
  <2>2. ApplyFunc(r, o) = AlertsOn(o, "poddisruptionbudget") BY <1>7, MentionsApply DEF PodDisruptionBudgetToAlert
  <2>3. ApplyFunc("AlertToPodDisruptionBudget", t) = AlertNames(t, "poddisruptionbudget", PDB)
    BY NamesApply DEF AlertToPodDisruptionBudget
  <2>4. OfDomain(PDB, "k8s") BY Domains
  <2> HIDE DEF PDB
  <2>5. QED BY <1>2, <1>3, <1>7, <2>1, <2>2, <2>3, <2>4
<1>8. CASE r = "VmToAlert"
  <2>1. /\ Annotations["VmToAlert"].start = {VM}
        /\ Annotations["AlertToVM"].goal = {VM}
        /\ InverseOf["VmToAlert"] = "AlertToVM"
    BY Zenon DEF Annotations, Rule, InverseOf
  <2>2. ApplyFunc(r, o) = AlertsOn(o, "name") BY <1>8, MentionsApply DEF VmToAlert
  <2>3. ApplyFunc("AlertToVM", t) = AlertNames(t, "name", VM) BY NamesApply DEF AlertToVM
  <2>4. QED BY <1>2, <1>3, <1>8, <2>1, <2>2, <2>3, K8sNames
<1>9. CASE r = "VmiToAlert"
  <2>1. /\ Annotations["VmiToAlert"].start = {VMI}
        /\ Annotations["AlertToVMI"].goal = {VMI}
        /\ InverseOf["VmiToAlert"] = "AlertToVMI"
    BY Zenon DEF Annotations, Rule, InverseOf
  <2>2. ApplyFunc(r, o) = AlertsOn(o, "name") BY <1>9, MentionsApply DEF VmiToAlert
  <2>3. ApplyFunc("AlertToVMI", t) = AlertNames(t, "name", VMI) BY NamesApply DEF AlertToVMI
  <2>4. QED BY <1>2, <1>3, <1>9, <2>1, <2>2, <2>3, K8sNames
<1>10. CASE r = "VmimToAlert"
  <2>1. /\ Annotations["VmimToAlert"].start = {VMIM}
        /\ Annotations["AlertToVmim"].goal = {VMIM}
        /\ InverseOf["VmimToAlert"] = "AlertToVmim"
    BY Zenon DEF Annotations, Rule, InverseOf
  <2>2. ApplyFunc(r, o) = AlertsOn(o, "vmim") BY <1>10, MentionsApply DEF VmimToAlert
  <2>3. ApplyFunc("AlertToVmim", t) = AlertNames(t, "vmim", VMIM) BY NamesApply DEF AlertToVmim
  <2>4. QED BY <1>2, <1>3, <1>10, <2>1, <2>2, <2>3, K8sNames
<1>11. QED BY <1>4, <1>5, <1>6, <1>7, <1>8, <1>9, <1>10 DEF NamedAlertRules

LEMMA FlowRulesLeadBack ==
  ASSUME VersionsWritten, ObjectsServed, FlowsComplete, ObjectsNamed,
         NEW o \in Objects, NEW r \in EndRules \cup OwnerRules \cup K8sToFlowRules, Usable(r, o), NEW t \in Neighbours(r, o)
  PROVE  o \in Neighbours(InverseOf[r], t)
<1> DEFINE src == <<"SrcK8S_Namespace", "SrcK8S_Type", "SrcK8S_Name">>
           dst == <<"DstK8S_Namespace", "DstK8S_Type", "DstK8S_Name">>
           srcOwner == <<"SrcK8S_Namespace", "SrcK8S_OwnerType", "SrcK8S_OwnerName">>
           dstOwner == <<"DstK8S_Namespace", "DstK8S_OwnerType", "DstK8S_OwnerName">>
<1>1. {"NetflowToSrcK8s", "NetflowToDstK8s", "NetflowToSrcK8sOwner", "NetflowToDstK8sOwner", "K8sSrcToNetflow",
       "K8sDstToNetflow", "K8sSrcOwnerToNetflow", "K8sDstOwnerToNetflow"} \subseteq DOMAIN Annotations
  BY RuleNames
<1>2. r \in DOMAIN Annotations BY <1>1 DEF EndRules, OwnerRules, K8sToFlowRules
<1>3. {src, dst, srcOwner, dstOwner} \subseteq Ends BY DEF Ends
<1>4. /\ InverseOf["NetflowToSrcK8s"] = "K8sSrcToNetflow" /\ InverseOf["K8sSrcToNetflow"] = "NetflowToSrcK8s"
      /\ InverseOf["NetflowToDstK8s"] = "K8sDstToNetflow" /\ InverseOf["K8sDstToNetflow"] = "NetflowToDstK8s"
      /\ InverseOf["NetflowToSrcK8sOwner"] = "K8sSrcOwnerToNetflow"
      /\ InverseOf["NetflowToDstK8sOwner"] = "K8sDstOwnerToNetflow"
  BY Zenon DEF InverseOf
<1>5. /\ Annotations["NetflowToSrcK8s"] = Rule(Flows, Endpoints)
      /\ Annotations["NetflowToDstK8s"] = Rule(Flows, Endpoints)
      /\ Annotations["NetflowToSrcK8sOwner"] = Rule(Flows, Owners)
      /\ Annotations["NetflowToDstK8sOwner"] = Rule(Flows, Owners)
  BY Zenon DEF Annotations
<1>6. /\ Annotations["K8sSrcToNetflow"] = Rule(Endpoints, Flows)
      /\ Annotations["K8sDstToNetflow"] = Rule(Endpoints, Flows)
      /\ Annotations["K8sSrcOwnerToNetflow"] = Rule(Owners, Flows)
      /\ Annotations["K8sDstOwnerToNetflow"] = Rule(Owners, Flows)
  BY Zenon DEF Annotations
<1>7. \A a, b : Rule(a, b).start = a /\ Rule(a, b).goal = b BY DEF Rule
<1>8. \A x : /\ ApplyFunc("NetflowToSrcK8s", x) = Endpoint(x, src[2], src[1], src[3])
             /\ ApplyFunc("NetflowToDstK8s", x) = Endpoint(x, dst[2], dst[1], dst[3])
             /\ ApplyFunc("NetflowToSrcK8sOwner", x) = Endpoint(x, srcOwner[2], srcOwner[1], srcOwner[3])
             /\ ApplyFunc("NetflowToDstK8sOwner", x) = Endpoint(x, dstOwner[2], dstOwner[1], dstOwner[3])
  BY NamesApply, CrossApply DEF NetflowToSrcK8s, NetflowToDstK8s, NetflowToSrcK8sOwner, NetflowToDstK8sOwner
<1>9. \A x : /\ ApplyFunc("K8sSrcToNetflow", x) =
                  Require({x.name}, {Flow(EndLabels(src[2], src[1], src[3], Kind(x), Str(x, "ns"), x.name))})
             /\ ApplyFunc("K8sDstToNetflow", x) =
                  Require({x.name}, {Flow(EndLabels(dst[2], dst[1], dst[3], Kind(x), Str(x, "ns"), x.name))})
  BY MentionsApply, CrossApply DEF K8sSrcToNetflow, K8sDstToNetflow, EndLabels
<1>10. \A x : /\ ApplyFunc("K8sSrcOwnerToNetflow", x) =
                   Require({Str(x, "ns"), x.name}, {Flow({<<srcOwner[1], x.ns>>, <<srcOwner[3], x.name>>})})
              /\ ApplyFunc("K8sDstOwnerToNetflow", x) =
                   Require({Str(x, "ns"), x.name}, {Flow({<<dstOwner[1], x.ns>>, <<dstOwner[3], x.name>>})})
  BY MentionsApply, CrossApply DEF K8sSrcOwnerToNetflow, K8sDstOwnerToNetflow
<1>11. src[2] \in {"SrcK8S_Type", "DstK8S_Type"} /\ dst[2] \in {"SrcK8S_Type", "DstK8S_Type"} OBVIOUS
<1> HIDE DEF src, dst, srcOwner, dstOwner
<1>12. CASE r \in K8sToFlowRules
  <2>1. PICK kind \in EndKinds : o.class = ClassOf(Core(kind))
    BY <1>2, <1>6, <1>7, <1>12, EndStart DEF K8sToFlowRules
  <2>2. CASE r = "K8sSrcToNetflow"
    <3>1. ApplyFunc(r, o) = Require({o.name}, {Flow(EndLabels(src[2], src[1], src[3], Kind(o), Str(o, "ns"), o.name))})
      BY <1>9, <2>2
    <3>2. ApplyFunc("NetflowToSrcK8s", t) = Endpoint(t, src[2], src[1], src[3]) BY <1>8
    <3>3. Annotations["NetflowToSrcK8s"].goal = Endpoints BY <1>5, <1>7
    <3>4. o \in Neighbours("NetflowToSrcK8s", t) BY <1>1, <1>3, <1>11, <2>1, <3>1, <3>2, <3>3, EndLeadsBack
    <3>5. QED BY <1>4, <2>2, <3>4
  <2>3. CASE r = "K8sDstToNetflow"
    <3>1. ApplyFunc(r, o) = Require({o.name}, {Flow(EndLabels(dst[2], dst[1], dst[3], Kind(o), Str(o, "ns"), o.name))})
      BY <1>9, <2>3
    <3>2. ApplyFunc("NetflowToDstK8s", t) = Endpoint(t, dst[2], dst[1], dst[3]) BY <1>8
    <3>3. Annotations["NetflowToDstK8s"].goal = Endpoints BY <1>5, <1>7
    <3>4. o \in Neighbours("NetflowToDstK8s", t) BY <1>1, <1>3, <1>11, <2>1, <3>1, <3>2, <3>3, EndLeadsBack
    <3>5. QED BY <1>4, <2>3, <3>4
  <2>4. QED BY <1>12, <2>2, <2>3 DEF K8sToFlowRules
<1>13. CASE r \in EndRules \cup OwnerRules
  <2>1. Annotations[r].start = AllOf("netflow") BY <1>5, <1>7, <1>13 DEF EndRules, OwnerRules, Flows
  <2>2. o.class = Signal("netflow", "network") BY <1>2, <2>1, SignalStart, SignalOf
  <2>3. CASE r = "NetflowToSrcK8s"
    <3>1. ApplyFunc(r, o) = Endpoint(o, src[2], src[1], src[3]) BY <1>8, <2>3
    <3>2. ApplyFunc("K8sSrcToNetflow", t) =
            Require({t.name}, {Flow(EndLabels(src[2], src[1], src[3], Kind(t), Str(t, "ns"), t.name))})
      BY <1>9
    <3>3. Annotations["K8sSrcToNetflow"].goal = Flows BY <1>6, <1>7
    <3>4. o \in Neighbours("K8sSrcToNetflow", t) BY <1>1, <1>3, <2>2, <3>1, <3>2, <3>3, FlowLeadsBack
    <3>5. QED BY <1>4, <2>3, <3>4
  <2>4. CASE r = "NetflowToDstK8s"
    <3>1. ApplyFunc(r, o) = Endpoint(o, dst[2], dst[1], dst[3]) BY <1>8, <2>4
    <3>2. ApplyFunc("K8sDstToNetflow", t) =
            Require({t.name}, {Flow(EndLabels(dst[2], dst[1], dst[3], Kind(t), Str(t, "ns"), t.name))})
      BY <1>9
    <3>3. Annotations["K8sDstToNetflow"].goal = Flows BY <1>6, <1>7
    <3>4. o \in Neighbours("K8sDstToNetflow", t) BY <1>1, <1>3, <2>2, <3>1, <3>2, <3>3, FlowLeadsBack
    <3>5. QED BY <1>4, <2>4, <3>4
  <2>5. CASE r = "NetflowToSrcK8sOwner"
    <3>1. ApplyFunc(r, o) = Endpoint(o, srcOwner[2], srcOwner[1], srcOwner[3]) BY <1>8, <2>5
    <3>2. ApplyFunc("K8sSrcOwnerToNetflow", t) = Require({Str(t, "ns"), t.name}, {Flow({<<srcOwner[1], t.ns>>, <<srcOwner[3], t.name>>})})
      BY <1>10
    <3>3. Annotations["K8sSrcOwnerToNetflow"].goal = Flows /\ Annotations[r].goal = Owners BY <1>5, <1>6, <1>7, <2>5
    <3>4. o \in Neighbours("K8sSrcOwnerToNetflow", t) BY <1>1, <1>2, <1>3, <2>2, <3>1, <3>2, <3>3, OwnedFlowLeadsBack
    <3>5. QED BY <1>4, <2>5, <3>4
  <2>6. CASE r = "NetflowToDstK8sOwner"
    <3>1. ApplyFunc(r, o) = Endpoint(o, dstOwner[2], dstOwner[1], dstOwner[3]) BY <1>8, <2>6
    <3>2. ApplyFunc("K8sDstOwnerToNetflow", t) = Require({Str(t, "ns"), t.name}, {Flow({<<dstOwner[1], t.ns>>, <<dstOwner[3], t.name>>})})
      BY <1>10
    <3>3. Annotations["K8sDstOwnerToNetflow"].goal = Flows /\ Annotations[r].goal = Owners BY <1>5, <1>6, <1>7, <2>6
    <3>4. o \in Neighbours("K8sDstOwnerToNetflow", t) BY <1>1, <1>2, <1>3, <2>2, <3>1, <3>2, <3>3, OwnedFlowLeadsBack
    <3>5. QED BY <1>4, <2>6, <3>4
  <2>7. QED BY <1>13, <2>3, <2>4, <2>5, <2>6 DEF EndRules, OwnerRules
<1>14. QED BY <1>12, <1>13

\* Where each of the rules with an inverse comes from.
PodRules == {"PodToAlert", "PodToLokiAlert", "PodToLogs", "PodToTrace"}
SignalsRules == {"AlertToIncident", "LogToPod", "TraceToPod"}
ServiceRules == {"ServiceToEndpointSlice", "EndpointSliceToService"}

LEMMA Inverses ==
  DOMAIN InverseOf \subseteq
    NamedAlertRules \cup K8sToFlowRules \cup EndRules \cup OwnerRules \cup PodRules \cup SignalsRules
      \cup ServiceRules \cup {"AllToEvent"}
<1>1. DOMAIN InverseOf =
        {"PodToAlert", "PodToLokiAlert", "DeploymentToAlert", "DaemonSetToAlert", "StatefulSetToAlert",
         "PodDisruptionBudgetToAlert", "VmToAlert", "VmiToAlert", "VmimToAlert", "AlertToIncident",
         "PodToLogs", "LogToPod", "PodToTrace", "TraceToPod", "K8sSrcToNetflow", "NetflowToSrcK8s",
         "K8sDstToNetflow", "NetflowToDstK8s", "NetflowToSrcK8sOwner", "NetflowToDstK8sOwner",
         "ServiceToEndpointSlice", "EndpointSliceToService", "AllToEvent"}
  BY Zenon DEF InverseOf
<1>2. QED BY <1>1
  DEF NamedAlertRules, K8sToFlowRules, EndRules, OwnerRules, PodRules, SignalsRules, ServiceRules

\* From whatever such a rule finds, its inverse leads back.
LEMMA RuleLeadsBack ==
  ASSUME VersionsWritten, ObjectsServed, FlowsComplete, LogsOfPods, ObjectsNamed,
         NEW o \in Objects, NEW r \in DOMAIN InverseOf, Usable(r, o), NEW t \in Neighbours(r, o)
  PROVE  o \in Neighbours(InverseOf[r], t)
<1>1. /\ InverseOf["PodToAlert"] = "AlertToPod" /\ InverseOf["PodToLokiAlert"] = "AlertToPod"
      /\ InverseOf["PodToLogs"] = "LogToPod" /\ InverseOf["LogToPod"] = "PodToLogs"
      /\ InverseOf["PodToTrace"] = "TraceToPod" /\ InverseOf["TraceToPod"] = "PodToTrace"
  BY Zenon DEF InverseOf
<1>2. /\ InverseOf["AlertToIncident"] = "IncidentToAlert"
      /\ InverseOf["ServiceToEndpointSlice"] = "EndpointSliceToService"
      /\ InverseOf["EndpointSliceToService"] = "ServiceToEndpointSlice"
      /\ InverseOf["AllToEvent"] = "EventToAll"
  BY Zenon DEF InverseOf
<1>3. /\ Annotations["PodToLogs"].start = {Core("Pod")} /\ Annotations["PodToTrace"].start = {Core("Pod")}
      /\ Annotations["LogToPod"].start = AllOf("log") /\ Annotations["TraceToPod"].start = AllOf("trace")
      /\ Annotations["AlertToIncident"].start = AllOf("alert")
  BY Zenon DEF Annotations, Rule, Pods, AnyLog, Spans, AnyAlert
<1>4. /\ Annotations["ServiceToEndpointSlice"].start = {Core("Service")}
      /\ Annotations["EndpointSliceToService"].start = {EndpointSlice}
  BY Zenon DEF Annotations, Rule
<1>5. {"PodToLogs", "PodToTrace", "LogToPod", "TraceToPod", "AlertToIncident", "ServiceToEndpointSlice",
       "EndpointSliceToService"} \subseteq DOMAIN Annotations
  BY RuleNames
<1>6. CASE r \in PodRules
  <2>1. CASE r \in {"PodToAlert", "PodToLokiAlert"} BY <1>1, <2>1, PodAlertsLeadBack
  <2>2. CASE r = "PodToLogs"
    <3>1. o.class = PodClass BY <1>3, <1>5, <2>2, OneStart DEF PodClass
    <3>2. o \in Neighbours("LogToPod", t) BY <2>2, <3>1, LogsLeadBack
    <3>3. QED BY <1>1, <2>2, <3>2
  <2>3. CASE r = "PodToTrace"
    <3>1. o.class = PodClass BY <1>3, <1>5, <2>3, OneStart DEF PodClass
    <3>2. o \in Neighbours("TraceToPod", t) BY <2>3, <3>1, SpansLeadBack
    <3>3. QED BY <1>1, <2>3, <3>2
  <2>4. QED BY <1>6, <2>1, <2>2, <2>3 DEF PodRules
<1>7. CASE r \in SignalsRules
  <2>1. CASE r = "AlertToIncident"
    <3>1. o.class = Signal("alert", "alert") BY <1>3, <1>5, <2>1, SignalStart, SignalOf
    <3>2. o \in Neighbours("IncidentToAlert", t) BY <2>1, <3>1, IncidentLeadsBack
    <3>3. QED BY <1>2, <2>1, <3>2
  <2>2. CASE r = "LogToPod"
    <3>1. o.class[1] = "log" BY <1>3, <1>5, <2>2, SignalStart
    <3>2. o \in Neighbours("PodToLogs", t) BY <2>2, <3>1, LogLeadsBack
    <3>3. QED BY <1>1, <2>2, <3>2
  <2>3. CASE r = "TraceToPod"
    <3>1. o.class = Signal("trace", "span") BY <1>3, <1>5, <2>3, SignalStart, SignalOf
    <3>2. o \in Neighbours("PodToTrace", t) BY <2>3, <3>1, SpanLeadsBack
    <3>3. QED BY <1>1, <2>3, <3>2
  <2>4. QED BY <1>7, <2>1, <2>2, <2>3 DEF SignalsRules
<1>8. CASE r \in ServiceRules
  <2>1. CASE r = "ServiceToEndpointSlice"
    <3>1. o.class = ClassOf(Core("Service")) BY <1>4, <1>5, <2>1, OneStart
    <3>2. QED BY <1>2, <2>1, <3>1, SlicesLeadBack
  <2>2. CASE r = "EndpointSliceToService"
    <3>1. o.class = ClassOf(EndpointSlice) BY <1>4, <1>5, <2>2, OneStart
    <3>2. QED BY <1>2, <2>2, <3>1, SliceLeadsBack
  <2>3. QED BY <1>8, <2>1, <2>2 DEF ServiceRules
<1>9. CASE r = "AllToEvent" BY <1>2, <1>9, EventLeadsBack
<1>10. CASE r \in NamedAlertRules BY <1>10, NamedAlertRulesLeadBack
<1>11. CASE r \in EndRules \cup OwnerRules \cup K8sToFlowRules BY <1>11, FlowRulesLeadBack
<1>12. QED BY <1>6, <1>7, <1>8, <1>9, <1>10, <1>11, Inverses

\* A step along a rule can be taken back along its inverse, on a cluster whose signals
\* tell what they are about in full: the two rules write the same labels, namespace,
\* name and class, from the two ends.
THEOREM LeadsBackAlways ==
  ASSUME VersionsWritten, ObjectsServed, FlowsComplete, LogsOfPods, ObjectsNamed
  PROVE  Spec => LeadsBack
<1>1. ASSUME at \in Objects, [Next]_vars
      PROVE  [rule' \in DOMAIN InverseOf => at \in Neighbours(InverseOf[rule'], at')]_vars
  <2>1. ASSUME NEW r \in Rules, Follow(r), rule' \in DOMAIN InverseOf
        PROVE  at \in Neighbours(InverseOf[rule'], at')
    BY <1>1, <2>1, RuleLeadsBack DEF Follow
  <2>2. QED BY <1>1, <2>1 DEF Next
<1>2. StaysInv => at \in Objects BY DEF StaysInv
<1>3. QED BY <1>1, <1>2, StaysInit, StaysNext, PTL DEF Spec, LeadsBack
================================================================================
