-------------------------------- MODULE K8sRules -------------------------------
(***************************************************************************)
(* The rules of k8s.qtpl: each operator is the rule of that name, from a   *)
(* k8s object to the queries it writes.                                    *)
(***************************************************************************)
EXTENDS RuleObjects

CONSTANTS
  CustomGroups,     \* the API groups that are not built in
  Lower,            \* kind -> the same in lower case, where it differs
  InfraNamespaces,  \* namespaces whose logs are of class infrastructure
  BaseName          \* name of a ClusterServiceVersion -> the same without its version

OLM == "operators.coreos.com"
CRDGroup == "apiextensions.k8s.io"
PVC == Core("PersistentVolumeClaim")
Deployment == InGroup("Deployment", "apps")
DaemonSet == InGroup("DaemonSet", "apps")
StatefulSet == InGroup("StatefulSet", "apps")
ReplicaSet == InGroup("ReplicaSet", "apps")
EndpointSlice == InGroup("EndpointSlice", "discovery.k8s.io")
StorageClass == InGroup("StorageClass", "storage.k8s.io")
CRD == InGroup("CustomResourceDefinition", CRDGroup)
CSV == K8s("ClusterServiceVersion", "v1alpha1", OLM)
Subscription == K8s("Subscription", "v1alpha1", OLM)
InstallPlan == K8s("InstallPlan", "v1alpha1", OLM)
CatalogSource == K8s("CatalogSource", "v1alpha1", OLM)

LogType(ns) == Signal("log", IF ns \in InfraNamespaces THEN "infrastructure" ELSE "application")
IsCustomResource(o) == o.class[4] \in CustomGroups
Kind(o) == o.class[2]
--------------------------------------------------------------------------------
(* Owners, events, metrics *)

DependentToOwner(o) ==
  IF ~Has(o, "ownerReferences") THEN NoQueries
  ELSE LET ref == o.ownerReferences[1]
           class == K8s(ref.kind, ref.version, ref.group)
       IN  {Named(class, IF Namespaced(class) THEN Str(o, "ns") ELSE "", ref.name)}

AllToEvent(o) ==
  Require({Str(o, "ns"), o.name},
    {Query(Core("Event"), o.ns, "", {},
       {<<"version", o.class[3]>>, <<"group", o.class[4]>>, <<"kind", Kind(o)>>,
        <<"name", o.name>>, <<"ns", o.ns>>})})

ReferredTo(ref) == Require({Str(ref, "name")}, {Named(K8s(ref.kind, ref.version, ref.group), Str(ref, "ns"), ref.name)})

EventToAll(o) == IF Has(o, "involvedObject") THEN ReferredTo(o.involvedObject) ELSE NoQueries
Event2ToAll(o) == IF Has(o, "regarding") THEN ReferredTo(o.regarding) ELSE NoQueries

AllToMetric(o) ==
  Require({Str(o, "ns"), o.name},
    {Select(Signal("metric", "metric"), {<<"namespace", o.ns>>, <<Default(Kind(o), Str(Lower, Kind(o))), o.name>>})})

HPAToTarget(o) ==
  LET ref == o.scaleTargetRef
  IN  Require({Str(o, "ns")}, {Named(K8s(ref.kind, ref.version, ref.group), o.ns, ref.name)})
--------------------------------------------------------------------------------
(* Selectors.  A workload has spec.selector.matchLabels; the selector of a   *)
(* Service or ReplicationController is the label map itself.                 *)

\* Mutant: the namespace is left out of the query.
ByLabelsAnywhere(o, class, labels) ==
  IF labels = {} THEN NoQueries ELSE Require({Str(o, "ns")}, {Labelled(class, "", labels)})
ByLabels(o, class, labels) ==
  IF labels = {} THEN NoQueries ELSE Require({Str(o, "ns")}, {Labelled(class, Str(o, "ns"), labels)})
MatchLabels(o) == IF Has(o, "matchLabels") THEN PairsOf(o.matchLabels) ELSE {}
Selector(o) == IF Has(o, "selector") THEN PairsOf(o.selector) ELSE {}

SelectorToPods(o) == ByLabels(o, Core("Pod"), MatchLabels(o))
SelectorToLogs(o) == ByLabels(o, LogType(Str(o, "ns")), MatchLabels(o))
ServiceToPods(o) == ByLabels(o, Core("Pod"), Selector(o))
--------------------------------------------------------------------------------
(* Netflows *)

Flow(labels) == Select(Signal("netflow", "network"), labels)

K8sSrcToNetflow(o) ==
  Require({o.name}, {Flow({<<"SrcK8S_Type", Kind(o)>>, <<"SrcK8S_Namespace", Str(o, "ns")>>, <<"SrcK8S_Name", o.name>>})})
K8sDstToNetflow(o) ==
  Require({o.name}, {Flow({<<"DstK8S_Type", Kind(o)>>, <<"DstK8S_Namespace", Str(o, "ns")>>, <<"DstK8S_Name", o.name>>})})
K8sSrcOwnerToNetflow(o) ==
  Require({Str(o, "ns"), o.name}, {Flow({<<"SrcK8S_Namespace", o.ns>>, <<"SrcK8S_OwnerName", o.name>>})})
K8sDstOwnerToNetflow(o) ==
  Require({Str(o, "ns"), o.name}, {Flow({<<"DstK8S_Namespace", o.ns>>, <<"DstK8S_OwnerName", o.name>>})})
--------------------------------------------------------------------------------
(* What a Pod refers to *)

PodToPVC(o) == NamedRefs(o, PVC, Refs(ListOf(o, "volumes"), "persistentVolumeClaim"))
PodToConfigMap(o) == NamedRefs(o, Core("ConfigMap"), Refs(ListOf(o, "volumes"), "configMap"))
PodToSecret(o) == NamedRefs(o, Core("Secret"), Refs(ListOf(o, "volumes"), "secret"))
PodToServiceAccount(o) == NamedRefs(o, Core("ServiceAccount"), {Str(o, "serviceAccountName")})
--------------------------------------------------------------------------------
(* Services and storage *)

ServiceToEndpointSlice(o) ==
  Require({Str(o, "ns"), o.name}, {Labelled(EndpointSlice, o.ns, {<<"kubernetes.io/service-name", o.name>>})})
EndpointSliceToService(o) == NamedRefs(o, Core("Service"), {Str(o.labels, "kubernetes.io/service-name")})

IngressServiceNames(o) == Refs(ListOf(o, "defaultBackend"), "service") \cup Refs(ListOf(o, "paths"), "service")
IngressToService(o) == NamedRefs(o, Core("Service"), IngressServiceNames(o))

PVCToPV(o) == Require({Str(o, "volumeName")}, {Named(Core("PersistentVolume"), "", o.volumeName)})
PVToPVC(o) ==
  IF Has(o, "claimRef") THEN {Named(PVC, o.claimRef.ns, o.claimRef.name)} ELSE NoQueries

ToStorageClass(o) == Require({Str(o, "storageClassName")}, {Named(StorageClass, "", o.storageClassName)})
PVToStorageClass(o) == ToStorageClass(o)
PVCToStorageClass(o) == ToStorageClass(o)
--------------------------------------------------------------------------------
(* Operators and their operands *)

SubscriptionToCSV(o) == Require({Str(o, "currentCSV")}, {Named(CSV, "", o.currentCSV)})
SubscriptionToInstallPlan(o) ==
  IF Has(o, "installPlanRef") THEN {Named(InstallPlan, o.installPlanRef.ns, o.installPlanRef.name)} ELSE NoQueries
SubscriptionToCatalogSource(o) ==
  Require({o.sourceNamespace, o.source}, {Named(CatalogSource, o.sourceNamespace, o.source)})
InstallPlanToCSV(o) == NamedRefs(o, CSV, ListOf(o, "clusterServiceVersionNames"))

CSVToCRD(o) == Require(ListOf(o, "owned"), {Named(CRD, "", n) : n \in ListOf(o, "owned")})
CSVToDeployment(o) == NamedRefs(o, Deployment, ListOf(o, "deployments"))
CRDToInstances(o) ==
  IF Has(o, "versions") THEN {Labelled(K8s(o.kind, o.versions[1], o.group), "", {})} ELSE NoQueries

ComponentRefs(o, kind) == {r \in ListOf(o, "refs") : r.kind = kind}
OperatorToCRD(o) == {Named(CRD, "", r.name) : r \in ComponentRefs(o, "CustomResourceDefinition")}
OperatorToCSV(o) == {Named(CSV, r.ns, r.name) : r \in ComponentRefs(o, "ClusterServiceVersion")}
OperatorToSubscription(o) == {Named(Subscription, r.ns, r.name) : r \in ComponentRefs(o, "Subscription")}

PartOfClasses == {Deployment, DaemonSet, StatefulSet} \cup {Core(k) : k \in {"Service", "ConfigMap", "Secret", "ServiceAccount"}}
OperandClasses ==
  PartOfClasses \cup {ReplicaSet, PVC, InGroup("Job", "batch"), InGroup("CronJob", "batch"),
    InGroup("Role", "rbac.authorization.k8s.io"), InGroup("RoleBinding", "rbac.authorization.k8s.io"),
    InGroup("Ingress", "networking.k8s.io"), InGroup("NetworkPolicy", "networking.k8s.io"),
    K8s("Route", "v1", "route.openshift.io")}
ClusterOperandClasses ==
  OperandClasses \cup {InGroup("ClusterRole", "rbac.authorization.k8s.io"), InGroup("ClusterRoleBinding", "rbac.authorization.k8s.io")}

Operands(classes, ns, label, value) == {Labelled(c, ns, {<<label, value>>}) : c \in classes}

CSVToPartOf(o) ==
  Require({Str(o, "ns"), o.name},
    Operands(PartOfClasses, o.ns, "app.kubernetes.io/part-of", Default(o.name, Str(BaseName, o.name))))
InstanceToOperands(o) ==
  IF ~IsCustomResource(o) THEN NoQueries
  ELSE Require({Str(o, "ns"), o.name}, Operands(OperandClasses, o.ns, "app.kubernetes.io/instance", o.name))
ClusterInstanceToOperands(o) ==
  IF Str(o, "ns") # "" \/ ~IsCustomResource(o) THEN NoQueries
  ELSE Require({o.name}, Operands(ClusterOperandClasses, "", "app.kubernetes.io/instance", o.name))
================================================================================
