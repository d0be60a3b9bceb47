----------------------------- MODULE RuleCatalogue -----------------------------
(***************************************************************************)
(* The catalogue of compiled rules: the start and goal classes that the    *)
(* annotation of each rule declares, the function that implements it, and  *)
(* the set of rules that are usable with the classes of a cluster.         *)
(***************************************************************************)
EXTENDS SignalRules

AllOf(domain) == {c \in Classes : c[1] = domain}
AnyK8s == AllOf("k8s")
AnyLog == AllOf("log")
AnyAlert == AllOf("alert")
Metrics == AllOf("metric")
Flows == AllOf("netflow")
Spans == AllOf("trace")
Incidents == AllOf("incident")
Pods == {Core("Pod")}
Endpoints == {Core("Node"), Core("Pod"), Core("Service")}
Owners == {DaemonSet, Deployment, ReplicaSet, StatefulSet}
Workloads ==
  Owners \cup {Core("ReplicationController"), InGroup("Job", "batch"), InGroup("PodDisruptionBudget", "policy")}

Rule(start, goal) == [start |-> start, goal |-> goal]

\* parseRuleAnnotations: the classes each rule declares, by name.
Annotations == [
  DependentToOwner |-> Rule(AnyK8s, AnyK8s),
  AllToEvent |-> Rule(AnyK8s, {Core("Event")}),
  AllToMetric |-> Rule(AnyK8s, Metrics),
  SelectorToPods |-> Rule(Workloads, Pods),
  SelectorToLogs |-> Rule(Workloads, AnyLog),
  K8sSrcToNetflow |-> Rule(Endpoints, Flows),
  K8sSrcOwnerToNetflow |-> Rule(Owners, Flows),
  K8sDstToNetflow |-> Rule(Endpoints, Flows),
  K8sDstOwnerToNetflow |-> Rule(Owners, Flows),
  ServiceToPods |-> Rule({Core("Service")}, Pods),
  EventToAll |-> Rule({CoreV1("Event")}, AnyK8s),
  Event2ToAll |-> Rule({K8s("Event", "v1", "events.k8s.io")}, AnyK8s),
  PodToPVC |-> Rule(Pods, {PVC}),
  PodToConfigMap |-> Rule(Pods, {Core("ConfigMap")}),
  PodToSecret |-> Rule(Pods, {Core("Secret")}),
  PodToServiceAccount |-> Rule(Pods, {Core("ServiceAccount")}),
  ServiceToEndpointSlice |-> Rule({Core("Service")}, {EndpointSlice}),
  EndpointSliceToService |-> Rule({EndpointSlice}, {Core("Service")}),
  PVCToPV |-> Rule({PVC}, {Core("PersistentVolume")}),
  PVToPVC |-> Rule({Core("PersistentVolume")}, {PVC}),
  PVToStorageClass |-> Rule({Core("PersistentVolume")}, {StorageClass}),
  PVCToStorageClass |-> Rule({PVC}, {StorageClass}),
  SubscriptionToCSV |-> Rule({Subscription}, {CSV}),
  CSVToCRD |-> Rule({CSV}, {K8s("CustomResourceDefinition", "v1", CRDGroup)}),
  CRDToInstances |-> Rule({CRD}, AnyK8s),
  CSVToDeployment |-> Rule({CSV}, {Deployment}),
  SubscriptionToInstallPlan |-> Rule({Subscription}, {InstallPlan}),
  InstallPlanToCSV |-> Rule({InstallPlan}, {CSV}),
  SubscriptionToCatalogSource |-> Rule({Subscription}, {CatalogSource}),
  OperatorToCRD |-> Rule({K8s("Operator", "v1", "operators.coreos.com")}, {CRD}),
  OperatorToCSV |-> Rule({K8s("Operator", "v1", "operators.coreos.com")}, {CSV}),
  OperatorToSubscription |-> Rule({K8s("Operator", "v1", "operators.coreos.com")}, {Subscription}),
  IngressToService |-> Rule({InGroup("Ingress", "networking.k8s.io")}, {Core("Service")}),
  CSVToPartOf |-> Rule({CSV}, PartOfClasses),
  HPAToTarget |-> Rule({InGroup("HorizontalPodAutoscaler", "autoscaling")}, AnyK8s),
  InstanceToOperands |-> Rule(AnyK8s, OperandClasses),
  ClusterInstanceToOperands |-> Rule(AnyK8s, ClusterOperandClasses),
  VmToVmi |-> Rule({VM}, {VMI}),
  VmiToPod |-> Rule({VMI}, Pods),
  VmiToNode |-> Rule({VMI}, {Core("Node")}),
  VmToPVC |-> Rule({VM}, {PVC}),
  VmToAlert |-> Rule({VM}, AnyAlert),
  VmiToAlert |-> Rule({VMI}, AnyAlert),
  VmimToAlert |-> Rule({VMIM}, AnyAlert),
  VmToMetric |-> Rule({VM}, Metrics),
  VmiToMetric |-> Rule({VMI}, Metrics),
  VmiToLogs |-> Rule({VMI}, AnyLog),
  VmimToVmi |-> Rule({VMIM}, {VMI}),
  VmiToVmim |-> Rule({VMI}, {VMIM}),
  DataVolumeToPVC |-> Rule({DataVolume}, {PVC}),
  VmToDataVolume |-> Rule({VM}, {DataVolume}),
  VmiToPVC |-> Rule({VMI}, {PVC}),
  VmiToDataVolume |-> Rule({VMI}, {DataVolume}),
  VmSnapshotToVm |-> Rule({VMSnapshot}, {VM}),
  VmToVmSnapshot |-> Rule({VM}, {VMSnapshot}),
  VmRestoreToVm |-> Rule({VMRestore}, {VM}),
  VmToVmRestore |-> Rule({VM}, {VMRestore}),
  VmRestoreToVmSnapshot |-> Rule({VMRestore}, {VMSnapshot}),
  VmExportToVm |-> Rule({VMExport}, {VM}),
  VmExportToVmSnapshot |-> Rule({VMExport}, {VMSnapshot}),
  VmExportToPVC |-> Rule({VMExport}, {PVC}),
  NodeToVmi |-> Rule({Core("Node")}, {VMI}),
  DataVolumeToImporterPod |-> Rule({DataVolume}, Pods),
  VmToNetAttachDef |-> Rule({VM}, {NetAttachDef}),
  VmiToNetAttachDef |-> Rule({VMI}, {NetAttachDef}),
  VmToSecret |-> Rule({VM}, {Core("Secret")}),
  VmiToSecret |-> Rule({VMI}, {Core("Secret")}),
  VmToConfigMap |-> Rule({VM}, {Core("ConfigMap")}),
  VmiToConfigMap |-> Rule({VMI}, {Core("ConfigMap")}),
  VmToServiceAccount |-> Rule({VM}, {Core("ServiceAccount")}),
  VmiToServiceAccount |-> Rule({VMI}, {Core("ServiceAccount")}),
  VmToInstancetype |-> Rule({VM}, AnyK8s),
  VmToPreference |-> Rule({VM}, AnyK8s),
  AlertToDeployment |-> Rule(AnyAlert, {Deployment}),
  AlertToPod |-> Rule(AnyAlert, {CoreV1("Pod")}),
  AlertToPodDisruptionBudget |-> Rule(AnyAlert, {K8s("PodDisruptionBudget", "v1", "policy")}),
  AlertToDaemonSet |-> Rule(AnyAlert, {DaemonSet}),
  AlertToStatefulSet |-> Rule(AnyAlert, {StatefulSet}),
  AlertToMetric |-> Rule(AnyAlert, Metrics),
  PodToAlert |-> Rule(Pods, AnyAlert),
  PodToLokiAlert |-> Rule(Pods, AnyAlert),
  DeploymentToAlert |-> Rule({Deployment}, AnyAlert),
  PodDisruptionBudgetToAlert |-> Rule({K8s("PodDisruptionBudget", "v1", "policy")}, AnyAlert),
  DaemonSetToAlert |-> Rule({DaemonSet}, AnyAlert),
  StatefulSetToAlert |-> Rule({StatefulSet}, AnyAlert),
  AlertToVM |-> Rule(AnyAlert, {VM}),
  AlertToVMI |-> Rule(AnyAlert, {VMI}),
  AlertToVmim |-> Rule(AnyAlert, {VMIM}),
  AlertToIncident |-> Rule(AnyAlert, Incidents),
  IncidentToAlert |-> Rule(Incidents, AnyAlert),
  LogToPod |-> Rule(AnyLog, Pods),
  PodToLogs |-> Rule(Pods, AnyLog),
  ServiceToLogs |-> Rule({Core("Service")}, AnyLog),
  MetricToPod |-> Rule(Metrics, Pods),
  MetricToDeployment |-> Rule(Metrics, {Deployment}),
  MetricToDaemonSet |-> Rule(Metrics, {DaemonSet}),
  MetricToStatefulSet |-> Rule(Metrics, {StatefulSet}),
  MetricToNode |-> Rule(Metrics, {Core("Node")}),
  NetflowToSrcK8s |-> Rule(Flows, Endpoints),
  NetflowToSrcK8sOwner |-> Rule(Flows, Owners),
  NetflowToDstK8s |-> Rule(Flows, Endpoints),
  NetflowToDstK8sOwner |-> Rule(Flows, Owners),
  TraceToPod |-> Rule(Spans, Pods),
  PodToTrace |-> Rule(Pods, Spans)]

\* applyFuncs: the function of each rule.
ApplyFunc(rule, o) ==
  CASE rule = "DependentToOwner" -> DependentToOwner(o) [] rule = "AllToEvent" -> AllToEvent(o)
    [] rule = "AllToMetric" -> AllToMetric(o) [] rule = "SelectorToPods" -> SelectorToPods(o)
    [] rule = "SelectorToLogs" -> SelectorToLogs(o) [] rule = "K8sSrcToNetflow" -> K8sSrcToNetflow(o)
    [] rule = "K8sSrcOwnerToNetflow" -> K8sSrcOwnerToNetflow(o) [] rule = "K8sDstToNetflow" -> K8sDstToNetflow(o)
    [] rule = "K8sDstOwnerToNetflow" -> K8sDstOwnerToNetflow(o) [] rule = "ServiceToPods" -> ServiceToPods(o)
    [] rule = "EventToAll" -> EventToAll(o) [] rule = "Event2ToAll" -> Event2ToAll(o)
    [] rule = "PodToPVC" -> PodToPVC(o) [] rule = "PodToConfigMap" -> PodToConfigMap(o)
    [] rule = "PodToSecret" -> PodToSecret(o) [] rule = "PodToServiceAccount" -> PodToServiceAccount(o)
    [] rule = "ServiceToEndpointSlice" -> ServiceToEndpointSlice(o) [] rule = "EndpointSliceToService" -> EndpointSliceToService(o)
    [] rule = "PVCToPV" -> PVCToPV(o) [] rule = "PVToPVC" -> PVToPVC(o)
    [] rule = "PVToStorageClass" -> PVToStorageClass(o) [] rule = "PVCToStorageClass" -> PVCToStorageClass(o)
    [] rule = "SubscriptionToCSV" -> SubscriptionToCSV(o) [] rule = "CSVToCRD" -> CSVToCRD(o)
    [] rule = "CRDToInstances" -> CRDToInstances(o) [] rule = "CSVToDeployment" -> CSVToDeployment(o)
    [] rule = "SubscriptionToInstallPlan" -> SubscriptionToInstallPlan(o) [] rule = "InstallPlanToCSV" -> InstallPlanToCSV(o)
    [] rule = "SubscriptionToCatalogSource" -> SubscriptionToCatalogSource(o) [] rule = "OperatorToCRD" -> OperatorToCRD(o)
    [] rule = "OperatorToCSV" -> OperatorToCSV(o) [] rule = "OperatorToSubscription" -> OperatorToSubscription(o)
    [] rule = "IngressToService" -> IngressToService(o) [] rule = "CSVToPartOf" -> CSVToPartOf(o)
    [] rule = "HPAToTarget" -> HPAToTarget(o) [] rule = "InstanceToOperands" -> InstanceToOperands(o)
    [] rule = "ClusterInstanceToOperands" -> ClusterInstanceToOperands(o) [] rule = "VmToVmi" -> VmToVmi(o)
    [] rule = "VmiToPod" -> VmiToPod(o) [] rule = "VmiToNode" -> VmiToNode(o)
    [] rule = "VmToPVC" -> VmToPVC(o) [] rule = "VmToAlert" -> VmToAlert(o)
    [] rule = "VmiToAlert" -> VmiToAlert(o) [] rule = "VmimToAlert" -> VmimToAlert(o)
    [] rule = "VmToMetric" -> VmToMetric(o) [] rule = "VmiToMetric" -> VmiToMetric(o)
    [] rule = "VmiToLogs" -> VmiToLogs(o) [] rule = "VmimToVmi" -> VmimToVmi(o)
    [] rule = "VmiToVmim" -> VmiToVmim(o) [] rule = "DataVolumeToPVC" -> DataVolumeToPVC(o)
    [] rule = "VmToDataVolume" -> VmToDataVolume(o) [] rule = "VmiToPVC" -> VmiToPVC(o)
    [] rule = "VmiToDataVolume" -> VmiToDataVolume(o) [] rule = "VmSnapshotToVm" -> VmSnapshotToVm(o)
    [] rule = "VmToVmSnapshot" -> VmToVmSnapshot(o) [] rule = "VmRestoreToVm" -> VmRestoreToVm(o)
    [] rule = "VmToVmRestore" -> VmToVmRestore(o) [] rule = "VmRestoreToVmSnapshot" -> VmRestoreToVmSnapshot(o)
    [] rule = "VmExportToVm" -> VmExportToVm(o) [] rule = "VmExportToVmSnapshot" -> VmExportToVmSnapshot(o)
    [] rule = "VmExportToPVC" -> VmExportToPVC(o) [] rule = "NodeToVmi" -> NodeToVmi(o)
    [] rule = "DataVolumeToImporterPod" -> DataVolumeToImporterPod(o) [] rule = "VmToNetAttachDef" -> VmToNetAttachDef(o)
    [] rule = "VmiToNetAttachDef" -> VmiToNetAttachDef(o) [] rule = "VmToSecret" -> VmToSecret(o)
    [] rule = "VmiToSecret" -> VmiToSecret(o) [] rule = "VmToConfigMap" -> VmToConfigMap(o)
    [] rule = "VmiToConfigMap" -> VmiToConfigMap(o) [] rule = "VmToServiceAccount" -> VmToServiceAccount(o)
    [] rule = "VmiToServiceAccount" -> VmiToServiceAccount(o) [] rule = "VmToInstancetype" -> VmToInstancetype(o)
    [] rule = "VmToPreference" -> VmToPreference(o) [] rule = "AlertToDeployment" -> AlertToDeployment(o)
    [] rule = "AlertToPod" -> AlertToPod(o) [] rule = "AlertToPodDisruptionBudget" -> AlertToPodDisruptionBudget(o)
    [] rule = "AlertToDaemonSet" -> AlertToDaemonSet(o) [] rule = "AlertToStatefulSet" -> AlertToStatefulSet(o)
    [] rule = "AlertToMetric" -> AlertToMetric(o) [] rule = "PodToAlert" -> PodToAlert(o)
    [] rule = "PodToLokiAlert" -> PodToLokiAlert(o) [] rule = "DeploymentToAlert" -> DeploymentToAlert(o)
    [] rule = "PodDisruptionBudgetToAlert" -> PodDisruptionBudgetToAlert(o) [] rule = "DaemonSetToAlert" -> DaemonSetToAlert(o)
    [] rule = "StatefulSetToAlert" -> StatefulSetToAlert(o) [] rule = "AlertToVM" -> AlertToVM(o)
    [] rule = "AlertToVMI" -> AlertToVMI(o) [] rule = "AlertToVmim" -> AlertToVmim(o)
    [] rule = "AlertToIncident" -> AlertToIncident(o) [] rule = "IncidentToAlert" -> IncidentToAlert(o)
    [] rule = "LogToPod" -> LogToPod(o) [] rule = "PodToLogs" -> PodToLogs(o)
    [] rule = "ServiceToLogs" -> ServiceToLogs(o) [] rule = "MetricToPod" -> MetricToPod(o)
    [] rule = "MetricToDeployment" -> MetricToDeployment(o) [] rule = "MetricToDaemonSet" -> MetricToDaemonSet(o)
    [] rule = "MetricToStatefulSet" -> MetricToStatefulSet(o) [] rule = "MetricToNode" -> MetricToNode(o)
    [] rule = "NetflowToSrcK8s" -> NetflowToSrcK8s(o) [] rule = "NetflowToSrcK8sOwner" -> NetflowToSrcK8sOwner(o)
    [] rule = "NetflowToDstK8s" -> NetflowToDstK8s(o) [] rule = "NetflowToDstK8sOwner" -> NetflowToDstK8sOwner(o)
    [] rule = "TraceToPod" -> TraceToPod(o) [] rule = "PodToTrace" -> PodToTrace(o)
--------------------------------------------------------------------------------
\* classes: unknown classes are skipped.
Resolve(names) == {ClassOf(n) : n \in names} \cap Classes
Start == [r \in DOMAIN Annotations |-> Resolve(Annotations[r].start)]
Goal == [r \in DOMAIN Annotations |-> Resolve(Annotations[r].goal)]

\* Rules, newRule: a rule without a known start or goal class is left out.
Rules == {r \in DOMAIN Annotations : Start[r] # {} /\ Goal[r] # {}}

\* quickRule.Apply
Apply(rule, o) == ParseQueries(ApplyFunc(rule, o))

\* The queries a search makes with the rule: those for its declared goals.
\* Engine.applyRules finds no line in the graph for any other and drops it.
Followed(rule, o) == {q \in Apply(rule, o) : q.class \in Goal[rule]}
================================================================================
