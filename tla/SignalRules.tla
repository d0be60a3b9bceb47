------------------------------ MODULE SignalRules ------------------------------
(***************************************************************************)
(* The rules of alert.qtpl, incident.qtpl, log.qtpl, metric.qtpl,          *)
(* netflow.qtpl and trace.qtpl: between k8s objects and the alerts,        *)
(* incidents, logs, metrics, netflows and spans that mention them.         *)
(***************************************************************************)
EXTENDS KubevirtRules

\* A k8s object named by two labels, both required.
NamedByLabels(class, ns, name) == Require({ns, name}, {Named(class, ns, name)})
--------------------------------------------------------------------------------
(* Alerts *)

AlertNames(o, label, class) == NamedByLabels(class, Str(o.labels, "namespace"), Str(o.labels, label))
AlertToDeployment(o) == AlertNames(o, "deployment", Deployment)
AlertToDaemonSet(o) == AlertNames(o, "daemonset", DaemonSet)
AlertToStatefulSet(o) == AlertNames(o, "statefulset", StatefulSet)
AlertToPodDisruptionBudget(o) == AlertNames(o, "poddisruptionbudget", K8s("PodDisruptionBudget", "v1", "policy"))
AlertToVM(o) == AlertNames(o, "name", VM)
AlertToVMI(o) == AlertNames(o, "name", VMI)
AlertToVmim(o) == AlertNames(o, "vmim", VMIM)
\* Mutant: the labels of alerts on logs are not tried.
AlertToPodPlain(o) == AlertNames(o, "pod", CoreV1("Pod"))
AlertToPod(o) ==
  NamedByLabels(CoreV1("Pod"),
    Default(Str(o.labels, "namespace"), Str(o.labels, "kubernetes_namespace_name")),
    Default(Str(o.labels, "pod"), Str(o.labels, "kubernetes_pod_name")))

\* The expression is an opaque value that metrics of that expression carry.
AlertToMetric(o) ==
  Require({Str(o, "expression")}, {Select(Signal("metric", "metric"), {<<"expression", o.expression>>})})

PodToAlert(o) == AlertsOn(o, "pod")
PodToLokiAlert(o) == AlertsOn(o, "kubernetes_pod_name")
DeploymentToAlert(o) == AlertsOn(o, "deployment")
PodDisruptionBudgetToAlert(o) == AlertsOn(o, "poddisruptionbudget")
DaemonSetToAlert(o) == AlertsOn(o, "daemonset")
StatefulSetToAlert(o) == AlertsOn(o, "statefulset")
--------------------------------------------------------------------------------
(* Incidents *)

AlertToIncident(o) == {Select(Signal("incident", "incident"), PairsOf(o.labels))}
IncidentToAlert(o) ==
  IF o.alertsLabels = {} THEN NoQueries
  ELSE {Select(Signal("alert", "alert"), {PairsOf(labels) : labels \in o.alertsLabels})}
--------------------------------------------------------------------------------
(* Logs *)

LogToPod(o) ==
  NamedByLabels(Core("Pod"), Str(o.labels, "kubernetes_namespace_name"), Str(o.labels, "kubernetes_pod_name"))
PodToLogs(o) == Namesake(o, LogType(Str(o, "ns")))
ServiceToLogs(o) == ByLabels(o, LogType(Str(o, "ns")), Selector(o))
--------------------------------------------------------------------------------
(* Metrics *)

MetricNames(o, label, otel, class) ==
  NamedByLabels(class,
    Default(Str(o.labels, "namespace"), Str(o.labels, "k8s_namespace_name")),
    Default(Str(o.labels, label), Str(o.labels, otel)))
MetricToPod(o) == MetricNames(o, "pod", "k8s_pod_name", Core("Pod"))
MetricToDeployment(o) == MetricNames(o, "deployment", "k8s_deployment_name", Deployment)
MetricToDaemonSet(o) == MetricNames(o, "daemonset", "k8s_daemonset_name", DaemonSet)
MetricToStatefulSet(o) == MetricNames(o, "statefulset", "k8s_statefulset_name", StatefulSet)
MetricToNode(o) ==
  LET name == Default(Str(o.labels, "node"), Str(o.labels, "k8s_node_name"))
  IN  Require({name}, {Named(Core("Node"), "", name)})
--------------------------------------------------------------------------------
(* Netflows: the type must not be empty, namespace and name must be present  *)
(* but may be empty.                                                         *)

\* Mutant: the workloads are looked up in the core group.
TypeToK8sCore(type) == K8s(type, "v1", "")
\* netflow.TypeToK8s
TypeToK8s(type) ==
  K8s(type, "v1", IF type \in {"Deployment", "DaemonSet", "StatefulSet", "ReplicaSet"} THEN "apps" ELSE "")

Endpoint(o, type, ns, name) ==
  IF {type, ns, name} \subseteq DOMAIN o.labels /\ o.labels[type] # ""
  THEN {Named(TypeToK8s(o.labels[type]), o.labels[ns], o.labels[name])}
  ELSE NoQueries
NetflowToSrcK8s(o) == Endpoint(o, "SrcK8S_Type", "SrcK8S_Namespace", "SrcK8S_Name")
NetflowToSrcK8sOwner(o) == Endpoint(o, "SrcK8S_OwnerType", "SrcK8S_Namespace", "SrcK8S_OwnerName")
NetflowToDstK8s(o) == Endpoint(o, "DstK8S_Type", "DstK8S_Namespace", "DstK8S_Name")
NetflowToDstK8sOwner(o) == Endpoint(o, "DstK8S_OwnerType", "DstK8S_Namespace", "DstK8S_OwnerName")
--------------------------------------------------------------------------------
(* Traces *)

TraceToPod(o) == NamedByLabels(Core("Pod"), Str(o.labels, "k8s.namespace.name"), Str(o.labels, "k8s.pod.name"))
PodToTrace(o) ==
  Require({Str(o, "ns"), o.name},
    {Select(Signal("trace", "span"), {<<"k8s.namespace.name", o.ns>>, <<"k8s.pod.name", o.name>>})})
================================================================================
