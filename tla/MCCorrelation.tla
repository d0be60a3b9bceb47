----------------------------- MODULE MCCorrelation -----------------------------
(***************************************************************************)
(* A small cluster for Correlation: two namespaces that hold objects of    *)
(* the same names, one of application and one of infrastructure workloads, *)
(* the cluster-scoped objects they share, and the signals about them.      *)
(* There is at least one object for every rule to apply to and to find.    *)
(***************************************************************************)
EXTENDS Correlation, TLC

CONSTANT Routes   \* does the cluster have OpenShift routes?

InCore(namespaced, kinds) == [r \in {<<k, "v1", "">> : k \in kinds} |-> namespaced]
Served(namespaced, version, group, kinds) == [r \in {<<k, version, group>> : k \in kinds} |-> namespaced]

MCResources ==
  InCore(TRUE, {"Pod", "Service", "ConfigMap", "Secret", "ServiceAccount", "PersistentVolumeClaim", "Event",
                "ReplicationController"})
  @@ InCore(FALSE, {"Node", "PersistentVolume"})
  @@ Served(TRUE, "v1", "apps", {"Deployment", "DaemonSet", "StatefulSet", "ReplicaSet"})
  @@ Served(TRUE, "v1", "batch", {"Job", "CronJob"})
  @@ Served(TRUE, "v1", "policy", {"PodDisruptionBudget"})
  @@ Served(TRUE, "v1", "events.k8s.io", {"Event"})
  @@ Served(TRUE, "v1", "discovery.k8s.io", {"EndpointSlice"})
  @@ Served(TRUE, "v1", "networking.k8s.io", {"Ingress", "NetworkPolicy"})
  @@ Served(TRUE, "v2", "autoscaling", {"HorizontalPodAutoscaler"})
  @@ Served(TRUE, "v1", "rbac.authorization.k8s.io", {"Role", "RoleBinding"})
  @@ Served(FALSE, "v1", "rbac.authorization.k8s.io", {"ClusterRole", "ClusterRoleBinding"})
  @@ Served(FALSE, "v1", "storage.k8s.io", {"StorageClass"})
  @@ Served(FALSE, "v1", CRDGroup, {"CustomResourceDefinition"})
  @@ Served(TRUE, "v1alpha1", OLM, {"Subscription", "ClusterServiceVersion", "InstallPlan", "CatalogSource"})
  @@ Served(FALSE, "v1", OLM, {"Operator"})
  @@ Served(TRUE, "v1", KV, {"VirtualMachine", "VirtualMachineInstance", "VirtualMachineInstanceMigration"})
  @@ Served(TRUE, "v1beta1", Snapshots, {"VirtualMachineSnapshot", "VirtualMachineRestore"})
  @@ Served(TRUE, "v1beta1", "export.kubevirt.io", {"VirtualMachineExport"})
  @@ Served(TRUE, "v1beta1", "cdi.kubevirt.io", {"DataVolume"})
  @@ Served(TRUE, "v1beta1", Types, {"VirtualMachineInstancetype", "VirtualMachinePreference"})
  @@ Served(FALSE, "v1beta1", Types, {"VirtualMachineClusterInstancetype", "VirtualMachineClusterPreference"})
  @@ Served(TRUE, "v1", "k8s.cni.cncf.io", {"NetworkAttachmentDefinition"})
  @@ Served(TRUE, "v1", "example.com", {"Widget"})
  @@ Served(FALSE, "v1", "example.com", {"ClusterWidget"})
  @@ IF Routes THEN Served(TRUE, "v1", "route.openshift.io", {"Route"}) ELSE <<>>

MCPreferredVersion ==
  [g \in {r[3] : r \in DOMAIN MCResources} |->
     CASE g = "autoscaling" -> "v2"
       [] g \in {Snapshots, Types, "export.kubevirt.io", "cdi.kubevirt.io"} -> "v1beta1"
       [] OTHER -> "v1"]
MCCustomGroups == {OLM, KV, Snapshots, Types, "export.kubevirt.io", "cdi.kubevirt.io", "k8s.cni.cncf.io",
                   "example.com", "route.openshift.io"}
MCLower == [Pod |-> "pod", Deployment |-> "deployment", DaemonSet |-> "daemonset", StatefulSet |-> "statefulset"]
MCBaseName == "op.v1" :> "op"
MCSafeLabel == "vm.kubevirt.io/name" :> "vm_kubevirt_io_name" @@ "kubevirt.io" :> "kubevirt_io"
--------------------------------------------------------------------------------
Obj(class, ns, name) == [class |-> ClassOf(class), ns |-> ns, name |-> name, labels |-> NoLabels]
Ref(class, name) == LET c == ClassOf(class) IN [kind |-> c[2], version |-> c[3], group |-> c[4], name |-> name]
Plain(class, ns, name) == {Obj(class, ns, name)}
With(o, extra) == extra @@ o
OwnedBy(class, name) == [ownerReferences |-> <<Ref(class, name)>>]
PartOf == "app.kubernetes.io/part-of"
InstanceOf == "app.kubernetes.io/instance"
App == [app |-> "x"]
Launcher == "kubevirt.io" :> "virt-launcher" @@ "vm.kubevirt.io/name" :> "v"

Workload(class, ns, extra) == With(Obj(class, ns, "d"), [matchLabels |-> App] @@ extra)
WorkloadObjects(ns) ==
  {With(Obj(Core("Pod"), ns, "p"),
     [labels |-> App, serviceAccountName |-> "s",
      volumes |-> {[persistentVolumeClaim |-> "c"], [configMap |-> "s"], [secret |-> "s"]}]
     @@ OwnedBy(ReplicaSet, "d")),
   With(Obj(Core("Pod"), ns, "bad"),
     [volumes |-> {[configMap |-> ""], [secret |-> "s"], [configMap |-> "s"]}]
     @@ OwnedBy(K8s("Gadget", "v1", "gone.example.com"), "g")),
   Workload(ReplicaSet, ns, OwnedBy(Deployment, "d")),
   Workload(Deployment, ns, [labels |-> PartOf :> "op" @@ InstanceOf :> "w"] @@ OwnedBy(CSV, "op.v1")),
   Workload(DaemonSet, ns, <<>>), Workload(StatefulSet, ns, <<>>),
   Workload(InGroup("PodDisruptionBudget", "policy"), ns, <<>>), Workload(InGroup("Job", "batch"), ns, <<>>),
   With(Obj(Core("Service"), ns, "svc"), [selector |-> App]),
   With(Obj(EndpointSlice, ns, "es"), [labels |-> "kubernetes.io/service-name" :> "svc"]),
   With(Obj(InGroup("Ingress", "networking.k8s.io"), ns, "ing"),
     [defaultBackend |-> {[service |-> "svc"]}, paths |-> {[service |-> "svc"], [resource |-> "r"]}]),
   With(Obj(PVC, ns, "c"), [volumeName |-> IF ns = "a" THEN "pv1" ELSE "pv2", storageClassName |-> "sc"]),
   With(Obj(InGroup("HorizontalPodAutoscaler", "autoscaling"), ns, "h"), [scaleTargetRef |-> Ref(Deployment, "d")]),
   With(Obj(Core("Event"), ns, "e"), [involvedObject |-> [ns |-> ns] @@ Ref(Core("Pod"), "p")]),
   With(Obj(K8s("Event", "v1", "events.k8s.io"), ns, "e"), [regarding |-> [ns |-> ns] @@ Ref(Core("Pod"), "p")]),
   Obj(Core("ConfigMap"), ns, "s"), Obj(Core("Secret"), ns, "s"), Obj(Core("ServiceAccount"), ns, "s")}

OperatorObjects(ns) ==
  {With(Obj(Subscription, ns, "sub"),
     [currentCSV |-> "op.v1", installPlanRef |-> [ns |-> ns, name |-> "ip"], sourceNamespace |-> "a", source |-> "cat"]),
   With(Obj(InstallPlan, ns, "ip"), [clusterServiceVersionNames |-> {"op.v1"}]),
   With(Obj(CSV, ns, "op.v1"), [owned |-> {"widgets"}, deployments |-> {"d"}]),
   With(Obj(K8s("Widget", "v1", "example.com"), ns, "w"), OwnedBy(K8s("ClusterWidget", "v1", "example.com"), "cw"))}

MachineSpec ==
  [volumes |-> {[persistentVolumeClaim |-> "c"], [dataVolume |-> "c"], [secret |-> "s"], [sysprepSecret |-> "s"],
                [configMap |-> "s"], [serviceAccount |-> "s"], [ephemeral |-> "c"]},
   accessCredentials |-> {[sshPublicKey |-> "s"]},
   networks |-> {[multus |-> "net"], [multus |-> "net", namespace |-> "other"], [pod |-> "default"]}]
MachineObjects(ns) ==
  {With(Obj(VM, ns, "v"),
     [template |-> MachineSpec, dataVolumeTemplates |-> {"c"},
      instancetype |-> [name |-> "t", kind |-> "VirtualMachineInstancetype"], preference |-> [name |-> "cp"]]),
   With(Obj(VM, ns, "v2"),
     [template |-> [volumes |-> {}], instancetype |-> [name |-> "ct"],
      preference |-> [name |-> "t", kind |-> "VirtualMachinePreference"]]),
   With(Obj(VMI, ns, "v"), [spec |-> MachineSpec, nodeName |-> "n", labels |-> "kubevirt.io/nodeName" :> "n"] @@ OwnedBy(VM, "v")),
   With(Obj(Core("Pod"), ns, "vl"), [labels |-> Launcher] @@ OwnedBy(VMI, "v")),
   With(Obj(Core("Pod"), ns, "imp"), [labels |-> "cdi.kubevirt.io/storage.import.importPvcName" :> "c"]),
   With(Obj(VMIM, ns, "m"), [vmiName |-> "v", labels |-> "kubevirt.io/vmi-name" :> "v"]),
   With(Obj(VMSnapshot, ns, "snap"), [sourceName |-> "v", labels |-> "vm.kubevirt.io/name" :> "v"]),
   With(Obj(VMRestore, ns, "r"),
     [targetName |-> "v", virtualMachineSnapshotName |-> "snap", labels |-> "vm.kubevirt.io/name" :> "v"]),
   With(Obj(VMExport, ns, "x1"), [sourceKind |-> "VirtualMachine", sourceName |-> "v"]),
   With(Obj(VMExport, ns, "x2"), [sourceKind |-> "VirtualMachineSnapshot", sourceName |-> "snap"]),
   With(Obj(VMExport, ns, "x3"), [sourceKind |-> "PersistentVolumeClaim", sourceName |-> "c"]),
   Obj(DataVolume, ns, "c"), Obj(NetAttachDef, ns, "net"),
   Obj(InGroup("VirtualMachineInstancetype", Types), ns, "t"), Obj(InGroup("VirtualMachinePreference", Types), ns, "t")}

Sig(domain, name, labels) == [class |-> Signal(domain, name), labels |-> labels]
Alert(ns, label, name) ==
  With(Sig("alert", "alert", "namespace" :> ns @@ label :> name), [expression |-> "up"])
Log(ns, pod, labels) ==
  With(Sig("log", LogType(ns)[2], "kubernetes_namespace_name" :> ns @@ "kubernetes_pod_name" :> pod @@ labels), <<>>)
Metric(ns, label, name) == Sig("metric", "metric", "namespace" :> ns @@ label :> name)
FlowFrom(ns, owner, ownerType, dstNs) ==
  Sig("netflow", "network",
    [SrcK8S_Type |-> "Pod", SrcK8S_Namespace |-> ns, SrcK8S_Name |-> "p", SrcK8S_OwnerType |-> ownerType,
     SrcK8S_OwnerName |-> owner, DstK8S_Type |-> "Service", DstK8S_Namespace |-> dstNs, DstK8S_Name |-> "svc",
     DstK8S_OwnerType |-> "Deployment", DstK8S_OwnerName |-> "d"])
SignalObjects(ns) ==
  {Alert(ns, l, "p") : l \in {"pod", "kubernetes_pod_name"}}
  \cup {Alert(ns, l, "d") : l \in {"deployment", "daemonset", "statefulset", "poddisruptionbudget"}}
  \cup {Alert(ns, "name", "v"), Alert(ns, "vmim", "m")}
  \cup {Log(ns, "p", App), Log(ns, "vl", [kubevirt_io |-> "virt-launcher", vm_kubevirt_io_name |-> "v"])}
  \cup {Metric(ns, "pod", "p"), Metric(ns, "name", "v")}
  \cup {Metric(ns, l, "d") : l \in {"deployment", "daemonset", "statefulset"}}
  \cup {Sig("metric", "metric", "k8s_namespace_name" :> ns @@ "k8s_pod_name" :> "p"),
         Sig("metric", "metric", "namespace" :> ns @@ "k8s_namespace_name" :> "b" @@ "pod" :> "p")}
  \cup {FlowFrom(ns, "d", "Deployment", "a"), FlowFrom(ns, "p", "Pod", ns)}
  \cup {Sig("trace", "span", "k8s.namespace.name" :> ns @@ "k8s.pod.name" :> "p")}

ClusterObjects ==
  {Obj(Core("Node"), "", "n"), Obj(StorageClass, "", "sc"), Obj(CatalogSource, "a", "cat"),
   With(Obj(Core("PersistentVolume"), "", "pv1"), [claimRef |-> [ns |-> "a", name |-> "c"], storageClassName |-> "sc"]),
   With(Obj(Core("PersistentVolume"), "", "pv2"), [claimRef |-> [ns |-> "b", name |-> "c"], storageClassName |-> "sc"]),
   With(Obj(CRD, "", "widgets"), [kind |-> "Widget", group |-> "example.com", versions |-> <<"v1">>]),
   With(Obj(K8s("Operator", "v1", OLM), "", "op"),
     [refs |-> {[kind |-> "CustomResourceDefinition", ns |-> "", name |-> "widgets"],
                [kind |-> "ClusterServiceVersion", ns |-> "a", name |-> "op.v1"],
                [kind |-> "Subscription", ns |-> "b", name |-> "sub"]}]),
   Obj(InGroup("VirtualMachineClusterInstancetype", Types), "", "ct"),
   Obj(InGroup("VirtualMachineClusterPreference", Types), "", "cp"),
   Obj(K8s("ClusterWidget", "v1", "example.com"), "", "cw"),
   With(Obj(InGroup("ClusterRole", "rbac.authorization.k8s.io"), "", "cr"), [labels |-> InstanceOf :> "cw"]),
   With(Obj(Core("Event"), "a", "ne"), [involvedObject |-> Ref(Core("Node"), "n")]),
   Sig("metric", "metric", [node |-> "n", expression |-> "up"]),
   With(Sig("incident", "incident", NoLabels),
     [alertsLabels |-> {[namespace |-> ns, pod |-> "p"] : ns \in {"a", "b"}}])}

MCObjects ==
  ClusterObjects \cup UNION {WorkloadObjects(ns) \cup OperatorObjects(ns) \cup MachineObjects(ns) \cup SignalObjects(ns) : ns \in {"a", "b"}}
--------------------------------------------------------------------------------
\* The cluster meets what the theorems ask for.
ASSUME VersionsWritten /\ ObjectsServed /\ FlowsComplete /\ LogsOfPods /\ ObjectsNamed
================================================================================
