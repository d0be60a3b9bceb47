----------------------------- MODULE KubevirtRules -----------------------------
(***************************************************************************)
(* The rules of kubevirt.qtpl.  A VirtualMachine holds the spec of the     *)
(* instance in `template', a VirtualMachineInstance is that instance: the  *)
(* Vm and Vmi variants of a rule read the same record, from o.template and *)
(* o.spec.                                                                 *)
(***************************************************************************)
EXTENDS K8sRules

KV == "kubevirt.io"
Snapshots == "snapshot.kubevirt.io"
Types == "instancetype.kubevirt.io"
VM == InGroup("VirtualMachine", KV)
VMI == InGroup("VirtualMachineInstance", KV)
VMIM == InGroup("VirtualMachineInstanceMigration", KV)
VMSnapshot == InGroup("VirtualMachineSnapshot", Snapshots)
VMRestore == InGroup("VirtualMachineRestore", Snapshots)
VMExport == InGroup("VirtualMachineExport", "export.kubevirt.io")
DataVolume == InGroup("DataVolume", "cdi.kubevirt.io")
NetAttachDef == InGroup("NetworkAttachmentDefinition", "k8s.cni.cncf.io")

\* The object's own namespace and name, under another class.
Namesake(o, class) == Require({Str(o, "ns"), o.name}, {Named(class, o.ns, o.name)})
\* Objects of a class in the namespace with a label set to the object's name.
LabelledWithName(o, class, label) ==
  Require({Str(o, "ns"), o.name}, {Labelled(class, o.ns, {<<label, o.name>>})})
LauncherOf(o, class) ==
  Require({Str(o, "ns"), o.name},
    {Labelled(class, o.ns, {<<"kubevirt.io", "virt-launcher">>, <<"vm.kubevirt.io/name", o.name>>})})

InTemplate(o, list) == IF Has(o, "template") THEN ListOf(o.template, list) ELSE {}
InSpec(o, list) == IF Has(o, "spec") THEN ListOf(o.spec, list) ELSE {}
--------------------------------------------------------------------------------
(* The machine, its instance, its pod, its node *)

VmToVmi(o) == Namesake(o, VMI)
VmiToPod(o) == LauncherOf(o, Core("Pod"))
VmiToNode(o) == Require({Str(o, "nodeName")}, {Named(Core("Node"), "", o.nodeName)})
NodeToVmi(o) == Require({o.name}, {Labelled(VMI, "", {<<"kubevirt.io/nodeName", o.name>>})})
VmimToVmi(o) == NamedRefs(o, VMI, {Str(o, "vmiName")})
VmiToVmim(o) == LabelledWithName(o, VMIM, "kubevirt.io/vmi-name")
--------------------------------------------------------------------------------
(* Signals *)

AlertsOn(o, label) ==
  Require({Str(o, "ns"), o.name}, {Select(Signal("alert", "alert"), {{<<"namespace", o.ns>>, <<label, o.name>>}})})
VmToAlert(o) == AlertsOn(o, "name")
VmiToAlert(o) == AlertsOn(o, "name")
VmimToAlert(o) == AlertsOn(o, "vmim")

MetricsOn(o) ==
  Require({Str(o, "ns"), o.name}, {Select(Signal("metric", "metric"), {<<"namespace", o.ns>>, <<"name", o.name>>})})
VmToMetric(o) == MetricsOn(o)
VmiToMetric(o) == MetricsOn(o)

VmiToLogsApplication(o) == LauncherOf(o, Signal("log", "application"))   \* mutant: whatever the namespace
VmiToLogs(o) == LauncherOf(o, LogType(Str(o, "ns")))
--------------------------------------------------------------------------------
(* Volumes *)

DataVolumeNames(volumes) == Refs(volumes, "dataVolume")
ClaimNames(volumes) ==
  Refs(volumes, "persistentVolumeClaim") \cup DataVolumeNames(volumes)
    \cup Refs(volumes, "ephemeral") \cup Refs(volumes, "memoryDump")

VmToPVC(o) ==
  IF ~Has(o, "template") THEN NoQueries
  ELSE NamedRefs(o, PVC, ListOf(o, "dataVolumeTemplates") \cup ClaimNames(InTemplate(o, "volumes")))
VmiToPVC(o) == NamedRefs(o, PVC, ClaimNames(InSpec(o, "volumes")))

VmToDataVolume(o) ==
  IF ~Has(o, "template") THEN NoQueries
  ELSE NamedRefs(o, DataVolume, ListOf(o, "dataVolumeTemplates") \cup DataVolumeNames(InTemplate(o, "volumes")))
VmiToDataVolume(o) == NamedRefs(o, DataVolume, DataVolumeNames(InSpec(o, "volumes")))

DataVolumeToPVC(o) == Namesake(o, PVC)
DataVolumeToImporterPod(o) ==
  LabelledWithName(o, Core("Pod"), "cdi.kubevirt.io/storage.import.importPvcName")

\* kvSecretNames: secret volumes, the two secrets of each cloud-init volume,
\* sysprep secrets, and the secrets of the access credentials.
SecretNames(volumes, credentials) ==
  UNION {Refs(volumes, f) : f \in {"secret", "cloudInitSecretRef", "cloudInitNetworkDataSecretRef", "sysprepSecret"}}
    \cup Refs(credentials, "sshPublicKey") \cup Refs(credentials, "userPassword")
ConfigMapNames(volumes) == Refs(volumes, "configMap") \cup Refs(volumes, "sysprepConfigMap")

VmToSecret(o) == NamedRefs(o, Core("Secret"), SecretNames(InTemplate(o, "volumes"), InTemplate(o, "accessCredentials")))
VmiToSecret(o) == NamedRefs(o, Core("Secret"), SecretNames(InSpec(o, "volumes"), InSpec(o, "accessCredentials")))
VmToConfigMap(o) == NamedRefs(o, Core("ConfigMap"), ConfigMapNames(InTemplate(o, "volumes")))
VmiToConfigMap(o) == NamedRefs(o, Core("ConfigMap"), ConfigMapNames(InSpec(o, "volumes")))
VmToServiceAccount(o) == NamedRefs(o, Core("ServiceAccount"), Refs(InTemplate(o, "volumes"), "serviceAccount"))
VmiToServiceAccount(o) == NamedRefs(o, Core("ServiceAccount"), Refs(InSpec(o, "volumes"), "serviceAccount"))
--------------------------------------------------------------------------------
(* Networks: a name qualified with a namespace is skipped *)

NetworkNames(networks) == Refs({n \in networks : ~Has(n, "namespace")}, "multus")
VmToNetAttachDef(o) == NamedRefs(o, NetAttachDef, NetworkNames(InTemplate(o, "networks")))
VmiToNetAttachDef(o) == NamedRefs(o, NetAttachDef, NetworkNames(InSpec(o, "networks")))
--------------------------------------------------------------------------------
(* Snapshots, restores, exports *)

VmSnapshotToVm(o) == NamedRefs(o, VM, {Str(o, "sourceName")})
VmToVmSnapshot(o) == LabelledWithName(o, VMSnapshot, "vm.kubevirt.io/name")
VmRestoreToVm(o) == NamedRefs(o, VM, {Str(o, "targetName")})
VmToVmRestore(o) == LabelledWithName(o, VMRestore, "vm.kubevirt.io/name")
VmRestoreToVmSnapshot(o) == NamedRefs(o, VMSnapshot, {Str(o, "virtualMachineSnapshotName")})

ExportSource(o, kind, class) ==
  IF Str(o, "sourceKind") = kind THEN NamedRefs(o, class, {Str(o, "sourceName")}) ELSE NoQueries
VmExportToVm(o) == ExportSource(o, "VirtualMachine", VM)
VmExportToVmSnapshot(o) == ExportSource(o, "VirtualMachineSnapshot", VMSnapshot)
VmExportToPVC(o) == ExportSource(o, "PersistentVolumeClaim", PVC)
--------------------------------------------------------------------------------
(* Instance types and preferences are cluster-scoped unless the kind says so *)

NamespacedOrCluster(o, field, kind, clusterKind) ==
  IF ~Has(o, field) THEN NoQueries
  ELSE Require({Str(o, "ns"), Str(o[field], "name")},
         {IF Str(o[field], "kind") = kind
          THEN Named(InGroup(kind, Types), o.ns, o[field].name)
          ELSE Named(InGroup(clusterKind, Types), "", o[field].name)})
VmToInstancetype(o) ==
  NamespacedOrCluster(o, "instancetype", "VirtualMachineInstancetype", "VirtualMachineClusterInstancetype")
VmToPreference(o) ==
  NamespacedOrCluster(o, "preference", "VirtualMachinePreference", "VirtualMachineClusterPreference")
================================================================================
