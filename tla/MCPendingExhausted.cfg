CONSTANTS
  c1 = c1
  c2 = c2
  Clusters = {c1, c2}
  minAPIServerPort = 1
  maxAPIServerPort = 2
  ForeignNodePorts = {1, 2}
  Versions = {"v1"}
  DefaultVersion = "v1"
  EmptyVersion = ""
  SpecVersion <- MCSpecVersion
  AwsClusters = {c1}
  ServiceAccountNames = {"etcd-operator"}
  ClusterRoleBindingNames = {"etcd-operator"}
  ServiceNames = {"apiserver-insecure"}
  DeploymentNames = {"apiserver", "scheduler"}
  PluginNames = {"kubedns"}
  MaxApiErrors = 1
  MaxLostUpdates = 1
  MaxTimeouts = 1
SPECIFICATION Spec
INVARIANT TypeOK
INVARIANT PortExhaustionCreatesNoService
