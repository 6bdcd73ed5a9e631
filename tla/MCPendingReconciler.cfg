CONSTANTS
  c1 = c1
  c2 = c2
  Clusters = {c1}
  minAPIServerPort = 1
  maxAPIServerPort = 2
  ForeignNodePorts = {1}
  Versions = {"v1"}
  DefaultVersion = "v1"
  EmptyVersion = ""
  SpecVersion <- MCSpecVersion
  AwsClusters = {c1}
  ServiceAccountNames = {"etcd-operator"}
  ClusterRoleBindingNames = {"etcd-operator"}
  ServiceNames = {"apiserver-insecure"}
  DeploymentNames = {"apiserver", "scheduler"}
  PluginNames = {"kubedns"}
  MaxApiErrors = 1
  MaxLostUpdates = 1
  MaxTimeouts = 1
SPECIFICATION Spec
CHECK_DEADLOCK FALSE
INVARIANT AddressMatchesService
INVARIANT SSHSecretMatchesStatus
INVARIANT WorkloadsAfterCheckpoints
PROPERTY ImplementsClusterPhase
PROPERTY YieldOnMutation
PROPERTY EveryClusterLeavesPending
