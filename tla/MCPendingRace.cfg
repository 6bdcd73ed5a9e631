CONSTANTS
  c1 = c1
  c2 = c2
  Clusters = {c1, c2}
  minAPIServerPort = 1
  maxAPIServerPort = 3
  ForeignNodePorts = {1}
  Versions = {"v1"}
  DefaultVersion = "v1"
  EmptyVersion = ""
  SpecVersion <- MCSpecVersion
  AwsClusters = {}
  ServiceAccountNames = {}
  ClusterRoleBindingNames = {}
  ServiceNames = {}
  DeploymentNames = {"apiserver"}
  PluginNames = {}
  MaxApiErrors = 0
  MaxLostUpdates = 1
  MaxTimeouts = 0
SPECIFICATION Spec
CHECK_DEADLOCK FALSE
INVARIANT AddressMatchesService
INVARIANT ExternalPortsDistinct
INVARIANT UnknownVersionCreatesNoWorkloads
PROPERTY EveryClusterLeavesPending
