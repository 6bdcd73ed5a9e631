\* One cluster with one default add-on and nothing else to create; no faults.
CONSTANTS
  c1 = c1
  c2 = c2
  Clusters = {c1}
  minAPIServerPort = 1
  maxAPIServerPort = 2
  ForeignNodePorts = {1}
  Versions = {"v1"}
  DefaultVersion = "v1"
  EmptyVersion = ""
  SpecVersion <- MCSpecVersion
  AwsClusters = {}
  ServiceAccountNames = {}
  ClusterRoleBindingNames = {}
  ServiceNames = {}
  DeploymentNames = {"apiserver"}
  PluginNames = {"kubedns"}
  MaxApiErrors = 0
  MaxLostUpdates = 0
  MaxTimeouts = 0
SPECIFICATION Spec
INVARIANT CreatedResourcesAnnounced
