------------------------- MODULE PendingReconciler -------------------------
(***************************************************************************)
(* The pending-phase reconciler of the cluster controller:                 *)
(* clusterController.syncPendingCluster and its step executors in          *)
(* src/controller/cluster/pending.go.                                      *)
(*                                                                         *)
(* One worker per cluster runs the pipeline; workers of distinct clusters  *)
(* interleave.  Each step executor is one action (a loop over a map of     *)
(* resources takes one action per iteration, in any order, as Go's map     *)
(* iteration does).  The worker reads the orchestrator through a cache    *)
(* that an informer brings up to date later; it writes through the        *)
(* orchestrator client, whose calls may fail.  A step that mutates the     *)
(* cluster record returns it (yield-on-mutation); the caller persists it   *)
(* and the next reconcile starts from the persisted record.  The update    *)
(* may be lost (a crash or a conflict between the return and the write).  *)
(*                                                                         *)
(* Resources are <<kind, name>> pairs in the cluster's namespace; the      *)
(* cluster record keeps only the fields the pipeline reads or writes.      *)
(***************************************************************************)
EXTENDS Integers, FiniteSets, NodePortAllocator

CONSTANTS
  Clusters,                 \* cluster names
  ForeignNodePorts,         \* NodePorts of services of no cluster of Clusters
  Versions,                 \* the keys of cc.versions
  DefaultVersion,           \* cc.defaultMasterVersion.ID
  EmptyVersion,             \* the empty Spec.MasterVersion ""
  SpecVersion,              \* Spec.MasterVersion of each cluster when created
  AwsClusters,              \* clusters with Spec.Cloud.AWS != nil
  ServiceAccountNames,      \* keys of the serviceAccounts map
  ClusterRoleBindingNames,  \* keys of the roleBindings map
  ServiceNames,             \* keys of the services map (apiserver-insecure)
  DeploymentNames,          \* keys of the deps map
  PluginNames,              \* safe names of the defaultPlugins map
  MaxApiErrors,             \* bound on failed orchestrator calls
  MaxLostUpdates,           \* bound on returned clusters never persisted
  MaxTimeouts               \* bound on expiries signalled by checkTimeout

ASSUME SpecVersion \in [Clusters -> Versions \cup {EmptyVersion, "unknown"}]
ASSUME AwsClusters \subseteq Clusters
ASSUME ForeignNodePorts \subseteq Nat \ {0}

\* A fresh key for apiserver-ssh is minted only after the previous one's
\* cluster update was lost, so per cluster at most this many are minted.
MaxSSHKeys == 1 + MaxLostUpdates

(***************************************************************************)
(* Resources and the cluster record.                                       *)
(***************************************************************************)
TokenUsers      == <<"secret", "token-users">>
PublicService   == <<"service", "apiserver">>
ApiserverAuth   == <<"secret", "apiserver-auth">>
ApiserverSSH    == <<"secret", "apiserver-ssh">>
AwsCloudConfig  == <<"configmap", "aws-cloud-config">>
EtcdCluster     == <<"etcdcluster", "etcd-cluster">>
ServiceAccounts == {<<"serviceaccount", n>> : n \in ServiceAccountNames}
RoleBindings    == {<<"clusterrolebinding", n>> : n \in ClusterRoleBindingNames}
AuxServices     == {<<"service", n>> : n \in ServiceNames}
Deployments     == {<<"deployment", n>> : n \in DeploymentNames}
Addons          == {<<"addon", n>> : n \in PluginNames}

Resources ==
  {TokenUsers, PublicService, ApiserverAuth, ApiserverSSH, AwsCloudConfig,
   EtcdCluster} \cup ServiceAccounts \cup RoleBindings \cup AuxServices
   \cup Deployments \cup Addons

Phases == {"Pending", "Launching", "Failed"}

PortValue == {0} \cup (minAPIServerPort..maxAPIServerPort)

\* Address.URL, "" until set.  The URL built at l.257 is
\* "https://<name>.<dc>.<external-url>:<port>"; per cluster it varies only in
\* the port, so it is kept as the one-element sequence of the port it ends in.
NoURL == <<>>
URL(port) == <<port>>

\* tokenUsers: the change createTokens makes to the cluster (l.194).
Cluster ==
  [phase: Phases, rootCA: BOOLEAN, tokenUsers: BOOLEAN, port: PortValue,
   url: {NoURL} \cup {URL(p) : p \in PortValue},
   apiserverSSH: 0..MaxSSHKeys,
   masterVersion: Versions \cup {EmptyVersion, "unknown"}]

\* The steps of syncPendingCluster, in order, and the worker's other states.
Steps == <<"rootca", "tokenusers", "publicsvc", "sa", "crb", "services",
           "secrets", "configmaps", "pvcs", "deployments", "deploymentsLoop",
           "etcd", "plugins">>
PC == {Steps[i] : i \in DOMAIN Steps} \cup {"idle", "returned"}

VARIABLES
  record,      \* the persisted cluster record
  work,        \* the worker's in-memory copy (the *api.Cluster c)
  pc,          \* the step the worker is in
  todo,        \* map entries of the current step not iterated yet
  out,        \* the returned cluster: <<>> for nil, <<c>> otherwise
  objs,        \* resources that exist in the orchestrator
  cached,      \* resources the informer caches report as existing
  events,      \* resources a "Created ..." cluster event announced
  svcPort,     \* NodePort of each cluster's apiserver service (0: none)
  sshData,     \* key held by each cluster's apiserver-ssh secret (0: none)
  sshKeys,     \* keys minted so far for each cluster
  apiErrors,   \* failed orchestrator calls so far
  lostUpdates, \* returned clusters lost so far
  timeouts     \* expiries so far

workerVars == <<work, pc, todo, out>>
vars == <<record, work, pc, todo, out, objs, events, cached, svcPort,
          sshData, sshKeys, apiErrors, lostUpdates, timeouts>>

TypeOK ==
  /\ record \in [Clusters -> Cluster]
  /\ work \in [Clusters -> Cluster]
  /\ pc \in [Clusters -> PC]
  /\ todo \in [Clusters -> SUBSET Resources]
  /\ \A c \in Clusters : out[c] \in {<<>>} \cup {<<r>> : r \in Cluster}
  /\ objs \in [Clusters -> SUBSET Resources]
  /\ cached \in [Clusters -> SUBSET Resources]
  /\ events \in [Clusters -> SUBSET Resources]
  /\ svcPort \in [Clusters -> PortValue]
  /\ sshData \in [Clusters -> 0..MaxSSHKeys]
  /\ sshKeys \in [Clusters -> 0..MaxSSHKeys]
  /\ apiErrors \in 0..MaxApiErrors
  /\ lostUpdates \in 0..MaxLostUpdates
  /\ timeouts \in 0..MaxTimeouts

NewCluster(c) ==
  [phase |-> "Pending", rootCA |-> FALSE, tokenUsers |-> FALSE, port |-> 0,
   url |-> NoURL,
   apiserverSSH |-> 0, masterVersion |-> SpecVersion[c]]

Init ==
  /\ record = [c \in Clusters |-> NewCluster(c)]
  /\ work = record
  /\ pc = [c \in Clusters |-> "idle"]
  /\ todo = [c \in Clusters |-> {}]
  /\ out = [c \in Clusters |-> <<>>]
  /\ objs = [c \in Clusters |-> {}]
  /\ cached = [c \in Clusters |-> {}]
  /\ events = [c \in Clusters |-> {}]
  /\ svcPort = [c \in Clusters |-> 0]
  /\ sshData = [c \in Clusters |-> 0]
  /\ sshKeys = [c \in Clusters |-> 0]
  /\ apiErrors = 0
  /\ lostUpdates = 0
  /\ timeouts = 0
(***************************************************************************)
(* The map entries each step iterates over: its todo set when entered.    *)
(***************************************************************************)
\* Mutant of ConfigMapItems: the AWS condition dropped, no config map.
ConfigMapsWithoutAws(c) == {}

\* The cms map of launchingCheckConfigMaps: aws-cloud-config iff AWS is set.
ConfigMapItems(c) == IF c \in AwsClusters THEN {AwsCloudConfig} ELSE {}

\* The pvcs map is empty; the deployments loop iterates over the roles the
\* namespace index did not report when queried (the snapshot existingDeps).
StepItems(c, step) ==
  CASE step = "sa"              -> ServiceAccounts
    [] step = "crb"             -> RoleBindings
    [] step = "services"        -> AuxServices
    [] step = "secrets"         -> {ApiserverAuth, ApiserverSSH}
    [] step = "configmaps"      -> ConfigMapItems(c)
    [] step = "deploymentsLoop" -> Deployments \ cached[c]
    [] step = "plugins"         -> Addons
    [] OTHER                    -> {}

(***************************************************************************)
(* Control of syncPendingCluster: go on to the next step, or return.       *)
(***************************************************************************)
Goto(c, step, w) ==
  /\ pc' = [pc EXCEPT ![c] = step]
  /\ work' = [work EXCEPT ![c] = w]
  /\ todo' = [todo EXCEPT ![c] = StepItems(c, step)]
  /\ UNCHANGED out

Return(c, r) ==
  /\ pc' = [pc EXCEPT ![c] = "returned"]
  /\ out' = [out EXCEPT ![c] = r]
  /\ UNCHANGED <<work, todo>>

\* One iteration of a step's loop is over; the loop goes on.
Iterated(c, o) ==
  /\ todo' = [todo EXCEPT ![c] = @ \ {o}]
  /\ UNCHANGED <<work, pc, out>>

(***************************************************************************)
(* Orchestrator client calls.  A create of an existing resource fails      *)
(* ("already exists"), a delete of a missing one fails ("not found"), and  *)
(* any call may fail for other reasons, up to MaxApiErrors times.          *)
(***************************************************************************)
ApiError == apiErrors < MaxApiErrors /\ apiErrors' = apiErrors + 1

\* recordClusterEvent(c, ..., "Created ...") after a successful create.
RecordCreated(c, o) == events' = [events EXCEPT ![c] = @ \cup {o}]

\* The orchestrator creates o.
Created(c, o) ==
  /\ o \notin objs[c]
  /\ objs' = [objs EXCEPT ![c] = @ \cup {o}]
  /\ UNCHANGED apiErrors

\* A create that succeeds, followed by its "Created ..." event.
Create(c, o) == Created(c, o) /\ RecordCreated(c, o)

CreateFails(c, o) ==
  /\ \/ o \in objs[c] /\ UNCHANGED apiErrors
     \/ ApiError
  /\ UNCHANGED <<objs, events>>

DeleteFails(c, o) ==
  /\ \/ o \notin objs[c] /\ UNCHANGED apiErrors
     \/ ApiError
  /\ UNCHANGED <<objs, events>>

\* One iteration of a launchingCheck loop: probe the cache by key, skip an
\* existing resource, else create it, recording its event if announce; a
\* failed create returns nil, err.
EnsureObjectWith(c, o, announce) ==
  \/ /\ o \in cached[c]
     /\ Iterated(c, o)
     /\ UNCHANGED <<objs, events, apiErrors>>
  \/ /\ o \notin cached[c]
     /\ Created(c, o)
     /\ IF announce THEN RecordCreated(c, o) ELSE UNCHANGED events
     /\ Iterated(c, o)
  \/ /\ o \notin cached[c]
     /\ CreateFails(c, o)
     /\ Return(c, <<>>)

\* The loop iteration of the steps that record an event after each create.
EnsureObject(c, o) == EnsureObjectWith(c, o, TRUE)

\* A step that only loops over its map and never changes the cluster.
EnsureEach(c, step, next) ==
  /\ pc[c] = step
  /\ \/ /\ todo[c] = {}
        /\ Goto(c, next, work[c])
        /\ UNCHANGED <<objs, events, apiErrors>>
     \/ \E o \in todo[c] : EnsureObject(c, o)
  /\ UNCHANGED <<record, cached, svcPort, sshData, sshKeys, lostUpdates,
                 timeouts>>

(***************************************************************************)
(* The steps, in the order syncPendingCluster calls them.                  *)
(***************************************************************************)
\* The caller hands a Pending cluster to syncPendingCluster, which first
\* consults checkTimeout; on expiry its side effect fails the cluster.
StartReconcile(c) ==
  /\ pc[c] = "idle"
  /\ record[c].phase = "Pending"
  /\ \/ /\ Goto(c, "rootca", record[c])
        /\ UNCHANGED <<record, timeouts>>
     \/ /\ timeouts < MaxTimeouts
        /\ timeouts' = timeouts + 1
        /\ record' = [record EXCEPT ![c].phase = "Failed"]
        /\ UNCHANGED workerVars
  /\ UNCHANGED <<objs, events, cached, svcPort, sshData, sshKeys, apiErrors,
                 lostUpdates>>

\* Mint the root CA unless the record has one, and yield.
PendingCreateRootCA(c) ==
  /\ pc[c] = "rootca"
  /\ IF work[c].rootCA
       THEN Goto(c, "tokenusers", work[c]) /\ UNCHANGED apiErrors
       ELSE \/ ApiError /\ Return(c, <<>>)
            \/ /\ Return(c, <<[work[c] EXCEPT !.rootCA = TRUE]>>)
               /\ UNCHANGED apiErrors
  /\ UNCHANGED <<record, objs, events, cached, svcPort, sshData, sshKeys,
                 lostUpdates, timeouts>>

\* Create the token-users secret unless cached, and yield the cluster that
\* createTokens changed.
LaunchingCheckTokenUsers(c) ==
  /\ pc[c] = "tokenusers"
  /\ \/ /\ TokenUsers \in cached[c]
        /\ Goto(c, "publicsvc", work[c])
        /\ UNCHANGED <<objs, events, apiErrors>>
     \/ /\ TokenUsers \notin cached[c]
        /\ CreateFails(c, TokenUsers)
        /\ Return(c, <<>>)
     \/ /\ TokenUsers \notin cached[c]
        /\ Create(c, TokenUsers)
        /\ Return(c, <<[work[c] EXCEPT !.tokenUsers = TRUE]>>)
  /\ UNCHANGED <<record, cached, svcPort, sshData, sshKeys, lostUpdates,
                 timeouts>>

\* The services GetFreeNodePort lists: those of other owners and the
\* apiserver services the service cache holds.  NodePorts the orchestrator
\* has really allocated are the ones a create is checked against.
CachedServices ==
  {{p} : p \in ForeignNodePorts}
    \cup {{svcPort[d]} : d \in {d \in Clusters : PublicService \in cached[d]}}

AllocatedNodePorts ==
  ForeignNodePorts
    \cup {svcPort[d] : d \in {d \in Clusters : PublicService \in objs[d]}}

\* Mutant of AllocationFailed: the error of GetFreeNodePort not checked.
AllocationErrorIgnored(alloc) == FALSE

\* GetFreeNodePort returned its error: the step returns nil, err.
AllocationFailed(alloc) == alloc.err

\* Mutant of PublicServiceCreateFailed: the address written into c before
\* the create is returned although the create failed.
PublicServiceCreateFailedKeepsAddress(c, w) == Return(c, <<w>>)

\* A failed create of the apiserver service returns nil, err: the address
\* already written into c is dropped with it.
PublicServiceCreateFailed(c, w) == Return(c, <<>>)

\* Mutant of PublicServiceCreated: the step goes on instead of yielding.
PublicServiceCreatedContinues(c, w) == Goto(c, "sa", w)

\* The service is created: the cluster carrying its address is returned.
PublicServiceCreated(c, w) == Return(c, <<w>>)

\* Create the public apiserver service unless cached: choose a free
\* NodePort, write port and URL into c, create the service, and yield.
LaunchingCheckApiserverPublicService(c) ==
  LET alloc == GetFreeNodePort(CachedServices)
      port  == alloc.port
      w     == [work[c] EXCEPT !.port = port, !.url = URL(port)]
  IN
  /\ pc[c] = "publicsvc"
  /\ \/ /\ PublicService \in cached[c]
        /\ Goto(c, "sa", work[c])
        /\ UNCHANGED <<objs, events, svcPort, apiErrors>>
     \/ /\ PublicService \notin cached[c]
        /\ AllocationFailed(alloc)
        /\ Return(c, <<>>)
        /\ UNCHANGED <<objs, events, svcPort, apiErrors>>
     \/ /\ PublicService \notin cached[c]
        /\ ~AllocationFailed(alloc)
        /\ \/ CreateFails(c, PublicService)
           \/ /\ port \in AllocatedNodePorts
              /\ UNCHANGED <<objs, events, apiErrors>>
        /\ PublicServiceCreateFailed(c, w)
        /\ UNCHANGED svcPort
     \/ /\ PublicService \notin cached[c]
        /\ ~AllocationFailed(alloc)
        /\ port \notin AllocatedNodePorts
        /\ Create(c, PublicService)
        /\ svcPort' = [svcPort EXCEPT ![c] = port]
        /\ PublicServiceCreated(c, w)
  /\ UNCHANGED <<record, cached, sshData, sshKeys, lostUpdates, timeouts>>

LaunchingCheckServiceAccounts(c) == EnsureEach(c, "sa", "crb")

LaunchingCheckClusterRoleBindings(c) == EnsureEach(c, "crb", "services")

LaunchingCheckServices(c) == EnsureEach(c, "services", "secrets")

\* Mutant of RecreateSSH: the status condition dropped, always recreate.
RecreateSSHAlways(w) == TRUE

\* recreateSecrets holds apiserver-ssh iff the status has no SSH key.
RecreateSSH(w) == w.apiserverSSH = 0

\* Mutant of SSHKeyMinted: the loop goes on with the changed cluster
\* instead of returning it.
SSHKeyMintedContinues(c, w) ==
  /\ todo' = [todo EXCEPT ![c] = @ \ {ApiserverSSH}]
  /\ work' = [work EXCEPT ![c] = w]
  /\ UNCHANGED <<pc, out>>

\* The generator changed the cluster: pendingCheckSecrets returns it.
SSHKeyMinted(c, w) == Return(c, <<w>>)

\* createApiserverSSH and the create that follows succeeded: a new key is
\* minted when the status has none, and the changed cluster is returned.
SSHSecretCreated(c, before) ==
  /\ objs' = [objs EXCEPT ![c] = before \cup {ApiserverSSH}]
  /\ RecordCreated(c, ApiserverSSH)
  /\ UNCHANGED apiErrors
  /\ IF work[c].apiserverSSH = 0
       THEN LET k == sshKeys[c] + 1
            IN  /\ sshKeys' = [sshKeys EXCEPT ![c] = k]
                /\ sshData' = [sshData EXCEPT ![c] = k]
                /\ SSHKeyMinted(c, [work[c] EXCEPT !.apiserverSSH = k])
       ELSE /\ sshData' = [sshData EXCEPT ![c] = work[c].apiserverSSH]
            /\ UNCHANGED sshKeys
            /\ Iterated(c, ApiserverSSH)

\* The apiserver-ssh iteration of pendingCheckSecrets: skip it if cached
\* and not to be recreated, delete it first if cached and to be recreated.
EnsureSSHSecret(c) ==
  LET exists   == ApiserverSSH \in cached[c]
      recreate == RecreateSSH(work[c])
  IN
  \/ /\ exists /\ ~recreate
     /\ Iterated(c, ApiserverSSH)
     /\ UNCHANGED <<objs, events, sshData, sshKeys, apiErrors>>
  \/ /\ exists /\ recreate
     /\ DeleteFails(c, ApiserverSSH)
     /\ Return(c, <<>>)
     /\ UNCHANGED <<sshData, sshKeys>>
  \/ /\ exists /\ recreate
     /\ ApiserverSSH \in objs[c]
     /\ \/ /\ ApiError
           /\ objs' = [objs EXCEPT ![c] = @ \ {ApiserverSSH}]
           /\ UNCHANGED events
           /\ sshData' = [sshData EXCEPT ![c] = 0]
           /\ UNCHANGED sshKeys
           /\ Return(c, <<>>)
        \/ SSHSecretCreated(c, objs[c] \ {ApiserverSSH})
  \/ /\ ~exists
     /\ CreateFails(c, ApiserverSSH)
     /\ Return(c, <<>>)
     /\ UNCHANGED <<sshData, sshKeys>>
  \/ /\ ~exists
     /\ ApiserverSSH \notin objs[c]
     /\ SSHSecretCreated(c, objs[c])

PendingCheckSecrets(c) ==
  /\ pc[c] = "secrets"
  /\ \/ /\ todo[c] = {}
        /\ Goto(c, "configmaps", work[c])
        /\ UNCHANGED <<objs, events, sshData, sshKeys, apiErrors>>
     \/ /\ ApiserverAuth \in todo[c]
        /\ EnsureObject(c, ApiserverAuth)
        /\ UNCHANGED <<sshData, sshKeys>>
     \/ /\ ApiserverSSH \in todo[c]
        /\ EnsureSSHSecret(c)
  /\ UNCHANGED <<record, cached, svcPort, lostUpdates, timeouts>>

LaunchingCheckConfigMaps(c) == EnsureEach(c, "configmaps", "pvcs")

LaunchingCheckPvcs(c) == EnsureEach(c, "pvcs", "deployments")

\* Mutant of ResolveMasterVersion: any version not in the registry, not
\* only an empty one, falls back to the default.
ResolveMasterVersionFallback(w) ==
  IF w.masterVersion \in Versions THEN w.masterVersion ELSE DefaultVersion

\* Spec.MasterVersion, with the default substituted for an empty one.
ResolveMasterVersion(w) ==
  IF w.masterVersion = EmptyVersion THEN DefaultVersion ELSE w.masterVersion

\* The version is not in cc.versions: the cluster is failed and returned
\* together with the error.
UnknownVersion(c, w) == Return(c, <<[w EXCEPT !.phase = "Failed"]>>)

\* launchingCheckDeployments up to its loop: resolve the master version,
\* then query the deployment index of the namespace once.
LaunchingCheckDeployments(c) ==
  LET w == [work[c] EXCEPT !.masterVersion = ResolveMasterVersion(work[c])]
  IN
  /\ pc[c] = "deployments"
  /\ IF w.masterVersion \in Versions
       THEN Goto(c, "deploymentsLoop", w)
       ELSE UnknownVersion(c, w)
  /\ UNCHANGED <<record, objs, events, cached, svcPort, sshData, sshKeys,
                 apiErrors,
                 lostUpdates, timeouts>>

\* The loop of launchingCheckDeployments over the roles the snapshot did not
\* report: each is created without probing the cache again.
DeploymentsLoop(c) ==
  /\ pc[c] = "deploymentsLoop"
  /\ \/ /\ todo[c] = {}
        /\ Goto(c, "etcd", work[c])
        /\ UNCHANGED <<objs, events, apiErrors>>
     \/ \E o \in todo[c] :
          \/ Create(c, o) /\ Iterated(c, o)
          \/ CreateFails(c, o) /\ Return(c, <<>>)
  /\ UNCHANGED <<record, cached, svcPort, sshData, sshKeys, lostUpdates,
                 timeouts>>

\* Mutant of EtcdClusterCached: the caller yields on the returned c.
EtcdClusterCachedYields(c, w) == Return(c, <<w>>)

\* The etcd cluster is cached: (c, nil) is returned and the caller, which
\* checks only err, goes on.
EtcdClusterCached(c, w) == Goto(c, "plugins", w)

\* Resolve the master version again, then create the etcd cluster resource
\* unless cached.  Its (c, nil) result when cached is ignored by the caller.
LaunchingCheckEtcdCluster(c) ==
  LET w == [work[c] EXCEPT !.masterVersion = ResolveMasterVersion(work[c])]
  IN
  /\ pc[c] = "etcd"
  /\ IF w.masterVersion \notin Versions
       THEN UnknownVersion(c, w) /\ UNCHANGED <<objs, events, apiErrors>>
       ELSE \/ /\ EtcdCluster \in cached[c]
               /\ EtcdClusterCached(c, w)
               /\ UNCHANGED <<objs, events, apiErrors>>
            \/ /\ EtcdCluster \notin cached[c]
               /\ Create(c, EtcdCluster)
               /\ Goto(c, "plugins", w)
            \/ /\ EtcdCluster \notin cached[c]
               /\ CreateFails(c, EtcdCluster)
               /\ Return(c, <<>>)
  /\ UNCHANGED <<record, cached, svcPort, sshData, sshKeys, lostUpdates,
                 timeouts>>

\* Every step succeeded: set the transition time and phase Launching.
PromoteToLaunching(c) == Return(c, <<[work[c] EXCEPT !.phase = "Launching"]>>)

\* The default add-ons, in the addon namespace cluster-<name>, which is the
\* namespace kubernetes.NamespaceName(name) the store is probed in.
LaunchingCheckDefaultPlugins(c) ==
  /\ pc[c] = "plugins"
  /\ \/ /\ todo[c] = {}
        /\ PromoteToLaunching(c)
        /\ UNCHANGED <<objs, events, apiErrors>>
     \/ \E o \in todo[c] : EnsureObjectWith(c, o, FALSE)
  /\ UNCHANGED <<record, cached, svcPort, sshData, sshKeys, lostUpdates,
                 timeouts>>

(***************************************************************************)
(* The environment: the caller that persists a returned cluster, the loss  *)
(* of that update, and the informers that bring the caches up to date.     *)
(***************************************************************************)
Persist(c) ==
  /\ pc[c] = "returned"
  /\ record' = IF out[c] = <<>> THEN record
               ELSE [record EXCEPT ![c] = out[c][1]]
  /\ pc' = [pc EXCEPT ![c] = "idle"]
  /\ out' = [out EXCEPT ![c] = <<>>]
  /\ UNCHANGED <<work, todo, objs, events, cached, svcPort, sshData,
                 sshKeys,
                 apiErrors, lostUpdates, timeouts>>

LoseUpdate(c) ==
  /\ pc[c] = "returned"
  /\ out[c] # <<>>
  /\ lostUpdates < MaxLostUpdates
  /\ lostUpdates' = lostUpdates + 1
  /\ pc' = [pc EXCEPT ![c] = "idle"]
  /\ out' = [out EXCEPT ![c] = <<>>]
  /\ UNCHANGED <<record, work, todo, objs, events, cached, svcPort, sshData,
                 sshKeys,
                 apiErrors, timeouts>>

InformerSync(c, o) ==
  /\ (o \in objs[c]) # (o \in cached[c])
  /\ cached' = [cached EXCEPT ![c] = IF o \in objs[c] THEN @ \cup {o}
                                                     ELSE @ \ {o}]
  /\ UNCHANGED <<record, work, pc, todo, out, objs, events, svcPort, sshData,
                 sshKeys, apiErrors, lostUpdates, timeouts>>

(***************************************************************************)
(* The specification.                                                      *)
(***************************************************************************)
Worker(c) ==
  \/ StartReconcile(c)
  \/ PendingCreateRootCA(c)
  \/ LaunchingCheckTokenUsers(c)
  \/ LaunchingCheckApiserverPublicService(c)
  \/ LaunchingCheckServiceAccounts(c)
  \/ LaunchingCheckClusterRoleBindings(c)
  \/ LaunchingCheckServices(c)
  \/ PendingCheckSecrets(c)
  \/ LaunchingCheckConfigMaps(c)
  \/ LaunchingCheckPvcs(c)
  \/ LaunchingCheckDeployments(c)
  \/ DeploymentsLoop(c)
  \/ LaunchingCheckEtcdCluster(c)
  \/ LaunchingCheckDefaultPlugins(c)
  \/ Persist(c)

Informer(c) == \E o \in Resources : InformerSync(c, o)

\* Once no cluster is Pending and the caches are in sync, no step is left:
\* the runs where that happens do not check deadlock.
Next == \E c \in Clusters : Worker(c) \/ LoseUpdate(c) \/ Informer(c)

\* The work queue requeues a cluster whose reconcile returned, and a worker
\* runs a started reconcile to its end: each worker is weakly fair.  The
\* informers deliver every change eventually.  Faults are not fair.
Fairness ==
  \A c \in Clusters : WF_vars(Worker(c)) /\ WF_vars(Informer(c))

Spec == Init /\ [][Next]_vars /\ Fairness

(***************************************************************************)
(* Properties.                                                             *)
(***************************************************************************)
\* Once the record has an external URL, it ends in the recorded port, which
\* is a port of the range, and the cluster's apiserver service exists and
\* holds that NodePort (invariant 2 of the cluster record).
\* launchingCheckApiserverPublicService writes the address into c before
\* the create, so this fails if the address of a failed create, or the
\* 0 returned with an allocation error, is ever persisted.
AddressMatchesService ==
  \A c \in Clusters :
    record[c].url # NoURL =>
      /\ record[c].url = URL(record[c].port)
      /\ record[c].port \in minAPIServerPort..maxAPIServerPort
      /\ PublicService \in objs[c]
      /\ svcPort[c] = record[c].port

\* No two clusters record the same external port, and no cluster records
\* one outside [minAPIServerPort, maxAPIServerPort] or held by a service of
\* another owner.  Clusters race for ports through a stale service cache,
\* and when the range is exhausted GetFreeNodePort fails: the address is
\* persisted only after its error is checked and the create succeeded.
ExternalPortsDistinct ==
  \A c \in Clusters :
    record[c].port # 0 =>
      /\ record[c].port \in (minAPIServerPort..maxAPIServerPort)
                              \ ForeignNodePorts
      /\ \A d \in Clusters \ {c} : record[d].port # record[c].port

\* Once the record holds an SSH key, the apiserver-ssh secret exists and
\* holds that key: the delete-then-create in pendingCheckSecrets never
\* leaves a recorded key without its secret or with another one.
SSHSecretMatchesStatus ==
  \A c \in Clusters :
    record[c].apiserverSSH # 0 =>
      /\ ApiserverSSH \in objs[c]
      /\ sshData[c] = record[c].apiserverSSH

\* The checkpoints come first: a deployment or the etcd cluster of a cluster
\* exists only after its root CA and SSH key are persisted in the record and
\* its token-users secret and public service exist (yield-on-mutation
\* orders every cluster-changing step before the workloads).
WorkloadsAfterCheckpoints ==
  \A c \in Clusters :
    objs[c] \cap (Deployments \cup {EtcdCluster}) # {} =>
      /\ record[c].rootCA
      /\ record[c].apiserverSSH # 0
      /\ {TokenUsers, PublicService} \subseteq objs[c]

\* Every resource the reconciler created for a cluster has been announced
\* by a "Created ..." cluster event: the event recorder emits one event per
\* side-effecting action, and each step executor records an event after its
\* create (the default add-ons included).
CreatedResourcesAnnounced ==
  \A c \in Clusters : objs[c] \subseteq events[c]

\* Port exhaustion (spec scenario 4): while every NodePort of the range is
\* held by a service of another owner, GetFreeNodePort fails on every pass,
\* so no cluster gets an apiserver service, its Address stays unset, and it
\* is never launched.  The step must return on the error before writing
\* the 0 it comes with into c and creating the service.
PortExhaustionCreatesNoService ==
  (minAPIServerPort..maxAPIServerPort) \subseteq ForeignNodePorts =>
    \A c \in Clusters :
      /\ PublicService \notin objs[c]
      /\ record[c].port = 0 /\ record[c].url = NoURL
      /\ record[c].phase # "Launching"

\* A cluster created with a master version that is not in the registry
\* never gets a deployment or an etcd cluster and is never promoted to
\* Launching: launchingCheckDeployments and launchingCheckEtcdCluster each
\* resolve the version again and fail the cluster, across retries after
\* the Failed update (returned with its error) is lost.
UnknownVersionCreatesNoWorkloads ==
  \A c \in Clusters :
    SpecVersion[c] \notin Versions \cup {EmptyVersion} =>
      /\ objs[c] \cap (Deployments \cup {EtcdCluster}) = {}
      /\ record[c].phase # "Launching"

\* The resources a launched cluster needs, aws-cloud-config iff AWS is set.
Required(c) ==
  {TokenUsers, PublicService, ApiserverAuth, ApiserverSSH, EtcdCluster}
    \cup ServiceAccounts \cup RoleBindings \cup AuxServices \cup Deployments
    \cup Addons \cup (IF c \in AwsClusters THEN {AwsCloudConfig} ELSE {})

\* The root CA, a provisioned "resource" of the record.
RootCA == <<"status", "root-ca">>

\* The abstract view of a cluster: its phase, and what is provisioned for
\* it in the orchestrator and in the persisted record.
Abstract ==
  INSTANCE ClusterPhase WITH
    phase <- [c \in Clusters |-> record[c].phase],
    created <- [c \in Clusters |->
                  objs[c] \cup (IF record[c].rootCA THEN {RootCA} ELSE {})],
    Resources <- Resources \cup {RootCA},
    Needed <- [c \in Clusters |-> Required(c) \cup {RootCA}],
    Replaceable <- {ApiserverSSH}

\* The reconciler implements ClusterPhase: a cluster is promoted to
\* Launching only with every resource of the pipeline present although each
\* step trusted a lagging cache, the phase never goes back, and nothing but
\* apiserver-ssh is ever removed, across failed calls and lost updates.
ImplementsClusterPhase == Abstract!Spec

\* A launched cluster has an external address (the URL clients use).  The
\* service is created before the cluster carrying its port is persisted.
LaunchingHasAddress ==
  \A c \in Clusters : record[c].phase = "Launching" => record[c].url # NoURL

\* The record fields a yielding step may change.
Checkpointed(r, s) ==
  {f \in {"rootCA", "tokenUsers", "port", "apiserverSSH"} : r[f] # s[f]}

\* Yield-on-mutation: every write of a still Pending cluster changes at most
\* one of root CA, token users, address and SSH key relative to the persisted record.
YieldOnMutation ==
  [][\A c \in Clusters :
       record'[c].phase = "Pending" =>
         Cardinality(Checkpointed(record[c], record'[c])) <= 1]_record

\* Every cluster eventually leaves Pending, to Launching or Failed, in spite
\* of failed calls, lost updates, stale caches and NodePort races.
EveryClusterLeavesPending ==
  \A c \in Clusters : <>(record[c].phase # "Pending")
=============================================================================
