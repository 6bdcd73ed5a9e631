# TLA+ models of the pending-phase cluster reconciler

These modules model two files, and are checked with TLC:
- `src/controller/cluster/pending.go` holds the controller step that takes a
  freshly declared cluster from phase *Pending* to *Launching*;
- `src/pkg/handler/common/provider/hetzner.go` holds the API handler that
  lists Hetzner server sizes.

## 1. Inventory

### Components

| Component | Code | State | Operations |
|---|---|---|---|
| Pipeline driver | `syncPendingCluster` (l. 22–100) | none of its own; the in-memory cluster `c` | runs the steps in order; returns on error or when a step returns a changed cluster (yield-on-mutation); sets phase Launching at the end |
| Step executors | `pendingCreateRootCA`, `launchingCheckTokenUsers`, `launchingCheckApiserverPublicService`, `launchingCheckServiceAccounts`, `launchingCheckClusterRoleBindings`, `launchingCheckServices`, `pendingCheckSecrets`, `launchingCheckConfigMaps`, `launchingCheckPvcs`, `launchingCheckDeployments`, `launchingCheckEtcdCluster`, `launchingCheckDefaultPlugins` | resources in the orchestrator; fields of the cluster record (`Status.RootCA`, `Address`, `Status.ApiserverSSH`, `Spec.MasterVersion`, `Status.Phase`) | probe the cache, skip, delete (apiserver-ssh only), generate, create, yield |
| Port allocator | `GetFreeNodePort` (l. 206–239) | none (reads the service cache) | smallest free NodePort in `[min, max]` |
| Resource probe | informer caches (`*Store.GetByKey`, `depStore.ByIndex`) | an eventually consistent copy of the orchestrator's objects | lookups; the informer updates them later |
| Record persistence | the caller of `syncPendingCluster` (not in `src/`) | the persisted cluster record | writes the returned cluster, or loses it in a crash or conflict |
| CA minter, generators, template loader, event recorder | `initca`, `resources.Load*`, `createTokens`, `createApiserver*`, `recordClusterEvent` (not in `src/`) | none | pure generation, or logging |
| Version registry | `cc.versions`, `cc.defaultMasterVersion` | constant | lookup |
| Hetzner size handler | `pkg/handler/common/provider/hetzner.go` | none | lists server types; sorts them by name prefix into standard (`cx`) and dedicated (`ccx`) |
| Swagger reader, chart and backup manifests | `src/unnamed/part_000..2`, `charts/iap/...` | none | generated code and templates |

### Interactions

A worker runs one reconcile per cluster at a time. Workers of different
clusters run in parallel. They share the service cache, which the port
allocator reads, and the NodePort space, which the orchestrator enforces. A
step reads the caches, calls the orchestrator client, and may change the
in-memory cluster. The driver returns the changed cluster, the caller persists
it, and the next reconcile starts from the persisted record. Persisting is the
only coordination between reconcile generations.

### What is hard

- **Stale caches.** Every step decides "exists?" from a cache that lags
  behind the orchestrator. A lagging cache produces creates that fail with
  "already exists", deletes that fail with "not found", and NodePort
  collisions between clusters.
- **Partial progress and crashes.** A reconcile may stop after any call. A
  returned cluster may never be persisted, even though the resources it
  describes were already created.
- **Ordering.** Yield-on-mutation orders the checkpoints (CA, token users,
  address, SSH key) before everything that depends on them. Go map iteration
  order is random, so the order inside a step is arbitrary.
- **Delete-then-create** of `apiserver-ssh` when the status holds no key.

### Properties that make each part correct

- **Driver.** Yield-on-mutation (at most one checkpoint per update). The
  checkpoints come before the workloads. A launched cluster has every
  resource. Every cluster eventually leaves Pending. The phase only moves
  forward. A cluster whose master version is not in the registry never gets
  a workload and is never launched, even when its Failed update is lost.
- **Public-service step.** A recorded URL ends in the recorded port, which
  is the service's NodePort. A launched cluster has an address. No two
  clusters record the same port, and none records a port outside the free
  range. With the range exhausted, no service is created and the address
  stays unset (spec scenario 4).
- **Event recorder.** Every created resource is announced by an event.
- **Secrets step.** A recorded SSH key is the one in the secret.
- **Port allocator.** It returns the smallest free port, and the error
  exactly when the range is exhausted.
- **Hetzner size handler.** Each listed size lands in the list its prefix
  names, in the provider's order.

The hazards these properties are aimed at are listed, each at its source
line, under `hazards` in `PROJECT.json`.

## 2. Plan

1. `NodePortAllocator`: the pure port scan, checked against a reference.
   **Done.**
2. `PendingReconciler`: the whole pipeline, with the caches, crashes, failed
   calls and NodePort races as the environment. It extends
   `NodePortAllocator`. **Done.**
3. `ClusterPhase`: an abstract specification of what the reconciler promises.
   Phase Pending goes to Launching only with the full resource set present,
   or goes to Failed. Resources are only added, except `apiserver-ssh`.
   `PendingReconciler` implements it through `INSTANCE ... WITH` and a
   refinement mapping, checked as a PROPERTY. **Done.**
4. More scenarios for `PendingReconciler`. The race run now includes a lost
   update. **Done.** Two clusters with failed calls as well still exceed
   TLC's budget.
5. `HetznerSizes`: the endpoint's early returns and the classification loop
   of `HetznerSize`, as operators. They are checked against reference
   definitions. **Done.**
6. The allocator's error result, `(0, err)` as in the code, so that an
   ignored error writes port 0 and a URL ending in `:0`. **Done.**
7. The event recorder, as far as a property is about it: which creates are
   announced (`CreatedResourcesAnnounced`, a violation run). Spec scenario 4,
   port exhaustion, is checked by `PortExhaustionCreatesNoService`. **Done.**
8. Not planned: the swagger reader, and the chart and backup manifests
   (no state).

## 3. Modules

### `NodePortAllocator.tla`

`UsedPorts` is the `usedPorts` loop (l. 207–218), which drops zero entries.
`FirstFree` is the scan loop (l. 229–238), written as a RECURSIVE operator.
`GetFreeNodePort` combines the two. Its result is the pair `(port, err)`:
`Allocated(p)` on success, and `NoFreePort`, port 0 with the error, as at
l. 238.
`SmallestFreePort` is the reference definition: the minimum of the free part
of the range.

### `HetznerSizes.tla`

A server type is abstracted to its name, kept as a short sequence of
letters. The regexes `^cx` and `^ccx` test only a prefix, and the other
fields are copied unchanged.
- `IsStandardSize` and `IsDedicatedSize` are the two regexes.
- `ListFirstPage` is the list call with `Page 1`: it keeps the first
  `PerPage` types.
- `AddSize` is one iteration of the loop's `switch`. A name matching neither
  prefix (`cpx...`) is dropped.
- `HetznerSize` folds `AddSize` over the page, or returns an empty list with
  the list error.
- `HetznerSizeWithClusterCredentialsEndpoint` returns the first failing check
  of `Failures` in code order, or else `HetznerSize`'s result.

`MCHetznerSizes` enumerates every catalogue of up to `PerPage + 1` types
drawn from five names, and every set of failing calls. The names are two
`cx`, one `ccx`, one `cpx`, and `c`, which is shorter than both prefixes.

### `PendingReconciler.tla`

**State.**
- `record[c]` is the persisted cluster. Its fields are phase, root CA present,
  token users, port, URL, SSH key id and master version. The URL is
  `NoURL` until set, and `URL(p)` once set: the URL of l. 257 varies per
  cluster only in the port it ends in. `tokenUsers` stands for the change
  `createTokens` makes to the cluster (l. 194). What it writes is not in
  `src/`; the comment at l. 33–34 and spec §4.1 say that it changes the
  cluster.
- `work[c]` is the worker's `*api.Cluster`. `pc[c]` is the step the worker
  is in. `todo[c]` holds the map entries the current loop has not iterated
  yet. `out[c]` holds the returned cluster (`<<>>` is nil).
- `objs[c]` holds the resources that exist in the orchestrator, as
  `<<kind, name>>` pairs. `cached[c]` holds what the caches report.
- `svcPort[c]` is the apiserver service's NodePort. `sshData[c]` is the key
  in the `apiserver-ssh` secret.
- `events[c]` holds the resources a "Created ..." cluster event announced.
  It is the part of the event recorder a property is about.
- `sshKeys`, `apiErrors`, `lostUpdates` and `timeouts` are bounded counters.

**Actions.** There is one action per step function, named after it.
- A loop step (`EnsureEach`, `PendingCheckSecrets`, `DeploymentsLoop`,
  `LaunchingCheckDefaultPlugins`) takes one action per iteration. Any entry of
  `todo` may come next, as with Go's map order.
- `launchingCheckDeployments` has two actions. The first resolves the
  version and takes the namespace-index snapshot. The second is the loop over
  the snapshot; it does not probe again, as in the code.
- Every create fails when the object exists ("already exists"), or up to
  `MaxApiErrors` times for other reasons.
- `Create` is a successful create followed by its `recordClusterEvent`.
  The add-on step passes `announce = FALSE`, because the code records no event
  there.
- `Persist`, `LoseUpdate` and `InformerSync` model the caller and the
  informers. They come from the spec, because that code is not in `src/`.

**Fairness.** Each worker is weakly fair. The work queue requeues a returned
cluster, and a started reconcile runs to its end. Each cluster's informer is
weakly fair: caches are eventually consistent. Failed calls, lost updates
and timeouts are not fair. They are bounded instead.

**Deadlock.** Once every cluster has left Pending and the caches are in sync,
nothing is enabled: the reconciler is done. The runs where that can happen
set `CHECK_DEADLOCK FALSE`: the main, race and crash runs. In the crash
run the violation trace is the result, and a launched cluster is a
legitimate end state. `EveryClusterLeavesPending` still catches a
worker stuck in Pending.

**Unreachable branches.** These are kept because they are faithful to the
code. The version check of `launchingCheckEtcdCluster` never fails, because
the deployments step has already resolved the version. The branch of the
SSH generator that reuses a recorded key is never reached either: a key is
recorded only when the secret exists, so the create fails first.

### `ClusterPhase.tla`

This is the abstract specification. Per cluster it keeps a phase and the set
of provisioned resources. Its actions are:
- `Provision`, which adds a resource while the cluster is Pending;
- `Replace`, which removes a replaceable resource while Pending;
- `Launch`, which is allowed only when every needed resource is present;
- `Fail`.

`PendingReconciler` maps onto it as follows:
- `phase` is `record[c].phase`;
- `created` is `objs[c]`, plus a root-CA item when the record holds a CA;
- `Needed` is `Required(c)` plus the root CA;
- `Replaceable` is `{apiserver-ssh}`.

`ImplementsClusterPhase` checks `Abstract!Spec`. It implies three things:
the phase only moves forward, a Launching cluster has everything it needs,
and nothing else is ever removed.

### Mutants

Each property has a mutant: an operator defined just before the definition
it replaces, written the way a plausible bug in that code would be. The
mutants are listed in `PROJECT.json`.

## 4. Runs

| Run | Config | Bounds | Shows |
|---|---|---|---|
| `nodeport_alloc` | `MCNodePortAllocator.cfg` | range 1..4, every subset of a 7-service pool (128 caches) | `GetFreeNodePortIsSmallestFree` |
| `hetzner_sizes` | `MCHetznerSizes.cfg` | page of 2; catalogues up to 3 of 5 names; every set of failing calls (4992 states) | `SizesClassifiedByPrefix` |
| `pending` | `MCPendingReconciler.cfg` | 1 AWS cluster, empty master version; 1 free port; 1 SA, 1 binding, 1 aux service, 2 deployments, 1 add-on; 1 failed call, 1 lost update, 1 timeout (25k states) | address, SSH, checkpoints, yield-on-mutation, progress, refinement of `ClusterPhase` |
| `pending_race` | `MCPendingRace.cfg` | 2 clusters (c2 with an unknown version), 2 free ports, 1 deployment, 1 lost update (327k states, 90 s) | two clusters racing for ports through a stale cache still record their own service's port, never the same one, and both leave Pending; c2, whose version is unknown, gets no deployment or etcd cluster and is never launched, even when its Failed update is lost (`UnknownVersionCreatesNoWorkloads`) |
| `pending_exhausted` | `MCPendingExhausted.cfg` | 2 clusters, no free port, 1 failed call, 1 lost update, 1 timeout | `TypeOK`, `PortExhaustionCreatesNoService`: no apiserver service is created, the Address stays unset and no cluster is launched (spec scenario 4) |
| `pending_events` | `MCPendingEvents.cfg` | 1 cluster, 1 deployment, 1 add-on, no faults | **violation** of `CreatedResourcesAnnounced` |
| `pending_crash` | `MCPendingCrash.cfg` | 1 cluster, 1 lost update | **violation** of `LaunchingHasAddress` |

**Why the bounds are enough.**
- One failed call and one lost update reach every fault path: a failed
  create in each step, a failed delete or create of `apiserver-ssh`, and a
  lost yield after each checkpoint.
- Two deployments give the loop a real order.
- One extra free port per cluster makes the race possible without exhausting
  the range. The `pending_exhausted` run covers exhaustion separately.
- Larger item sets only repeat the same control flow.
- Two clusters with the full item sets and every fault exceed TLC's
  five-minute budget (more than 1.3 million states). The race run therefore
  keeps one item and one lost update.
- A page of 2 with catalogues of up to 3 types covers a truncated page, an
  exact page and a short one.

## 5. Findings

`pending_crash`: `launchingCheckApiserverPublicService` (l. 249) returns as
soon as the cache holds the apiserver service. Only the call that created
the service writes `Address`. Suppose the cluster returned by that call is
never persisted, through a crash or an update conflict. Then every later
reconcile skips the step, and the cluster reaches Launching with port 0 and
an empty URL. The spec expects crash safety (§1) and expects the address to
equal the service's NodePort (invariant 2). The change `createTokens`
makes to the cluster (l. 194) can be lost in the same way: the secret is
cached, l. 190 skips the step, and the change is never made again.

`pending_events` (`pending.go:534`, divergence): `launchingCheckDefaultPlugins`
creates each default add-on and records no cluster event. Every other step
executor records a "Created ..." event after its create. The spec says one
event is emitted per side-effecting action (§4.6, §7), and lists "record an
event" as the last step of every executor (§4.4). The delete of
`apiserver-ssh` (l. 150) records no event either. The property checks
creates only.

## 6. Not modelled

- The Hetzner API's page size cap, and whether a catalogue can ever exceed
  one page. The model takes the first `PerPage` types, as the code asks.
- Whether cluster role bindings, which are cluster-scoped (l. 356–361), have
  names unique per cluster. The name comes from a template outside `src/`.
  Each cluster's bindings are modelled as its own.
- Certificate contents.
- Template rendering and the generated objects' contents.
- Event text, and the "Failed to create" events of an unknown version.
- Cache read errors. They return an error the same way a failed create does.
- `Spec.Cloud` other than the AWS flag.
- The later phases and deletion.
