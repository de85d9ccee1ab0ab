# TLA+ specifications of the RHDH operator

These modules model the parts of the operator whose correctness depends on the
order of events: the refresh of Pods when external configuration changes, the
reconcile loop with its status, the construction of the runtime model from many
overlapping configurations, and the process that restarts itself when the TLS
profile changes. TLC checks them on small instances, and TLAPS proves the main
safety properties of the refresh, of the reconcile loop, of the runtime model and of
the process for instances of any size.

## The system

| Part | State | Operations | What is hard |
|---|---|---|---|
| External configuration (`internal/controller/spec_preprocessor.go`) | label and annotation of the ConfigMaps and Secrets, the hash | `preprocessSpec`, `addExtConfig`, `checkExternalObject`, `getOCPIngressDomain`, `concatData` | run by Reconcile and by the watch handlers at the same time, on cached copies, with updates that may conflict |
| Watches (`watchers.go`, `deployable_finder.go`) | informer caches, workqueue | `addWatchers`, `requestByExtConfigLabel`, `FindDeployment` | two informers for one object, events dropped on every error |
| Reconcile loop (`backstage_controller.go`, `backstage_status.go`) | the resource, its status, the workqueue | `Reconcile`, `errorAndStatus`, `applyObjects`, `applyPayload`, `setDeploymentStatus` | partial failure, stale copies, errors of the status update are dropped |
| ServiceMonitor (`monitor.go`) | one object | `applyServiceMonitor` | objects of an earlier spec |
| Database (`pkg/model/db-*.go`) | Secret, StatefulSet, Service | `addToModel`, `updateAndValidate` | a new password in every reconcile, a database that may keep its first one |
| Runtime model (`pkg/model/runtime.go`, `deployable.go`, `*_obj.go`) | the list of objects | `InitObjects`, `GetRuntimeObjects` | order of the two passes |
| Workload (`deployment.go`, `containers-filter.go`) | Pod template | `addToModel`, `updateAndValidate`, `idle`, `mountFilesFrom`, `addEnvVarsFrom`, `setDeployment` | mounts that replace each other; replica counts owned by others |
| Files, variables, volumes (`configmap*.go`, `secret*.go`, `pvcs.go`) | Pod template | `addToModel`, `updateAndValidate` | several sources for one path |
| App config, Route, Service (`appconfig.go`, `route.go`, `service.go`) | ConfigMaps, Route | `updateAppConfigWithBaseUrls`, `buildBaseUrl` | which ConfigMap gets the base URLs |
| Dynamic plugins (`dynamic-plugins*.go`, `plugin_deps.go`, `plugin-deps.go`) | list of plugins, dependencies | `MergePluginsData`, `resolveReferences`, `GetPluginDeps` | order of a merge that goes through a map |
| Default configuration, flavours (`default-config.go`, `flavour.go`) | files | `ReadDefaultConfig`, `GetEnabledFlavours` | order of a merge that goes through a map |
| Manager (`cmd/main.go`, `platform_detector.go`) | caches, TLS settings | start-up, `getTLSProfileConfig`, `setupTLSProfileWatcher` | settings that change, or cannot be read, while the process starts; restarts |

Utilities (`pkg/utils`), the plugin installer script and the build scripts have no
state that the properties depend on.

How the parts interact: `cmd/main.go` starts one manager with one worker for the
Backstage resources. `Reconcile` reads the resource, runs `preprocessSpec` over
the referenced ConfigMaps and Secrets, builds the runtime model (`InitObjects`),
applies the objects one by one and updates the status in a deferred call. Events
of the resource, of its workload (`Owns`) and of marked external objects
(`addWatchers`) put the resource into the workqueue. The watch handler is not
passive: it runs `preprocessSpec` itself, in the goroutine of the informer.

## Modules

| Module | Lines of the system it models |
|---|---|
| `ConfigSync` | `spec_preprocessor.go`, `watchers.go`, `deployable_finder.go`, and of `Reconcile` what concerns the hash |
| `PodRefresh` | the abstract specification: what `ConfigSync` promises |
| `ConfigSyncInv` | the inductive invariants of `ConfigSync` |
| `ConfigSyncProofs` | the proofs |
| `Reconcile` | `backstage_controller.go`, `backstage_status.go`, `monitor.go`, `plugin-deps.go`, the Secret of `db-secret.go`, idling in `deployment.go` |
| `ReconcileInv`, `ReconcileProofs` | the inductive invariants of `Reconcile` and the proofs |
| `BackstageTypes` | the types of `backstage_types.go`, with the fields that the model reads, and the predicates of the spec |
| `DynamicPlugins` | `MergePluginsData`, `dynamic-plugins-reference.go`, `flavour.go`, `plugin_deps.go`: pure operators |
| `PodSpec` | `mountFilesFrom`, `addPvc`, `addEnvVarsFrom`, `addExtraEnvs`, `updatePodWithAppConfig`, container selection: pure operators on a Pod template |
| `AppConfigs` | `mergePluginConfigs`, `setRoute`, `buildBaseUrl`, `updateAppConfigWithBaseUrls`: pure operators on app-configs and the Route |
| `InitObjects` | platform detection, the choice of a configuration (`default-config.go`) and the two passes of `runtime.go` over all the registered objects; composes the four modules above |
| `PodPromises`, `PodSpecProofs` | what the operations on the Pod template promise to the objects that use them one after the other, and the proof of it |
| `InitObjectsInv` | the inductive invariant of `InitObjects` |
| `InitObjectsSteps`, `InitObjectsPod`, `InitObjectsState`, `InitObjectsProofs` | the proofs: types of what is asked for and the effect of each step; the workload, its mounts and arguments; the other objects; the theorems |
| `Manager`, `ManagerProofs` | `cmd/main.go` as far as TLS goes, and the proof |
| `MC...` | instances for TLC |

### ConfigSync

The state is the API server (`store`), the typed informer's cache (`cache`, what
`r.Get` reads), the metadata informer's cache (`meta`, where events come from),
the workqueue, one record per goroutine (`th`: the worker and one handler per
informer) and the workloads (`wl`, with the hash on the Pod template). An object
is its version, its sync label and its backstage-name annotation; the hash is the
sequence of versions that were read.

- `PreprocessSpec(t)` is one step of `preprocessSpec` in goroutine `t`. A step
  handles one reference: an object that is only checked (`CheckExternalObject`),
  one that is marked already (`ReadMarked`), one that has to be marked (`Mark`,
  or `Conflict` with a retry when the cached copy is outdated), one that is
  missing (`NotFound`), a failing call (`MarkFault`, `IngressFault`). Other
  goroutines, users and informers may move between any two steps.
- `StartReconcile`, `ApplyObjects`, `ApplyFault`: the worker takes an instance
  from the queue and, in the end, writes the hash. An error requeues.
- `Deliver`, `FindDeployment`, `RequestByExtConfigLabel`: an event of the
  metadata informer. `EnqueueRequestsFromMapFunc` maps the old and the new object
  of an update, so one event makes up to two calls. Every error in a call loses
  the event.
- `OwnedWorkloadEvent`, `BackstageEvent`: the watches of `SetupWithManager`; the
  second one also stands for the periodic resync.
- `SyncCache`: the typed informer catches up. `Crash`: a restart, which empties
  the queue and the goroutines and announces everything again.
- `CreateObject`, `EditObject`, `ReplaceObject`, `DeleteObject`: users.

The handler compares the new hash with an annotation of the workload object,
while `addToModel` puts the hash on the Pod template: the comparison never finds
them equal, and every event leads to a request. The model has it so.

`PodRefresh` says what this amounts to: Pods only move forward through the
contents of their objects and end up with the present ones. The refinement
mapping (`Promise` in `ConfigSync`) takes `contents` to the versions in `store`
and `applied` to `wl`.

### Reconcile

The state is the resource and its cached copy (`cr`, `crCache`, `crFresh`), the
workqueue, the worker (`wk`, with the copy it works on and the objects still to
apply), the ServiceMonitor, the passwords in the generated and in the user's
Secret, the workloads and their cached copies, and what the running Pods took
from the Secrets. Actions follow `Reconcile` top down: `StartReconcile`,
`ApplyServiceMonitor`, `InitObjects`, `PatchPluginDep` for the dependencies in any
order (`PluginDepFault` for one that fails, which does not stop the others, and
`PluginDepsTried` at the end of the loop), `CreateDbSecret` and `PatchWorkload` in
the order of `RuntimeObjects`, `SetDeploymentStatus`, `UpdateStatus`. `CallFault` is
any failing call before the status update; `StatusFault` a failing status
update, which the code logs and forgets, as it does a conflict. The cluster
starts Pods and makes them fail, and users edit the spec and scale workloads.
Server-side apply is modelled by field ownership of the replica count (`owned`),
which is what idling and waking depend on.

### InitObjects

One behaviour builds one model from one input: the environment variables of the
operator, the cluster, the default configuration with its platform patches, the raw
configuration, the flavours and the spec. Steps are the calls of `addToModel`
(`Add...`) and `updateAndValidate` (`Update...`), in the order of registration; a
call that does nothing in one of the passes has no step. `MergeSource` is one round
of the loop in `mergeDynamicPlugins`. The objects under construction are the Pod
template (`pod`), the plugins (`data`, `enabled`) and the rest (`objects`: the
app-configs, the Secret, Service and StatefulSet of the database, the Route, the
Service and the kind of the workload). Where the code ranges over a Go map the model
takes any order (`SetToSeqs`), and so the order of the flavours and of every
merged list of plugins is open. A step that returns an error ends in `failed`.

A field that may be absent is a set of at most one value, and a URL of a package
is a record of scheme, name, version and path within the image. A path is a
sequence of components. `Labels` gives the RFC 1123 label of the names that are
none. A YAML document is the set of its leaves, each a path of keys with a value, so
that merging two maps level by level is a union in which later leaves displace those
with comparable paths. What Kubernetes makes of a container's variables
(`EffectiveVar`) and where OpenShift serves a Route (`RouteAddress`) are external to
the operator and marked so.

### Manager

The process on OpenShift: `Start` is the platform detection and the creation of a
client, `FetchProfile` and `FetchPolicy` the two calls of `getTLSProfileConfig`,
`StartManager` the set-up of the watcher and `mgr.Start`. The `...Fault` actions are
failing calls, which end the process (`StartFault`, `SetupFault`) or lead to the
fallback. `Watch` is the library's watcher, which compares what it is shown with what
the process took and cancels the context on a difference, `Stop` the end of `main`.
Elsewhere than on OpenShift nothing is read and nothing watched.

## Runs

| Run | Question | Result |
|---|---|---|
| `one` | one instance, a ConfigMap and a Secret, two handlers, a fault, a restart | no change is lost; a refresh that is due is always on its way; data of users is never overwritten; it all implements `PodRefresh`, liveness included |
| `resync` | two instances that share an object, which users may also delete and replace, on OpenShift, with unordered informers, a fault and a restart | the owner is stable, workloads never go back, and the periodic resync repairs every lost change |
| `race` | unordered informers | a change can be lost (until the resync) |
| `lifecycle` | idling, waking, a refused spec, scaling, failing Pods, a restart | the spec is applied, and work that is left is always on its way; the status is accurate and settles; foreign replica counts are kept |
| `database` | local and external database, generated and given Secret, for a StatefulSet, plugin dependencies, a failing call and a failing status update | the spec is applied, Pods and database agree on the generated password, nothing is applied before all the dependencies are |
| `wake` | the status right after waking | it can be `Deployed` with no Pod ready |
| `model` | 6396 inputs for `InitObjects` | plugins, mounts, variables and plugin settings override each other by layer, references are resolved, app-configs are readable and in order, base URLs are those of the Route, database and Backstage share one Secret, dependencies are those of the enabled plugins |
| `flavours` | two flavours that disagree | which one wins is not decided by the spec |
| `mounts` | objects with several files | a file can be left unmounted |
| `installer` | plugins processed by the operator | the installer container gets the image of Backstage |
| `urls` | a default app-config that sets base URLs, plugins processed by the operator | the base URL can be another than the address of the Route |
| `tls` | changes of the TLS settings, failing calls and crashes at any moment | the process never rests on outdated settings and ends up with the present ones |

`race`, `wake`, `flavours`, `mounts`, `installer` and `urls` are expected to
fail; the next section says what they show.

**Bounds.** Two instances, two objects and two handlers give every pair of
goroutines and both kinds of sharing. Versions of contents start at 1 and
`MaxEdits = 2`, so users write once (create, edit, delete or replace), at any step: an
object can change between a read and the patch that carries it, or before an event is
handled. That objects change any number of times is covered by the proofs only. `one` has a single instance: instances that share no watched object do
not interact except through the queue and the handlers, `resync` has two, and
`NoChangeIsLost` is proved for any number. `RetrySteps = 2` (5 in the code) reaches
both a successful and an exhausted retry. One fault and one restart may happen at any
step. In `Reconcile`, two edits give a change and its reversal, two changes of Pods
start the database and Backstage, and two dependencies (which are interchangeable:
symmetry) are the fewest of which one can fail and the other not. `lifecycle` has no
failing call and runs a Deployment, `database` has no restart and runs a StatefulSet;
the proofs have it all together, changes of the kind included. In `Manager`, with three
profiles and two policies, settings can differ from the fallback and from each other in
one or in both, and three changes, three faults and two crashes reach over several
starts of the process. The inputs of `model`
combine what the spec may say of a package (silent, disabled, enabled, not
enabled, with new or empty configuration; by its URL, by `ref://` or by
`{{inherit}}`; once or twice) with three entries of the default configuration and
five choices of flavours, and two ConfigMaps and a Secret of the spec, each
referred to in five ways, with objects of the default configuration at the same
paths. For the variables, one name comes from every source there is, for the main
container, the installer and both; for the database, every spec meets every default
configuration, complete or not; for the Route, a spec with and without host and
subdomain, or none, meets no default Route, one with and one without TLS settings,
app-configs that set base URLs or cannot be decoded, and clusters, on OpenShift or not,
with and without a known domain. Workloads of a kind that is refused and without one of
the containers are among them too.

**Fairness.** The goroutines run, the informers deliver and catch up: weak
fairness of every step of the operator. The workqueue is first in, first out, so
an instance that is requeued again and again cannot keep another one waiting:
strong fairness of `StartReconcile(b)`, which weak fairness would not give since
the instance in the queue is not startable while the worker is busy. The periodic
resync is assumed in `resync` only (controller-runtime's default `SyncPeriod`).
Users, faults, restarts and Pods are not fair. In `Manager` the process runs, its
watch delivers and Kubernetes starts it again when it ends: weak fairness of the
steps of the process, none of changes, faults and crashes.

`CHECK_DEADLOCK FALSE` is set for `Reconcile`, `InitObjects` and `Manager`: a
resource that nobody touches comes to rest, a model is built once, and a process
whose cluster does not change goes on running. In `ConfigSync` the
resync is always possible.

## Where code and documentation disagree

- **A change can be lost (`race`).** The event of an external object comes from
  the metadata informer, the contents from the typed one. If the handler runs
  before the typed informer has the change, it requests a reconcile that reads the
  old contents, and no further event follows. `NoLostRefresh` is also violated
  when users replace or delete objects (`MayReplace`), because the new object lacks
  the label that the watch selects by; and on OpenShift when the ingress domain
  cannot be read, because the handler then drops its call. An update of a marked
  object makes two calls, but one whose old copy is unmarked (the mark and the
  edit arrive as one event) makes a single one, so one failing read is enough. The
  `resync` run shows that the periodic resync repairs lost changes.
- Not a run of its own: the annotation that leads from an object to its instance holds
  one name, and of the instances that refer to an object only the one that marked it
  first hears of changes (`race` with `Backstages = {bs1, bs2}` and `TypedFirst = TRUE`
  violates `NoLostRefresh` too). `resync` has such an object.
- **A premature Deployed (`wake`).** `setDeploymentStatus` reads a cached workload,
  which after waking still has zero replicas, all of them ready.
- **Order of flavours (`flavours`).** They are merged in the order of a Go map,
  not in that of the spec.
- **Files left out (`mounts`).** `mountFilesFrom` appends the mounts of an object
  only if none of them replaced an existing one.
- **The installer's image (`installer`).** `getInitContainer` sets the image of
  Backstage after `addToModel` set the dedicated one.
- Not a run: `docs/monitoring.md:114` says that disabling monitoring cleans up the
  ServiceMonitor, while `applyServiceMonitor` returns at once (`monitor.go:21`).
- Not a run: `docs/db_migration.md:100` says that disabling the local database
  deletes its StatefulSet; no code of the operator deletes an object.
- Not a run: `backstage_types.go:84` says that for a local database a Secret "will be
  auto generated if it does not exist"; `db-secret.go:50` generates one only when no
  name is given, and a named Secret that is missing stays missing.
- Not a run: `default-config.go:135` says that objects of a flavour "are prefixed with
  the flavour name"; `mergeMultiObjectConfigs` adds an annotation and leaves the name,
  so two flavours with objects of one name contribute one object.
- **Base URLs in the wrong file (`urls`).** `route.go:216` calls the first app-config
  the "base config", but when the operator processes the plugins it is the app-config of
  the plugins. The default app-config, in which `docs/configuration.md:282` has the URLs,
  does not get them, and if it sets any itself it is read later and wins. The default
  app-configs that are shipped set none; `model` has those, and the others without
  processing of plugins.
- Not a run, and conditions of `BaseUrlServed`: `buildBaseUrl` looks at the Route of the spec only, so a host in the
  default or raw Route is served and not announced; and when the ingress domain is
  unknown the URLs are set to the empty string. An app-config of the spec whose file
  has the name of a default one is mounted over it, URLs included.
- Not a run, and a condition of `StatusAccurate`: `backstage_controller.go:74` says that
  "the status is always updated". An update that fails is logged and forgotten. After
  a conflict the write that caused it is an event, and the status is made good; after any
  other error nothing follows, and the status stays as it was until the next event.
  `lifecycle` and `StatusIsAccurate` have `MaxStatusFaults = 0`, conflicts only.

## Proofs

Of `ConfigSync` (`ConfigSyncProofs`):

| Theorem | Statement |
|---|---|
| `TypeCorrect` | `Safety => []TypeOK` |
| `WorkloadsNeverRollBack` | `Safety => NoRollback` |
| `SafetyImplementsPodRefresh` | `Safety => Promise!Safety`: the initial states map to initial states, and every step to a step of `PodRefresh` or to none |
| `UserDataIsPreserved` | `Safety => UserDataPreserved` |
| `OwnersAreStable` | `Safety => FirstOwnerWins` |
| `RefreshesStayPending` | `Benign => (Safety => []RefreshPending)` |
| `NoChangeIsLost` | `Benign => (Safety => []NoLostRefresh)` |

They hold for every number of instances, objects, references, handlers, retries,
edits, faults and restarts; the bounds are constants like any other. The assumptions on the constants are those of
`ConstantsAssumption` (types, and that names differ), which TLC evaluates in every
run of `ConfigSync`. `Benign` names the environments in which no change is lost:
synchronisation is on, the typed informer is not behind the metadata informer,
users edit objects in place, the ingress domain is not needed, and no two
instances watch one object. The run `race` and its variants above
show counterexamples without the last four. Without synchronisation the label is
`false`, no event passes the predicate of the watch, and nothing is promised.

**No roll-back.** `NoRollback` is an action property that does not follow from the
types: nothing in the step that writes the hash compares it with the old one. The
invariant `ForwardInv` says that no copy of an object is newer than the object
(`VersionsInv`), that what a workload or the worker holds was read from the
object, so that a cache or an object that exists is at least as new (`ReadFrom`),
and that the worker never holds anything older than the workload it will write.
The last part is inductive because there is one worker: the contents that the
workload carries were read from the same cache, which only moves forward.
Handlers run the same code, but they do not write workloads.

**No lost change.** `NoLostRefresh` speaks of quiescent states only. The inductive
invariant `RefreshInv` has four layers:

1. `MarksInv`: label and annotation appear together, name an instance that watches
   the object, and caches never carry a mark that the object does not have; when
   the metadata informer is up to date, so is the typed one (this is where
   `TypedFirst` enters).
2. `WorkerInv`: what the worker has read in the present reconcile is still there and
   marked, so later events will lead to the instance.
3. `WorkloadsInv`: a workload that does not exist yet is being reconciled, and one
   that exists was made from marked objects and is in the cache or about to be, so
   `FindDeployment` cannot fail for good.
4. `RefreshPending`: if the hash is outdated, a reconcile is on its way (in the
   queue, as an event of the workload, as an event of an object, or in a handler)
   or the worker is at it; and if what the worker holds is outdated too, another
   one is on its way.

The heart of that proof is `NotifiedStep` in `ConfigSyncProofs`: what is on its
way stays on its way until a reconcile starts. A handler that fails drops its
event, but in benign environments it fails only where its copies are behind, and
then another event is due: it tries to mark an object, and so may meet a conflict
or a failing call, only if its copy lacks the mark that the object already has,
and it misses a workload only if the event of the workload is yet to come. `ReadData` then shows that a worker cannot read old contents
without an event being due.

Of `Reconcile` (`ReconcileProofs`), for every set of specs and dependencies and any
number of edits, changes of Pods, faults and restarts:

| Theorem | Statement |
|---|---|
| `TypeCorrect` | `Safety => []TypeOK` |
| `DependenciesAreFirst` | `Safety => []DependenciesFirst` |
| `CredentialsAlwaysMatch` | `Safety => []CredentialsMatch` |
| `ReplicasArePreserved` | `Safety => ReplicasPreserved` |
| `AlwaysConverging` | `Safety => []Converging` |
| `SpecIsApplied` | `Safety => []SpecApplied` |
| `StatusIsAccurate` | `Safety => []StatusAccurate`, if `MaxStatusFaults = 0` |

`DependenciesFirst` needs the loop's account of what it has tried without an error
(`DepsInv`), and `CredentialsMatch` that a generated password, once in the Secret,
is the only one that the database or a Pod can have (`PasswordsInv`).

**The spec is applied.** `SpecApplied` speaks of the moments when there is nothing to
do, and says nothing of the way there. `Converging` does: whenever no reconcile is
asked for (not queued, and no copy outdated, which would bring an event), the one
under way works on the present spec, the objects it has gone through are in line
(`AppliedUpTo`: those of the model before the ones left to do), and if there is none
under way all are. Each action either keeps that or asks for a reconcile: an edit or a
rescaling makes a copy outdated, an error requeues (`ErrorAndStatus`; the mutant that
forgets the error breaks it), a restart enqueues. `CachesInv` says that a copy that
counts as fresh is equal to the original, which is why a reconcile that started on
a fresh copy works on the present spec. `Reporting` is the same for the status; a
status update that is dropped for another reason than a conflict breaks it for good,
hence the assumption.

Of `Manager` (`ManagerProofs`): `TypeCorrect`, `Safety => []TypeOK`, and
`ProfileNeverStale`, `Safety => []NoStaleProfile`, for every set of profiles and policies and any number of changes, faults and crashes. The
invariant is inductive as it stands: the watch shows the watcher what there is when it
starts, so it does not matter when the settings were read, and it compares with what
was taken, so a fallback counts as a difference too.

Of `PodSpec` (`PodSpecProofs`): `PromisesKept`, which is `PodPromise`, for every Pod
template and every sequence of requests. Of `InitObjects` (`InitObjectsProofs`), for
every set of inputs, every default and raw configuration, any flavours and any order in
which the code may go through its maps:

| Theorem | Statement |
|---|---|
| `InvariantKept` | `Spec => []IInv` |
| `TypeCorrect` | `Spec => []TypeOK` |
| `AlwaysWired` | `Spec => []DatabaseWired` |
| `AlwaysOverridden` | `Spec => []LaterMountsOverride` |
| `AlwaysReadable` | `Spec => []AppConfigsReadable` |

The assumptions are that the inputs are of the types of the API and of configuration
files (`InputsAssumption`), that labels are strings (`LabelsAssumption`), and that the
strings the model writes down are strings (`TextsAssumption`, which the provers do not
know of literals). TLC evaluates them in every run of `InitObjects`.

**Loops.** The operations on the Pod are loops, over the requests and within them over
containers, mounts and variables, and the model writes them as folds. `LoopTrace` shows
that such a fold has a trace, the base and then one value after each round, and
`RoundInduction` that what holds of the base and is kept by a round holds at the end;
both rest on the library's least element of a set of numbers and not on its induction
theorems. The operator that is folded cannot be a parameter of the lemma, so `Round`
lists the ones there are. `PodPromises` states the outcome in the terms in which the
properties speak: a file request leaves every path mounted once and for the last that
asked (`Overridden`), keeps mounts resolved and readable files readable; a claim
disturbs only its own path; variables leave mounts alone and add the Secrets that were
asked for and no other.

**The invariant.** Each of the three properties compares the finished template with
all that was asked for, while a step sees the template of the moment. `IInv` therefore
says for every stage (`PodAdded`, `ConfigsServed`, ... in the order of registration)
how much has been served: the first `Served` of the requests `AllAsked` decide what is
mounted (`MountsInv`), the arguments are the default ones before the app-configs are
served and those of the app-configs after (`ArgsInv`), the app-configs are the chosen
ones, then with that of the plugins, then with the base URLs (`AppConfigsInv`), and the
Secrets of which Backstage takes all variables are none before its workload is updated
and include that of the database afterwards (`SecretsInv`). `DbInv` follows the objects
of the database through both passes: the Secret is generated before the Service that it
names is known and gets its host in the second pass. The requests themselves are
functions of the input and of the objects, and `SameAsked` shows that later steps, the
one that adds base URLs included, do not change what is asked for. The proof has one
lemma for what each kind of step does (`StepKinds`) and one for each part of the
invariant. `IInv` was checked with TLC on the inputs of `model` before it was
proved, with `MountsInv` restricted to the paths that are asked for, since TLC cannot
range over all values.

**Only model-checked:**

- the liveness properties (`EventuallyRefreshed`, `StatusSettles`, `ProfileFollowed`,
  the fairness of `PodRefresh` in `ImplementsPodRefresh`), which are out of reach of
  the prover;
- of `InitObjects`, what is said of contents: `LayersOverride`, `ReferencesResolved`
  and `DependenciesLayered` on merges of plugins, `VariablesLayered` on the variables a
  container ends up with, `PluginConfigsMerged` and `BaseUrlServed` on merged YAML
  documents. They need what these merges compute for every input, which would take a
  trace, in the manner of `LoopTrace`, of every fold of `DynamicPlugins` and
  `AppConfigs`, and of the orders in which maps are gone through.

The proofs of `InitObjects` are split over four modules because the prover slows down
over a long module.

## What is not modelled, and why

- Contents: ConfigMaps and Secrets are versions, and so `concatData` never makes
  equal hashes of different contents (it joins keys and values without a
  separator). Names, labels and owner references of the objects are left out, and so
  are the annotations that record where an object comes from.
- `spec.deployment.patch` is merged by a library; its effect on the image of the
  installer container and on the variables of the main container is modelled. An
  empty map in a YAML document has no leaf and is not seen.
- The working directory of the installer container, into which its file is mounted, is
  that of the main container, as in the shipped workloads.
- Deletion and re-creation of the resource: everything it owns goes with it, by the
  garbage collection of Kubernetes.
- The cache filter of `cmd/main.go:261`, which is off by default: with it the typed
  informer sees only objects that users labelled themselves.
- Images of the database that set the password of the Secret again at every start: the
  model has the harder case, a database that keeps the password of its first start.
  `CredentialsMatch` compares generated passwords only.
- The constants of `ConfigSync` do not change while it runs: edits of the
  references in a spec are in `Reconcile` only, and the switches
  `EXT_CONF_SYNC_backstage` and `WATCH_EXT_CONF_backstage` are set when the operator
  starts. The runs have synchronisation switched on.
- An API server that loses writes, several workers and leader election: the manager
  runs one worker per controller, and a restart stands for a change of leader.
- A user's Secret that is missing keeps the Pods from starting (`PodsStart`); no
  property is about it. A status update that fails for another reason than a
  conflict leaves the old status in place until the next event; `lifecycle`
  therefore has none, and `database`, which has one, does not check the status.
- Without a default configuration the plugins of the spec are taken as they are,
  references included (`ReferencesResolved` excludes the case), and of two packages
  with one name a reference means the one listed first, after a merge any of them.
- A claim is mounted even where something is mounted already, and volumes are named
  by labels that may coincide; the API server refuses such Pods. `PodSpec` has both,
  the inputs of `model` have neither.
- Flags, metrics and webhook servers, the ciphers of a TLS profile, generated code, the scripts for building and releasing,
  and the plugin installer, a shell script.

## Plan

What could come next:

1. A composition of `Reconcile` and `ConfigSync` with edits of the references, and a
   variant in which the cache holds labelled objects only.
2. `ExtConfigHash`: the hash over keys and values, against the contents.
3. An abstract specification of the status and its refinement by `Reconcile`.
4. The same for the plugins as for the mounts: what `MergePluginsData` and
   `mergePluginConfigs` promise for every list of layers, and from it `LayersOverride`
   and `PluginConfigsMerged` as theorems.
