------------------------------ MODULE Reconcile ------------------------------
(***************************************************************************)
(* One Backstage resource through BackstageReconciler.Reconcile: what is   *)
(* applied, in which order, and the status that is reported, while the     *)
(* user edits the resource, calls fail, informers lag, Pods come and go    *)
(* and the operator restarts.                                              *)
(*                                                                         *)
(* Of the objects of the runtime model only those with a state of their    *)
(* own are told apart: the generated database Secret (created, never       *)
(* patched), the database StatefulSet, and the workload of Backstage, a    *)
(* Deployment or a StatefulSet.  All others are patched the same way.      *)
(***************************************************************************)
EXTENDS Integers, Sequences

CONSTANTS
  Specs,            \* the specs the user may give the resource
  Deps,             \* the objects enabled plugins may depend on
  Scales,           \* the replica counts users or autoscalers set
  PodsMayFail,      \* ready Pods may become unready
  MaxEdits,         \* bound on the edits of the resource and of replica counts
  MaxPodChanges,    \* bound on the changes of readiness
  MaxFaults,        \* bound on the failing calls that make Reconcile return early
  MaxStatusFaults,  \* bound on the failing updates of the status
  MaxCrashes        \* bound on the restarts of the operator

Kinds == {"Deployment", "StatefulSet"}

\* idle: the annotation; auth: database.authSecretName is given; kind: that of
\* the deployment config; deps: the objects its enabled plugins depend on;
\* valid: InitObjects accepts the spec.
Spec == [idle : BOOLEAN, localDb : BOOLEAN, auth : BOOLEAN, monitoring : BOOLEAN,
         kind : Kinds, deps : SUBSET Deps, valid : BOOLEAN]

ASSUME ConstantsAssumption ==
  /\ Specs \subseteq Spec /\ Specs # {}
  /\ Scales \subseteq Nat
  /\ PodsMayFail \in BOOLEAN
  /\ MaxEdits \in Nat /\ MaxPodChanges \in Nat
  /\ MaxFaults \in Nat /\ MaxStatusFaults \in Nat /\ MaxCrashes \in Nat

VARIABLES
  cr,         \* the resource in the API server: its spec and its status
  crCache,    \* the informer's copy
  crFresh,    \* the copy has the resource's present resourceVersion
  queued,     \* the resource is in the workqueue
  wk,         \* the worker, with the copy of the resource it works on, the
              \* dependencies it has left to try and the objects to apply
  monitor,    \* the ServiceMonitor exists
  deps,       \* the plugin dependencies that exist
  password,   \* password.own, password.user: in the Secrets (0: no such Secret)
  wls,        \* the workloads in the API server
  wlCache,    \* the informer's copies
  wlFresh,    \* which of the copies have the present resourceVersion
  dbPassword, \* the password the database was initialised with (0: never was)
  podPassword,\* the password the Pods of each workload started with
  edits, podChanges, faults, statusFaults, crashes

crVars  == <<cr, crCache, crFresh>>
wlVars  == <<wls, wlCache, wlFresh>>
podVars == <<dbPassword, podPassword, podChanges>>
vars == <<cr, crCache, crFresh, queued, wk, monitor, deps, password, wls, wlCache,
          wlFresh, dbPassword, podPassword, edits, podChanges, faults, statusFaults, crashes>>

Workloads == Kinds \cup {"Db"}
Reasons   == {"None", "DeployInProgress", "Deployed", "DeployFailed", "Idled"}
Secrets   == {"none", "own", "user"}
Workload  == [exists : BOOLEAN, replicas : Nat, owned : BOOLEAN, ready : Nat,
              trouble : BOOLEAN, secret : Secrets]
NoWorkload == [exists |-> FALSE, replicas |-> 0, owned |-> FALSE, ready |-> 0,
               trouble |-> FALSE, secret |-> "none"]
Resource  == [spec : Specs, status : Reasons]
Pcs       == {"idle", "monitor", "init", "deps", "apply", "status"}
Worker    == [pc : Pcs, bs : Resource, fresh : BOOLEAN, err : BOOLEAN,
              left : SUBSET Deps, todo : Seq(Workloads \cup {"DbSecret"})]

TypeOK ==
  /\ cr \in Resource /\ crCache \in Resource /\ crFresh \in BOOLEAN
  /\ queued \in BOOLEAN /\ wk \in Worker
  /\ monitor \in BOOLEAN /\ deps \subseteq Deps
  /\ password \in [{"own", "user"} -> Nat]
  /\ wls \in [Workloads -> Workload] /\ wlCache \in [Workloads -> Workload]
  /\ wlFresh \in [Workloads -> BOOLEAN]
  /\ dbPassword \in Nat /\ podPassword \in [Kinds -> Nat]
  /\ edits \in Nat /\ podChanges \in Nat
  /\ faults \in Nat /\ statusFaults \in Nat /\ crashes \in Nat

UserPassword == 1        \* in the user's Secret; the generated ones are larger
Generated == dbPassword + 2

NoResource == [spec |-> CHOOSE s \in Specs : TRUE, status |-> "None"]
IdleWorker == [pc |-> "idle", bs |-> NoResource, fresh |-> FALSE, err |-> FALSE, left |-> {},
               todo |-> <<>>]

Init ==
  /\ \E s \in Specs : cr = [spec |-> s, status |-> "None"]
  /\ crCache = cr /\ crFresh = TRUE
  /\ queued = TRUE
  /\ wk = IdleWorker
  /\ monitor = FALSE /\ deps = {}
  /\ \E p \in IF \E s \in Specs : s.auth THEN {0, UserPassword} ELSE {0} :
       password = [own |-> 0, user |-> p]
  /\ wls = [w \in Workloads |-> NoWorkload]
  /\ wlCache = wls /\ wlFresh = [w \in Workloads |-> TRUE]
  /\ dbPassword = 0 /\ podPassword = [k \in Kinds |-> 0]
  /\ edits = 0 /\ podChanges = 0 /\ faults = 0 /\ statusFaults = 0 /\ crashes = 0

-----------------------------------------------------------------------------
(* The runtime model                                                        *)

\* Mutant: an empty name instead of none.
EmptyAuthSecret(s) == IF s.auth THEN "user" ELSE IF s.localDb THEN "own" ELSE ""

\* Which Secret the database and Backstage take the credentials from.
AuthSecret(s) == IF s.auth THEN "user" ELSE IF s.localDb THEN "own" ELSE "none"

\* Mutant: no local database when the Secret is the user's.
RuntimeObjectsNoDb(s) ==
  IF s.localDb /\ ~s.auth THEN <<"DbSecret", "Db", s.kind>> ELSE <<s.kind>>

\* GetRuntimeObjects, in the order of registration.
RuntimeObjects(s) ==
  IF ~s.localDb THEN <<s.kind>>
  ELSE IF s.auth THEN <<"Db", s.kind>>
  ELSE <<"DbSecret", "Db", s.kind>>

\* Mutant: the replica count is part of the manifest.
AppliedReplicas(w, s) ==
  [wls[w] EXCEPT !.exists = TRUE, !.replicas = IF s.idle THEN 0 ELSE 1,
                 !.owned = s.idle, !.secret = AuthSecret(s)]

\* Server-side apply of a workload.  The manifests leave the replica count out,
\* so the operator owns that field only while the instance is idled, and the
\* count returns to the default of 1 when the operator gives it up.
Applied(w, s) ==
  [wls[w] EXCEPT !.exists = TRUE,
                 !.replicas = IF s.idle THEN 0
                              ELSE IF ~wls[w].exists \/ wls[w].owned THEN 1
                              ELSE @,
                 !.owned = s.idle,
                 !.secret = AuthSecret(s)]

\* A write of a workload; one that changes nothing makes no event.
WriteWorkload(w, new) ==
  /\ wls' = [wls EXCEPT ![w] = new]
  /\ wlFresh' = [wlFresh EXCEPT ![w] = @ /\ new = wls[w]]

\* deploymentState and statefulSetState; trouble is a ReplicaFailure condition of
\* a Deployment, an unfinished rollout of a StatefulSet.
DeploymentState(d) ==
  IF d.ready = d.replicas THEN "Deployed"
  ELSE IF d.trouble THEN "DeployFailed" ELSE "DeployInProgress"

StatefulSetState(d) ==
  IF d.ready = d.replicas /\ ~d.trouble THEN "Deployed" ELSE "DeployInProgress"

\* setDeploymentStatus, given the workloads it looks at.
DeploymentStatus(s, found) ==
  IF ~found[s.kind].exists THEN "DeployFailed"
  ELSE IF s.idle THEN "Idled"
  ELSE IF s.kind = "StatefulSet" THEN StatefulSetState(found[s.kind])
  ELSE DeploymentState(found[s.kind])

-----------------------------------------------------------------------------
(* Reconcile                                                                *)

StartReconcile ==
  /\ queued /\ wk.pc = "idle"
  /\ queued' = FALSE
  /\ wk' = [pc |-> "monitor", fresh |-> crFresh, err |-> FALSE, left |-> {}, todo |-> <<>>,
            bs |-> IF crCache.status = "None"
                   THEN [crCache EXCEPT !.status = "DeployInProgress"]
                   ELSE crCache]
  /\ UNCHANGED <<crVars, monitor, deps, password, wlVars, podVars, edits, faults, statusFaults, crashes>>

\* Mutants: the error is not returned; the status is not set.
StatusOnly ==
  wk' = [wk EXCEPT !.pc = "status", !.bs.status = "DeployFailed", !.todo = <<>>]
ErrorOnly ==
  wk' = [wk EXCEPT !.pc = "status", !.err = TRUE, !.todo = <<>>]

\* errorAndStatus: Reconcile returns early, by way of the deferred status update.
ErrorAndStatus ==
  wk' = [wk EXCEPT !.pc = "status", !.bs.status = "DeployFailed", !.err = TRUE, !.todo = <<>>]

\* Any call of preprocessSpec, applyServiceMonitor, GetPluginDeps or applyObjects
\* may fail.
CallFault ==
  /\ wk.pc \in {"monitor", "init", "apply"}
  /\ faults < MaxFaults
  /\ faults' = faults + 1
  /\ ErrorAndStatus
  /\ UNCHANGED <<crVars, queued, monitor, deps, password, wlVars, podVars, edits, statusFaults, crashes>>

\* preprocessSpec succeeds, and applyServiceMonitor.
ApplyServiceMonitor ==
  /\ wk.pc = "monitor"
  /\ monitor' = (monitor \/ wk.bs.spec.monitoring)
  /\ wk' = [wk EXCEPT !.pc = "init"]
  /\ UNCHANGED <<crVars, queued, deps, password, wlVars, podVars, edits, faults, statusFaults, crashes>>

\* The dependencies come before the objects of the model.
InitObjects ==
  /\ wk.pc = "init"
  /\ IF ~wk.bs.spec.valid THEN ErrorAndStatus
     ELSE IF wk.bs.spec.deps # {} THEN wk' = [wk EXCEPT !.pc = "deps", !.left = wk.bs.spec.deps]
     ELSE wk' = [wk EXCEPT !.pc = "apply", !.todo = RuntimeObjects(wk.bs.spec)]
  /\ UNCHANGED <<crVars, queued, monitor, deps, password, wlVars, podVars, edits, faults, statusFaults, crashes>>

\* Mutant: the error of one is forgotten when the next succeeds.
PatchForgetsError(d) ==
  /\ wk.pc = "deps" /\ d \in wk.left
  /\ deps' = deps \cup {d}
  /\ wk' = [wk EXCEPT !.left = @ \ {d}, !.err = FALSE]
  /\ UNCHANGED <<crVars, queued, monitor, password, wlVars, podVars, edits, faults, statusFaults, crashes>>

\* applyPluginDeps: each is tried, whether or not others fail.
PatchPluginDep(d) ==
  /\ wk.pc = "deps" /\ d \in wk.left
  /\ deps' = deps \cup {d}
  /\ wk' = [wk EXCEPT !.left = @ \ {d}]
  /\ UNCHANGED <<crVars, queued, monitor, password, wlVars, podVars, edits, faults, statusFaults, crashes>>

PluginDepFault(d) ==
  /\ wk.pc = "deps" /\ d \in wk.left
  /\ faults < MaxFaults
  /\ faults' = faults + 1
  /\ wk' = [wk EXCEPT !.left = @ \ {d}, !.err = TRUE]
  /\ UNCHANGED <<crVars, queued, monitor, deps, password, wlVars, podVars, edits, statusFaults, crashes>>

\* combineErrors.
PluginDepsTried ==
  /\ wk.pc = "deps" /\ wk.left = {}
  /\ IF wk.err THEN ErrorAndStatus
     ELSE wk' = [wk EXCEPT !.pc = "apply", !.todo = RuntimeObjects(wk.bs.spec)]
  /\ UNCHANGED <<crVars, queued, monitor, deps, password, wlVars, podVars, edits, faults, statusFaults, crashes>>

\* Mutant: the Secret is patched like the other objects.
PatchDbSecret ==
  /\ wk.pc = "apply" /\ wk.todo # <<>> /\ Head(wk.todo) = "DbSecret"
  /\ password' = [password EXCEPT !.own = Generated]
  /\ wk' = [wk EXCEPT !.todo = Tail(@)]
  /\ UNCHANGED <<crVars, queued, monitor, deps, wlVars, podVars, edits, faults, statusFaults, crashes>>

\* applyPayload of an immutable object: Create, where AlreadyExists is no error.
\* updateAndValidate made a new password for it, not the database's.
CreateDbSecret ==
  /\ wk.pc = "apply" /\ wk.todo # <<>> /\ Head(wk.todo) = "DbSecret"
  /\ password' = [password EXCEPT !.own = IF @ = 0 THEN Generated ELSE @]
  /\ wk' = [wk EXCEPT !.todo = Tail(@)]
  /\ UNCHANGED <<crVars, queued, monitor, deps, wlVars, podVars, edits, faults, statusFaults, crashes>>

\* applyPayload of the others: Patch.
PatchWorkload ==
  /\ wk.pc = "apply" /\ wk.todo # <<>> /\ Head(wk.todo) \in Workloads
  /\ WriteWorkload(Head(wk.todo), Applied(Head(wk.todo), wk.bs.spec))
  /\ wk' = [wk EXCEPT !.todo = Tail(@)]
  /\ UNCHANGED <<crVars, queued, monitor, deps, password, wlCache, podVars, edits, faults, statusFaults, crashes>>

\* The workload is read from the cache, which may not have the patch yet.
SetDeploymentStatus ==
  /\ wk.pc = "apply" /\ wk.todo = <<>>
  /\ wk' = [wk EXCEPT !.pc = "status",
                      !.bs.status = DeploymentStatus(wk.bs.spec, wlCache)]
  /\ UNCHANGED <<crVars, queued, monitor, deps, password, wlVars, podVars, edits, faults, statusFaults, crashes>>

\* Reconcile returns; an error puts the resource back into the queue.
Return ==
  /\ queued' = (queued \/ wk.err)
  /\ wk' = IdleWorker

\* The deferred update: a conflict is logged and forgotten.
UpdateStatus ==
  /\ wk.pc = "status"
  /\ IF wk.fresh /\ cr.status # wk.bs.status
     THEN cr' = [cr EXCEPT !.status = wk.bs.status] /\ crFresh' = FALSE
     ELSE UNCHANGED <<cr, crFresh>>
  /\ Return
  /\ UNCHANGED <<crCache, monitor, deps, password, wlVars, podVars, edits, faults, statusFaults, crashes>>

\* And so is any other error.
StatusFault ==
  /\ wk.pc = "status"
  /\ statusFaults < MaxStatusFaults
  /\ statusFaults' = statusFaults + 1
  /\ Return
  /\ UNCHANGED <<crVars, monitor, deps, password, wlVars, podVars, edits, faults, crashes>>

-----------------------------------------------------------------------------
(* The watches, and restarts                                                *)

\* For(): an event of the resource.
BackstageEvent ==
  /\ ~crFresh
  /\ crCache' = cr /\ crFresh' = TRUE /\ queued' = TRUE
  /\ UNCHANGED <<cr, wk, monitor, deps, password, wlVars, podVars, edits, faults, statusFaults, crashes>>

\* Mutant: the workload is not owned.
UnownedWorkloadEvent(w) ==
  /\ ~wlFresh[w]
  /\ wlCache' = [wlCache EXCEPT ![w] = wls[w]] /\ wlFresh' = [wlFresh EXCEPT ![w] = TRUE]
  /\ UNCHANGED <<crVars, queued, wk, monitor, deps, password, wls, podVars, edits, faults, statusFaults, crashes>>

\* Owns(): an event of a workload.
WorkloadEvent(w) ==
  /\ ~wlFresh[w]
  /\ wlCache' = [wlCache EXCEPT ![w] = wls[w]] /\ wlFresh' = [wlFresh EXCEPT ![w] = TRUE]
  /\ queued' = TRUE
  /\ UNCHANGED <<crVars, wk, monitor, deps, password, wls, podVars, edits, faults, statusFaults, crashes>>

Crash ==
  /\ crashes < MaxCrashes
  /\ crashes' = crashes + 1
  /\ crCache' = cr /\ crFresh' = TRUE /\ wlCache' = wls
  /\ wlFresh' = [w \in Workloads |-> TRUE]
  /\ queued' = TRUE
  /\ wk' = IdleWorker
  /\ UNCHANGED <<cr, monitor, deps, password, wls, podVars, edits, faults, statusFaults>>

-----------------------------------------------------------------------------
(* The user and the cluster                                                 *)

EditSpec(s) ==
  /\ s # cr.spec
  /\ edits < MaxEdits
  /\ edits' = edits + 1
  /\ cr' = [cr EXCEPT !.spec = s]
  /\ crFresh' = FALSE
  /\ wk' = [wk EXCEPT !.fresh = FALSE]
  /\ UNCHANGED <<crCache, queued, monitor, deps, password, wlVars, podVars, faults, statusFaults, crashes>>

\* Someone else sets the replica count, and owns that field from then on.
Scale(w, n) ==
  /\ wls[w].exists /\ wls[w].replicas # n
  /\ edits < MaxEdits
  /\ edits' = edits + 1
  /\ WriteWorkload(w, [wls[w] EXCEPT !.replicas = n, !.owned = FALSE])
  /\ UNCHANGED <<crVars, queued, wk, monitor, deps, password, wlCache, podVars, faults, statusFaults, crashes>>

\* Pods start once their Secret exists.  Credentials come from the environment;
\* the database may keep the password of its first start (PostgreSQL only uses it
\* for an empty data directory, where the image does not set it again).
PodsStart(w) ==
  LET secret == wls[w].secret
      pw == IF secret = "none" THEN 0 ELSE password[secret]
  IN
  /\ wls[w].exists /\ (wls[w].ready # wls[w].replicas \/ wls[w].trouble)
  /\ wls[w].replicas = 0 \/ secret = "none" \/ pw # 0
  /\ podChanges < MaxPodChanges
  /\ podChanges' = podChanges + 1
  /\ WriteWorkload(w, [wls[w] EXCEPT !.ready = wls[w].replicas, !.trouble = FALSE])
  /\ dbPassword' = IF w = "Db" /\ wls[w].replicas > 0 /\ dbPassword = 0 THEN pw ELSE dbPassword
  /\ podPassword' = IF w # "Db" /\ wls[w].replicas > 0
                    THEN [podPassword EXCEPT ![w] = pw] ELSE podPassword
  /\ UNCHANGED <<crVars, queued, wk, monitor, deps, password, wlCache, edits, faults, statusFaults, crashes>>

PodsFail(w) ==
  /\ PodsMayFail
  /\ wls[w].exists /\ ~wls[w].trouble
  /\ podChanges < MaxPodChanges
  /\ podChanges' = podChanges + 1
  /\ WriteWorkload(w, [wls[w] EXCEPT !.ready = 0, !.trouble = TRUE])
  /\ UNCHANGED <<crVars, queued, wk, monitor, deps, password, wlCache, dbPassword, podPassword,
                 edits, faults, statusFaults, crashes>>

-----------------------------------------------------------------------------
Step ==
  \/ ApplyServiceMonitor
  \/ InitObjects
  \/ \E d \in Deps : PatchPluginDep(d)
  \/ PluginDepsTried
  \/ CreateDbSecret
  \/ PatchWorkload
  \/ SetDeploymentStatus
  \/ UpdateStatus

Next ==
  \/ StartReconcile \/ Step \/ CallFault \/ StatusFault \/ (\E d \in Deps : PluginDepFault(d))
  \/ BackstageEvent \/ \E w \in Workloads : WorkloadEvent(w)
  \/ Crash
  \/ \E s \in Specs : EditSpec(s)
  \/ \E w \in Workloads, n \in Scales : Scale(w, n)
  \/ \E w \in Workloads : PodsStart(w) \/ PodsFail(w)

\* The worker runs and the informers deliver.
Fairness ==
  /\ WF_vars(StartReconcile) /\ WF_vars(Step)
  /\ WF_vars(BackstageEvent)
  /\ \A w \in Workloads : WF_vars(WorkloadEvent(w))

Safety == Init /\ [][Next]_vars
FairSpec == Safety /\ Fairness

-----------------------------------------------------------------------------
(* Properties                                                               *)

Quiescent == ~queued /\ wk.pc = "idle" /\ crFresh /\ \A w \in Workloads : wlFresh[w]

\* What the spec asks of a workload is there: it takes its credentials from the
\* right Secret, and it is scaled to zero exactly when the operator holds it idle.
Conforms(w, s) ==
  /\ wls[w].exists
  /\ wls[w].secret = AuthSecret(s)
  /\ wls[w].owned = s.idle
  /\ s.idle => wls[w].replicas = 0

\* When the operator has nothing left to do, applyObjects has brought the
\* workload and the local database in line with the present spec, whatever
\* failed, restarted or was edited or rescaled half way.
SpecApplied ==
  Quiescent => /\ Conforms(cr.spec.kind, cr.spec)
               /\ cr.spec.localDb => Conforms("Db", cr.spec)
               /\ cr.spec.localDb /\ ~cr.spec.auth => password.own # 0
               /\ cr.spec.deps \subseteq deps

\* Objects of the model are only applied when everything their plugins depend
\* on is there: one dependency that could not be created holds them all back,
\* though the others are created (applyPluginDeps, combineErrors).
DependenciesFirst == wk.pc = "apply" => wk.bs.spec.deps \subseteq deps

\* When the operator has nothing left to do, the status says what the present
\* spec and the present workload call for (Reconcile reads both from caches and
\* swallows conflicts of the status update).
StatusAccurate == Quiescent => cr.status = DeploymentStatus(cr.spec, wls)

\* Pods that use the generated Secret have the password that the database was
\* initialised with, if that was a generated one: updateAndValidate makes a new
\* password in every reconcile, and only the first may ever reach the cluster.
CredentialsMatch ==
  \A k \in Kinds :
    podPassword[k] > UserPassword /\ dbPassword > UserPassword
      => podPassword[k] = dbPassword

\* Reconcile leaves a replica count alone that somebody else owns, unless the
\* instance is idled (the manifests omit replicas "to allow HPA").
ReplicasPreserved ==
  [][\A w \in Workloads :
       wls[w].exists /\ ~wls[w].owned /\ edits' = edits /\ ~wk.bs.spec.idle
         => wls'[w].replicas = wls[w].replicas]_vars

\* Once edits, faults and Pods come to rest, the status gets accurate and stays
\* so; a spec that InitObjects refuses is reported as failed.
StatusSettles ==
  <>[](cr.status = IF cr.spec.valid THEN DeploymentStatus(cr.spec, wls) ELSE "DeployFailed")

\* docs/design.md:92: Deployed means that the "application is available".
DeployedIsAvailable ==
  [][cr.status # "Deployed" /\ cr'.status = "Deployed" => wls[cr.spec.kind].ready > 0]_vars
=============================================================================
