-------------------------- MODULE ReconcileProofs --------------------------
(***************************************************************************)
(* Proofs about Reconcile, for every set of specs, dependencies and scales *)
(* and without bounds on edits, faults and restarts.                       *)
(***************************************************************************)
EXTENDS ReconcileInv, TLAPS

-----------------------------------------------------------------------------
(* The objects of a spec                                                    *)

\* Every object is of a kind that applyPayload knows.
LEMMA RuntimeObjectsType ==
  ASSUME NEW s \in Spec
  PROVE  RuntimeObjects(s) \in Seq(Workloads \cup {"DbSecret"})
<1>. DEFINE O == Workloads \cup {"DbSecret"}
<1>1. "DbSecret" \in O /\ "Db" \in O /\ s.kind \in O
  BY DEF Spec, Workloads
<1>. HIDE DEF O
<1>2. <<s.kind>> \in Seq(O) /\ <<"Db", s.kind>> \in Seq(O) /\ <<"DbSecret", "Db", s.kind>> \in Seq(O)
  BY <1>1
<1>. QED BY <1>2 DEF RuntimeObjects, O

-----------------------------------------------------------------------------
(* Types                                                                    *)

\* A write by WriteWorkload keeps the types of the workloads.
LEMMA WriteType ==
  ASSUME TypeOK, NEW w \in Workloads, NEW new \in Workload, WriteWorkload(w, new)
  PROVE  wls' \in [Workloads -> Workload] /\ wlFresh' \in [Workloads -> BOOLEAN]
BY DEF WriteWorkload, TypeOK

\* What is applied is a workload.
LEMMA AppliedType ==
  ASSUME TypeOK, NEW w \in Workloads, NEW s \in Spec
  PROVE  Applied(w, s) \in Workload
<1>. DEFINE n == IF s.idle THEN 0 ELSE IF ~wls[w].exists \/ wls[w].owned THEN 1 ELSE wls[w].replicas
<1>1. wls[w] \in Workload
  BY DEF TypeOK
<1>2. n \in Nat
  BY <1>1 DEF Workload
<1>3. AuthSecret(s) \in Secrets
  BY DEF AuthSecret, Secrets
<1>4. s.idle \in BOOLEAN
  BY DEF Spec
<1>5. Applied(w, s) = [wls[w] EXCEPT !.exists = TRUE, !.replicas = n, !.owned = s.idle, !.secret = AuthSecret(s)]
  BY DEF Applied
<1>. HIDE DEF n
<1>. QED BY <1>1, <1>2, <1>3, <1>4, <1>5 DEF Workload

\* deploymentState and statefulSetState give reasons that the status may have.
LEMMA StatusType ==
  ASSUME NEW s, NEW f
  PROVE  DeploymentStatus(s, f) \in Reasons
BY DEF DeploymentStatus, StatefulSetState, DeploymentState, Reasons

\* There is a spec for the worker's placeholder.
LEMMA IdleType == IdleWorker \in Worker
<1>1. NoResource \in Resource
  BY ConstantsAssumption DEF NoResource, Resource, Reasons
<1>. QED BY <1>1 DEF IdleWorker, Worker, Pcs

\* errorAndStatus leaves a well-formed worker.
LEMMA ErrorType ==
  ASSUME TypeOK, ErrorAndStatus
  PROVE  wk' \in Worker
<1>1. wk \in Worker /\ wk.bs \in Resource
  BY DEF TypeOK, Worker
<1>2. [wk.bs EXCEPT !.status = "DeployFailed"] \in Resource
  BY <1>1 DEF Resource, Reasons
<1>3. wk' = [wk EXCEPT !.pc = "status", !.bs = [wk.bs EXCEPT !.status = "DeployFailed"], !.err = TRUE, !.todo = <<>>]
  BY <1>1 DEF ErrorAndStatus, Worker, Resource
<1>4. <<>> \in Seq(Workloads \cup {"DbSecret"}) /\ "status" \in Pcs
  BY DEF Pcs
<1>. QED BY <1>1, <1>2, <1>3, <1>4 DEF Worker

\* The worker's copy of the resource has a spec, and its list of objects stays one.
LEMMA WorkerParts ==
  ASSUME TypeOK
  PROVE  /\ wk \in Worker /\ wk.bs \in Resource /\ wk.bs.spec \in Spec
         /\ cr.spec \in Spec /\ cr \in Resource /\ crCache \in Resource
BY ConstantsAssumption DEF TypeOK, Worker, Resource

\* errorAndStatus goes to the deferred update with the error.
LEMMA ErrorParts ==
  ASSUME TypeOK, ErrorAndStatus
  PROVE  wk'.pc = "status" /\ wk'.err /\ wk'.fresh = wk.fresh
BY WorkerParts DEF ErrorAndStatus, Worker

\* setDeploymentStatus only sets the status of the worker's copy.
LEMMA StatusParts ==
  ASSUME TypeOK, SetDeploymentStatus
  PROVE  /\ wk'.pc = "status" /\ wk'.err = wk.err /\ wk'.fresh = wk.fresh
         /\ wk'.bs.status = DeploymentStatus(wk.bs.spec, wlCache)
BY WorkerParts DEF SetDeploymentStatus, Worker, Resource

\* Every step keeps the types.
LEMMA TypeStep ==
  ASSUME TypeOK, [Next]_vars
  PROVE  TypeOK'
<1>. USE WorkerParts
<1>1. CASE StartReconcile
  <2>1. [crCache EXCEPT !.status = "DeployInProgress"] \in Resource
    BY DEF Resource, Reasons
  <2>2. wk' \in Worker
    BY <1>1, <2>1 DEF StartReconcile, Worker, Pcs, TypeOK
  <2>. QED BY <1>1, <2>2 DEF StartReconcile, TypeOK, crVars, wlVars, podVars
<1>2. CASE ApplyServiceMonitor
  <2>1. wk' \in Worker /\ monitor' \in BOOLEAN
    BY <1>2 DEF ApplyServiceMonitor, Worker, Pcs
  <2>. QED BY <1>2, <2>1 DEF ApplyServiceMonitor, TypeOK, crVars, wlVars, podVars
<1>3. CASE InitObjects
  <2>1. RuntimeObjects(wk.bs.spec) \in Seq(Workloads \cup {"DbSecret"})
    BY RuntimeObjectsType
  <2>2. wk.bs.spec.deps \in SUBSET Deps
    BY DEF Spec
  <2>3. wk' \in Worker
    BY <1>3, <2>1, <2>2, ErrorType DEF InitObjects, Worker, Pcs
  <2>. QED BY <1>3, <2>3 DEF InitObjects, TypeOK, crVars, wlVars, podVars
<1>4. ASSUME NEW d \in Deps, PatchPluginDep(d) PROVE TypeOK'
  <2>1. wk' \in Worker
    BY <1>4 DEF PatchPluginDep, Worker
  <2>. QED BY <1>4, <2>1 DEF PatchPluginDep, TypeOK, crVars, wlVars, podVars
<1>5. CASE PluginDepsTried
  <2>1. RuntimeObjects(wk.bs.spec) \in Seq(Workloads \cup {"DbSecret"})
    BY RuntimeObjectsType
  <2>2. wk' \in Worker
    BY <1>5, <2>1, ErrorType DEF PluginDepsTried, Worker, Pcs
  <2>. QED BY <1>5, <2>2 DEF PluginDepsTried, TypeOK, crVars, wlVars, podVars
<1>6. CASE CreateDbSecret
  <2>1. wk' \in Worker
    <3>1. wk.todo \in Seq(Workloads \cup {"DbSecret"}) /\ wk.todo # <<>>
      BY <1>6 DEF CreateDbSecret, Worker
    <3>2. Tail(wk.todo) \in Seq(Workloads \cup {"DbSecret"})
      BY <3>1
    <3>. QED BY <1>6, <3>2 DEF CreateDbSecret, Worker
  <2>2. password' \in [{"own", "user"} -> Nat]
    BY <1>6 DEF CreateDbSecret, TypeOK, Generated
  <2>. QED BY <1>6, <2>1, <2>2 DEF CreateDbSecret, TypeOK, crVars, wlVars, podVars
<1>7. CASE PatchWorkload
  <2>1. wk' \in Worker
    <3>1. wk.todo \in Seq(Workloads \cup {"DbSecret"}) /\ wk.todo # <<>>
      BY <1>7 DEF PatchWorkload, Worker
    <3>2. Tail(wk.todo) \in Seq(Workloads \cup {"DbSecret"})
      BY <3>1
    <3>. QED BY <1>7, <3>2 DEF PatchWorkload, Worker
  <2>2. wls' \in [Workloads -> Workload] /\ wlFresh' \in [Workloads -> BOOLEAN]
    BY <1>7, WriteType, AppliedType DEF PatchWorkload
  <2>. QED BY <1>7, <2>1, <2>2 DEF PatchWorkload, TypeOK, crVars, podVars
<1>8. CASE SetDeploymentStatus
  <2>1. DeploymentStatus(wk.bs.spec, wlCache) \in Reasons
    BY StatusType
  <2>2. [wk.bs EXCEPT !.status = DeploymentStatus(wk.bs.spec, wlCache)] \in Resource
    BY <2>1 DEF Resource
  <2>3. wk' = [wk EXCEPT !.pc = "status", !.bs = [wk.bs EXCEPT !.status = DeploymentStatus(wk.bs.spec, wlCache)]]
    BY <1>8 DEF SetDeploymentStatus, Worker, Resource
  <2>4. wk' \in Worker
    BY <2>2, <2>3 DEF Worker, Pcs
  <2>. QED BY <1>8, <2>4 DEF SetDeploymentStatus, TypeOK, crVars, wlVars, podVars
<1>9. CASE UpdateStatus
  <2>1. wk' \in Worker /\ queued' \in BOOLEAN
    BY <1>9, IdleType DEF UpdateStatus, Return
  <2>2. [cr EXCEPT !.status = wk.bs.status] \in Resource
    BY DEF Resource
  <2>3. cr' \in Resource
    BY <1>9, <2>2 DEF UpdateStatus
  <2>4. crFresh' \in BOOLEAN
    BY <1>9 DEF UpdateStatus, TypeOK
  <2>. QED BY <1>9, <2>1, <2>3, <2>4 DEF UpdateStatus, TypeOK, wlVars, podVars
<1>10. CASE CallFault
  BY <1>10, ErrorType DEF CallFault, TypeOK, crVars, wlVars, podVars
<1>11. CASE StatusFault
  BY <1>11, IdleType DEF StatusFault, Return, TypeOK, crVars, wlVars, podVars
<1>12. ASSUME NEW d \in Deps, PluginDepFault(d) PROVE TypeOK'
  <2>1. wk' \in Worker
    BY <1>12 DEF PluginDepFault, Worker
  <2>. QED BY <1>12, <2>1 DEF PluginDepFault, TypeOK, crVars, wlVars, podVars
<1>13. CASE BackstageEvent
  BY <1>13 DEF BackstageEvent, TypeOK, wlVars, podVars
<1>14. ASSUME NEW w \in Workloads, WorkloadEvent(w) PROVE TypeOK'
  BY <1>14 DEF WorkloadEvent, TypeOK, crVars, podVars
<1>15. CASE Crash
  BY <1>15, IdleType DEF Crash, TypeOK, podVars
<1>16. ASSUME NEW s \in Specs, EditSpec(s) PROVE TypeOK'
  <2>1. wk' \in Worker
    BY <1>16 DEF EditSpec, Worker
  <2>2. cr' \in Resource
    BY <1>16 DEF EditSpec, Resource
  <2>3. crFresh' \in BOOLEAN
    BY <1>16, Zenon DEF EditSpec
  <2>4. edits' \in Nat
    BY <1>16 DEF EditSpec, TypeOK
  <2>. QED BY <1>16, <2>1, <2>2, <2>3, <2>4 DEF EditSpec, TypeOK, wlVars, podVars
<1>17. ASSUME NEW w \in Workloads, NEW n \in Scales, Scale(w, n) PROVE TypeOK'
  <2>1. [wls[w] EXCEPT !.replicas = n, !.owned = FALSE] \in Workload
    BY ConstantsAssumption DEF TypeOK, Workload
  <2>2. wls' \in [Workloads -> Workload] /\ wlFresh' \in [Workloads -> BOOLEAN]
    BY <1>17, <2>1, WriteType DEF Scale
  <2>. QED BY <1>17, <2>2 DEF Scale, TypeOK, crVars, podVars
<1>18. ASSUME NEW w \in Workloads, PodsStart(w) PROVE TypeOK'
  <2>. DEFINE pw == IF wls[w].secret = "none" THEN 0 ELSE password[wls[w].secret]
  <2>1. [wls[w] EXCEPT !.ready = wls[w].replicas, !.trouble = FALSE] \in Workload
    BY DEF TypeOK, Workload
  <2>2. wls' \in [Workloads -> Workload] /\ wlFresh' \in [Workloads -> BOOLEAN]
    BY <1>18, <2>1, WriteType DEF PodsStart
  <2>3. pw \in Nat
    BY DEF TypeOK, Workload, Secrets
  <2>4. dbPassword' \in Nat /\ podPassword' \in [Kinds -> Nat] /\ podChanges' \in Nat
    <3>1. dbPassword' = (IF w = "Db" /\ wls[w].replicas > 0 /\ dbPassword = 0 THEN pw ELSE dbPassword)
      BY <1>18 DEF PodsStart
    <3>2. podPassword' = (IF w # "Db" /\ wls[w].replicas > 0
                          THEN [podPassword EXCEPT ![w] = pw] ELSE podPassword)
      BY <1>18 DEF PodsStart
    <3>3. podChanges' = podChanges + 1
      BY <1>18 DEF PodsStart
    <3>. HIDE DEF pw
    <3>4. w # "Db" => w \in Kinds
      BY DEF Workloads
    <3>. QED BY <2>3, <3>1, <3>2, <3>3, <3>4 DEF TypeOK
  <2>. QED BY <1>18, <2>2, <2>4 DEF PodsStart, TypeOK, crVars
<1>19. ASSUME NEW w \in Workloads, PodsFail(w) PROVE TypeOK'
  <2>1. [wls[w] EXCEPT !.ready = 0, !.trouble = TRUE] \in Workload
    BY DEF TypeOK, Workload
  <2>. QED BY <1>19, <2>1, WriteType DEF PodsFail, TypeOK, crVars
<1>20. CASE UNCHANGED vars
  BY <1>20 DEF vars, TypeOK
<1>. QED BY <1>1, <1>2, <1>3, <1>4, <1>5, <1>6, <1>7, <1>8, <1>9, <1>10, <1>11, <1>12, <1>13,
            <1>14, <1>15, <1>16, <1>17, <1>18, <1>19, <1>20 DEF Next, Step

\* The resource, the worker, the workloads and the passwords keep their types
\* through every reconcile, restart and edit.
THEOREM TypeCorrect == Safety => []TypeOK
<1>1. Init => TypeOK
  <2>. SUFFICES ASSUME Init PROVE TypeOK
    OBVIOUS
  <2>1. PICK s \in Specs : cr = [spec |-> s, status |-> "None"]
    BY DEF Init
  <2>2. cr \in Resource /\ crCache \in Resource
    BY <2>1 DEF Init, Resource, Reasons
  <2>3. password \in [{"own", "user"} -> Nat]
    BY DEF Init, UserPassword
  <2>4. NoWorkload \in Workload
    BY DEF NoWorkload, Workload, Secrets
  <2>5. wls \in [Workloads -> Workload] /\ wlCache \in [Workloads -> Workload]
    BY <2>4 DEF Init
  <2>. QED BY <2>2, <2>3, <2>5, IdleType DEF Init, TypeOK
<1>. QED BY <1>1, TypeStep, PTL DEF Safety

-----------------------------------------------------------------------------
(* Dependencies                                                             *)

\* DepsInv holds of every step: a failing dependency leaves its mark in wk.err.
LEMMA DepsStep ==
  ASSUME TypeOK, DepsInv, [Next]_vars
  PROVE  DepsInv'
<1>. USE WorkerParts
<1>1. CASE StartReconcile
  BY <1>1 DEF StartReconcile, DepsInv
<1>2. CASE ApplyServiceMonitor
  BY <1>2 DEF ApplyServiceMonitor, DepsInv, Worker
<1>3. CASE InitObjects
  <2>1. CASE ErrorAndStatus
    BY <2>1, ErrorParts DEF DepsInv
  <2>2. CASE wk' = [wk EXCEPT !.pc = "deps", !.left = wk.bs.spec.deps]
    <3>1. wk'.pc = "deps" /\ wk'.left = wk.bs.spec.deps /\ wk'.bs = wk.bs
      BY <2>2 DEF Worker
    <3>. QED BY <3>1 DEF DepsInv
  <2>3. CASE wk.bs.spec.deps = {} /\ wk' = [wk EXCEPT !.pc = "apply", !.todo = RuntimeObjects(wk.bs.spec)]
    <3>1. wk'.pc = "apply" /\ wk'.bs = wk.bs
      BY <2>3 DEF Worker
    <3>. QED BY <2>3, <3>1 DEF DepsInv
  <2>. QED BY <1>3, <2>1, <2>2, <2>3 DEF InitObjects
<1>4. ASSUME NEW d \in Deps, PatchPluginDep(d) PROVE DepsInv'
  BY <1>4 DEF PatchPluginDep, DepsInv, Worker
<1>5. CASE PluginDepsTried
  <2>1. CASE wk.err
    BY <1>5, <2>1, ErrorParts DEF PluginDepsTried, DepsInv
  <2>2. CASE ~wk.err
    <3>1. wk.bs.spec.deps \subseteq deps /\ deps' = deps
      BY <1>5, <2>2 DEF PluginDepsTried, DepsInv
    <3>2. wk'.pc = "apply" /\ wk'.bs = wk.bs
      BY <1>5, <2>2 DEF PluginDepsTried, Worker
    <3>. QED BY <3>1, <3>2 DEF DepsInv
  <2>. QED BY <2>1, <2>2
<1>6. CASE CreateDbSecret
  BY <1>6 DEF CreateDbSecret, DepsInv, Worker
<1>7. CASE PatchWorkload
  BY <1>7 DEF PatchWorkload, DepsInv, Worker
<1>8. CASE SetDeploymentStatus
  BY <1>8, StatusParts DEF DepsInv
<1>9. CASE UpdateStatus \/ StatusFault \/ Crash
  BY <1>9 DEF UpdateStatus, StatusFault, Crash, Return, IdleWorker, DepsInv
<1>10. CASE CallFault
  BY <1>10 DEF CallFault, ErrorAndStatus, DepsInv, Worker
<1>12. ASSUME NEW d \in Deps, PluginDepFault(d) PROVE DepsInv'
  BY <1>12 DEF PluginDepFault, DepsInv, Worker
<1>16. ASSUME NEW s \in Specs, EditSpec(s) PROVE DepsInv'
  BY <1>16 DEF EditSpec, DepsInv, Worker
<1>17. ASSUME UNCHANGED <<wk, deps>> PROVE DepsInv'
  BY <1>17 DEF DepsInv
<1>. QED BY <1>1, <1>2, <1>3, <1>4, <1>5, <1>6, <1>7, <1>8, <1>9, <1>10, <1>12, <1>16, <1>17
         DEF Next, Step, BackstageEvent, WorkloadEvent, Scale, PodsStart, PodsFail, vars

\* applyPluginDeps and combineErrors: no object of the model is applied before
\* everything its plugins depend on exists, whichever of the patches fail.
THEOREM DependenciesAreFirst == Safety => []DependenciesFirst
<1>1. Init => DepsInv
  BY DEF Init, IdleWorker, DepsInv
<1>2. DepsInv => DependenciesFirst
  BY DEF DepsInv, DependenciesFirst
<1>. QED BY <1>1, <1>2, TypeCorrect, DepsStep, PTL DEF Safety

-----------------------------------------------------------------------------
(* Passwords                                                                *)

\* PasswordsInv holds of every step: a Secret that exists is never rewritten.
LEMMA PasswordsStep ==
  ASSUME TypeOK, PasswordsInv, [Next]_vars
  PROVE  PasswordsInv'
<1>1. CASE CreateDbSecret
  <2>1. /\ password'.user = password.user
        /\ password.own # 0 => password'.own = password.own
        /\ UNCHANGED <<dbPassword, podPassword>>
    BY <1>1 DEF CreateDbSecret, TypeOK, podVars
  <2>2. password.own = 0 => dbPassword <= UserPassword /\ \A k \in Kinds : podPassword[k] <= UserPassword
    BY DEF PasswordsInv, UserPassword, TypeOK
  <2>. QED BY <2>1, <2>2 DEF PasswordsInv, UserPassword, TypeOK
<1>2. ASSUME NEW w \in Workloads, PodsStart(w) PROVE PasswordsInv'
  <2>. DEFINE pw == IF wls[w].secret = "none" THEN 0 ELSE password[wls[w].secret]
  <2>1. pw \in Nat /\ (pw > UserPassword => pw = password.own)
    BY DEF TypeOK, Workload, Secrets, PasswordsInv, UserPassword
  <2>2. dbPassword' \in {dbPassword, pw}
    BY <1>2 DEF PodsStart
  <2>3. podPassword' = podPassword \/ podPassword' = [podPassword EXCEPT ![w] = pw]
    BY <1>2 DEF PodsStart
  <2>4. password' = password
    BY <1>2 DEF PodsStart
  <2>. HIDE DEF pw
  <2>. QED BY <2>1, <2>2, <2>3, <2>4 DEF PasswordsInv, TypeOK
<1>3. ASSUME UNCHANGED <<password, dbPassword, podPassword>> PROVE PasswordsInv'
  BY <1>3 DEF PasswordsInv
<1>. QED BY <1>1, <1>2, <1>3
         DEF Next, Step, StartReconcile, ApplyServiceMonitor, InitObjects, PatchPluginDep, PluginDepFault,
             PluginDepsTried, PatchWorkload, SetDeploymentStatus, UpdateStatus, CallFault, StatusFault,
             BackstageEvent, WorkloadEvent, Crash, EditSpec, Scale, PodsFail, vars, podVars

\* updateAndValidate generates a password in every reconcile, but applyPayload
\* creates the Secret only once: database and Pods agree on a generated password
\* across any number of reconciles, switches of the database and restarts.
THEOREM CredentialsAlwaysMatch == Safety => []CredentialsMatch
<1>1. Init => PasswordsInv
  BY DEF Init, UserPassword, PasswordsInv
<1>2. PasswordsInv => CredentialsMatch
  BY DEF PasswordsInv, CredentialsMatch
<1>. QED BY <1>1, <1>2, TypeCorrect, PasswordsStep, PTL DEF Safety

-----------------------------------------------------------------------------
(* Replicas                                                                 *)

\* A write by WriteWorkload concerns one workload, and its cache stays up to date
\* only if it changes nothing.
LEMMA WriteParts ==
  ASSUME TypeOK, NEW w \in Workloads, NEW new, WriteWorkload(w, new)
  PROVE  /\ wls'[w] = new
         /\ \A v \in Workloads : v # w => wls'[v] = wls[v] /\ wlFresh'[v] = wlFresh[v]
         /\ wlFresh'[w] => wlFresh[w] /\ wls' = wls
BY DEF WriteWorkload, TypeOK

\* Server-side apply of a manifest without replicas: nothing but an edit by
\* somebody else, or idling the instance, changes a count the operator does not own.
THEOREM ReplicasArePreserved == Safety => ReplicasPreserved
<1>. DEFINE A == \A w \in Workloads :
                   wls[w].exists /\ ~wls[w].owned /\ edits' = edits /\ ~wk.bs.spec.idle
                     => wls'[w].replicas = wls[w].replicas
<1>1. ASSUME TypeOK, [Next]_vars PROVE [A]_vars
  <2>. USE WorkerParts
  <2>1. CASE PatchWorkload
    <3>1. WriteWorkload(Head(wk.todo), Applied(Head(wk.todo), wk.bs.spec)) /\ Head(wk.todo) \in Workloads
      BY <2>1 DEF PatchWorkload
    <3>2. wls[Head(wk.todo)] \in Workload
      BY <1>1, <3>1 DEF TypeOK
    <3>3. wls[Head(wk.todo)].exists /\ ~wls[Head(wk.todo)].owned /\ ~wk.bs.spec.idle
            => Applied(Head(wk.todo), wk.bs.spec).replicas = wls[Head(wk.todo)].replicas
      BY <3>2 DEF Applied, Workload
    <3>. QED BY <1>1, <3>1, <3>3, WriteParts
  <2>2. ASSUME NEW w \in Workloads, NEW n \in Scales, Scale(w, n) PROVE edits' # edits
    BY <2>2, <1>1 DEF Scale, TypeOK
  <2>3. ASSUME NEW w \in Workloads, PodsStart(w) \/ PodsFail(w) PROVE A
    <3>1. wls[w] \in Workload
      BY <1>1 DEF TypeOK
    <3>. DEFINE up   == [wls[w] EXCEPT !.ready = wls[w].replicas, !.trouble = FALSE]
                down == [wls[w] EXCEPT !.ready = 0, !.trouble = TRUE]
    <3>2. up.replicas = wls[w].replicas /\ down.replicas = wls[w].replicas
      BY <3>1 DEF Workload
    <3>3. WriteWorkload(w, up) \/ WriteWorkload(w, down)
      BY <2>3 DEF PodsStart, PodsFail
    <3>. HIDE DEF up, down
    <3>. QED BY <1>1, <3>2, <3>3, WriteParts
  <2>4. ASSUME UNCHANGED wls PROVE A
    BY <2>4
  <2>. QED BY <1>1, <2>1, <2>2, <2>3, <2>4
           DEF Next, Step, StartReconcile, ApplyServiceMonitor, InitObjects, PatchPluginDep, PluginDepFault,
               PluginDepsTried, CreateDbSecret, SetDeploymentStatus, UpdateStatus, CallFault, StatusFault,
               BackstageEvent, WorkloadEvent, Crash, EditSpec, vars, wlVars
<1>. QED BY <1>1, TypeCorrect, PTL DEF Safety, ReplicasPreserved

-----------------------------------------------------------------------------
(* Convergence                                                              *)

\* CachesInv holds of every step: a write takes the freshness of a copy away,
\* and only an event or a restart gives it back.
LEMMA CachesStep ==
  ASSUME TypeOK, CachesInv, [Next]_vars
  PROVE  CachesInv'
<1>1. CASE PatchWorkload
  <2>1. WriteWorkload(Head(wk.todo), Applied(Head(wk.todo), wk.bs.spec)) /\ Head(wk.todo) \in Workloads
    BY <1>1 DEF PatchWorkload
  <2>2. UNCHANGED <<cr, crCache, crFresh, wlCache>>
    BY <1>1 DEF PatchWorkload, crVars
  <2>. QED BY <2>1, <2>2, WriteParts DEF CachesInv
<1>2. ASSUME NEW w \in Workloads, NEW new, WriteWorkload(w, new), UNCHANGED <<cr, crCache, crFresh, wlCache>>
      PROVE  CachesInv'
  BY <1>2, WriteParts DEF CachesInv
<1>3. ASSUME NEW w \in Workloads, NEW n \in Scales, Scale(w, n) PROVE CachesInv'
  BY <1>2, <1>3 DEF Scale, crVars
<1>4. ASSUME NEW w \in Workloads, PodsStart(w) PROVE CachesInv'
  BY <1>2, <1>4 DEF PodsStart, crVars
<1>5. ASSUME NEW w \in Workloads, PodsFail(w) PROVE CachesInv'
  BY <1>2, <1>5 DEF PodsFail, crVars
<1>6. CASE UpdateStatus
  BY <1>6 DEF UpdateStatus, CachesInv, wlVars
<1>7. CASE BackstageEvent
  BY <1>7 DEF BackstageEvent, CachesInv, wlVars
<1>8. ASSUME NEW w \in Workloads, WorkloadEvent(w) PROVE CachesInv'
  BY <1>8 DEF WorkloadEvent, CachesInv, crVars, TypeOK
<1>9. CASE Crash
  BY <1>9 DEF Crash, CachesInv
<1>10. ASSUME NEW s \in Specs, EditSpec(s) PROVE CachesInv'
  BY <1>10 DEF EditSpec, CachesInv, wlVars
<1>11. ASSUME UNCHANGED <<cr, crCache, crFresh, wls, wlCache, wlFresh>> PROVE CachesInv'
  BY <1>11 DEF CachesInv
<1>. QED BY <1>1, <1>3, <1>4, <1>5, <1>6, <1>7, <1>8, <1>9, <1>10, <1>11
         DEF Next, Step, StartReconcile, ApplyServiceMonitor, InitObjects, PatchPluginDep, PluginDepFault,
             PluginDepsTried, CreateDbSecret, SetDeploymentStatus, CallFault, StatusFault, vars, crVars, wlVars

\* A step after which nobody asks for a reconcile is the start of one, or leaves
\* alone what reconciles are about.
LEMMA UnaskedStep ==
  ASSUME TypeOK, [Next]_vars, ~StartReconcile, Unasked'
  PROVE  Unasked /\ UNCHANGED <<cr, wls, wlCache>>
<1>1. ASSUME NEW w \in Workloads, NEW new, WriteWorkload(w, new), UNCHANGED <<cr, crFresh, queued, wlCache>>
      PROVE  Unasked /\ UNCHANGED <<cr, wls, wlCache>>
  BY <1>1, WriteParts DEF Unasked
<1>2. CASE PatchWorkload
  BY <1>1, <1>2 DEF PatchWorkload, crVars
<1>3. ASSUME NEW w \in Workloads, NEW n \in Scales, Scale(w, n)
      PROVE  Unasked /\ UNCHANGED <<cr, wls, wlCache>>
  BY <1>1, <1>3 DEF Scale, crVars
<1>4. ASSUME NEW w \in Workloads, PodsStart(w)
      PROVE  Unasked /\ UNCHANGED <<cr, wls, wlCache>>
  BY <1>1, <1>4 DEF PodsStart, crVars
<1>5. ASSUME NEW w \in Workloads, PodsFail(w)
      PROVE  Unasked /\ UNCHANGED <<cr, wls, wlCache>>
  BY <1>1, <1>5 DEF PodsFail, crVars
<1>6. CASE UpdateStatus \/ StatusFault
  BY <1>6 DEF UpdateStatus, StatusFault, Return, Unasked, crVars, wlVars
<1>7. CASE BackstageEvent \/ Crash \/ (\E s \in Specs : EditSpec(s)) \/ \E w \in Workloads : WorkloadEvent(w)
  BY <1>7 DEF BackstageEvent, Crash, EditSpec, WorkloadEvent, Unasked
<1>8. ASSUME UNCHANGED <<cr, crFresh, queued, wls, wlCache, wlFresh>>
      PROVE  Unasked /\ UNCHANGED <<cr, wls, wlCache>>
  BY <1>8 DEF Unasked
<1>. QED BY <1>2, <1>3, <1>4, <1>5, <1>6, <1>7, <1>8
         DEF Next, Step, ApplyServiceMonitor, InitObjects, PatchPluginDep, PluginDepFault,
             PluginDepsTried, CreateDbSecret, SetDeploymentStatus, CallFault, vars, crVars, wlVars

\* Nothing but CreateDbSecret touches the passwords, and it leaves one in place.
LEMMA SecretStays ==
  ASSUME TypeOK, [Next]_vars, password.own # 0
  PROVE  password'.own # 0
<1>1. CASE CreateDbSecret
  BY <1>1 DEF CreateDbSecret, TypeOK
<1>. QED BY <1>1
         DEF Next, Step, StartReconcile, ApplyServiceMonitor, InitObjects, PatchPluginDep, PluginDepFault,
             PluginDepsTried, PatchWorkload, SetDeploymentStatus, UpdateStatus, CallFault, StatusFault,
             BackstageEvent, WorkloadEvent, Crash, EditSpec, Scale, PodsStart, PodsFail, vars

\* Dependencies are never removed.
LEMMA DepsStay ==
  ASSUME [Next]_vars
  PROVE  deps \subseteq deps'
BY DEF Next, Step, StartReconcile, ApplyServiceMonitor, InitObjects, PatchPluginDep, PluginDepFault,
       PluginDepsTried, CreateDbSecret, PatchWorkload, SetDeploymentStatus, UpdateStatus, CallFault,
       StatusFault, BackstageEvent, WorkloadEvent, Crash, EditSpec, Scale, PodsStart, PodsFail, vars

\* What is in line stays so while the workloads are left alone.
LEMMA AppliedStays ==
  ASSUME TypeOK, [Next]_vars, wls' = wls, NEW s, NEW todo, AppliedUpTo(s, todo)
  PROVE  AppliedUpTo(s, todo)'
<1>1. ASSUME NEW o, InLine(o, s) PROVE InLine(o, s)'
  BY <1>1, SecretStays DEF InLine, Conforms
<1>. QED BY <1>1 DEF AppliedUpTo

\* At the start nothing is in line yet, and nothing has to be.
LEMMA AppliedStart ==
  ASSUME NEW s \in Spec
  PROVE  AppliedUpTo(s, RuntimeObjects(s))
<1>1. Len(RuntimeObjects(s)) \in Nat
  BY RuntimeObjectsType
<1>. QED BY <1>1 DEF AppliedUpTo

\* applyObjects gets one object further.
LEMMA AppliedNext ==
  ASSUME NEW s \in Spec, NEW todo \in Seq(Workloads \cup {"DbSecret"}), todo # <<>>,
         TypeOK, [Next]_vars, wls' = wls, AppliedUpTo(s, todo), InLine(Head(todo), s)'
  PROVE  AppliedUpTo(s, Tail(todo))'
<1>. DEFINE os == RuntimeObjects(s)
            n  == Len(os) - Len(todo)
<1>1. Len(os) \in Nat /\ Len(todo) \in Nat /\ Len(todo) > 0
  BY RuntimeObjectsType
<1>2. Len(Tail(todo)) = Len(todo) - 1 /\ \A i \in 1 .. Len(todo) - 1 : Tail(todo)[i] = todo[i + 1]
  BY <1>1
<1>3. Head(todo) = todo[1]
  BY <1>1
<1>4. /\ Len(todo) <= Len(os)
      /\ \A i \in 1 .. Len(todo) : todo[i] = os[n + i]
      /\ \A i \in 1 .. n : InLine(os[i], s)'
  BY AppliedStays DEF AppliedUpTo
<1>5. Head(todo) = os[n + 1]
  BY <1>1, <1>3, <1>4
<1>. HIDE DEF os
<1>6. Len(os) - Len(Tail(todo)) = n + 1
  BY <1>1, <1>2
<1>7. \A i \in 1 .. Len(Tail(todo)) : Tail(todo)[i] = os[n + 1 + i]
  <2>. TAKE i \in 1 .. Len(Tail(todo))
  <2>1. Tail(todo)[i] = todo[i + 1] /\ i + 1 \in 1 .. Len(todo)
    BY <1>1, <1>2
  <2>2. n + (i + 1) = n + 1 + i
    BY <1>1
  <2>. QED BY <1>4, <2>1, <2>2
<1>8. \A i \in 1 .. n + 1 : InLine(os[i], s)'
  <2>. TAKE i \in 1 .. n + 1
  <2>1. i = n + 1 \/ i \in 1 .. n
    BY <1>1
  <2>. QED BY <1>4, <1>5, <2>1
<1>9. Len(Tail(todo)) <= Len(os)
  BY <1>1, <1>2, <1>4
<1>. QED BY <1>6, <1>7, <1>8, <1>9 DEF AppliedUpTo, os

\* Where all objects are in line the workload and the local database are.
LEMMA AllApplied ==
  ASSUME NEW s \in Spec, AppliedUpTo(s, <<>>)
  PROVE  /\ Conforms(s.kind, s)
         /\ s.localDb => Conforms("Db", s)
         /\ s.localDb /\ ~s.auth => password.own # 0
<1>1. \A i \in 1 .. Len(RuntimeObjects(s)) : InLine(RuntimeObjects(s)[i], s)
  <2>1. Len(RuntimeObjects(s)) \in Nat
    BY RuntimeObjectsType
  <2>. QED BY <2>1 DEF AppliedUpTo
<1>2. s.kind # "DbSecret"
  BY DEF Spec, Kinds
<1>3. CASE ~s.localDb
  <2>1. RuntimeObjects(s) = <<s.kind>>
    BY <1>3 DEF RuntimeObjects
  <2>2. InLine(s.kind, s)
    BY <1>1, <2>1
  <2>. QED BY <1>2, <1>3, <2>2 DEF InLine
<1>4. CASE s.localDb /\ s.auth
  <2>1. RuntimeObjects(s) = <<"Db", s.kind>>
    BY <1>4 DEF RuntimeObjects
  <2>2. InLine("Db", s) /\ InLine(s.kind, s)
    BY <1>1, <2>1
  <2>. QED BY <1>2, <1>4, <2>2 DEF InLine
<1>5. CASE s.localDb /\ ~s.auth
  <2>1. RuntimeObjects(s) = <<"DbSecret", "Db", s.kind>>
    BY <1>5 DEF RuntimeObjects
  <2>2. InLine("DbSecret", s) /\ InLine("Db", s) /\ InLine(s.kind, s)
    BY <1>1, <2>1
  <2>. QED BY <1>2, <1>5, <2>2 DEF InLine
<1>. QED BY <1>3, <1>4, <1>5

\* Converging holds of every step: a reconcile that nobody asks to repeat works on
\* the present spec, gets one object further with every patch, and ends without
\* an error only after the last.
LEMMA ConvergingStep ==
  ASSUME TypeOK, CachesInv, DepsInv, Converging, [Next]_vars
  PROVE  Converging'
<1>. USE WorkerParts
<1>1. CASE StartReconcile
  <2>1. wk'.pc = "monitor" /\ wk'.bs.spec = crCache.spec /\ UNCHANGED <<cr, crCache, crFresh>>
    BY <1>1 DEF StartReconcile, Resource, crVars
  <2>. QED BY <2>1 DEF Converging, CachesInv, Unasked
<1>. SUFFICES ASSUME ~StartReconcile, Unasked' PROVE Converging'
  BY <1>1 DEF Converging
<1>2. Unasked /\ UNCHANGED <<cr, wls, wlCache>>
  BY UnaskedStep
<1>3. PICK s \in Spec : s = cr.spec
  OBVIOUS
<1>4. PICK t \in Seq(Workloads \cup {"DbSecret"}) : t = wk.todo
  BY DEF Worker
<1>5. cr'.spec = s
  BY <1>2, <1>3
<1>6. CASE ApplyServiceMonitor
  <2>1. wk.pc = "monitor" /\ wk'.pc = "init" /\ wk'.bs = wk.bs
    BY <1>6 DEF ApplyServiceMonitor, Worker
  <2>. QED BY <1>2, <2>1 DEF Converging
<1>7. ASSUME wk' = [wk EXCEPT !.pc = "apply", !.todo = RuntimeObjects(wk.bs.spec)],
             wk.pc \in {"init", "deps"}
      PROVE  Converging'
  <2>1. wk'.pc = "apply" /\ wk'.bs = wk.bs /\ wk'.todo = RuntimeObjects(wk.bs.spec)
    BY <1>7 DEF Worker
  <2>2. wk.bs.spec = s
    BY <1>2, <1>3, <1>7 DEF Converging
  <2>3. AppliedUpTo(s, RuntimeObjects(s))'
    BY <1>2, AppliedStart, AppliedStays
  <2>. QED BY <1>5, <2>1, <2>2, <2>3 DEF Converging
<1>8. ASSUME ErrorAndStatus PROVE Converging'
  BY <1>8, ErrorParts DEF Converging
<1>9. CASE InitObjects
  <2>1. CASE wk' = [wk EXCEPT !.pc = "deps", !.left = wk.bs.spec.deps]
    <3>1. wk'.pc = "deps" /\ wk'.bs = wk.bs
      BY <2>1 DEF Worker
    <3>2. wk.pc = "init"
      BY <1>9 DEF InitObjects
    <3>. QED BY <1>2, <3>1, <3>2 DEF Converging
  <2>. QED BY <1>7, <1>8, <1>9, <2>1 DEF InitObjects
<1>10. ASSUME NEW d \in Deps, PatchPluginDep(d) \/ PluginDepFault(d) PROVE Converging'
  <2>1. wk.pc = "deps" /\ wk'.pc = "deps" /\ wk'.bs = wk.bs
    BY <1>10 DEF PatchPluginDep, PluginDepFault, Worker
  <2>. QED BY <1>2, <2>1 DEF Converging
<1>11. CASE PluginDepsTried
  BY <1>7, <1>8, <1>11 DEF PluginDepsTried
<1>12. CASE CreateDbSecret \/ PatchWorkload
  <2>1. wk.pc = "apply" /\ wk.todo # <<>> /\ wk' = [wk EXCEPT !.todo = Tail(wk.todo)]
    BY <1>12 DEF CreateDbSecret, PatchWorkload
  <2>2. wk'.pc = "apply" /\ wk'.bs = wk.bs /\ wk'.todo = Tail(t)
    BY <1>4, <2>1 DEF Worker
  <2>3. wk.bs.spec = s /\ AppliedUpTo(s, t)
    BY <1>2, <1>3, <1>4, <2>1 DEF Converging
  <2>4. InLine(Head(t), s)'
    <3>1. CASE CreateDbSecret
      <4>1. Head(t) = "DbSecret" /\ password'.own # 0
        BY <1>4, <3>1 DEF CreateDbSecret, Generated, TypeOK
      <4>. QED BY <4>1 DEF InLine
    <3>2. CASE PatchWorkload
      <4>1. Head(t) \in Workloads /\ WriteWorkload(Head(t), Applied(Head(t), s))
        BY <1>4, <2>3, <3>2 DEF PatchWorkload
      <4>2. wls'[Head(t)] = Applied(Head(t), s) /\ wls[Head(t)] \in Workload
        BY <4>1, WriteParts DEF TypeOK
      <4>3. Head(t) # "DbSecret"
        BY <4>1 DEF Workloads, Kinds
      <4>. QED BY <4>2, <4>3 DEF InLine, Conforms, Applied, Workload
    <3>. QED BY <1>12, <3>1, <3>2
  <2>5. AppliedUpTo(s, Tail(t))'
    BY <1>2, <1>4, <2>1, <2>3, <2>4, AppliedNext
  <2>. QED BY <1>5, <2>2, <2>3, <2>5 DEF Converging
<1>13. CASE SetDeploymentStatus
  <2>1. wk.pc = "apply" /\ wk.todo = <<>> /\ deps' = deps
    BY <1>13 DEF SetDeploymentStatus
  <2>2. AppliedUpTo(s, <<>>) /\ s.deps \subseteq deps
    BY <1>2, <1>3, <2>1 DEF Converging, DepsInv
  <2>3. AppliedUpTo(s, <<>>)'
    BY <1>2, <2>2, AppliedStays
  <2>. QED BY <1>5, <1>13, <2>1, <2>2, <2>3, StatusParts DEF Converging
<1>14. CASE UpdateStatus \/ StatusFault
  <2>1. wk.pc = "status" /\ wk'.pc = "idle" /\ queued' = (queued \/ wk.err) /\ deps' = deps
    BY <1>14 DEF UpdateStatus, StatusFault, Return, IdleWorker
  <2>2. ~wk.err
    BY <2>1 DEF Unasked
  <2>3. AppliedUpTo(s, <<>>) /\ s.deps \subseteq deps
    BY <1>2, <1>3, <2>1, <2>2 DEF Converging
  <2>4. AppliedUpTo(s, <<>>)'
    BY <1>2, <2>3, AppliedStays
  <2>. QED BY <1>5, <2>1, <2>3, <2>4 DEF Converging
<1>15. CASE CallFault
  BY <1>8, <1>15 DEF CallFault
<1>16. CASE BackstageEvent \/ Crash \/ (\E r \in Specs : EditSpec(r)) \/ \E w \in Workloads : WorkloadEvent(w)
  BY <1>16 DEF BackstageEvent, Crash, EditSpec, WorkloadEvent, Unasked
<1>17. ASSUME UNCHANGED <<wk, deps>> PROVE Converging'
  <2>1. ASSUME AppliedUpTo(s, t) PROVE AppliedUpTo(s, t)'
    BY <1>2, <2>1, AppliedStays
  <2>2. ASSUME AppliedUpTo(s, <<>>) PROVE AppliedUpTo(s, <<>>)'
    BY <1>2, <2>2, AppliedStays
  <2>. QED BY <1>2, <1>3, <1>4, <1>5, <1>17, <2>1, <2>2 DEF Converging
<1>. QED BY <1>6, <1>9, <1>10, <1>11, <1>12, <1>13, <1>14, <1>15, <1>16, <1>17
         DEF Next, Step, Scale, PodsStart, PodsFail, vars

\* Whenever nobody asks for a reconcile, one is under way with the present spec and
\* caches and has applied all the objects before those it has left, or the last one
\* has left all in line: Reconcile may be interrupted anywhere, by a failing call or
\* a restart, and an edit may come at any point, but not without a new request.
THEOREM AlwaysConverging == Safety => []Converging
<1>1. Init => CachesInv /\ DepsInv /\ Converging
  BY DEF Init, CachesInv, DepsInv, Converging, Unasked, IdleWorker
<1>. QED BY <1>1, TypeCorrect, CachesStep, DepsStep, ConvergingStep, PTL DEF Safety

\* When nothing is queued, under way or unseen, the cluster is what the present
\* spec asks for: no sequence of edits, failing calls, lost status updates and
\* restarts makes Reconcile stop half way without being asked again.
THEOREM SpecIsApplied == Safety => []SpecApplied
<1>1. ASSUME TypeOK, Converging PROVE SpecApplied
  <2>. SUFFICES ASSUME Quiescent PROVE SpecApplied
    BY DEF SpecApplied
  <2>1. AppliedUpTo(cr.spec, <<>>) /\ cr.spec.deps \subseteq deps
    BY <1>1 DEF Converging, Quiescent, Unasked
  <2>. QED BY <1>1, <2>1, WorkerParts, AllApplied DEF SpecApplied
<1>. QED BY <1>1, TypeCorrect, AlwaysConverging, PTL

-----------------------------------------------------------------------------
(* The status                                                               *)

\* Reporting holds of every step, if no update of the status is lost: a conflict
\* means that the resource has changed since it was read, and then its event asks
\* for another reconcile.
LEMMA ReportingStep ==
  ASSUME TypeOK, CachesInv, Converging, Reporting, [Next]_vars, MaxStatusFaults = 0
  PROVE  Reporting'
<1>. USE WorkerParts
<1>1. CASE StartReconcile
  BY <1>1 DEF StartReconcile, Reporting, Unasked, crVars
<1>. SUFFICES ASSUME ~StartReconcile, Unasked' PROVE Reporting'
  BY <1>1 DEF Reporting
<1>2. Unasked /\ UNCHANGED <<cr, wls, wlCache>>
  BY UnaskedStep
<1>3. ASSUME wk'.pc \notin {"idle", "status"} \/ (wk'.pc = "status" /\ wk'.err),
             wk.pc # "idle", wk'.fresh = wk.fresh
      PROVE  Reporting'
  BY <1>2, <1>3 DEF Reporting
<1>4. CASE ApplyServiceMonitor
  BY <1>3, <1>4 DEF ApplyServiceMonitor, Worker
<1>5. ASSUME ErrorAndStatus, wk.pc # "idle" PROVE Reporting'
  BY <1>3, <1>5, ErrorParts
<1>6. CASE InitObjects
  BY <1>3, <1>5, <1>6 DEF InitObjects, Worker
<1>7. ASSUME NEW d \in Deps, PatchPluginDep(d) \/ PluginDepFault(d) PROVE Reporting'
  BY <1>3, <1>7 DEF PatchPluginDep, PluginDepFault, Worker
<1>8. CASE PluginDepsTried
  BY <1>3, <1>5, <1>8 DEF PluginDepsTried, Worker
<1>9. CASE CreateDbSecret \/ PatchWorkload
  BY <1>3, <1>9 DEF CreateDbSecret, PatchWorkload, Worker
<1>10. CASE SetDeploymentStatus
  <2>1. wk.pc = "apply" /\ wk.fresh /\ wk.bs.spec = cr.spec
    BY <1>2, <1>10 DEF SetDeploymentStatus, Reporting, Converging
  <2>2. wlCache = wls
    BY <1>2 DEF CachesInv, Unasked, TypeOK
  <2>. QED BY <1>2, <1>10, <2>1, <2>2, StatusParts DEF Reporting
<1>11. CASE UpdateStatus
  <2>1. wk.pc = "status" /\ wk'.pc = "idle" /\ queued' = (queued \/ wk.err)
    BY <1>11 DEF UpdateStatus, Return, IdleWorker
  <2>2. ~wk.err /\ crFresh'
    BY <2>1 DEF Unasked
  <2>3. wk.fresh /\ wk.bs.status = DeploymentStatus(cr.spec, wls)
    BY <1>2, <2>1, <2>2 DEF Reporting
  <2>4. cr.status = wk.bs.status
    BY <1>11, <2>2, <2>3 DEF UpdateStatus
  <2>. QED BY <1>2, <2>1, <2>3, <2>4 DEF Reporting
<1>12. ~StatusFault
  BY DEF StatusFault, TypeOK
<1>13. CASE CallFault
  BY <1>5, <1>13 DEF CallFault
<1>14. CASE BackstageEvent \/ Crash \/ (\E r \in Specs : EditSpec(r)) \/ \E w \in Workloads : WorkloadEvent(w)
  BY <1>14 DEF BackstageEvent, Crash, EditSpec, WorkloadEvent, Unasked
<1>15. ASSUME UNCHANGED wk PROVE Reporting'
  BY <1>2, <1>15 DEF Reporting
<1>. QED BY <1>4, <1>6, <1>7, <1>8, <1>9, <1>10, <1>11, <1>12, <1>13, <1>14, <1>15
         DEF Next, Step, Scale, PodsStart, PodsFail, vars

\* Unless an update of the status fails for another reason than a conflict, the
\* status of a resource that needs nothing is the one its workload calls for,
\* though Reconcile computes it from caches and logs and forgets every conflict.
THEOREM StatusIsAccurate ==
  ASSUME MaxStatusFaults = 0
  PROVE  Safety => []StatusAccurate
<1>1. Init => CachesInv /\ DepsInv /\ Converging /\ Reporting
  BY DEF Init, CachesInv, DepsInv, Converging, Reporting, Unasked, IdleWorker
<1>2. Reporting => StatusAccurate
  BY DEF Reporting, StatusAccurate, Quiescent, Unasked
<1>3. TypeOK /\ CachesInv /\ Converging /\ Reporting /\ [Next]_vars => Reporting'
  BY ReportingStep
<1>. QED BY <1>1, <1>2, <1>3, TypeCorrect, CachesStep, DepsStep, ConvergingStep, PTL DEF Safety

=============================================================================
