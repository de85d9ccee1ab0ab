----------------------------- MODULE ConfigSync -----------------------------
(***************************************************************************)
(* How a change of an external ConfigMap or Secret reaches the Pods of the *)
(* Backstage instances that refer to it.                                   *)
(*                                                                         *)
(* Reconcile (the worker) reads every referenced object in preprocessSpec, *)
(* marks it with the sync label and with the name of the instance, and     *)
(* puts a hash of the contents on the Pod template.  A metadata watch on   *)
(* marked objects runs requestByExtConfigLabel (a handler), which looks up *)
(* the instance, runs preprocessSpec itself, and enqueues a reconcile.     *)
(*                                                                         *)
(* Objects are read through the typed informer, events come from the       *)
(* metadata informer: two caches that trail the API server independently.  *)
(* A cache jumps to the newest state of an object (informers may coalesce).*)
(* The version of an object stands for its content; every write of a user  *)
(* makes a version that was never seen before, so two equal records are    *)
(* the same resourceVersion.                                               *)
(***************************************************************************)
EXTENDS Integers, Sequences

CONSTANTS
  Backstages,   \* names of the Backstage custom resources
  Objects,      \* names of the ConfigMaps and Secrets
  Refs,         \* Refs[b]: b's references, in the order of preprocessSpec
  Handlers,     \* the goroutines that run the watch handler, one per informer
  HandlerOf,    \* HandlerOf[o]: the handler that gets the events of o
  Worker,       \* the goroutine that runs Reconcile
  NoName,       \* no backstage-name annotation
  OpenShift,    \* the platform: preprocessSpec asks it for the ingress domain
  AutoSync,     \* the value of EXT_CONF_SYNC_backstage (true when unset)
  RetrySteps,   \* attempts of retry.RetryOnConflict (5 in retry.DefaultRetry)
  TypedFirst,   \* timing: the typed informer is never behind the metadata one
  MayReplace,   \* users also delete, recreate and replace objects
  MaxEdits,     \* bound on the writes of users
  MaxFaults,    \* bound on the API calls that fail for a transient reason
  MaxCrashes    \* bound on the restarts of the operator

NoVersion == 0          \* of an object that does not exist
NoData    == 0          \* what a reference that is not watched adds to the hash
\* Mutant: a label that the predicate of the watch does not select.
OddSyncLabel == IF AutoSync THEN "yes" ELSE "no"
SyncLabel == IF AutoSync THEN "true" ELSE "false"
Threads   == {Worker} \cup Handlers
Slots(b)  == DOMAIN Refs[b]
Watched(b) == {Refs[b][j].obj : j \in {k \in Slots(b) : Refs[b][k].watch}}

ASSUME ConstantsAssumption ==
  /\ NoName \notin Backstages
  /\ Worker \notin Handlers
  /\ Refs \in [Backstages -> Seq([obj : Objects, watch : BOOLEAN])]
  /\ HandlerOf \in [Objects -> Handlers]
  /\ OpenShift \in BOOLEAN /\ AutoSync \in BOOLEAN
  /\ TypedFirst \in BOOLEAN /\ MayReplace \in BOOLEAN
  /\ RetrySteps \in Nat \ {0}
  /\ MaxEdits \in Nat /\ MaxFaults \in Nat /\ MaxCrashes \in Nat

VARIABLES
  store,      \* the objects in the API server
  cache,      \* the typed informer's copy, which r.Get reads
  meta,       \* the metadata informer's copy, as of its last event
  queue,      \* the instances in the workqueue
  th,         \* what each goroutine is doing
  wl,         \* wl[b].hash: the ext-config-hash on b's Pod template
  wlSeen,     \* b's workload is in the informer cache
  wlEvent,    \* an event of b's workload has not been delivered yet
  edits, faults, crashes

vars == <<store, cache, meta, queue, th, wl, wlSeen, wlEvent, edits, faults, crashes>>

Object   == [ver : Nat, label : {"", "true", "false"}, owner : Backstages \cup {NoName}]
Absent   == [ver |-> NoVersion, label |-> "", owner |-> NoName]
Thread   == [pc : {"idle", "prep"}, b : Backstages \cup {NoName}, data : Seq(Nat),
             tries : Nat, calls : Seq(Backstages)]
Reading(b, data, tries, calls) ==
  [pc |-> "prep", b |-> b, data |-> data, tries |-> tries, calls |-> calls]
Resting(calls) == [pc |-> "idle", b |-> NoName, data |-> <<>>, tries |-> 0, calls |-> calls]
Idle     == Resting(<<>>)
Workload == [exists : BOOLEAN, hash : Seq(Nat)]
NoWorkload == [exists |-> FALSE, hash |-> <<>>]

Exists(obj) == obj.ver # NoVersion
Version(v, label, owner) == [ver |-> v, label |-> label, owner |-> owner]
Unmarked(v) == Version(v, "", NoName)

TypeOK ==
  /\ store \in [Objects -> Object]
  /\ cache \in [Objects -> Object]
  /\ meta \in [Objects -> Object]
  /\ queue \in SUBSET Backstages
  /\ th \in [Threads -> Thread]
  /\ wl \in [Backstages -> Workload]
  /\ wlSeen \in [Backstages -> BOOLEAN]
  /\ wlEvent \in [Backstages -> BOOLEAN]
  /\ edits \in Nat /\ faults \in Nat /\ crashes \in Nat

Init ==
  /\ edits = 1
  /\ store \in [Objects -> {Absent, Unmarked(1)}]
  /\ cache = store
  /\ meta = [o \in Objects |-> Absent]
  /\ queue = Backstages
  /\ th = [t \in Threads |-> Idle]
  /\ wl = [b \in Backstages |-> NoWorkload]
  /\ wlSeen = [b \in Backstages |-> FALSE]
  /\ wlEvent = [b \in Backstages |-> FALSE]
  /\ faults = 0 /\ crashes = 0

-----------------------------------------------------------------------------
(* preprocessSpec and addExtConfig, run by the worker and by the handlers   *)

\* In a thread: "prep" while it runs preprocessSpec for b, the data gathered so
\* far, the attempts at the present object, and the calls of
\* requestByExtConfigLabel that its event still asks for.
Preprocessing(b, calls) == Reading(b, <<>>, 0, calls)

\* Thread t has references left to process, the next of which is Ref(t).
InLoop(t) == th[t].pc = "prep" /\ Len(th[t].data) < Len(Refs[th[t].b])
Ref(t)    == Refs[th[t].b][Len(th[t].data) + 1]
PrepDone(t) == th[t].pc = "prep" /\ Len(th[t].data) = Len(Refs[th[t].b])

\* Mutant: every object is marked again.
AlwaysNeedsMark(obj) == TRUE

\* addExtConfig rewrites the label and the annotation of such an object.
NeedsMark(obj) == obj.label = "" \/ obj.owner = NoName \/ obj.label # SyncLabel

\* concatData: what the reference contributes to the hashed data.
ConcatData(t, d) ==
  th' = [th EXCEPT ![t] = Reading(th[t].b, Append(th[t].data, d), 0, th[t].calls)]

\* Mutant: errors are swallowed.
FailSilently(t) ==
  /\ UNCHANGED queue
  /\ th' = [th EXCEPT ![t] = Resting(th[t].calls)]

\* An error return.  Reconcile's caller requeues the instance, while
\* requestByExtConfigLabel logs the error and returns no request.
Fail(t) ==
  /\ queue' = IF t = Worker THEN queue \cup {th[t].b} ELSE queue
  /\ th' = [th EXCEPT ![t] = Resting(th[t].calls)]

\* getOCPIngressDomain reads the cluster's Ingress from the API server.
IngressFault(t) ==
  /\ OpenShift
  /\ th[t].pc = "prep" /\ th[t].data = <<>> /\ th[t].tries = 0
  /\ faults < MaxFaults
  /\ faults' = faults + 1
  /\ Fail(t)
  /\ UNCHANGED <<store, cache, meta, wl, wlSeen, wlEvent, edits, crashes>>

\* A reference that is not watched: the object only has to exist.
CheckExternalObject(t) ==
  /\ InLoop(t) /\ ~Ref(t).watch
  /\ Exists(cache[Ref(t).obj])
  /\ ConcatData(t, NoData)
  /\ UNCHANGED <<store, cache, meta, queue, wl, wlSeen, wlEvent, edits, faults, crashes>>

\* Mutant: contents are taken from the metadata informer's copy.
ReadAnnounced(t) ==
  LET o == Ref(t).obj IN
  /\ InLoop(t) /\ Ref(t).watch
  /\ Exists(cache[o]) /\ ~NeedsMark(cache[o])
  /\ ConcatData(t, meta[o].ver)
  /\ UNCHANGED <<store, cache, meta, queue, wl, wlSeen, wlEvent, edits, faults, crashes>>

\* The cached object is already marked for some instance.
ReadMarked(t) ==
  LET o == Ref(t).obj IN
  /\ InLoop(t) /\ Ref(t).watch
  /\ Exists(cache[o]) /\ ~NeedsMark(cache[o])
  /\ ConcatData(t, cache[o].ver)
  /\ UNCHANGED <<store, cache, meta, queue, wl, wlSeen, wlEvent, edits, faults, crashes>>

\* Mutant: an update without the check of the resourceVersion.
ForceMark(t) ==
  LET o == Ref(t).obj IN
  /\ InLoop(t) /\ Ref(t).watch
  /\ Exists(cache[o]) /\ NeedsMark(cache[o]) /\ Exists(store[o])
  /\ store' = [store EXCEPT ![o] = Version(cache[o].ver, SyncLabel, th[t].b)]
  /\ ConcatData(t, cache[o].ver)
  /\ UNCHANGED <<cache, meta, queue, wl, wlSeen, wlEvent, edits, faults, crashes>>

\* r.Update writes the whole cached object back; the API server takes it only
\* when it is still the current one.
Mark(t) ==
  LET o == Ref(t).obj IN
  /\ InLoop(t) /\ Ref(t).watch
  /\ Exists(cache[o]) /\ NeedsMark(cache[o])
  /\ store[o] = cache[o]
  /\ store' = [store EXCEPT ![o] = Version(cache[o].ver, SyncLabel, th[t].b)]
  /\ ConcatData(t, cache[o].ver)
  /\ UNCHANGED <<cache, meta, queue, wl, wlSeen, wlEvent, edits, faults, crashes>>

\* The update is refused with a conflict: RetryOnConflict reads the cache again,
\* and gives up after RetrySteps attempts.
Conflict(t) ==
  LET o == Ref(t).obj IN
  /\ InLoop(t) /\ Ref(t).watch
  /\ Exists(cache[o]) /\ NeedsMark(cache[o])
  /\ Exists(store[o]) /\ store[o] # cache[o]
  /\ IF th[t].tries + 1 < RetrySteps
     THEN /\ th' = [th EXCEPT ![t] =
                     Reading(th[t].b, th[t].data, th[t].tries + 1, th[t].calls)]
          /\ UNCHANGED queue
     ELSE Fail(t)
  /\ UNCHANGED <<store, cache, meta, wl, wlSeen, wlEvent, edits, faults, crashes>>

\* The object is missing in the cache, or gone when the update arrives.
NotFound(t) ==
  LET o == Ref(t).obj IN
  /\ InLoop(t)
  /\ \/ ~Exists(cache[o])
     \/ Ref(t).watch /\ NeedsMark(cache[o]) /\ ~Exists(store[o])
  /\ Fail(t)
  /\ UNCHANGED <<store, cache, meta, wl, wlSeen, wlEvent, edits, faults, crashes>>

\* The update fails for a transient reason.
MarkFault(t) ==
  /\ InLoop(t) /\ Ref(t).watch
  /\ Exists(cache[Ref(t).obj]) /\ NeedsMark(cache[Ref(t).obj])
  /\ faults < MaxFaults
  /\ faults' = faults + 1
  /\ Fail(t)
  /\ UNCHANGED <<store, cache, meta, wl, wlSeen, wlEvent, edits, crashes>>

PreprocessSpec(t) ==
  \/ IngressFault(t)
  \/ CheckExternalObject(t)
  \/ ReadMarked(t)
  \/ Mark(t)
  \/ Conflict(t)
  \/ NotFound(t)
  \/ MarkFault(t)

-----------------------------------------------------------------------------
(* Reconcile                                                                *)

StartReconcile(b) ==
  /\ b \in queue /\ th[Worker] = Idle
  /\ queue' = queue \ {b}
  /\ th' = [th EXCEPT ![Worker] = Preprocessing(b, <<>>)]
  /\ UNCHANGED <<store, cache, meta, wl, wlSeen, wlEvent, edits, faults, crashes>>

\* Mutant: a workload that exists is left alone.
CreateObjects ==
  LET b == th[Worker].b
      new == IF wl[b].exists THEN wl[b] ELSE [exists |-> TRUE, hash |-> th[Worker].data]
  IN
  /\ PrepDone(Worker)
  /\ wl' = [wl EXCEPT ![b] = new]
  /\ wlEvent' = [wlEvent EXCEPT ![b] = @ \/ wl[b] # new]
  /\ th' = [th EXCEPT ![Worker] = Idle]
  /\ queue' \in {queue, queue \cup {b}}
  /\ UNCHANGED <<store, cache, meta, wlSeen, edits, faults, crashes>>

\* InitObjects puts the hash on the Pod template and applyObjects patches the
\* workload.  When the status update that ends Reconcile changes the resource,
\* the resource's own event enqueues it again.
ApplyObjects ==
  LET b == th[Worker].b
      new == [exists |-> TRUE, hash |-> th[Worker].data]
  IN
  /\ PrepDone(Worker)
  /\ wl' = [wl EXCEPT ![b] = new]
  /\ wlEvent' = [wlEvent EXCEPT ![b] = @ \/ wl[b] # new]
  /\ th' = [th EXCEPT ![Worker] = Idle]
  /\ queue' \in {queue, queue \cup {b}}
  /\ UNCHANGED <<store, cache, meta, wlSeen, edits, faults, crashes>>

\* A step between preprocessSpec and the patch of the workload fails.
ApplyFault ==
  /\ PrepDone(Worker)
  /\ faults < MaxFaults
  /\ faults' = faults + 1
  /\ Fail(Worker)
  /\ UNCHANGED <<store, cache, meta, wl, wlSeen, wlEvent, edits, crashes>>

-----------------------------------------------------------------------------
(* The watches                                                              *)

\* The request the map function makes for an object: none without annotation.
Call(object) == IF object.owner = NoName THEN <<>> ELSE <<object.owner>>

\* The metadata informer delivers the newest state of o, or its deletion.  The
\* label predicate looks at the new object (at a deletion, the last known one);
\* the map function is called for the old object and then for the new one.
Deliver(o) ==
  LET h == HandlerOf[o]
      object == IF Exists(store[o]) THEN store[o] ELSE meta[o]
  IN
  /\ th[h] = Idle
  /\ meta[o] # store[o]
  /\ TypedFirst => cache[o] = store[o]
  /\ meta' = [meta EXCEPT ![o] = store[o]]
  /\ th' = IF object.label = "true"
           THEN [th EXCEPT ![h] = Resting(Call(meta[o]) \o Call(store[o]))]
           ELSE th
  /\ UNCHANGED <<store, cache, queue, wl, wlSeen, wlEvent, edits, faults, crashes>>

\* requestByExtConfigLabel looks for the workload in the cache, and goes on to
\* preprocessSpec only when there is one.
FindDeployment(h) ==
  LET b == Head(th[h].calls)
      rest == Tail(th[h].calls)
  IN
  /\ th[h].pc = "idle" /\ th[h].calls # <<>>
  /\ th' = [th EXCEPT ![h] = IF wlSeen[b] THEN Preprocessing(b, rest) ELSE Resting(rest)]
  /\ UNCHANGED <<store, cache, meta, queue, wl, wlSeen, wlEvent, edits, faults, crashes>>

\* Mutant: no difference is ever seen.
RequestNever(h) ==
  /\ PrepDone(h)
  /\ th' = [th EXCEPT ![h] = Resting(th[h].calls)]
  /\ UNCHANGED <<store, cache, meta, queue, wl, wlSeen, wlEvent, edits, faults, crashes>>

\* requestByExtConfigLabel compares the new hash with an annotation of the
\* workload itself, where no code ever puts one (the hash is on the Pod
\* template), so a handler that gets this far always enqueues.
RequestByExtConfigLabel(h) ==
  /\ PrepDone(h)
  /\ queue' = queue \cup {th[h].b}
  /\ th' = [th EXCEPT ![h] = Resting(th[h].calls)]
  /\ UNCHANGED <<store, cache, meta, wl, wlSeen, wlEvent, edits, faults, crashes>>

\* Mutant: the workload is not owned.
UnownedWorkloadEvent(b) ==
  /\ wlEvent[b]
  /\ wlEvent' = [wlEvent EXCEPT ![b] = FALSE]
  /\ wlSeen' = [wlSeen EXCEPT ![b] = TRUE]
  /\ UNCHANGED <<store, cache, meta, queue, th, wl, edits, faults, crashes>>

\* Owns(): an event of the workload enqueues its owner.
OwnedWorkloadEvent(b) ==
  /\ wlEvent[b]
  /\ wlEvent' = [wlEvent EXCEPT ![b] = FALSE]
  /\ wlSeen' = [wlSeen EXCEPT ![b] = TRUE]
  /\ queue' = queue \cup {b}
  /\ UNCHANGED <<store, cache, meta, th, wl, edits, faults, crashes>>

\* Anything else that enqueues b: an edit of the resource, a status change of
\* its workload, the periodic resync of the informers.
BackstageEvent(b) ==
  /\ b \notin queue
  /\ queue' = queue \cup {b}
  /\ UNCHANGED <<store, cache, meta, th, wl, wlSeen, wlEvent, edits, faults, crashes>>

\* The typed informer catches up with the API server.
SyncCache(o) ==
  /\ cache[o] # store[o]
  /\ cache' = [cache EXCEPT ![o] = store[o]]
  /\ UNCHANGED <<store, meta, queue, th, wl, wlSeen, wlEvent, edits, faults, crashes>>

\* The operator restarts: the caches are filled anew, every resource is
\* enqueued and every object is announced again.
Crash ==
  /\ crashes < MaxCrashes
  /\ crashes' = crashes + 1
  /\ cache' = store
  /\ meta' = [o \in Objects |-> Absent]
  /\ queue' = Backstages
  /\ th' = [t \in Threads |-> Idle]
  /\ wlSeen' = [b \in Backstages |-> wl[b].exists]
  /\ wlEvent' = [b \in Backstages |-> FALSE]
  /\ UNCHANGED <<store, wl, edits, faults>>

-----------------------------------------------------------------------------
(* The users                                                                *)

Write(o, obj) ==
  /\ edits < MaxEdits
  /\ edits' = edits + 1
  /\ store' = [store EXCEPT ![o] = obj]
  /\ UNCHANGED <<cache, meta, queue, th, wl, wlSeen, wlEvent, faults, crashes>>

CreateObject(o) == ~Exists(store[o]) /\ Write(o, Unmarked(edits + 1))

\* An edit in place keeps the label and the annotation.
EditObject(o) == Exists(store[o]) /\ Write(o, Version(edits + 1, store[o].label, store[o].owner))

\* A replacement (kubectl replace) drops them.
ReplaceObject(o) == MayReplace /\ Exists(store[o]) /\ Write(o, Unmarked(edits + 1))

DeleteObject(o) == MayReplace /\ Exists(store[o]) /\ Write(o, Absent)

User(o) == CreateObject(o) \/ EditObject(o) \/ ReplaceObject(o) \/ DeleteObject(o)

-----------------------------------------------------------------------------
Next ==
  \/ \E t \in Threads : PreprocessSpec(t)
  \/ \E b \in Backstages : StartReconcile(b) \/ OwnedWorkloadEvent(b) \/ BackstageEvent(b)
  \/ ApplyObjects
  \/ ApplyFault
  \/ \E o \in Objects : Deliver(o) \/ SyncCache(o) \/ User(o)
  \/ \E h \in Handlers : FindDeployment(h) \/ RequestByExtConfigLabel(h)
  \/ Crash

(* The goroutines run, the informers deliver, and the workqueue, which is   *)
(* first in first out, starves no instance.                                 *)
Fairness ==
  /\ \A t \in Threads : WF_vars(PreprocessSpec(t))
  /\ \A b \in Backstages : SF_vars(StartReconcile(b)) /\ WF_vars(OwnedWorkloadEvent(b))
  /\ WF_vars(ApplyObjects)
  /\ \A o \in Objects : WF_vars(Deliver(o)) /\ WF_vars(SyncCache(o))
  /\ \A h \in Handlers : WF_vars(FindDeployment(h)) /\ WF_vars(RequestByExtConfigLabel(h))

Safety == Init /\ [][Next]_vars
Spec == Safety /\ Fairness

(* The informers also resync: every period each resource is announced again *)
(* (controller-runtime's default SyncPeriod, 10 hours).                     *)
ResyncSpec == Spec /\ \A b \in Backstages : WF_vars(BackstageEvent(b))

-----------------------------------------------------------------------------
(* Properties                                                               *)

CurrentHash(b) ==
  [j \in Slots(b) |-> IF Refs[b][j].watch THEN store[Refs[b][j].obj].ver ELSE NoData]

AllExist(b) == \A j \in Slots(b) : Exists(store[Refs[b][j].obj])

InSync(b) == wl[b].exists /\ wl[b].hash = CurrentHash(b)

\* Nothing is running and nothing is left to deliver.
Quiescent ==
  /\ queue = {} /\ th = [t \in Threads |-> Idle]
  /\ cache = store /\ meta = store
  /\ \A b \in Backstages : ~wlEvent[b]

\* No change is lost: when the operator has nothing left to do, the Pod template
\* of every instance carries the hash of the present contents of its objects
\* (requestByExtConfigLabel drops events, and Reconcile reads an object long
\* before it applies the hash).
NoLostRefresh == Quiescent => \A b \in Backstages : AllExist(b) => InSync(b)

\* The operator never overwrites what a user wrote: addExtConfig writes whole
\* cached objects back, yet contents change only by writes of users.
UserDataPreserved ==
  [][\A o \in Objects : store'[o].ver # store[o].ver
        => edits' = edits + 1 /\ store'[o].ver \in {NoVersion, edits'}]_vars

\* Instances that share an object never take it from each other: once an
\* object names an instance, addExtConfig leaves the annotation alone.
FirstOwnerWins ==
  [][\A o \in Objects : store[o].owner # NoName /\ store'[o].ver = store[o].ver
        => store'[o].owner = store[o].owner]_vars

\* A workload is never set back to older contents of an object, whatever the
\* order in which reconciles, handlers, informers and restarts interleave.
NoRollback ==
  [][\A b \in Backstages : wl[b].exists =>
        /\ wl'[b].exists
        /\ \A j \in Slots(b) : wl[b].hash[j] <= wl'[b].hash[j]]_vars

\* Once the users leave the objects alone, every instance whose objects exist
\* gets their present contents, for good (Reconcile and the watches).
EventuallyRefreshed == \A b \in Backstages : <>[](AllExist(b) => InSync(b))

\* The promise of the operator, as a specification of its own.
Promise == INSTANCE PodRefresh
             WITH clock <- edits, contents <- [o \in Objects |-> store[o].ver], applied <- wl

\* Pods move only forward and are brought up to date: the watches and Reconcile
\* together implement PodRefresh, its fairness included.
ImplementsPodRefresh == Promise!Spec

=============================================================================
