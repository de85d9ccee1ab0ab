-------------------------- MODULE ConfigSyncProofs --------------------------
(* Proofs about ConfigSync, for all instances, objects, references, numbers *)
(* of retries and bounds.                                                   *)
EXTENDS ConfigSyncInv, TLAPS

USE Zenon DEF NoVersion, NoData

-----------------------------------------------------------------------------
(* Types                                                                    *)

LEMMA RecordTypes ==
  /\ Absent \in Object
  /\ \A v \in Nat : Unmarked(v) \in Object
  /\ NoWorkload \in Workload
  /\ Idle \in Thread
  /\ \A c \in Seq(Backstages) : Resting(c) \in Thread
  /\ \A b \in Backstages, d \in Seq(Nat), n \in Nat, c \in Seq(Backstages) :
       Reading(b, d, n, c) \in Thread
  /\ \A b \in Backstages, c \in Seq(Backstages) :
       Preprocessing(b, c) \in Thread /\ Preprocessing(b, c).b = b
<1>1. <<>> \in Seq(Nat) /\ <<>> \in Seq(Backstages)
  BY SMT
<1> QED
  BY <1>1 DEF Absent, Unmarked, Version, Object, NoWorkload, Workload, Idle, Resting, Reading, Thread,
              Preprocessing

LEMMA InitType == Init => TypeInv
<1> SUFFICES ASSUME Init PROVE TypeInv
  OBVIOUS
<1>1. store \in [Objects -> Object] /\ cache \in [Objects -> Object]
  BY RecordTypes DEF Init
<1>2. meta \in [Objects -> Object] /\ th \in [Threads -> Thread] /\ wl \in [Backstages -> Workload]
  BY RecordTypes DEF Init
<1>3. \A t \in Threads : th[t].pc = "idle"
  BY DEF Init, Idle, Resting
<1> QED
  BY <1>1, <1>2, <1>3 DEF Init, TypeOK, TypeInv

LEMMA RefTypes ==
  ASSUME NEW b \in Backstages, NEW j \in 1 .. Len(Refs[b])
  PROVE  /\ Len(Refs[b]) \in Nat /\ DOMAIN Refs[b] = 1 .. Len(Refs[b])
         /\ Refs[b][j].obj \in Objects /\ Refs[b][j].watch \in BOOLEAN
<1> DEFINE R == [obj : Objects, watch : BOOLEAN]
<1>1. Refs[b] \in Seq(R)
  BY ConstantsAssumption
<1>2. ASSUME NEW s \in Seq(R), NEW i \in 1 .. Len(s)
      PROVE  s[i] \in R /\ Len(s) \in Nat /\ DOMAIN s = 1 .. Len(s)
  <2> HIDE DEF R
  <2> QED
    BY SMT
<1>3. Refs[b][j] \in R /\ Len(Refs[b]) \in Nat /\ DOMAIN Refs[b] = 1 .. Len(Refs[b])
  BY <1>1, <1>2
<1> QED
  BY <1>3

\* A thread in the loop of preprocessSpec has a reference before it.
LEMMA RefType ==
  ASSUME TypeInv, NEW t \in Threads, InLoop(t)
  PROVE  /\ th[t].b \in Backstages
         /\ Len(th[t].data) + 1 \in 1 .. Len(Refs[th[t].b])
         /\ Ref(t).obj \in Objects /\ Ref(t).watch \in BOOLEAN
<1>1. th[t].b \in Backstages /\ Len(th[t].data) \in Nat
  BY SMT DEF TypeOK, TypeInv, Thread, InLoop
<1>2. Refs[th[t].b] \in Seq([obj : Objects, watch : BOOLEAN])
  BY <1>1, ConstantsAssumption
<1>3. Len(th[t].data) + 1 \in 1 .. Len(Refs[th[t].b])
  BY <1>1, <1>2, SMT DEF InLoop
<1>4. Ref(t).obj \in Objects /\ Ref(t).watch \in BOOLEAN
  BY <1>1, <1>3, RefTypes DEF Ref
<1> QED
  BY <1>1, <1>3, <1>4

LEMMA CallType ==
  ASSUME NEW x \in Object, NEW y \in Object
  PROVE  Call(x) \in Seq(Backstages) /\ Call(x) \o Call(y) \in Seq(Backstages)
<1>1. \A b \in Backstages : <<b>> \in Seq(Backstages)
  BY SMT
<1>2. <<>> \in Seq(Backstages)
  BY SMT
<1>3. \A z \in Object : z.owner # NoName => z.owner \in Backstages
  BY DEF Object
<1>4. Call(x) \in Seq(Backstages) /\ Call(y) \in Seq(Backstages)
  BY <1>1, <1>2, <1>3 DEF Call
<1> QED
  BY <1>4, SMT

LEMMA FailType ==
  ASSUME TypeInv, NEW t \in Threads, th[t].pc = "prep", Fail(t)
  PROVE  /\ queue' \in SUBSET Backstages
         /\ th' \in [Threads -> Thread]
         /\ \A u \in Threads : th'[u].pc = "prep" => th'[u].b \in Backstages
<1>1. Resting(th[t].calls) \in Thread /\ Resting(th[t].calls).pc = "idle"
  BY RecordTypes DEF Resting, Thread, TypeInv, TypeOK
<1> QED
  BY <1>1 DEF Fail, TypeInv, TypeOK

LEMMA ConcatType ==
  ASSUME TypeInv, NEW t \in Threads, th[t].pc = "prep", NEW d \in Nat, ConcatData(t, d)
  PROVE  /\ th' \in [Threads -> Thread]
         /\ \A u \in Threads : th'[u].pc = "prep" => th'[u].b \in Backstages
<1> DEFINE new == Reading(th[t].b, Append(th[t].data, d), 0, th[t].calls)
<1>1. Append(th[t].data, d) \in Seq(Nat)
  BY SMT DEF TypeInv, TypeOK, Thread
<1>2. new \in Thread /\ new.b = th[t].b
  BY <1>1, RecordTypes DEF TypeInv, TypeOK, Thread, Reading
<1> QED
  BY <1>2 DEF ConcatData, TypeInv, TypeOK

LEMMA NextType == TypeInv /\ [Next]_vars => TypeInv'
<1> SUFFICES ASSUME TypeInv, [Next]_vars PROVE TypeInv'
  OBVIOUS
<1> USE DEF TypeInv, TypeOK
<1>1. ASSUME NEW t \in Threads, IngressFault(t) PROVE TypeInv'
  BY <1>1, FailType, SMT DEF IngressFault
<1>2. ASSUME NEW t \in Threads, CheckExternalObject(t) PROVE TypeInv'
  BY <1>2, ConcatType DEF CheckExternalObject, InLoop
<1>3. ASSUME NEW t \in Threads, ReadMarked(t) PROVE TypeInv'
  <2>1. cache[Ref(t).obj].ver \in Nat /\ th[t].pc = "prep"
    BY <1>3, RefType DEF ReadMarked, Object, InLoop
  <2> QED
    BY <1>3, <2>1, ConcatType DEF ReadMarked
<1>4. ASSUME NEW t \in Threads, Mark(t) PROVE TypeInv'
  <2> DEFINE o == Ref(t).obj
  <2>1. th[t].pc = "prep" /\ th[t].b \in Backstages /\ o \in Objects
    BY <1>4, RefType DEF Mark, InLoop
  <2>2. cache[o].ver \in Nat /\ Version(cache[o].ver, SyncLabel, th[t].b) \in Object
    BY <2>1, ConstantsAssumption DEF Object, SyncLabel, Version
  <2>3. store' \in [Objects -> Object]
    BY <1>4, <2>2 DEF Mark
  <2> QED
    BY <1>4, <2>1, <2>2, <2>3, ConcatType DEF Mark
<1>5. ASSUME NEW t \in Threads, Conflict(t) PROVE TypeInv'
  <2>1. th[t].pc = "prep" /\ th[t].b \in Backstages
    BY <1>5, RefType DEF Conflict, InLoop
  <2>2. CASE th[t].tries + 1 < RetrySteps
    <3> DEFINE new == Reading(th[t].b, th[t].data, th[t].tries + 1, th[t].calls)
    <3>1. new \in Thread /\ new.b = th[t].b
      BY <2>1, RecordTypes, SMT DEF Thread, Reading
    <3> QED
      BY <1>5, <2>1, <2>2, <3>1 DEF Conflict
  <2>3. CASE ~(th[t].tries + 1 < RetrySteps)
    BY <1>5, <2>1, <2>3, FailType DEF Conflict
  <2> QED
    BY <2>2, <2>3
<1>6. ASSUME NEW t \in Threads, NotFound(t) PROVE TypeInv'
  BY <1>6, FailType DEF NotFound, InLoop
<1>7. ASSUME NEW t \in Threads, MarkFault(t) PROVE TypeInv'
  BY <1>7, FailType, SMT DEF MarkFault, InLoop
<1>8. ASSUME NEW b \in Backstages, StartReconcile(b) PROVE TypeInv'
  <2>0. <<>> \in Seq(Backstages)
    BY SMT
  <2>1. Preprocessing(b, <<>>) \in Thread /\ Preprocessing(b, <<>>).b = b
    BY <2>0, RecordTypes
  <2> QED
    BY <1>8, <2>1 DEF StartReconcile
<1>9. CASE ApplyObjects
  <2>1. th[Worker].b \in Backstages /\ th[Worker].data \in Seq(Nat)
    BY <1>9 DEF ApplyObjects, PrepDone, Threads, Thread
  <2>2. [exists |-> TRUE, hash |-> th[Worker].data] \in Workload
    BY <2>1 DEF Workload
  <2>3. wl' \in [Backstages -> Workload]
    BY <1>9, <2>2 DEF ApplyObjects
  <2>4. th' \in [Threads -> Thread] /\ \A u \in Threads : th'[u].pc = "prep" => th'[u].b \in Backstages
    BY <1>9, RecordTypes DEF ApplyObjects, Idle, Resting
  <2>5. wlEvent' \in [Backstages -> BOOLEAN]
    BY <1>9 DEF ApplyObjects
  <2>6. queue' \in SUBSET Backstages
    BY <1>9, <2>1 DEF ApplyObjects
  <2> QED
    BY <1>9, <2>3, <2>4, <2>5, <2>6 DEF ApplyObjects
<1>10. CASE ApplyFault
  BY <1>10, FailType, SMT DEF ApplyFault, PrepDone, Threads
<1>11. ASSUME NEW o \in Objects, Deliver(o) PROVE TypeInv'
  <2> DEFINE new == Resting(Call(meta[o]) \o Call(store[o]))
  <2>1. new \in Thread /\ new.pc = "idle"
    BY CallType, RecordTypes DEF Resting
  <2>2. meta' \in [Objects -> Object]
    BY <1>11 DEF Deliver
  <2> QED
    BY <1>11, <2>1, <2>2 DEF Deliver
<1>12. ASSUME NEW h \in Handlers, FindDeployment(h) PROVE TypeInv'
  <2> DEFINE rest == Tail(th[h].calls)  b == Head(th[h].calls)
  <2>1. h \in Threads /\ th[h].calls \in Seq(Backstages) /\ th[h].calls # <<>>
    BY <1>12 DEF FindDeployment, Threads, Thread
  <2>2. rest \in Seq(Backstages) /\ b \in Backstages
    BY <2>1, SMT
  <2>3. Preprocessing(b, rest) \in Thread /\ Preprocessing(b, rest).b = b
    BY <2>2, RecordTypes
  <2>4. Resting(rest) \in Thread /\ Resting(rest).pc = "idle"
    BY <2>2, RecordTypes DEF Resting
  <2> QED
    BY <1>12, <2>1, <2>2, <2>3, <2>4 DEF FindDeployment
<1>13. ASSUME NEW h \in Handlers, RequestByExtConfigLabel(h) PROVE TypeInv'
  <2>1. h \in Threads /\ th[h].b \in Backstages /\ th[h].calls \in Seq(Backstages)
    BY <1>13 DEF RequestByExtConfigLabel, PrepDone, Threads, Thread
  <2>2. Resting(th[h].calls) \in Thread /\ Resting(th[h].calls).pc = "idle"
    BY <2>1, RecordTypes DEF Resting
  <2> QED
    BY <1>13, <2>1, <2>2 DEF RequestByExtConfigLabel
<1>14. ASSUME NEW b \in Backstages, OwnedWorkloadEvent(b) PROVE TypeInv'
  BY <1>14 DEF OwnedWorkloadEvent
<1>15. ASSUME NEW b \in Backstages, BackstageEvent(b) PROVE TypeInv'
  BY <1>15 DEF BackstageEvent
<1>16. ASSUME NEW o \in Objects, SyncCache(o) PROVE TypeInv'
  BY <1>16 DEF SyncCache
<1>17. CASE Crash
  <2>1. th' \in [Threads -> Thread] /\ \A u \in Threads : th'[u].pc = "idle"
    BY <1>17, RecordTypes DEF Crash, Idle, Resting
  <2>2. meta' \in [Objects -> Object]
    BY <1>17, RecordTypes DEF Crash
  <2>3. wlSeen' \in [Backstages -> BOOLEAN]
    BY <1>17 DEF Crash, Workload
  <2> QED
    BY <1>17, <2>1, <2>2, <2>3, SMT DEF Crash
<1>18. ASSUME NEW o \in Objects, User(o) PROVE TypeInv'
  <2>0. edits + 1 \in Nat /\ store[o] \in Object
    BY SMT
  <2>1. /\ Unmarked(edits + 1) \in Object /\ Absent \in Object
        /\ Version(edits + 1, store[o].label, store[o].owner) \in Object
    BY <2>0, RecordTypes DEF Version, Object
  <2>2. store' \in [Objects -> Object] /\ edits' \in Nat
    BY <1>18, <2>1, SMT DEF User, CreateObject, EditObject, ReplaceObject, DeleteObject, Write
  <2> QED
    BY <1>18, <2>2 DEF User, CreateObject, EditObject, ReplaceObject, DeleteObject, Write
<1>19. CASE UNCHANGED vars
  BY <1>19 DEF vars
<1> QED
  BY <1>1, <1>2, <1>3, <1>4, <1>5, <1>6, <1>7, <1>8, <1>9, <1>10, <1>11, <1>12, <1>13,
     <1>14, <1>15, <1>16, <1>17, <1>18, <1>19
  DEF Next, PreprocessSpec

\* Every variable keeps its type, and a goroutine that runs preprocessSpec does
\* so for an existing Backstage resource.
THEOREM TypeCorrect == Safety => []TypeOK
<1>1. Safety => []TypeInv
  BY InitType, NextType, PTL DEF Safety
<1> QED
  BY <1>1, PTL DEF TypeInv

-----------------------------------------------------------------------------
(* Workloads move only forward.                                             *)

\* The steps that change objects, or the typed informer's copies of them.
LEMMA ObjectSteps ==
  ASSUME [Next]_vars
  PROVE  \/ UNCHANGED <<store, cache, edits>>
         \/ \E t \in Threads : Mark(t)
         \/ \E o \in Objects : SyncCache(o)
         \/ Crash
         \/ \E o \in Objects : User(o)
BY DEF Next, vars, PreprocessSpec, IngressFault, CheckExternalObject, ReadMarked, Conflict,
       NotFound, MarkFault, StartReconcile, OwnedWorkloadEvent, BackstageEvent, ApplyObjects,
       ApplyFault, Deliver, FindDeployment, RequestByExtConfigLabel

\* ReadFrom and Contents in the next state, of values of this one.
ReadFromNext(v, o) ==
  /\ v \in 1 .. edits'
  /\ Exists(cache'[o]) => v <= cache'[o].ver
  /\ Exists(store'[o]) => v <= store'[o].ver

ContentsNext(b, data) ==
  /\ Len(data) <= Len(Refs[b])
  /\ \A j \in 1 .. Len(data) :
       IF Refs[b][j].watch THEN ReadFromNext(data[j], Refs[b][j].obj) ELSE data[j] = NoData

LEMMA VersionsStep ==
  ASSUME TypeInv, VersionsInv, [Next]_vars
  PROVE  /\ VersionsInv'
         /\ edits <= edits'
         /\ \A o \in Objects, v \in Nat : ReadFrom(v, o) => ReadFromNext(v, o)
<1> USE DEF VersionsInv, ReadFrom, ReadFromNext, Exists
<1>0. /\ edits \in Nat /\ store \in [Objects -> Object] /\ cache \in [Objects -> Object]
      /\ \A o \in Objects : store[o].ver \in Nat /\ cache[o].ver \in Nat
  BY DEF TypeInv, TypeOK, Object
<1>1. CASE UNCHANGED <<store, cache, edits>>
  BY <1>1, <1>0, SMT
<1>2. ASSUME NEW t \in Threads, Mark(t)
      PROVE  /\ edits' = edits /\ cache' = cache
             /\ \A o \in Objects : store'[o].ver = store[o].ver
  BY <1>0, <1>2, RefType DEF Mark, Version
<1>3. ASSUME NEW p \in Objects, SyncCache(p)
      PROVE  /\ edits' = edits /\ store' = store
             /\ \A o \in Objects : cache'[o] \in {cache[o], store[o]}
  BY <1>0, <1>3 DEF SyncCache
<1>4. ASSUME Crash
      PROVE  edits' = edits /\ store' = store /\ cache' = store
  BY <1>4 DEF Crash
<1>5. ASSUME NEW p \in Objects, User(p)
      PROVE  /\ edits' = edits + 1 /\ cache' = cache
             /\ \A o \in Objects : store'[o].ver \in {store[o].ver, NoVersion, edits + 1}
  <2>1. \/ Write(p, Unmarked(edits + 1))
        \/ Write(p, Version(edits + 1, store[p].label, store[p].owner))
        \/ Write(p, Absent)
    BY <1>5 DEF User, CreateObject, EditObject, ReplaceObject, DeleteObject
  <2>2. /\ Unmarked(edits + 1).ver = edits + 1 /\ Absent.ver = NoVersion
        /\ Version(edits + 1, store[p].label, store[p].owner).ver = edits + 1
    BY DEF Unmarked, Version, Absent
  <2>3. ASSUME NEW new, Write(p, new), new.ver \in {NoVersion, edits + 1}
        PROVE  /\ edits' = edits + 1 /\ cache' = cache
               /\ \A o \in Objects : store'[o].ver \in {store[o].ver, NoVersion, edits + 1}
    BY <1>0, <2>3 DEF Write
  <2> QED
    BY <2>1, <2>2, <2>3
<1>6. ASSUME NEW t \in Threads, Mark(t) PROVE VersionsInv' /\ edits <= edits'
        /\ \A o \in Objects, v \in Nat : ReadFrom(v, o) => ReadFromNext(v, o)
  BY <1>0, <1>2, <1>6, SMT
<1>7. ASSUME NEW p \in Objects, SyncCache(p) PROVE VersionsInv' /\ edits <= edits'
        /\ \A o \in Objects, v \in Nat : ReadFrom(v, o) => ReadFromNext(v, o)
  BY <1>0, <1>3, <1>7, SMT
<1>8. CASE Crash
  BY <1>0, <1>4, <1>8, SMT
<1>9. ASSUME NEW p \in Objects, User(p) PROVE VersionsInv' /\ edits <= edits'
        /\ \A o \in Objects, v \in Nat : ReadFrom(v, o) => ReadFromNext(v, o)
  BY <1>0, <1>5, <1>9, SMT
<1> QED
  BY <1>1, <1>6, <1>7, <1>8, <1>9, ObjectSteps

\* What a step does to the contents of objects: nothing, or the write of a user.
LEMMA ContentsOfObjects ==
  ASSUME TypeInv, [Next]_vars
  PROVE  LET contents == [o \in Objects |-> store[o].ver] IN
         \/ UNCHANGED <<edits, contents>>
         \/ /\ edits' = edits + 1
            /\ \E p \in Objects :
                 contents' \in {[contents EXCEPT ![p] = 0], [contents EXCEPT ![p] = edits']}
<1> DEFINE contents == [o \in Objects |-> store[o].ver]
<1>0. store \in [Objects -> Object]
  BY DEF TypeInv, TypeOK
<1>1. CASE UNCHANGED <<store, cache, edits>>
  BY <1>1
<1>2. ASSUME NEW t \in Threads, Mark(t)
      PROVE  UNCHANGED edits /\ \A o \in Objects : store'[o].ver = store[o].ver
  BY <1>0, <1>2, RefType DEF Mark, Version
<1>3. CASE (\E o \in Objects : SyncCache(o)) \/ Crash
  BY <1>3 DEF SyncCache, Crash
<1>4. ASSUME NEW p \in Objects, User(p)
      PROVE  edits' = edits + 1 /\ contents' \in {[contents EXCEPT ![p] = 0], [contents EXCEPT ![p] = edits']}
  <2>1. \/ Write(p, Unmarked(edits + 1))
        \/ Write(p, Version(edits + 1, store[p].label, store[p].owner))
        \/ Write(p, Absent)
    BY <1>4 DEF User, CreateObject, EditObject, ReplaceObject, DeleteObject
  <2>2. /\ Unmarked(edits + 1).ver = edits + 1 /\ Absent.ver = NoVersion
        /\ Version(edits + 1, store[p].label, store[p].owner).ver = edits + 1
    BY DEF Unmarked, Version, Absent
  <2>3. ASSUME NEW new, Write(p, new)
        PROVE  edits' = edits + 1 /\ contents' = [contents EXCEPT ![p] = new.ver]
    BY <1>0, <2>3 DEF Write
  <2> QED
    BY <2>1, <2>2, <2>3
<1> QED
  BY <1>1, <1>2, <1>3, <1>4, ObjectSteps

\* The steps that change a workload, or what the worker does.
LEMMA WorkerSteps ==
  ASSUME TypeInv, [Next]_vars
  PROVE  \/ wl' = wl /\ (th'[Worker] = th[Worker] \/ th'[Worker].pc = "idle")
         \/ wl' = wl /\ \E b \in Backstages : StartReconcile(b)
         \/ wl' = wl /\ th[Worker].pc = "prep" /\ th'[Worker].pc = "prep"
              /\ th'[Worker].b = th[Worker].b /\ th'[Worker].data = th[Worker].data
         \/ wl' = wl /\ CheckExternalObject(Worker)
         \/ wl' = wl /\ (ReadMarked(Worker) \/ Mark(Worker))
         \/ ApplyObjects
<1>1. th \in [Threads -> Thread] /\ Worker \in Threads /\ Worker \notin Handlers
  BY ConstantsAssumption DEF TypeInv, TypeOK, Threads
<1>2. ASSUME NEW t \in Threads, PreprocessSpec(t), t # Worker
      PROVE  wl' = wl /\ th'[Worker] = th[Worker]
  BY <1>1, <1>2 DEF PreprocessSpec, IngressFault, CheckExternalObject, ReadMarked, Mark, Conflict,
       NotFound, MarkFault, ConcatData, Fail
<1>3. ASSUME Fail(Worker) PROVE th'[Worker].pc = "idle"
  BY <1>1, <1>3 DEF Fail, Resting
<1>4. ASSUME Conflict(Worker)
      PROVE  wl' = wl /\ \/ th'[Worker].pc = "idle"
                         \/ th[Worker].pc = "prep" /\ th'[Worker].pc = "prep"
                              /\ th'[Worker].b = th[Worker].b /\ th'[Worker].data = th[Worker].data
  BY <1>1, <1>3, <1>4, SMT DEF Conflict, Reading, InLoop
<1>5. ASSUME PreprocessSpec(Worker)
      PROVE  \/ wl' = wl /\ th'[Worker].pc = "idle"
             \/ wl' = wl /\ th[Worker].pc = "prep" /\ th'[Worker].pc = "prep"
                  /\ th'[Worker].b = th[Worker].b /\ th'[Worker].data = th[Worker].data
             \/ wl' = wl /\ CheckExternalObject(Worker)
             \/ wl' = wl /\ (ReadMarked(Worker) \/ Mark(Worker))
  BY <1>3, <1>4, <1>5 DEF PreprocessSpec, IngressFault, CheckExternalObject, ReadMarked, Mark,
       NotFound, MarkFault
<1>6. ASSUME NEW h \in Handlers, FindDeployment(h) \/ RequestByExtConfigLabel(h)
      PROVE  wl' = wl /\ th'[Worker] = th[Worker]
  BY <1>1, <1>6 DEF FindDeployment, RequestByExtConfigLabel
<1>7. ASSUME NEW o \in Objects, Deliver(o) \/ SyncCache(o) \/ User(o)
      PROVE  wl' = wl /\ th'[Worker] = th[Worker]
  <2>1. HandlerOf[o] # Worker
    BY <1>1, ConstantsAssumption
  <2> QED
    BY <1>1, <1>7, <2>1 DEF Deliver, SyncCache, User, CreateObject, EditObject, ReplaceObject,
         DeleteObject, Write
<1>8. CASE Crash
  BY <1>1, <1>8 DEF Crash, Idle, Resting
<1>9. CASE ApplyFault
  BY <1>3, <1>9 DEF ApplyFault
<1>10. CASE UNCHANGED vars
  BY <1>10 DEF vars
<1>11. ASSUME NEW b \in Backstages, StartReconcile(b) \/ OwnedWorkloadEvent(b) \/ BackstageEvent(b)
       PROVE  wl' = wl /\ (th'[Worker] = th[Worker] \/ StartReconcile(b))
  BY <1>11 DEF StartReconcile, OwnedWorkloadEvent, BackstageEvent
<1> QED
  BY <1>2, <1>5, <1>6, <1>7, <1>8, <1>9, <1>10, <1>11 DEF Next

\* What the worker holds once a read appends d to its data.
LEMMA WorkerReads ==
  ASSUME TypeInv, InLoop(Worker), NEW d \in Nat, ConcatData(Worker, d)
  PROVE  /\ th'[Worker].pc = "prep" /\ th'[Worker].b = th[Worker].b
         /\ th'[Worker].data = Append(th[Worker].data, d)
         /\ Len(th'[Worker].data) = Len(th[Worker].data) + 1
         /\ Len(th'[Worker].data) <= Len(Refs[th[Worker].b])
         /\ \A j \in 1 .. Len(th[Worker].data) : th'[Worker].data[j] = th[Worker].data[j]
         /\ th'[Worker].data[Len(th[Worker].data) + 1] = d
         /\ Ref(Worker) = Refs[th[Worker].b][Len(th[Worker].data) + 1]
<1>1. Worker \in Threads /\ th \in [Threads -> Thread] /\ th[Worker].data \in Seq(Nat)
  BY DEF TypeInv, TypeOK, Threads, Thread
<1>2. th'[Worker] = Reading(th[Worker].b, Append(th[Worker].data, d), 0, th[Worker].calls)
  BY <1>1 DEF ConcatData
<1>3. /\ th'[Worker].pc = "prep" /\ th'[Worker].b = th[Worker].b
      /\ th'[Worker].data = Append(th[Worker].data, d)
  BY <1>2, SMT DEF Reading
<1>4. Len(th[Worker].data) + 1 <= Len(Refs[th[Worker].b])
  BY <1>1, RefType, SMT
<1> QED
  BY <1>1, <1>3, <1>4, SMT DEF Ref

LEMMA ContentsStep ==
  ASSUME TypeInv, VersionsInv, [Next]_vars, NEW b \in Backstages, NEW data \in Seq(Nat),
         Contents(b, data)
  PROVE  ContentsNext(b, data)
<1>1. \A j \in 1 .. Len(data) : j \in 1 .. Len(Refs[b]) /\ data[j] \in Nat
  BY ConstantsAssumption, SMT DEF Contents
<1>2. \A j \in 1 .. Len(data) : Refs[b][j].obj \in Objects
  BY <1>1, RefTypes
<1> QED
  BY <1>1, <1>2, VersionsStep DEF Contents, ContentsNext

LEMMA InitForward == Init => ForwardInv
<1> SUFFICES ASSUME Init PROVE ForwardInv
  OBVIOUS
<1>1. \A o \in Objects : store[o] = Absent \/ store[o] = Unmarked(1)
  BY DEF Init
<1>2. Absent.ver = 0 /\ Unmarked(1).ver = 1
  BY DEF Absent, Unmarked, Version
<1>4. VersionsInv
  BY <1>1, <1>2, SMT DEF Init, VersionsInv
<1>3. th[Worker].pc = "idle" /\ \A b \in Backstages : ~wl[b].exists
  BY DEF Init, Idle, Resting, NoWorkload, Threads
<1> QED
  BY <1>3, <1>4 DEF ForwardInv

LEMMA NextForward ==
  ASSUME TypeInv, TypeInv', ForwardInv, [Next]_vars
  PROVE  ForwardInv'
<1> DEFINE W == th[Worker]
<1>1. /\ VersionsInv /\ VersionsInv' /\ Worker \in Threads
      /\ th \in [Threads -> Thread] /\ th' \in [Threads -> Thread]
      /\ wl \in [Backstages -> Workload] /\ wl' \in [Backstages -> Workload]
  BY VersionsStep DEF ForwardInv, TypeInv, TypeOK, Threads
<1>2. ASSUME NEW b \in Backstages, NEW data \in Seq(Nat), Contents(b, data)
      PROVE  ContentsNext(b, data)
  BY <1>1, <1>2, ContentsStep
<1>3. /\ W.data \in Seq(Nat) /\ (W.pc = "prep" => W.b \in Backstages)
      /\ \A b \in Backstages : wl[b].hash \in Seq(Nat)
  BY <1>1 DEF TypeInv, Thread, Workload
<1>4. ASSUME wl' = wl
      PROVE  \A b \in Backstages : wl'[b].exists =>
               Len(wl'[b].hash) = Len(Refs[b]) /\ ContentsNext(b, wl'[b].hash)
  BY <1>2, <1>3, <1>4 DEF ForwardInv
<1>5. W.pc = "prep" => ContentsNext(W.b, W.data)
  BY <1>2, <1>3 DEF ForwardInv
<1>20. ASSUME \A b \in Backstages : wl'[b].exists =>
               Len(wl'[b].hash) = Len(Refs[b]) /\ ContentsNext(b, wl'[b].hash),
             th'[Worker].pc = "prep" =>
               /\ ContentsNext(th'[Worker].b, th'[Worker].data)
               /\ wl'[th'[Worker].b].exists =>
                    \A j \in 1 .. Len(th'[Worker].data) :
                      wl'[th'[Worker].b].hash[j] <= th'[Worker].data[j]
      PROVE  ForwardInv'
  BY <1>1, <1>20 DEF ForwardInv, Contents, ReadFrom, ContentsNext, ReadFromNext
<1>6. CASE wl' = wl /\ (th'[Worker] = th[Worker] \/ th'[Worker].pc = "idle")
  BY <1>20, <1>4, <1>5, <1>6 DEF ForwardInv
<1>7. CASE wl' = wl /\ \E b \in Backstages : StartReconcile(b)
  <2>1. th'[Worker].data = <<>> /\ th'[Worker].b \in Backstages
    BY <1>1, <1>7, SMT DEF StartReconcile, Preprocessing, Reading
  <2>2. ContentsNext(th'[Worker].b, th'[Worker].data) /\ Len(th'[Worker].data) = 0
    BY <2>1, ConstantsAssumption, SMT DEF ContentsNext
  <2> QED
    BY <1>20, <1>4, <1>7, <2>2, SMT
<1>8. CASE wl' = wl /\ th[Worker].pc = "prep" /\ th'[Worker].pc = "prep"
           /\ th'[Worker].b = th[Worker].b /\ th'[Worker].data = th[Worker].data
  BY <1>20, <1>4, <1>5, <1>8 DEF ForwardInv
<1>9. ASSUME wl' = wl, InLoop(Worker), NEW d \in Nat, ConcatData(Worker, d),
             IF Ref(Worker).watch THEN ReadFromNext(d, Ref(Worker).obj) ELSE d = NoData,
             wl[W.b].exists => wl[W.b].hash[Len(W.data) + 1] <= d
      PROVE  ForwardInv'
  <2> DEFINE n == Len(W.data)
  <2>1. W.pc = "prep" /\ W.b \in Backstages /\ n \in Nat
    BY <1>3, <1>9, SMT DEF InLoop
  <2>2. /\ th'[Worker].b = W.b /\ Len(th'[Worker].data) = n + 1 /\ n + 1 <= Len(Refs[W.b])
        /\ \A j \in 1 .. n : th'[Worker].data[j] = W.data[j]
        /\ th'[Worker].data[n + 1] = d /\ Ref(Worker) = Refs[W.b][n + 1]
    BY <1>9, WorkerReads
  <2>3. \A j \in 1 .. n + 1 : j \in 1 .. n \/ j = n + 1
    BY <2>1, SMT
  <2>4. ContentsNext(th'[Worker].b, th'[Worker].data)
    BY <1>5, <1>9, <2>1, <2>2, <2>3 DEF ContentsNext
  <2>5. wl'[W.b].exists =>
          \A j \in 1 .. n + 1 : wl'[W.b].hash[j] <= th'[Worker].data[j]
    BY <1>9, <2>1, <2>2, <2>3 DEF ForwardInv
  <2> QED
    BY <1>20, <1>4, <1>9, <2>2, <2>4, <2>5
\* What the workload carries for the next reference.
<1>10. ASSUME InLoop(Worker), wl[W.b].exists
       PROVE  IF Ref(Worker).watch
              THEN ReadFrom(wl[W.b].hash[Len(W.data) + 1], Ref(Worker).obj)
              ELSE wl[W.b].hash[Len(W.data) + 1] = NoData
  <2>1. W.b \in Backstages /\ Len(W.data) + 1 \in 1 .. Len(Refs[W.b])
    BY <1>1, <1>10, RefType
  <2>2. Contents(W.b, wl[W.b].hash) /\ Len(wl[W.b].hash) = Len(Refs[W.b])
    BY <1>10, <2>1 DEF ForwardInv
  <2> QED
    BY <2>1, <2>2 DEF Contents, Ref
<1>11. CASE wl' = wl /\ CheckExternalObject(Worker)
  BY <1>9, <1>10, <1>11, SMT DEF CheckExternalObject
<1>12. CASE wl' = wl /\ (ReadMarked(Worker) \/ Mark(Worker))
  <2> DEFINE o == Ref(Worker).obj
  <2>1. /\ InLoop(Worker) /\ Ref(Worker).watch /\ ConcatData(Worker, cache[o].ver)
        /\ Exists(cache[o]) /\ cache' = cache
    BY <1>12 DEF ReadMarked, Mark
  <2>2. o \in Objects
    BY <1>1, <2>1, RefType
  <2>3. /\ edits \in Nat /\ cache[o].ver \in Nat /\ store[o].ver \in Nat /\ cache[o].ver <= edits
        /\ Exists(store[o]) => cache[o].ver <= store[o].ver
    BY <1>1, <2>2 DEF VersionsInv, TypeInv, TypeOK, Object
  <2>4. ReadFrom(cache[o].ver, o)
    BY <2>1, <2>3, SMT DEF ReadFrom, Exists
  <2>5. ReadFromNext(cache[o].ver, o)
    BY <1>1, <2>2, <2>3, <2>4, VersionsStep
  <2>6. wl[W.b].exists => wl[W.b].hash[Len(W.data) + 1] <= cache[o].ver
    BY <1>10, <2>1 DEF ReadFrom
  <2> QED
    BY <1>9, <1>12, <2>1, <2>3, <2>5, <2>6
<1>13. CASE ApplyObjects
  <2>1. W.pc = "prep" /\ W.b \in Backstages /\ Len(W.data) = Len(Refs[W.b])
    BY <1>3, <1>13 DEF ApplyObjects, PrepDone
  <2>2. /\ th'[Worker].pc = "idle"
        /\ wl' = [wl EXCEPT ![W.b] = [exists |-> TRUE, hash |-> W.data]]
    BY <1>1, <1>13 DEF ApplyObjects, Idle, Resting
  <2>3. ASSUME NEW b \in Backstages, wl'[b].exists
        PROVE  Len(wl'[b].hash) = Len(Refs[b]) /\ ContentsNext(b, wl'[b].hash)
    <3>1. CASE b = W.b
      BY <1>1, <1>5, <2>1, <2>2, <3>1
    <3>2. CASE b # W.b
      <4>1. wl'[b] = wl[b]
        BY <1>1, <2>2, <3>2
      <4> QED
        BY <1>2, <1>3, <2>3, <4>1 DEF ForwardInv
    <3> QED
      BY <3>1, <3>2
  <2> QED
    BY <1>20, <2>2, <2>3
<1> QED
  BY <1>6, <1>7, <1>8, <1>11, <1>12, <1>13, WorkerSteps

LEMMA ForwardInvariant == Safety => [](TypeInv /\ ForwardInv)
<1>1. TypeInv /\ ForwardInv /\ [Next]_vars => (TypeInv /\ ForwardInv)'
  BY NextType, NextForward
<1> QED
  BY InitType, InitForward, <1>1, PTL DEF Safety

\* Only ApplyObjects changes a workload, and what the worker applies is newer.
LEMMA WorkloadStep ==
  ASSUME TypeInv, TypeInv', ForwardInv, ForwardInv', [Next]_vars, NEW b \in Backstages, wl'[b] # wl[b]
  PROVE  /\ wl' = [wl EXCEPT ![b] = wl'[b]] /\ wl'[b].exists
         /\ wl'[b] = [exists |-> TRUE, hash |-> wl'[b].hash]
         /\ wl'[b].hash \in Seq(Nat) /\ Len(wl'[b].hash) = Len(Refs[b])
         /\ Contents(b, wl'[b].hash)
         /\ wl[b].exists => \A j \in 1 .. Len(Refs[b]) : wl[b].hash[j] <= wl'[b].hash[j]
         /\ UNCHANGED <<store, edits>>
<1>1. ApplyObjects
  BY WorkerSteps
<1>2. /\ th[Worker].pc = "prep" /\ Worker \in Threads /\ th \in [Threads -> Thread]
      /\ wl \in [Backstages -> Workload]
  BY <1>1 DEF ApplyObjects, PrepDone, TypeInv, TypeOK, Threads
<1>3. th[Worker].b = b /\ th[Worker].data \in Seq(Nat) /\ Len(th[Worker].data) = Len(Refs[b])
  BY <1>1, <1>2 DEF ApplyObjects, PrepDone, TypeInv, Thread
<1>4. wl'[b] = [exists |-> TRUE, hash |-> th[Worker].data] /\ wl' = [wl EXCEPT ![b] = wl'[b]]
  BY <1>1, <1>2, <1>3 DEF ApplyObjects
<1>5. UNCHANGED <<store, edits>>
  BY <1>1 DEF ApplyObjects
<1> QED
  BY <1>2, <1>3, <1>4, <1>5, SMT DEF ForwardInv

\* In every environment, whatever the order in which the worker, the handlers,
\* the informers, users and restarts interleave, Reconcile never sets the Pod
\* template of an instance back to older contents of a referenced object.
THEOREM WorkloadsNeverRollBack == Safety => NoRollback
<1> DEFINE Step == \A b \in Backstages : wl[b].exists =>
              /\ wl'[b].exists
              /\ \A j \in Slots(b) : wl[b].hash[j] <= wl'[b].hash[j]
<1>1. TypeInv /\ ForwardInv /\ TypeInv' /\ ForwardInv' /\ [Next]_vars => [Step]_vars
  <2> SUFFICES ASSUME TypeInv, ForwardInv, TypeInv', ForwardInv', [Next]_vars,
                      NEW b \in Backstages, wl[b].exists
               PROVE  wl'[b].exists /\ \A j \in Slots(b) : wl[b].hash[j] <= wl'[b].hash[j]
    OBVIOUS
  <2>1. Slots(b) = 1 .. Len(Refs[b])
    BY ConstantsAssumption, SMT DEF Slots
  <2>2. CASE wl'[b] # wl[b]
    BY <2>1, <2>2, WorkloadStep
  <2>3. CASE wl'[b] = wl[b]
    <3>1. wl[b].hash \in Seq(Nat) /\ Len(wl[b].hash) = Len(Refs[b])
      BY DEF ForwardInv, TypeInv, TypeOK, Workload
    <3> QED
      BY <2>1, <2>3, <3>1, SMT
  <2> QED
    BY <2>2, <2>3
<1> QED
  BY <1>1, ForwardInvariant, PTL DEF Safety, NoRollback

\* The safety part of the promise: a step of ConfigSync is a write of a user, a
\* roll-out of newer contents, or invisible to PodRefresh.
THEOREM SafetyImplementsPodRefresh == Safety => Promise!Safety
<1>1. Init => Promise!Init
  <2> SUFFICES ASSUME Init PROVE Promise!Init
    OBVIOUS
  <2>1. \A o \in Objects : store[o] = Absent \/ store[o] = Unmarked(1)
    BY DEF Init
  <2>2. Absent.ver = 0 /\ Unmarked(1).ver = 1
    BY DEF Absent, Unmarked, Version
  <2>3. [o \in Objects |-> store[o].ver] \in [Objects -> {0, 1}]
    BY <2>1, <2>2
  <2> QED
    BY <2>3 DEF Init, Promise!Init, Promise!NotApplied, NoWorkload
<1>2. ASSUME TypeInv, ForwardInv, TypeInv', ForwardInv', [Next]_vars
      PROVE  [Promise!Next]_(Promise!vars)
  <2>1. CASE \E b \in Backstages : wl'[b] # wl[b]
    <3>1. PICK b \in Backstages : wl'[b] # wl[b]
      BY <2>1
    <3> DEFINE new == wl'[b].hash
    <3>2. /\ wl' = [wl EXCEPT ![b] = [exists |-> TRUE, hash |-> new]]
          /\ new \in Seq(Nat) /\ Len(new) = Len(Refs[b]) /\ Contents(b, new)
          /\ wl[b].exists => \A j \in 1 .. Len(Refs[b]) : wl[b].hash[j] <= new[j]
          /\ UNCHANGED <<store, edits>>
      BY <1>2, <3>1, WorkloadStep
    <3>3. DOMAIN Refs[b] = 1 .. Len(Refs[b]) /\ edits \in Nat
      BY <1>2, ConstantsAssumption, SMT DEF TypeInv, TypeOK
    <3>4. \A j \in DOMAIN Refs[b] : new[j] \in 0 .. edits /\ (Refs[b][j].watch <=> new[j] > 0)
      BY <3>2, <3>3, SMT DEF Contents, ReadFrom
    <3>5. new \in [DOMAIN Refs[b] -> 0 .. edits]
      BY <3>2, <3>3, <3>4, SMT
    <3>6. Promise!Forward(b, new)
      BY <3>2, <3>3, <3>4, <3>5 DEF Promise!Forward
    <3>7. Promise!Rollout(b)
      BY <3>2, <3>5, <3>6 DEF Promise!Rollout
    <3> QED
      BY <3>7 DEF Promise!Next
  <2>2. CASE \A b \in Backstages : wl'[b] = wl[b]
    <3>1. wl' = wl
      BY <1>2, <2>2, SMT DEF TypeInv, TypeOK
    <3> QED
      BY <1>2, <3>1, ContentsOfObjects DEF Promise!Next, Promise!vars, Promise!UserWrite
  <2> QED
    BY <2>1, <2>2
<1> QED
  BY <1>1, <1>2, ForwardInvariant, PTL DEF Safety, Promise!Safety

-----------------------------------------------------------------------------
(* Objects                                                                  *)

\* In every environment, contents of ConfigMaps and Secrets change only by the
\* writes of users: addExtConfig, which writes whole cached objects back, never
\* undoes an edit.
THEOREM UserDataIsPreserved == Safety => UserDataPreserved
<1> DEFINE Step == \A o \in Objects : store'[o].ver # store[o].ver
              => edits' = edits + 1 /\ store'[o].ver \in {NoVersion, edits'}
<1>1. TypeInv /\ [Next]_vars => [Step]_vars
  <2> SUFFICES ASSUME TypeInv, [Next]_vars, NEW o \in Objects, store'[o].ver # store[o].ver
               PROVE  edits' = edits + 1 /\ store'[o].ver \in {NoVersion, edits'}
    OBVIOUS
  <2> DEFINE contents == [p \in Objects |-> store[p].ver]
  <2>1. contents'[o] = store'[o].ver /\ contents[o] = store[o].ver
    OBVIOUS
  <2>2. contents' # contents
    BY <2>1
  <2>3. /\ edits' = edits + 1
        /\ \E p \in Objects :
             contents' \in {[contents EXCEPT ![p] = 0], [contents EXCEPT ![p] = edits']}
    BY <2>2, ContentsOfObjects
  <2> QED
    BY <2>1, <2>3
<1>2. Safety => []TypeInv
  BY InitType, NextType, PTL DEF Safety
<1> QED
  BY <1>1, <1>2, PTL DEF Safety, UserDataPreserved

\* Annotated objects are labelled the way addExtConfig labels them.
OwnerInv == \A o \in Objects : store[o].owner # NoName => store[o].label = SyncLabel

LEMMA OwnerStep ==
  ASSUME TypeInv, VersionsInv, OwnerInv, [Next]_vars
  PROVE  /\ OwnerInv'
         /\ \A o \in Objects : store[o].owner # NoName /\ store'[o].ver = store[o].ver
              => store'[o].owner = store[o].owner
<1>0. /\ store \in [Objects -> Object] /\ edits \in Nat
      /\ SyncLabel # ""
  BY DEF TypeInv, TypeOK, SyncLabel
<1>1. CASE UNCHANGED <<store, cache, edits>>
  BY <1>1 DEF OwnerInv
<1>2. ASSUME NEW t \in Threads, Mark(t)
      PROVE  /\ OwnerInv'
             /\ \A o \in Objects : store[o].owner # NoName /\ store'[o].ver = store[o].ver
                  => store'[o].owner = store[o].owner
  <2> DEFINE o == Ref(t).obj
  <2>1. o \in Objects /\ NeedsMark(store[o])
    BY <1>2, RefType DEF Mark
  <2>2. store[o].owner = NoName
    <3>1. store[o].owner # NoName => store[o].label = SyncLabel
      BY <2>1 DEF OwnerInv
    <3>2. store[o].label = "" \/ store[o].owner = NoName \/ store[o].label # SyncLabel
      BY <2>1 DEF NeedsMark
    <3> QED
      BY <1>0, <3>1, <3>2
  <2>3. /\ store' = [store EXCEPT ![o] = store'[o]]
        /\ store'[o].label = SyncLabel
    BY <1>0, <1>2, <2>1 DEF Mark, Version
  <2> QED
    BY <1>0, <2>1, <2>2, <2>3 DEF OwnerInv
<1>3. CASE (\E o \in Objects : SyncCache(o)) \/ Crash
  BY <1>3 DEF SyncCache, Crash, OwnerInv
<1>4. ASSUME NEW p \in Objects, User(p)
      PROVE  /\ OwnerInv'
             /\ \A o \in Objects : store[o].owner # NoName /\ store'[o].ver = store[o].ver
                  => store'[o].owner = store[o].owner
  <2>1. \/ Write(p, Unmarked(edits + 1))
        \/ Exists(store[p]) /\ Write(p, Version(edits + 1, store[p].label, store[p].owner))
        \/ Exists(store[p]) /\ Write(p, Absent)
    BY <1>4 DEF User, CreateObject, EditObject, ReplaceObject, DeleteObject
  <2>2. CASE Write(p, Unmarked(edits + 1)) \/ (Exists(store[p]) /\ Write(p, Absent))
    <3> DEFINE new == store'[p]
    <3>0. /\ Unmarked(edits + 1).owner = NoName /\ Unmarked(edits + 1).ver = edits + 1
          /\ Absent.owner = NoName /\ Absent.ver = NoVersion
      BY DEF Unmarked, Version, Absent
    <3>1. store' = [store EXCEPT ![p] = new] /\ new.owner = NoName
      BY <1>0, <2>2, <3>0 DEF Write
    <3>2. store[p].ver \in Nat /\ store[p].ver <= edits
      BY <1>0 DEF VersionsInv, Object
    <3>3. new.ver = edits + 1 \/ (new.ver = NoVersion /\ store[p].ver # NoVersion)
      BY <1>0, <2>2, <3>0 DEF Write, Exists
    <3>4. edits + 1 # store[p].ver
      <4>1. edits \in Nat
        BY <1>0
      <4>2. \A m, n \in Nat : m <= n => n + 1 # m
        BY SMT
      <4> QED
        BY <3>2, <4>1, <4>2
    <3>5. new.ver # store[p].ver
      BY <3>3, <3>4
    <3> QED
      BY <1>0, <3>1, <3>5 DEF OwnerInv
  <2>3. CASE Write(p, Version(edits + 1, store[p].label, store[p].owner))
    <3> DEFINE new == Version(edits + 1, store[p].label, store[p].owner)
    <3>1. new.label = store[p].label /\ new.owner = store[p].owner
      BY DEF Version
    <3>2. store' = [store EXCEPT ![p] = new]
      BY <2>3 DEF Write
    <3> HIDE DEF new
    <3> QED
      BY <1>0, <3>1, <3>2 DEF OwnerInv
  <2> QED
    BY <2>1, <2>2, <2>3
<1> QED
  BY <1>1, <1>2, <1>3, <1>4, ObjectSteps

\* In every environment, an object that names an instance goes on naming it:
\* instances that refer to the same object do not take it from each other.
THEOREM OwnersAreStable == Safety => FirstOwnerWins
<1> DEFINE Step == \A o \in Objects : store[o].owner # NoName /\ store'[o].ver = store[o].ver
              => store'[o].owner = store[o].owner
<1>1. Init => OwnerInv
  <2> SUFFICES ASSUME Init, NEW o \in Objects PROVE store[o].owner = NoName
    BY DEF OwnerInv
  <2>1. Absent.owner = NoName /\ Unmarked(1).owner = NoName
    BY DEF Absent, Unmarked, Version
  <2> QED
    BY <2>1 DEF Init
<1>2. TypeInv /\ ForwardInv /\ OwnerInv /\ [Next]_vars => OwnerInv' /\ [Step]_vars
  BY OwnerStep DEF ForwardInv
<1> QED
  BY <1>1, <1>2, ForwardInvariant, PTL DEF Safety, FirstOwnerWins

-----------------------------------------------------------------------------
(* No change of an external object is lost, in environments where the typed *)
(* informer is not behind the metadata informer, users edit objects in      *)
(* place, the ingress domain is not needed and no object is shared.         *)
(* First the marks of the external objects and what the worker has read     *)
(* while it reconciles; then that a reconcile which is on its way, as an    *)
(* event, in a handler or in the queue, stays on its way until it starts;   *)
(* and the inductive step.                                                  *)

-----------------------------------------------------------------------------
(* Marks                                                                    *)

LEMMA Environment ==
  ASSUME Benign
  PROVE  SyncLabel = "true" /\ TypedFirst /\ ~MayReplace /\ ~OpenShift
BY DEF Benign, SyncLabel

\* A write of a user makes a new version and keeps the marks.
LEMMA UserSteps ==
  ASSUME TypeInv, MarksInv, Benign, NEW p \in Objects, User(p)
  PROVE  /\ edits' = edits + 1
         /\ UNCHANGED <<cache, meta, queue, th, wl, wlSeen, wlEvent>>
         /\ \A o \in Objects : o # p => store'[o] = store[o]
         /\ store'[p].ver = edits + 1
         /\ store'[p].label = store[p].label /\ store'[p].owner = store[p].owner
<1>1. store \in [Objects -> Object]
  BY DEF TypeInv, TypeOK
<1>2. ~Exists(store[p]) => store[p].owner = NoName /\ store[p].label = ""
  BY DEF MarksInv, MarkedFor
<1>3. \/ ~Exists(store[p]) /\ Write(p, Unmarked(edits + 1))
      \/ Write(p, Version(edits + 1, store[p].label, store[p].owner))
  BY Environment DEF User, CreateObject, EditObject, ReplaceObject, DeleteObject
<1>4. /\ Unmarked(edits + 1).ver = edits + 1
      /\ Unmarked(edits + 1).label = "" /\ Unmarked(edits + 1).owner = NoName
  BY DEF Unmarked, Version
<1> DEFINE new == Version(edits + 1, store[p].label, store[p].owner)
<1>5. new.ver = edits + 1 /\ new.label = store[p].label /\ new.owner = store[p].owner
  BY DEF Version
<1>6. ASSUME NEW obj, Write(p, obj)
      PROVE  /\ edits' = edits + 1
             /\ UNCHANGED <<cache, meta, queue, th, wl, wlSeen, wlEvent>>
             /\ \A o \in Objects : o # p => store'[o] = store[o]
             /\ store'[p] = obj
  BY <1>1, <1>6 DEF Write
<1> HIDE DEF new
<1>7. CASE ~Exists(store[p]) /\ Write(p, Unmarked(edits + 1))
  BY <1>2, <1>4, <1>6, <1>7
<1>8. CASE Write(p, new)
  BY <1>5, <1>6, <1>8
<1> QED
  BY <1>3, <1>7, <1>8 DEF new

LEMMA WatchedRef ==
  ASSUME TypeInv, NEW t \in Threads, InLoop(t), Ref(t).watch
  PROVE  Ref(t).obj \in Watched(th[t].b)
<1>1. /\ Len(th[t].data) + 1 \in 1 .. Len(Refs[th[t].b])
      /\ th[t].b \in Backstages
  BY RefType
<1>2. Len(th[t].data) + 1 \in Slots(th[t].b)
  BY <1>1, RefTypes DEF Slots
<1> QED
  BY <1>2 DEF Watched, Ref

\* addExtConfig marks an object that nobody has marked.
LEMMA MarkSteps ==
  ASSUME TypeInv, MarksInv, Benign, NEW t \in Threads, Mark(t)
  PROVE  /\ th[t].b \in Backstages /\ th[t].b # NoName
         /\ Ref(t).obj \in Objects /\ Ref(t).obj \in Watched(th[t].b)
         /\ Exists(store[Ref(t).obj]) /\ store[Ref(t).obj] = cache[Ref(t).obj]
         /\ store[Ref(t).obj].owner = NoName
         /\ store'[Ref(t).obj].ver = store[Ref(t).obj].ver
         /\ store'[Ref(t).obj].label = "true" /\ store'[Ref(t).obj].owner = th[t].b
         /\ \A o \in Objects : o # Ref(t).obj => store'[o] = store[o]
         /\ UNCHANGED <<cache, meta, edits, queue, wl, wlSeen, wlEvent>>
<1> DEFINE o == Ref(t).obj
<1>1. InLoop(t) /\ Ref(t).watch /\ th[t].b \in Backstages /\ o \in Objects /\ o \in Watched(th[t].b)
  BY RefType, WatchedRef DEF Mark
<1>2. /\ Exists(store[o]) /\ store[o] = cache[o] /\ NeedsMark(store[o])
      /\ UNCHANGED <<cache, meta, edits, queue, wl, wlSeen, wlEvent>>
  BY DEF Mark
<1>3. store[o].owner # NoName => store[o].label = "true" /\ store[o].label # ""
  BY <1>1 DEF MarksInv, MarkedFor
<1>4. store[o].owner = NoName
  <2>1. store[o].label = "" \/ store[o].owner = NoName \/ store[o].label # "true"
    BY <1>2, Environment DEF NeedsMark
  <2> QED
    BY <1>3, <2>1
<1> DEFINE new == Version(cache[o].ver, "true", th[t].b)
<1>5. new.ver = store[o].ver /\ new.label = "true" /\ new.owner = th[t].b
  BY <1>2 DEF Version
<1>6. store' = [store EXCEPT ![o] = new]
  BY Environment DEF Mark
<1>7. store \in [Objects -> Object]
  BY DEF TypeInv, TypeOK
<1> HIDE DEF new, o
<1>8. store'[o] = new /\ \A p \in Objects : p # o => store'[p] = store[p]
  BY <1>1, <1>6, <1>7
<1>9. th[t].b # NoName
  BY <1>1, ConstantsAssumption
<1> QED
  BY <1>1, <1>2, <1>4, <1>5, <1>8, <1>9 DEF o

LEMMA InitMarks == Init => MarksInv
<1> SUFFICES ASSUME Init, NEW o \in Objects
             PROVE  /\ store[o].ver <= edits /\ meta[o].ver <= edits
                    /\ cache[o] = store[o] /\ meta[o].owner = NoName
                    /\ store[o].label = "" /\ store[o].owner = NoName
  BY DEF MarksInv
<1>1. store[o] = Absent \/ store[o] = Unmarked(1)
  BY DEF Init
<1>2. /\ Absent.ver = 0 /\ Absent.label = "" /\ Absent.owner = NoName
      /\ Unmarked(1).ver = 1 /\ Unmarked(1).label = "" /\ Unmarked(1).owner = NoName
  BY DEF Absent, Unmarked, Version
<1>3. edits = 1 /\ cache = store /\ meta[o] = Absent
  BY DEF Init
<1>4. store[o].ver \in {0, 1} /\ meta[o].ver = 0
  BY <1>1, <1>2, <1>3
<1>5. store[o].ver <= edits /\ meta[o].ver <= edits
  BY <1>3, <1>4, SMT
<1> QED
  BY <1>1, <1>2, <1>3, <1>5

LEMMA MarksStep ==
  ASSUME TypeInv, MarksInv, Benign, [Next]_vars
  PROVE  MarksInv'
<1>0. /\ edits \in Nat
      /\ store \in [Objects -> Object] /\ cache \in [Objects -> Object] /\ meta \in [Objects -> Object]
      /\ \A o \in Objects : store[o].ver \in Nat /\ meta[o].ver \in Nat
  BY DEF TypeInv, TypeOK, Object
<1>1. CASE UNCHANGED <<store, cache, meta, edits>>
  BY <1>1 DEF MarksInv, MarkedFor
<1>2. ASSUME NEW t \in Threads, Mark(t) PROVE MarksInv'
  <2> DEFINE m == Ref(t).obj
  <2>1. SUFFICES ASSUME NEW o \in Objects
                 PROVE  /\ store'[o].ver <= edits' /\ meta'[o].ver <= edits'
                        /\ Exists(cache'[o]) => Exists(store'[o])
                        /\ store'[o].label = "" <=> store'[o].owner = NoName
                        /\ store'[o].owner # NoName =>
                             MarkedFor(store'[o].owner, store'[o]) /\ o \in Watched(store'[o].owner)
                        /\ cache'[o].owner # NoName => cache'[o].owner = store'[o].owner
                        /\ meta'[o].owner # NoName => meta'[o].owner = store'[o].owner
                        /\ meta'[o] = store'[o] => cache'[o] = store'[o]
    BY DEF MarksInv
  <2>2. CASE o # m
    <3>1. store'[o] = store[o] /\ cache' = cache /\ meta' = meta /\ edits' = edits
      BY <1>2, <2>2, MarkSteps
    <3> QED
      BY <3>1 DEF MarksInv
  <2>3. CASE o = m
    <3>1. /\ cache'[o] = store[o] /\ meta'[o] = meta[o] /\ edits' = edits
          /\ Exists(store[o]) /\ store[o].owner = NoName
          /\ store'[o].ver = store[o].ver /\ store'[o].label = "true" /\ store'[o].owner = th[t].b
          /\ th[t].b # NoName /\ o \in Watched(th[t].b)
      BY <1>2, <2>3, MarkSteps
    <3>2. meta[o].owner = NoName /\ store[o].ver <= edits /\ meta[o].ver <= edits
      BY <3>1 DEF MarksInv
    <3>3. Exists(store'[o])
      BY <3>1 DEF Exists
    <3>4. meta'[o] # store'[o]
      BY <3>1, <3>2
    <3> QED
      BY <3>1, <3>2, <3>3, <3>4 DEF MarkedFor
  <2> QED
    BY <2>2, <2>3
<1>3. ASSUME NEW p \in Objects, User(p) PROVE MarksInv'
  <2>1. SUFFICES ASSUME NEW o \in Objects
                 PROVE  /\ store'[o].ver <= edits' /\ meta'[o].ver <= edits'
                        /\ Exists(cache'[o]) => Exists(store'[o])
                        /\ store'[o].label = "" <=> store'[o].owner = NoName
                        /\ store'[o].owner # NoName =>
                             MarkedFor(store'[o].owner, store'[o]) /\ o \in Watched(store'[o].owner)
                        /\ cache'[o].owner # NoName => cache'[o].owner = store'[o].owner
                        /\ meta'[o].owner # NoName => meta'[o].owner = store'[o].owner
                        /\ meta'[o] = store'[o] => cache'[o] = store'[o]
    BY DEF MarksInv
  <2>2. edits' = edits + 1 /\ cache' = cache /\ meta' = meta
    BY <1>3, UserSteps
  <2>3. store[o].ver <= edits + 1 /\ meta[o].ver <= edits + 1 /\ meta[o].ver # edits + 1
    <3>1. store[o].ver <= edits /\ meta[o].ver <= edits
      BY DEF MarksInv
    <3>2. edits \in Nat /\ store[o].ver \in Nat /\ meta[o].ver \in Nat
      BY <1>0
    <3>3. \A n, k \in Nat : k <= n => k <= n + 1 /\ k # n + 1
      BY SMT
    <3> QED
      BY <3>1, <3>2, <3>3
  <2>4. CASE o # p
    <3>1. store'[o] = store[o]
      BY <1>3, <2>4, UserSteps
    <3> QED
      BY <2>2, <2>3, <3>1 DEF MarksInv
  <2>5. CASE o = p
    <3>1. store'[o].ver = edits + 1 /\ store'[o].label = store[o].label /\ store'[o].owner = store[o].owner
      BY <1>3, <2>5, UserSteps
    <3>2. Exists(store'[o])
      <4>1. edits + 1 # 0 /\ edits + 1 <= edits + 1
        BY <1>0, SMT
      <4> QED
        BY <3>1, <4>1 DEF Exists
    <3>3. store'[o].ver <= edits' /\ meta'[o].ver <= edits' /\ meta'[o] # store'[o]
      <4>1. edits + 1 <= edits + 1
        BY <1>0, SMT
      <4> QED
        BY <2>2, <2>3, <3>1, <4>1
    <3> QED
      BY <2>2, <3>1, <3>2, <3>3 DEF MarksInv, MarkedFor
  <2> QED
    BY <2>4, <2>5
<1>4. ASSUME NEW p \in Objects, SyncCache(p) PROVE MarksInv'
  <2>1. /\ \A o \in Objects : cache'[o] \in {cache[o], store[o]}
        /\ store' = store /\ meta' = meta /\ edits' = edits
    BY <1>0, <1>4 DEF SyncCache
  <2> QED
    BY <2>1 DEF MarksInv, MarkedFor
<1>5. ASSUME NEW p \in Objects, Deliver(p) PROVE MarksInv'
  <2>1. /\ cache[p] = store[p] /\ meta'[p] = store[p]
        /\ \A o \in Objects : o # p => meta'[o] = meta[o]
        /\ store' = store /\ cache' = cache /\ edits' = edits
    BY <1>0, <1>5, Environment DEF Deliver
  <2> QED
    BY <2>1 DEF MarksInv, MarkedFor
<1>6. CASE Crash
  <2>1. Absent.owner = NoName /\ Absent.ver = 0
    BY DEF Absent
  <2>2. /\ cache' = store /\ store' = store /\ edits' = edits
        /\ \A o \in Objects : meta'[o] = Absent
    BY <1>6 DEF Crash
  <2>3. 0 <= edits
    BY <1>0, SMT
  <2>4. ASSUME NEW o \in Objects
        PROVE  /\ store'[o] = store[o] /\ cache'[o] = store[o] /\ edits' = edits
               /\ meta'[o].ver <= edits /\ meta'[o].owner = NoName
    BY <2>1, <2>2, <2>3
  <2> QED
    BY <2>4 DEF MarksInv, MarkedFor
<1>7. \/ UNCHANGED <<store, cache, meta, edits>>
      \/ \E t \in Threads : Mark(t)
      \/ \E o \in Objects : User(o) \/ SyncCache(o) \/ Deliver(o)
      \/ Crash
  BY DEF Next, vars, PreprocessSpec, IngressFault, CheckExternalObject, ReadMarked, Conflict,
         NotFound, MarkFault, StartReconcile, OwnedWorkloadEvent, BackstageEvent, ApplyObjects,
         ApplyFault, FindDeployment, RequestByExtConfigLabel
<1> QED
  BY <1>1, <1>2, <1>3, <1>4, <1>5, <1>6, <1>7

\* WasRead in the next state, of an instance of this one.
WasReadNext(b, j) ==
  /\ Exists(cache'[Refs[b][j].obj])
  /\ Refs[b][j].watch => MarkedFor(b, store'[Refs[b][j].obj])

\* What was read once can be read again, and stays marked for its instance.
LEMMA ReadStep ==
  ASSUME TypeInv, MarksInv, Benign, [Next]_vars,
         NEW b \in Backstages, NEW j \in 1 .. Len(Refs[b]), WasRead(b, j)
  PROVE  WasReadNext(b, j)
<1> DEFINE o == Refs[b][j].obj
<1>0. /\ o \in Objects /\ b # NoName
      /\ store \in [Objects -> Object] /\ cache \in [Objects -> Object]
  BY RefTypes, ConstantsAssumption DEF TypeInv, TypeOK
<1>1. Exists(cache[o]) /\ Exists(store[o]) /\ (Refs[b][j].watch => MarkedFor(b, store[o]))
  BY <1>0 DEF WasRead, MarksInv
<1>2. SUFFICES Exists(cache'[o]) /\ (Refs[b][j].watch => MarkedFor(b, store'[o]))
  BY DEF WasReadNext
<1> HIDE DEF o
<1>3. CASE UNCHANGED <<store, cache, edits>>
  BY <1>1, <1>3
<1>4. ASSUME NEW t \in Threads, Mark(t)
      PROVE  Exists(cache'[o]) /\ (Refs[b][j].watch => MarkedFor(b, store'[o]))
  <2>1. cache' = cache /\ (MarkedFor(b, store[o]) => store'[o] = store[o])
    BY <1>0, <1>4, MarkSteps DEF MarkedFor
  <2> QED
    BY <1>1, <2>1
<1>5. ASSUME NEW p \in Objects, User(p)
      PROVE  Exists(cache'[o]) /\ (Refs[b][j].watch => MarkedFor(b, store'[o]))
  <2>1. edits + 1 # 0
    BY SMT DEF TypeInv, TypeOK
  <2>2. cache' = cache /\ (MarkedFor(b, store[o]) => MarkedFor(b, store'[o]))
    BY <1>0, <1>5, <2>1, UserSteps DEF MarkedFor, Exists
  <2> QED
    BY <1>1, <2>2
<1>6. ASSUME NEW p \in Objects, SyncCache(p)
      PROVE  Exists(cache'[o]) /\ (Refs[b][j].watch => MarkedFor(b, store'[o]))
  BY <1>0, <1>1, <1>6 DEF SyncCache
<1>7. CASE Crash
  BY <1>1, <1>7 DEF Crash
<1> QED
  BY <1>3, <1>4, <1>5, <1>6, <1>7, ObjectSteps

-----------------------------------------------------------------------------
(* The worker and the workloads                                             *)

\* Contents that b's references were read with, seen from the next state.
ReadNext(b, data) ==
  /\ Len(data) <= Len(Refs[b])
  /\ \A j \in 1 .. Len(data) :
       WasReadNext(b, j) /\ (~Refs[b][j].watch => data[j] = NoData)

LEMMA WorkerDataStep ==
  ASSUME TypeInv, MarksInv, WorkerInv, Benign, [Next]_vars, th[Worker].pc = "prep"
  PROVE  th[Worker].b \in Backstages /\ ReadNext(th[Worker].b, th[Worker].data)
<1> DEFINE W == th[Worker]
<1>0. Worker \in Threads /\ th \in [Threads -> Thread] /\ W.data \in Seq(Nat)
  BY DEF TypeInv, TypeOK, Threads, Thread
<1>1. W.b \in Backstages /\ Len(W.data) <= Len(Refs[W.b])
  BY <1>0 DEF TypeInv, WorkerInv
<1>2. Len(W.data) \in Nat /\ Len(Refs[W.b]) \in Nat
  BY <1>0, <1>1, ConstantsAssumption, SMT
<1>3. \A j \in 1 .. Len(W.data) :
        /\ j \in 1 .. Len(Refs[W.b])
        /\ WasRead(W.b, j) /\ (~Refs[W.b][j].watch => W.data[j] = NoData)
  BY <1>1, <1>2, SMT DEF WorkerInv
<1> QED
  BY <1>1, <1>3, ReadStep DEF ReadNext

\* The worker reads the next reference of its instance.
LEMMA WorkerAppends ==
  ASSUME TypeInv, MarksInv, WorkerInv, Benign, [Next]_vars,
         CheckExternalObject(Worker) \/ ReadMarked(Worker) \/ Mark(Worker)
  PROVE  /\ th[Worker].pc = "prep" /\ th[Worker].b \in Backstages
         /\ th'[Worker].pc = "prep" /\ th'[Worker].b = th[Worker].b
         /\ ReadNext(th[Worker].b, th'[Worker].data)
<1> DEFINE b == th[Worker].b
           n == Len(th[Worker].data) + 1
           o == Ref(Worker).obj
<1>0. /\ Worker \in Threads /\ th \in [Threads -> Thread] /\ th[Worker].data \in Seq(Nat)
      /\ cache \in [Objects -> Object]
  BY DEF TypeInv, TypeOK, Threads, Thread
<1>1. InLoop(Worker) /\ th[Worker].pc = "prep"
  BY DEF CheckExternalObject, ReadMarked, Mark, InLoop
<1>2. /\ b \in Backstages /\ n \in 1 .. Len(Refs[b]) /\ o \in Objects /\ Ref(Worker).watch \in BOOLEAN
      /\ Ref(Worker) = Refs[b][n]
  BY <1>0, <1>1, RefType DEF Ref
<1>3. PICK d \in Nat : ConcatData(Worker, d) /\ (~Ref(Worker).watch => d = NoData)
  <2>1. cache[o].ver \in Nat
    BY <1>0, <1>2 DEF Object
  <2> QED
    BY <2>1 DEF CheckExternalObject, ReadMarked, Mark
<1>4. /\ th'[Worker].pc = "prep" /\ th'[Worker].b = b
      /\ Len(th'[Worker].data) = n /\ n <= Len(Refs[b])
      /\ \A j \in 1 .. Len(th[Worker].data) : th'[Worker].data[j] = th[Worker].data[j]
      /\ th'[Worker].data[n] = d
  BY <1>1, <1>3, WorkerReads
<1>5. ReadNext(b, th[Worker].data)
  BY <1>1, WorkerDataStep
<1>6. WasReadNext(b, n)
  <2>1. CASE CheckExternalObject(Worker)
    <3>1. Exists(cache[o]) /\ ~Ref(Worker).watch /\ cache' = cache
      BY <2>1 DEF CheckExternalObject
    <3> QED
      BY <1>2, <3>1 DEF WasReadNext
  <2>2. CASE ReadMarked(Worker)
    <3>1. /\ Exists(cache[o]) /\ ~NeedsMark(cache[o]) /\ Ref(Worker).watch
          /\ cache' = cache /\ store' = store
      BY <2>2 DEF ReadMarked
    <3>2. cache[o].owner # NoName
      BY <3>1 DEF NeedsMark
    <3>3. /\ store[o].owner # NoName /\ MarkedFor(store[o].owner, store[o])
          /\ o \in Watched(store[o].owner)
      BY <1>2, <3>2 DEF MarksInv
    <3>4. store[o].owner \in Backstages
      BY <1>2, <3>3 DEF TypeInv, TypeOK, Object
    <3>5. o \in Watched(b)
      BY <1>0, <1>1, <3>1, WatchedRef
    <3>6. store[o].owner = b
      BY <1>2, <3>3, <3>4, <3>5 DEF Benign, Exclusive
    <3> QED
      BY <1>2, <3>1, <3>3, <3>6 DEF WasReadNext
  <2>3. CASE Mark(Worker)
    <3>1. /\ Exists(store[o]) /\ store[o] = cache[o] /\ cache' = cache
          /\ store'[o].ver = store[o].ver /\ store'[o].label = "true" /\ store'[o].owner = b
      BY <1>0, <2>3, MarkSteps
    <3>2. Exists(cache'[o]) /\ MarkedFor(b, store'[o])
      BY <3>1 DEF Exists, MarkedFor
    <3> QED
      BY <1>2, <3>2 DEF WasReadNext
  <2> QED
    BY <2>1, <2>2, <2>3
<1>7. ~Refs[b][n].watch => th'[Worker].data[n] = NoData
  BY <1>2, <1>3, <1>4
<1>8. Len(th[Worker].data) \in Nat
  BY <1>0, SMT
<1>9. \A j \in 1 .. Len(th'[Worker].data) : j \in 1 .. Len(th[Worker].data) \/ j = n
  BY <1>4, <1>8, SMT
<1> HIDE DEF b, n
<1>10. \A j \in 1 .. Len(th'[Worker].data) :
         WasReadNext(b, j) /\ (~Refs[b][j].watch => th'[Worker].data[j] = NoData)
  BY <1>4, <1>5, <1>6, <1>7, <1>9 DEF ReadNext, n
<1>11. ReadNext(b, th'[Worker].data)
  BY <1>4, <1>10 DEF ReadNext
<1> QED
  BY <1>1, <1>2, <1>4, <1>11 DEF b

LEMMA WorkerInvStep ==
  ASSUME TypeInv, MarksInv, WorkerInv, Benign, [Next]_vars
  PROVE  WorkerInv'
<1>1. SUFFICES ASSUME th'[Worker].pc = "prep"
               PROVE  ReadNext(th'[Worker].b, th'[Worker].data)
  BY DEF WorkerInv, WasRead, ReadNext, WasReadNext
<1>2. CASE \E b \in Backstages : StartReconcile(b)
  <2>1. PICK b \in Backstages : StartReconcile(b)
    BY <1>2
  <2>2. th'[Worker] = Preprocessing(b, <<>>)
    BY <2>1 DEF StartReconcile, TypeInv, TypeOK, Threads
  <2>3. th'[Worker].data = <<>> /\ th'[Worker].b = b
    BY <2>2, SMT DEF Preprocessing, Reading
  <2>4. Len(<<>>) = 0 /\ 0 <= Len(Refs[b]) /\ 1 .. 0 = {}
    BY ConstantsAssumption, SMT
  <2> QED
    BY <2>3, <2>4 DEF ReadNext
<1>3. CASE th'[Worker] = th[Worker]
  BY <1>1, <1>3, WorkerDataStep
<1>4. CASE /\ th[Worker].pc = "prep" /\ th'[Worker].b = th[Worker].b
           /\ th'[Worker].data = th[Worker].data
  BY <1>1, <1>4, WorkerDataStep
<1>5. CASE CheckExternalObject(Worker) \/ ReadMarked(Worker) \/ Mark(Worker)
  BY <1>1, <1>5, WorkerAppends
<1>6. CASE ApplyObjects
  BY <1>1, <1>6 DEF ApplyObjects, TypeInv, TypeOK, Threads, Idle, Resting
<1> QED
  BY <1>1, <1>2, <1>3, <1>4, <1>5, <1>6, WorkerSteps

\* A queued or running reconcile of b ends in the queue or with the workload.
LEMMA ReconcileStep ==
  ASSUME TypeInv, [Next]_vars, NEW b \in Backstages, b \in queue \/ ReadsFor(Worker, b)
  PROVE  \/ b \in queue' \/ ReadsFor(Worker, b)'
         \/ ApplyObjects /\ th[Worker].b = b
<1>0. /\ Worker \in Threads /\ Worker \notin Handlers /\ th \in [Threads -> Thread]
      /\ queue \subseteq Backstages
  BY ConstantsAssumption DEF TypeInv, TypeOK, Threads
<1>1. ASSUME NEW t \in Threads, Fail(t)
      PROVE  b \in queue' \/ ReadsFor(Worker, b)'
  BY <1>0, <1>1 DEF Fail, ReadsFor
<1>2. ASSUME NEW t \in Threads, UNCHANGED queue, NEW d, NEW n, NEW c,
             th' = [th EXCEPT ![t] = Reading(th[t].b, d, n, c)], th[t].pc = "prep"
      PROVE  b \in queue' \/ ReadsFor(Worker, b)'
  <2>1. /\ Reading(th[t].b, d, n, c).pc = "prep"
        /\ Reading(th[t].b, d, n, c).b = th[t].b
    BY DEF Reading
  <2> QED
    BY <1>0, <1>2, <2>1 DEF ReadsFor
<1>3. ASSUME NEW t \in Threads, PreprocessSpec(t)
      PROVE  b \in queue' \/ ReadsFor(Worker, b)'
  BY <1>1, <1>2, <1>3 DEF PreprocessSpec, IngressFault, CheckExternalObject, ReadMarked, Mark,
       Conflict, NotFound, MarkFault, ConcatData, InLoop
<1>4. ASSUME NEW a \in Backstages, StartReconcile(a)
      PROVE  b \in queue' \/ ReadsFor(Worker, b)'
  <2>1. Preprocessing(a, <<>>).pc = "prep" /\ Preprocessing(a, <<>>).b = a /\ Idle.pc = "idle"
    BY DEF Preprocessing, Reading, Idle, Resting
  <2>2. th[Worker] = Idle /\ th'[Worker] = Preprocessing(a, <<>>) /\ queue' = queue \ {a}
    BY <1>0, <1>4 DEF StartReconcile
  <2>3. b \in queue
    BY <2>1, <2>2 DEF ReadsFor
  <2> QED
    BY <2>1, <2>2, <2>3 DEF ReadsFor
<1>5. ASSUME NEW a \in Backstages, OwnedWorkloadEvent(a) \/ BackstageEvent(a)
      PROVE  b \in queue' \/ ReadsFor(Worker, b)'
  BY <1>5 DEF OwnedWorkloadEvent, BackstageEvent, ReadsFor
<1>6. CASE ApplyObjects
  <2>1. queue \subseteq queue'
    BY <1>6 DEF ApplyObjects
  <2> QED
    BY <1>6, <2>1 DEF ReadsFor
<1>7. CASE ApplyFault
  BY <1>0, <1>1, <1>7 DEF ApplyFault
<1>8. ASSUME NEW o \in Objects, Deliver(o) \/ SyncCache(o) \/ User(o)
      PROVE  b \in queue' \/ ReadsFor(Worker, b)'
  <2>1. queue' = queue
    BY <1>8 DEF Deliver, SyncCache, User, CreateObject, EditObject, ReplaceObject, DeleteObject, Write
  <2>2. HandlerOf[o] # Worker
    BY <1>0, ConstantsAssumption
  <2>3. th'[Worker] = th[Worker]
    BY <1>0, <1>8, <2>2 DEF Deliver, SyncCache, User, CreateObject, EditObject, ReplaceObject,
         DeleteObject, Write
  <2> QED
    BY <2>1, <2>3 DEF ReadsFor
<1>9. ASSUME NEW h \in Handlers, FindDeployment(h) \/ RequestByExtConfigLabel(h)
      PROVE  b \in queue' \/ ReadsFor(Worker, b)'
  BY <1>0, <1>9 DEF FindDeployment, RequestByExtConfigLabel, ReadsFor
<1>10. CASE Crash
  BY <1>10 DEF Crash
<1>11. CASE UNCHANGED vars
  BY <1>11 DEF vars, ReadsFor
<1> QED
  BY <1>3, <1>4, <1>5, <1>6, <1>7, <1>8, <1>9, <1>10, <1>11 DEF Next

\* A workload that has been applied stays known, or announced.
LEMMA KnownStep ==
  ASSUME TypeInv, [Next]_vars, NEW b \in Backstages, wl[b].exists, wlSeen[b] \/ wlEvent[b]
  PROVE  wlSeen'[b] \/ wlEvent'[b]
<1>0. /\ wlSeen \in [Backstages -> BOOLEAN] /\ wlEvent \in [Backstages -> BOOLEAN]
  BY DEF TypeInv, TypeOK
<1>1. ASSUME NEW a \in Backstages, OwnedWorkloadEvent(a) PROVE wlSeen'[b] \/ wlEvent'[b]
  <2>1. wlSeen' = [wlSeen EXCEPT ![a] = TRUE] /\ wlEvent' = [wlEvent EXCEPT ![a] = FALSE]
    BY <1>1 DEF OwnedWorkloadEvent
  <2> QED
    BY <1>0, <2>1
<1>2. CASE ApplyObjects
  <2>1. wlSeen' = wlSeen /\ (wlEvent[b] => wlEvent'[b])
    BY <1>0, <1>2 DEF ApplyObjects
  <2> QED
    BY <2>1
<1>3. CASE Crash
  BY <1>3 DEF Crash
<1>4. \/ UNCHANGED <<wlSeen, wlEvent>>
      \/ \E a \in Backstages : OwnedWorkloadEvent(a)
      \/ ApplyObjects \/ Crash
  BY DEF Next, vars, PreprocessSpec, IngressFault, CheckExternalObject, ReadMarked, Mark, Conflict,
         NotFound, MarkFault, StartReconcile, BackstageEvent, ApplyFault, Deliver, SyncCache,
         User, CreateObject, EditObject, ReplaceObject, DeleteObject, Write,
         FindDeployment, RequestByExtConfigLabel
<1> QED
  BY <1>1, <1>2, <1>3, <1>4

\* What applyObjects leaves behind.
LEMMA ApplyStep ==
  ASSUME TypeInv, ApplyObjects
  PROVE  /\ th[Worker].pc = "prep" /\ th[Worker].b \in Backstages
         /\ Len(th[Worker].data) = Len(Refs[th[Worker].b])
         /\ wl'[th[Worker].b].exists /\ wl'[th[Worker].b].hash = th[Worker].data
         /\ \A b \in Backstages : b # th[Worker].b => wl'[b] = wl[b]
         /\ ~wl[th[Worker].b].exists => wlEvent'[th[Worker].b]
         /\ \A b \in Backstages : wlEvent[b] => wlEvent'[b]
         /\ th'[Worker].pc = "idle"
         /\ \A t \in Threads : t # Worker => th'[t] = th[t]
         /\ queue \subseteq queue'
         /\ UNCHANGED <<store, cache, meta, wlSeen>>
<1> DEFINE c == th[Worker].b
           new == [exists |-> TRUE, hash |-> th[Worker].data]
<1>0. /\ Worker \in Threads /\ th \in [Threads -> Thread]
      /\ wl \in [Backstages -> Workload] /\ wlEvent \in [Backstages -> BOOLEAN]
  BY DEF TypeInv, TypeOK, Threads
<1>1. /\ th[Worker].pc = "prep" /\ c \in Backstages /\ Len(th[Worker].data) = Len(Refs[c])
  BY <1>0 DEF ApplyObjects, PrepDone, TypeInv
<1>2. new.exists /\ new.hash = th[Worker].data
  OBVIOUS
<1>3. /\ wl' = [wl EXCEPT ![c] = new]
      /\ wlEvent' = [wlEvent EXCEPT ![c] = @ \/ wl[c] # new]
  BY DEF ApplyObjects
<1>4. th' = [th EXCEPT ![Worker] = Idle] /\ Idle.pc = "idle"
  BY DEF ApplyObjects, Idle, Resting
<1>5. queue \subseteq queue' /\ UNCHANGED <<store, cache, meta, wlSeen>>
  BY DEF ApplyObjects
<1> HIDE DEF new, c
<1>6. wl'[c] = new /\ \A b \in Backstages : b # c => wl'[b] = wl[b]
  BY <1>0, <1>1, <1>3
<1>7. ~wl[c].exists => wl[c] # new
  BY <1>2
<1>8. (~wl[c].exists => wlEvent'[c]) /\ \A b \in Backstages : wlEvent[b] => wlEvent'[b]
  BY <1>0, <1>1, <1>3, <1>7
<1>9. th'[Worker].pc = "idle" /\ \A t \in Threads : t # Worker => th'[t] = th[t]
  BY <1>0, <1>4
<1> QED
  BY <1>1, <1>2, <1>5, <1>6, <1>8, <1>9 DEF c

LEMMA WorkloadsStep ==
  ASSUME TypeInv, MarksInv, WorkerInv, WorkloadsInv, Benign, [Next]_vars
  PROVE  WorkloadsInv'
<1>1. SUFFICES ASSUME NEW b \in Backstages
               PROVE  /\ ~wl'[b].exists => b \in queue' \/ ReadsFor(Worker, b)'
                      /\ wl'[b].exists =>
                           /\ Len(wl'[b].hash) = Len(Refs[b])
                           /\ wlSeen'[b] \/ wlEvent'[b]
                           /\ \A j \in 1 .. Len(Refs[b]) :
                                /\ WasReadNext(b, j)
                                /\ ~Refs[b][j].watch => wl'[b].hash[j] = NoData
  BY DEF WorkloadsInv, WasRead, WasReadNext
<1>2. CASE ApplyObjects /\ th[Worker].b = b
  <2>1. /\ wl'[b].exists /\ wl'[b].hash = th[Worker].data
        /\ Len(th[Worker].data) = Len(Refs[b])
    BY <1>2, ApplyStep
  <2>2. ReadNext(b, th[Worker].data)
    BY <1>2, ApplyStep, WorkerDataStep
  <2>3. wlSeen'[b] \/ wlEvent'[b]
    BY <1>2, ApplyStep, KnownStep DEF WorkloadsInv
  <2> QED
    BY <2>1, <2>2, <2>3 DEF ReadNext
<1>3. CASE ~(ApplyObjects /\ th[Worker].b = b)
  <2>1. wl'[b] = wl[b]
    BY <1>3, WorkerSteps, ApplyStep
  <2>2. CASE ~wl[b].exists
    BY <1>3, <2>1, <2>2, ReconcileStep DEF WorkloadsInv
  <2>3. CASE wl[b].exists
    <3>1. wlSeen'[b] \/ wlEvent'[b]
      BY <2>3, KnownStep DEF WorkloadsInv
    <3>2. \A j \in 1 .. Len(Refs[b]) : WasReadNext(b, j)
      BY <2>3, ReadStep DEF WorkloadsInv
    <3> QED
      BY <2>1, <2>3, <3>1, <3>2 DEF WorkloadsInv
  <2> QED
    BY <2>2, <2>3
<1> QED
  BY <1>2, <1>3

-----------------------------------------------------------------------------
(* Pending refreshes                                                        *)

\* The objects an applied instance watches are marked for it.
LEMMA AppliedMarked ==
  ASSUME WorkloadsInv, NEW b \in Backstages, wl[b].exists, NEW o \in Watched(b)
  PROVE  o \in Objects /\ MarkedFor(b, store[o]) /\ Exists(cache[o])
<1>1. PICK j \in Slots(b) : Refs[b][j].watch /\ Refs[b][j].obj = o
  BY DEF Watched
<1>2. j \in 1 .. Len(Refs[b])
  BY <1>1, ConstantsAssumption, SMT DEF Slots
<1> QED
  BY <1>1, <1>2, RefTypes DEF WorkloadsInv, WasRead

\* Objects change contents by writes of users, which are announced.
LEMMA ContentsChange ==
  ASSUME TypeInv, MarksInv, Benign, [Next]_vars, NEW o \in Objects, store'[o].ver # store[o].ver
  PROVE  User(o) /\ meta'[o] # store'[o]
<1>1. ASSUME NEW t \in Threads, Mark(t) PROVE store'[o].ver = store[o].ver
  BY <1>1, MarkSteps
<1>2. ASSUME NEW p \in Objects, User(p) PROVE User(o) /\ meta'[o] # store'[o]
  <2>1. p = o
    BY <1>2, UserSteps
  <2>2. meta'[o] = meta[o] /\ store'[o].ver = edits + 1
    BY <1>2, <2>1, UserSteps
  <2>3. meta[o].ver \in Nat /\ edits \in Nat /\ meta[o].ver <= edits
    BY DEF TypeInv, TypeOK, Object, MarksInv
  <2>4. \A n, k \in Nat : k <= n => k # n + 1
    BY SMT
  <2>5. meta[o].ver # edits + 1
    BY <2>3, <2>4
  <2> QED
    BY <1>2, <2>1, <2>2, <2>5
<1>3. store' # store
  OBVIOUS
<1> QED
  BY <1>1, <1>2, <1>3, ObjectSteps DEF SyncCache, Crash

\* Stale in the next state, of data of this one.
StaleNext(b, data) ==
  \E j \in 1 .. Len(data) :
    Refs[b][j].watch /\ data[j] # store'[Refs[b][j].obj].ver

LEMMA StaleStep ==
  ASSUME TypeInv, MarksInv, Benign, [Next]_vars, NEW b \in Backstages,
         NEW data \in Seq(Nat), Len(data) <= Len(Refs[b]), StaleNext(b, data)
  PROVE  Stale(b, data) \/ EventPending(b)'
<1>1. PICK j \in 1 .. Len(data) : Refs[b][j].watch /\ data[j] # store'[Refs[b][j].obj].ver
  BY DEF StaleNext
<1>2. j \in 1 .. Len(Refs[b])
  <2>1. Len(data) \in Nat /\ Len(Refs[b]) \in Nat
    BY ConstantsAssumption, SMT
  <2> QED
    BY <2>1, SMT
<1> DEFINE o == Refs[b][j].obj
<1>3. o \in Objects /\ o \in Watched(b)
  BY <1>1, <1>2, RefTypes DEF Watched, Slots
<1>4. CASE store'[o].ver = store[o].ver
  BY <1>1, <1>4 DEF Stale
<1>5. CASE store'[o].ver # store[o].ver
  <2>1. meta'[o] # store'[o]
    BY <1>3, <1>5, ContentsChange
  <2> QED
    BY <1>3, <2>1 DEF EventPending
<1> QED
  BY <1>4, <1>5

\* The steps that change what a handler does.
LEMMA HandlerSteps ==
  ASSUME TypeInv, [Next]_vars, NEW h \in Handlers
  PROVE  \/ th'[h] = th[h]
         \/ PreprocessSpec(h)
         \/ FindDeployment(h)
         \/ RequestByExtConfigLabel(h)
         \/ \E o \in Objects : Deliver(o) /\ HandlerOf[o] = h
         \/ Crash
<1>0. h \in Threads /\ h # Worker /\ th \in [Threads -> Thread]
  BY ConstantsAssumption DEF TypeInv, TypeOK, Threads
<1>1. ASSUME NEW t \in Threads, PreprocessSpec(t), t # h PROVE th'[h] = th[h]
  BY <1>0, <1>1 DEF PreprocessSpec, IngressFault, CheckExternalObject, ReadMarked, Mark, Conflict,
       NotFound, MarkFault, ConcatData, Fail
<1>2. ASSUME NEW b \in Backstages, StartReconcile(b) \/ OwnedWorkloadEvent(b) \/ BackstageEvent(b)
      PROVE  th'[h] = th[h]
  BY <1>0, <1>2 DEF StartReconcile, OwnedWorkloadEvent, BackstageEvent
<1>3. ASSUME ApplyObjects \/ ApplyFault PROVE th'[h] = th[h]
  BY <1>0, <1>3 DEF ApplyObjects, ApplyFault, Fail
<1>4. ASSUME NEW o \in Objects, SyncCache(o) \/ User(o) PROVE th'[h] = th[h]
  BY <1>4 DEF SyncCache, User, CreateObject, EditObject, ReplaceObject, DeleteObject, Write
<1>5. ASSUME NEW o \in Objects, Deliver(o), HandlerOf[o] # h PROVE th'[h] = th[h]
  BY <1>0, <1>5 DEF Deliver
<1>6. ASSUME NEW k \in Handlers, FindDeployment(k) \/ RequestByExtConfigLabel(k), k # h
      PROVE  th'[h] = th[h]
  BY <1>0, <1>6 DEF FindDeployment, RequestByExtConfigLabel
<1>7. CASE UNCHANGED vars
  BY <1>7 DEF vars
<1> QED
  BY <1>1, <1>2, <1>3, <1>4, <1>5, <1>6, <1>7 DEF Next

\* When a handler gives up on an applied instance, an event is still to come.
LEMMA FailingHandler ==
  ASSUME TypeInv, MarksInv, WorkloadsInv, Benign, NEW b \in Backstages, wl[b].exists,
         NEW h \in Handlers, ReadsFor(h, b),
         IngressFault(h) \/ Conflict(h) \/ NotFound(h) \/ MarkFault(h)
  PROVE  EventPending(b)'
<1> DEFINE o == Ref(h).obj
           n == Len(th[h].data) + 1
<1>1. h \in Threads /\ ~IngressFault(h)
  BY Environment DEF Threads, IngressFault
<1>2. InLoop(h) /\ th[h].b = b /\ UNCHANGED <<store, meta>>
  BY <1>1 DEF Conflict, NotFound, MarkFault, ReadsFor
<1>3. o \in Objects /\ n \in 1 .. Len(Refs[b]) /\ Ref(h) = Refs[b][n]
  BY <1>1, <1>2, RefType DEF Ref
<1>4. Exists(cache[o])
  BY <1>3 DEF WorkloadsInv, WasRead
<1>5. ASSUME Ref(h).watch PROVE o \in Watched(b) /\ MarkedFor(b, store[o])
  BY <1>1, <1>2, <1>5, WatchedRef, AppliedMarked
<1>6. ASSUME Ref(h).watch, store[o] # cache[o] PROVE EventPending(b)'
  <2>1. meta[o] # store[o] /\ o \in Watched(b)
    BY <1>3, <1>5, <1>6 DEF MarksInv
  <2> QED
    BY <1>2, <2>1 DEF EventPending
<1>7. CASE Conflict(h)
  BY <1>6, <1>7 DEF Conflict
<1>8. CASE NotFound(h)
  BY <1>4, <1>5, <1>8 DEF NotFound, MarkedFor
<1>9. CASE MarkFault(h)
  <2>1. Ref(h).watch /\ NeedsMark(cache[o])
    BY <1>9 DEF MarkFault
  <2>2. store[o].label = "true" /\ store[o].label # "" /\ store[o].owner = b /\ b # NoName
    BY <1>3, <1>5, <2>1, ConstantsAssumption DEF MarkedFor, MarksInv
  <2>3. ~NeedsMark(store[o])
    BY <2>2, Environment DEF NeedsMark
  <2>4. store[o] # cache[o]
    BY <2>1, <2>3
  <2> QED
    BY <1>6, <2>1, <2>4
<1> QED
  BY <1>1, <1>7, <1>8, <1>9

\* preprocessSpec in a handler keeps the calls, and goes on unless it fails.
LEMMA HandlerReads ==
  ASSUME TypeInv, NEW h \in Handlers, PreprocessSpec(h)
  PROVE  /\ th'[h].calls = th[h].calls
         /\ \/ th'[h].pc = "prep" /\ th'[h].b = th[h].b
            \/ IngressFault(h) \/ Conflict(h) \/ NotFound(h) \/ MarkFault(h)
<1>0. h \in Threads /\ th \in [Threads -> Thread]
  BY DEF TypeInv, TypeOK, Threads
<1>1. ASSUME Fail(h) PROVE th'[h].calls = th[h].calls
  BY <1>0, <1>1 DEF Fail, Resting
<1>2. ASSUME NEW d, NEW n, th' = [th EXCEPT ![h] = Reading(th[h].b, d, n, th[h].calls)]
      PROVE  th'[h].calls = th[h].calls /\ th'[h].pc = "prep" /\ th'[h].b = th[h].b
  <2>1. th'[h] = Reading(th[h].b, d, n, th[h].calls)
    BY <1>0, <1>2
  <2> QED
    BY <2>1, SMT DEF Reading
<1> QED
  BY <1>1, <1>2 DEF PreprocessSpec, IngressFault, CheckExternalObject, ReadMarked, Mark, Conflict,
       NotFound, MarkFault, ConcatData

LEMMA InTail ==
  ASSUME NEW S, NEW c \in Seq(S), c # <<>>, NEW i \in DOMAIN c, i # 1
  PROVE  i - 1 \in DOMAIN Tail(c) /\ Tail(c)[i - 1] = c[i]
BY SMT

LEMMA HandlingStep ==
  ASSUME TypeInv, MarksInv, WorkloadsInv, Benign, [Next]_vars,
         NEW b \in Backstages, wl[b].exists, Handling(b)
  PROVE  Notified(b)'
<1>1. PICK h \in Handlers : ReadsFor(h, b) \/ \E i \in DOMAIN th[h].calls : th[h].calls[i] = b
  BY DEF Handling
<1>0. /\ h \in Threads /\ th \in [Threads -> Thread] /\ th[h].calls \in Seq(Backstages)
      /\ queue \subseteq Backstages
  BY DEF TypeInv, TypeOK, Threads, Thread
<1>2. ASSUME th'[h].calls = th[h].calls, \E i \in DOMAIN th[h].calls : th[h].calls[i] = b
      PROVE  Notified(b)'
  BY <1>2 DEF Notified, Handling
<1>3. ASSUME th'[h].pc = "prep", th'[h].b = b PROVE Notified(b)'
  BY <1>3 DEF Notified, Handling, ReadsFor
<1>4. CASE th'[h] = th[h]
  BY <1>1, <1>2, <1>3, <1>4 DEF ReadsFor
<1>5. CASE PreprocessSpec(h)
  <2>1. CASE ReadsFor(h, b)
    BY <1>3, <1>5, <2>1, HandlerReads, FailingHandler DEF ReadsFor, Notified
  <2>2. CASE ~ReadsFor(h, b)
    BY <1>1, <1>2, <1>5, <2>2, HandlerReads
  <2> QED
    BY <2>1, <2>2
<1>6. CASE FindDeployment(h)
  <2> DEFINE c == th[h].calls
  <2>1. th[h].pc = "idle" /\ c # <<>>
    BY <1>6 DEF FindDeployment
  <2>2. PICK i \in DOMAIN c : c[i] = b
    BY <1>1, <2>1 DEF ReadsFor
  <2>3. th'[h] = IF wlSeen[Head(c)] THEN Preprocessing(Head(c), Tail(c)) ELSE Resting(Tail(c))
    BY <1>0, <1>6 DEF FindDeployment
  <2>4. CASE i = 1
    <3>1. Head(c) = b
      BY <1>0, <2>1, <2>2, <2>4, SMT
    <3>2. CASE wlSeen[b]
      <4>1. th'[h] = Preprocessing(b, Tail(c))
        BY <2>3, <3>1, <3>2
      <4> QED
        BY <1>3, <4>1, SMT DEF Preprocessing, Reading
    <3>3. CASE ~wlSeen[b]
      <4>1. wlEvent[b] /\ wlEvent' = wlEvent
        BY <1>6, <3>3 DEF FindDeployment, WorkloadsInv
      <4> QED
        BY <4>1 DEF Notified
    <3> QED
      BY <3>2, <3>3
  <2>5. CASE i # 1
    <3>1. i - 1 \in DOMAIN Tail(c) /\ Tail(c)[i - 1] = b
      BY <1>0, <2>1, <2>2, <2>5, InTail
    <3>2. th'[h].calls = Tail(c)
      <4>1. Preprocessing(Head(c), Tail(c)).calls = Tail(c)
        BY DEF Preprocessing, Reading
      <4>2. Resting(Tail(c)).calls = Tail(c)
        BY DEF Resting
      <4> QED
        BY <2>3, <4>1, <4>2
    <3> QED
      BY <3>1, <3>2 DEF Notified, Handling
  <2> QED
    BY <2>4, <2>5
<1>7. CASE RequestByExtConfigLabel(h)
  <2>1. queue' = queue \cup {th[h].b} /\ th'[h] = Resting(th[h].calls)
    BY <1>0, <1>7 DEF RequestByExtConfigLabel
  <2>2. Resting(th[h].calls).calls = th[h].calls
    BY DEF Resting
  <2>3. CASE ReadsFor(h, b)
    BY <2>1, <2>3 DEF ReadsFor, Notified
  <2>4. CASE ~ReadsFor(h, b)
    BY <1>1, <1>2, <2>1, <2>2, <2>4
  <2> QED
    BY <2>3, <2>4
<1>8. ASSUME NEW o \in Objects, Deliver(o), HandlerOf[o] = h PROVE Notified(b)'
  <2>1. th[h] = Idle
    BY <1>8 DEF Deliver
  <2>2. Idle.pc = "idle" /\ Idle.calls = <<>> /\ DOMAIN <<>> = {}
    BY SMT DEF Idle, Resting
  <2> QED
    BY <1>1, <2>1, <2>2 DEF ReadsFor
<1>9. CASE Crash
  BY <1>9 DEF Crash, Notified
<1> QED
  BY <1>4, <1>5, <1>6, <1>7, <1>8, <1>9, HandlerSteps

\* The instances in the workqueue stay there until they are reconciled.
LEMMA QueueStep ==
  ASSUME [Next]_vars, NEW b \in Backstages, b \in queue
  PROVE  b \in queue' \/ StartReconcile(b)
<1>1. CASE \/ \E t \in Threads : PreprocessSpec(t)
           \/ ApplyObjects \/ ApplyFault
  BY <1>1 DEF PreprocessSpec, IngressFault, CheckExternalObject, ReadMarked, Mark, Conflict,
              NotFound, MarkFault, Fail, ApplyObjects, ApplyFault
<1>2. CASE ~(\/ \E t \in Threads : PreprocessSpec(t)
             \/ ApplyObjects \/ ApplyFault)
  BY <1>2 DEF Next, vars, StartReconcile, OwnedWorkloadEvent, BackstageEvent, Deliver, SyncCache,
              User, CreateObject, EditObject, ReplaceObject, DeleteObject, Write, FindDeployment,
              RequestByExtConfigLabel, Crash
<1> QED
  BY <1>1, <1>2

\* The event of a workload is delivered to the workqueue.
LEMMA WorkloadEventStep ==
  ASSUME TypeInv, [Next]_vars, NEW b \in Backstages, wlEvent[b]
  PROVE  wlEvent'[b] \/ b \in queue'
<1>0. wlEvent \in [Backstages -> BOOLEAN]
  BY DEF TypeInv, TypeOK
<1>1. ASSUME NEW a \in Backstages, OwnedWorkloadEvent(a) PROVE wlEvent'[b] \/ b \in queue'
  BY <1>0, <1>1 DEF OwnedWorkloadEvent
<1>2. CASE ApplyObjects
  BY <1>2, ApplyStep
<1>3. CASE Crash
  BY <1>3 DEF Crash
<1>4. \/ UNCHANGED wlEvent
      \/ \E a \in Backstages : OwnedWorkloadEvent(a)
      \/ ApplyObjects \/ Crash
  BY DEF Next, vars, PreprocessSpec, IngressFault, CheckExternalObject, ReadMarked, Mark, Conflict,
         NotFound, MarkFault, StartReconcile, BackstageEvent, ApplyFault, Deliver, SyncCache,
         User, CreateObject, EditObject, ReplaceObject, DeleteObject, Write,
         FindDeployment, RequestByExtConfigLabel
<1> QED
  BY <1>1, <1>2, <1>3, <1>4

\* The event of an object of an applied instance reaches a handler.
LEMMA EventStep ==
  ASSUME TypeInv, MarksInv, WorkloadsInv, Benign, [Next]_vars,
         NEW b \in Backstages, wl[b].exists, EventPending(b)
  PROVE  Notified(b)'
<1>1. PICK o \in Watched(b) : meta[o] # store[o]
  BY DEF EventPending
<1>2. /\ o \in Objects /\ MarkedFor(b, store[o]) /\ b # NoName
      /\ store[o].label = "true" /\ store[o].owner = b /\ Exists(store[o])
  BY AppliedMarked, ConstantsAssumption DEF MarkedFor
<1>3. ASSUME meta'[o] # store'[o] PROVE Notified(b)'
  BY <1>3 DEF Notified, EventPending
<1>4. CASE store'[o].ver # store[o].ver
  BY <1>2, <1>3, <1>4, ContentsChange
<1>5. CASE store'[o].ver = store[o].ver
  <2>1. ASSUME NEW t \in Threads, Mark(t) PROVE Notified(b)'
    <3>1. store'[o] = store[o] /\ meta' = meta
      BY <1>2, <2>1, MarkSteps
    <3> QED
      BY <1>1, <1>3, <3>1
  <2>2. ASSUME NEW p \in Objects, User(p) PROVE Notified(b)'
    <3>1. edits \in Nat /\ store[o].ver \in Nat /\ store[o].ver <= edits
      BY <1>2 DEF TypeInv, TypeOK, Object, MarksInv
    <3>2. \A n, k \in Nat : k <= n => k # n + 1
      BY SMT
    <3>3. store[o].ver # edits + 1
      BY <3>1, <3>2
    <3>4. store'[o] = store[o] /\ meta' = meta
      BY <1>2, <1>5, <2>2, <3>3, UserSteps
    <3> QED
      BY <1>1, <1>3, <3>4
  <2>3. ASSUME NEW p \in Objects, SyncCache(p) PROVE Notified(b)'
    BY <1>1, <1>3, <2>3 DEF SyncCache
  <2>4. ASSUME NEW p \in Objects, Deliver(p), p # o PROVE Notified(b)'
    <3>1. store'[o] = store[o] /\ meta'[o] = meta[o]
      BY <1>2, <2>4 DEF Deliver, TypeInv, TypeOK
    <3> QED
      BY <1>1, <1>3, <3>1
  <2>5. CASE Deliver(o)
    <3> DEFINE h == HandlerOf[o]
               c == Call(meta[o])
               k == Len(c) + 1
    <3>1. h \in Handlers /\ h \in Threads /\ th \in [Threads -> Thread]
      BY <1>2, ConstantsAssumption DEF TypeInv, TypeOK, Threads
    <3>2. Call(store[o]) = <<b>>
      BY <1>2 DEF Call
    <3>3. th'[h] = Resting(c \o <<b>>)
      BY <1>2, <2>5, <3>1, <3>2 DEF Deliver
    <3>4. th'[h].calls = c \o <<b>>
      BY <3>3, SMT DEF Resting
    <3>5. c \in Seq(Backstages)
      BY <1>2, CallType DEF TypeInv, TypeOK
    <3>6. <<b>> \in Seq(Backstages)
      BY SMT
    <3> HIDE DEF c, h
    <3>7. k \in DOMAIN (c \o <<b>>) /\ (c \o <<b>>)[k] = b
      BY <3>5, <3>6, SMT
    <3>8. Handling(b)'
      BY <3>1, <3>4, <3>7 DEF Handling
    <3> QED
      BY <3>8 DEF Notified
  <2>6. CASE Crash
    BY <2>6 DEF Crash, Notified
  <2>7. CASE UNCHANGED <<store, meta>>
    BY <1>1, <1>3, <2>7
  <2>8. \/ UNCHANGED <<store, meta>>
        \/ \E t \in Threads : Mark(t)
        \/ \E p \in Objects : User(p) \/ SyncCache(p) \/ Deliver(p)
        \/ Crash
    BY DEF Next, vars, PreprocessSpec, IngressFault, CheckExternalObject, ReadMarked, Conflict,
           NotFound, MarkFault, StartReconcile, OwnedWorkloadEvent, BackstageEvent, ApplyObjects,
           ApplyFault, FindDeployment, RequestByExtConfigLabel
  <2> QED
    BY <2>1, <2>2, <2>3, <2>4, <2>5, <2>6, <2>7, <2>8
<1> QED
  BY <1>4, <1>5

\* A reconcile that is on its way stays on its way until it starts.
LEMMA NotifiedStep ==
  ASSUME TypeInv, MarksInv, WorkloadsInv, Benign, [Next]_vars,
         NEW b \in Backstages, wl[b].exists, Notified(b)
  PROVE  Notified(b)' \/ StartReconcile(b)
<1>1. CASE b \in queue
  BY <1>1, QueueStep DEF Notified
<1>2. CASE wlEvent[b]
  BY <1>2, WorkloadEventStep DEF Notified
<1>3. CASE EventPending(b)
  BY <1>3, EventStep
<1>4. CASE Handling(b)
  BY <1>4, HandlingStep
<1> QED
  BY <1>1, <1>2, <1>3, <1>4 DEF Notified

-----------------------------------------------------------------------------
(* The inductive step, and what follows                                     *)

\* What the worker reads is up to date, or the change is still to be announced.
LEMMA ReadData ==
  ASSUME TypeInv, MarksInv, WorkerInv, Benign, [Next]_vars,
         CheckExternalObject(Worker) \/ ReadMarked(Worker) \/ Mark(Worker),
         NEW b \in Backstages, th[Worker].b = b, StaleNext(b, th'[Worker].data)
  PROVE  StaleNext(b, th[Worker].data) \/ EventPending(b)'
<1> DEFINE n == Len(th[Worker].data) + 1
           o == Ref(Worker).obj
<1>0. /\ Worker \in Threads /\ th \in [Threads -> Thread] /\ th[Worker].data \in Seq(Nat)
      /\ cache \in [Objects -> Object] /\ Len(th[Worker].data) \in Nat
  <2>1. Worker \in Threads /\ th \in [Threads -> Thread] /\ cache \in [Objects -> Object]
    BY DEF TypeInv, TypeOK, Threads
  <2>2. th[Worker].data \in Seq(Nat)
    BY <2>1, SMT DEF Thread
  <2>. QED BY <2>1, <2>2, SMT
<1>1. InLoop(Worker) /\ o \in Objects /\ Ref(Worker).watch \in BOOLEAN
  BY <1>0, RefType DEF CheckExternalObject, ReadMarked, Mark
<1>2. PICK d \in Nat :
        /\ ConcatData(Worker, d)
        /\ Ref(Worker).watch => d = cache[o].ver /\ cache' = cache /\ meta' = meta
                                /\ (store' = store \/ Mark(Worker))
  <2>1. cache[o].ver \in Nat
    BY <1>0, <1>1 DEF Object
  <2>2. CASE CheckExternalObject(Worker)
    BY <2>2 DEF CheckExternalObject
  <2>3. CASE ReadMarked(Worker) \/ Mark(Worker)
    <3>1. /\ ConcatData(Worker, cache[o].ver) /\ cache' = cache /\ meta' = meta
          /\ store' = store \/ Mark(Worker)
      BY <2>3 DEF ReadMarked, Mark
    <3> QED
      BY <2>1, <3>1
  <2> QED
    BY <2>2, <2>3
<1>3. /\ Len(th'[Worker].data) = n
      /\ \A j \in 1 .. Len(th[Worker].data) : th'[Worker].data[j] = th[Worker].data[j]
      /\ th'[Worker].data[n] = d /\ Ref(Worker) = Refs[b][n]
  BY <1>1, <1>2, WorkerReads
<1>4. PICK j \in 1 .. Len(th'[Worker].data) :
        Refs[b][j].watch /\ th'[Worker].data[j] # store'[Refs[b][j].obj].ver
  BY DEF StaleNext
<1>5. j \in 1 .. Len(th[Worker].data) \/ j = n
  <2>1. j \in 1 .. n
    BY <1>3, <1>4
  <2>2. n = Len(th[Worker].data) + 1 /\ Len(th[Worker].data) \in Nat
    BY <1>0
  <2>. QED BY <2>1, <2>2, SMT
<1>6. CASE j \in 1 .. Len(th[Worker].data)
  BY <1>3, <1>4, <1>6 DEF StaleNext
<1>7. CASE j = n
  <2>1. Ref(Worker).watch /\ cache[o].ver # store'[o].ver
    BY <1>2, <1>3, <1>4, <1>7
  <2>2. ~Mark(Worker)
    BY <1>0, <2>1, MarkSteps
  <2>3. store' = store /\ meta' = meta
    BY <1>2, <2>1, <2>2
  <2>4. meta[o] # store[o]
    BY <1>1, <2>1, <2>3 DEF MarksInv
  <2>5. o \in Watched(b)
    BY <1>0, <1>1, <2>1, WatchedRef
  <2> QED
    BY <2>3, <2>4, <2>5 DEF EventPending
<1> QED
  BY <1>5, <1>6, <1>7

\* A reconcile that holds old contents of an applied instance.
LEMMA WorkerStaleStep ==
  ASSUME RefreshInv, Benign, [Next]_vars, NEW b \in Backstages, wl[b].exists,
         ReadsFor(Worker, b)', StaleNext(b, th'[Worker].data)
  PROVE  Notified(b)'
<1>0. /\ TypeInv /\ MarksInv /\ WorkerInv /\ WorkloadsInv /\ RefreshPending
      /\ Worker \in Threads /\ th \in [Threads -> Thread] /\ th[Worker].data \in Seq(Nat)
      /\ th'[Worker].pc = "prep" /\ th'[Worker].b = b
  BY DEF RefreshInv, TypeInv, TypeOK, Threads, Thread, ReadsFor
<1>1. ASSUME ReadsFor(Worker, b), StaleNext(b, th[Worker].data) PROVE Notified(b)'
  <2>1. Len(th[Worker].data) <= Len(Refs[b])
    BY <1>0, <1>1 DEF WorkerInv, ReadsFor
  <2>2. Stale(b, th[Worker].data) \/ EventPending(b)'
    BY <1>0, <1>1, <2>1, StaleStep
  <2>3. CASE EventPending(b)'
    BY <2>3 DEF Notified
  <2>4. CASE Stale(b, th[Worker].data)
    <3>1. Notified(b)
      BY <1>0, <1>1, <2>4 DEF RefreshPending
    <3>2. ~StartReconcile(b)
      BY <1>1, SMT DEF StartReconcile, ReadsFor, Idle, Resting
    <3> QED
      BY <1>0, <3>1, <3>2, NotifiedStep
  <2> QED
    BY <2>2, <2>3, <2>4
<1>2. CASE th'[Worker] = th[Worker]
  BY <1>0, <1>1, <1>2 DEF ReadsFor
<1>3. CASE \E a \in Backstages : StartReconcile(a)
  <2>1. th'[Worker].data = <<>>
    BY <1>0, <1>3, SMT DEF StartReconcile, Preprocessing, Reading
  <2>2. 1 .. Len(<<>>) = {}
    BY SMT
  <2> QED
    BY <2>1, <2>2 DEF StaleNext
<1>4. CASE /\ th[Worker].pc = "prep" /\ th'[Worker].b = th[Worker].b
           /\ th'[Worker].data = th[Worker].data
  BY <1>0, <1>1, <1>4 DEF ReadsFor
<1>5. CASE CheckExternalObject(Worker) \/ ReadMarked(Worker) \/ Mark(Worker)
  <2>1. th[Worker].pc = "prep" /\ th[Worker].b = b
    BY <1>0, <1>5, WorkerAppends
  <2>2. StaleNext(b, th[Worker].data) \/ EventPending(b)'
    BY <1>0, <1>5, <2>1, ReadData
  <2> QED
    BY <1>1, <2>1, <2>2 DEF ReadsFor, Notified
<1>6. CASE ApplyObjects
  BY <1>0, <1>6, ApplyStep
<1> QED
  BY <1>0, <1>2, <1>3, <1>4, <1>5, <1>6, WorkerSteps

LEMMA RefreshPendingStep ==
  ASSUME RefreshInv, Benign, [Next]_vars
  PROVE  RefreshPending'
<1>0. /\ TypeInv /\ MarksInv /\ WorkerInv /\ WorkloadsInv /\ RefreshPending
      /\ Worker \in Threads /\ th \in [Threads -> Thread] /\ th[Worker].data \in Seq(Nat)
      /\ \A b \in Backstages : wl[b].hash \in Seq(Nat)
  BY DEF RefreshInv, TypeInv, TypeOK, Threads, Thread, Workload
<1>1. SUFFICES ASSUME NEW b \in Backstages, wl'[b].exists
               PROVE  /\ StaleNext(b, wl'[b].hash) => Notified(b)' \/ ReadsFor(Worker, b)'
                      /\ ReadsFor(Worker, b)' /\ StaleNext(b, th'[Worker].data) => Notified(b)'
  BY DEF RefreshPending, Stale, StaleNext
<1>2. CASE ApplyObjects /\ th[Worker].b = b
  <2>1. /\ wl'[b].hash = th[Worker].data /\ th'[Worker].pc = "idle" /\ ReadsFor(Worker, b)
        /\ Len(th[Worker].data) = Len(Refs[b]) /\ (~wl[b].exists => wlEvent'[b])
    BY <1>0, <1>2, ApplyStep DEF ReadsFor
  <2>2. ~ReadsFor(Worker, b)' /\ ~StartReconcile(b)
    BY <2>1, SMT DEF ReadsFor, StartReconcile, Idle, Resting
  <2>3. ASSUME StaleNext(b, th[Worker].data) PROVE Notified(b)'
    <3>1. CASE ~wl[b].exists
      BY <2>1, <3>1 DEF Notified
    <3>2. CASE wl[b].exists
      <4>1. Stale(b, th[Worker].data)
        BY <1>0, <1>2, <2>3, ApplyStep DEF Stale, StaleNext
      <4>2. Notified(b)
        BY <1>0, <2>1, <3>2, <4>1 DEF RefreshPending
      <4> QED
        BY <1>0, <2>2, <3>2, <4>2, NotifiedStep
    <3> QED
      BY <3>1, <3>2
  <2> QED
    BY <2>1, <2>2, <2>3
<1>3. CASE ~(ApplyObjects /\ th[Worker].b = b)
  <2>1. wl'[b] = wl[b] /\ wl[b].exists
    BY <1>0, <1>1, <1>3, WorkerSteps, ApplyStep
  <2>2. Len(wl[b].hash) <= Len(Refs[b])
    <3>1. Len(wl[b].hash) = Len(Refs[b])
      BY <1>0, <2>1 DEF WorkloadsInv
    <3>2. Len(wl[b].hash) \in Nat
      BY <1>0, SMT
    <3> QED
      BY <3>1, <3>2, SMT
  <2>3. ASSUME StaleNext(b, wl[b].hash) PROVE Notified(b)' \/ ReadsFor(Worker, b)'
    <3>1. Stale(b, wl[b].hash) \/ EventPending(b)'
      BY <1>0, <2>2, <2>3, StaleStep
    <3>2. CASE EventPending(b)'
      BY <3>2 DEF Notified
    <3>3. CASE Stale(b, wl[b].hash)
      <4>1. Notified(b) \/ ReadsFor(Worker, b)
        BY <1>0, <2>1, <3>3 DEF RefreshPending
      <4>2. CASE ReadsFor(Worker, b) \/ b \in queue
        BY <1>0, <1>3, <4>2, ReconcileStep DEF Notified
      <4>3. CASE Notified(b) /\ b \notin queue
        BY <1>0, <2>1, <4>3, NotifiedStep DEF StartReconcile
      <4> QED
        BY <4>1, <4>2, <4>3
    <3> QED
      BY <3>1, <3>2, <3>3
  <2> QED
    BY <2>1, <2>3, WorkerStaleStep
<1> QED
  BY <1>2, <1>3

-----------------------------------------------------------------------------
(* The theorems                                                             *)

LEMMA InitRefresh == Init => RefreshInv
<1> SUFFICES ASSUME Init PROVE RefreshInv
  OBVIOUS
<1>1. NoWorkload.exists = FALSE /\ Idle.pc = "idle"
  BY DEF NoWorkload, Idle, Resting
<1>2. \A b \in Backstages : ~wl[b].exists /\ b \in queue
  BY <1>1 DEF Init
<1>3. th[Worker].pc # "prep"
  BY <1>1 DEF Init, Threads
<1>4. WorkerInv /\ WorkloadsInv /\ RefreshPending
  BY <1>2, <1>3 DEF WorkerInv, WorkloadsInv, RefreshPending
<1> QED
  BY <1>4, InitType, InitMarks DEF RefreshInv

LEMMA RefreshInvariant ==
  ASSUME Benign
  PROVE  Safety => []RefreshInv
<1>1. RefreshInv /\ [Next]_vars => RefreshInv'
  <2> SUFFICES ASSUME RefreshInv, [Next]_vars PROVE RefreshInv'
    OBVIOUS
  <2>1. TypeInv /\ MarksInv /\ WorkerInv /\ WorkloadsInv
    BY DEF RefreshInv
  <2>2. TypeInv' /\ MarksInv'
    BY <2>1, NextType, MarksStep
  <2>3. WorkerInv' /\ WorkloadsInv'
    BY <2>1, WorkerInvStep, WorkloadsStep
  <2>4. RefreshPending'
    BY RefreshPendingStep
  <2> QED
    BY <2>2, <2>3, <2>4 DEF RefreshInv
<1> QED
  BY <1>1, InitRefresh, PTL DEF Safety

\* When nothing is left to do, nothing is pending and no contents are stale.
LEMMA QuiescentInSync ==
  ASSUME RefreshInv, Quiescent, NEW b \in Backstages
  PROVE  InSync(b)
<1>0. TypeInv /\ WorkloadsInv /\ RefreshPending
  BY DEF RefreshInv
<1>1. \A t \in Threads : th[t].pc = "idle" /\ th[t].calls = <<>>
  BY DEF Quiescent, Idle, Resting
<1>2. \A t \in Threads : ~ReadsFor(t, b)
  BY <1>1 DEF ReadsFor
<1>3. Worker \in Threads /\ Handlers \subseteq Threads /\ DOMAIN <<>> = {}
  BY SMT DEF Threads
<1>4. ~Handling(b)
  BY <1>1, <1>2, <1>3 DEF Handling
<1>5. ~EventPending(b)
  BY DEF Quiescent, EventPending
<1>6. ~Notified(b) /\ b \notin queue
  BY <1>4, <1>5 DEF Quiescent, Notified
<1>7. wl[b].exists
  BY <1>0, <1>2, <1>3, <1>6 DEF WorkloadsInv
<1>8. ~Stale(b, wl[b].hash)
  BY <1>0, <1>2, <1>3, <1>6, <1>7 DEF RefreshPending
<1> DEFINE H == wl[b].hash
<1>9. /\ H \in Seq(Nat) /\ Len(H) = Len(Refs[b])
      /\ \A j \in 1 .. Len(Refs[b]) : ~Refs[b][j].watch => H[j] = NoData
  BY <1>0, <1>7 DEF WorkloadsInv, TypeInv, TypeOK, Workload
<1>10. Len(Refs[b]) \in Nat /\ Slots(b) = 1 .. Len(Refs[b])
  BY ConstantsAssumption, SMT DEF Slots
<1>11. H = [j \in 1 .. Len(Refs[b]) |-> H[j]]
  BY <1>9, SMT
<1>12. \A j \in 1 .. Len(Refs[b]) :
         H[j] = IF Refs[b][j].watch THEN store[Refs[b][j].obj].ver ELSE NoData
  BY <1>8, <1>9 DEF Stale
<1>13. H = CurrentHash(b)
  BY <1>10, <1>11, <1>12 DEF CurrentHash
<1> QED
  BY <1>7, <1>13 DEF InSync

\* A workload that is behind its objects always has a reconcile on its way: no
\* event that requestByExtConfigLabel drops was the last one.
THEOREM RefreshesStayPending ==
  ASSUME Benign
  PROVE  Safety => []RefreshPending
<1>1. RefreshInv => RefreshPending
  BY DEF RefreshInv
<1> QED
  BY <1>1, RefreshInvariant, PTL

\* No change of an external object is lost, for any number of instances,
\* references, objects, handlers, retries, edits, faults and restarts: when the
\* operator has nothing left to do, every Pod template carries the hash of the
\* present contents.
THEOREM NoChangeIsLost ==
  ASSUME Benign
  PROVE  Safety => []NoLostRefresh
<1>1. RefreshInv => NoLostRefresh
  BY QuiescentInSync DEF NoLostRefresh
<1> QED
  BY <1>1, RefreshInvariant, PTL
==============================================================================
