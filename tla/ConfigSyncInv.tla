---------------------------- MODULE ConfigSyncInv ----------------------------
(* Inductive invariants of ConfigSync.                                      *)
EXTENDS ConfigSync

ReadsFor(t, b) == th[t].pc = "prep" /\ th[t].b = b

\* TypeOK, made inductive: a thread that reads does so for an instance.
TypeInv == TypeOK /\ \A t \in Threads : th[t].pc = "prep" => th[t].b \in Backstages

\* The data has the contents of a watched reference that has changed since.
Stale(b, data) ==
  \E j \in 1 .. Len(data) :
    Refs[b][j].watch /\ data[j] # store[Refs[b][j].obj].ver

\* Object obj is marked for b, so that its events lead to b.
MarkedFor(b, obj) == Exists(obj) /\ obj.label = "true" /\ obj.owner = b

\* What holds of a reference of b once it has been read.
WasRead(b, j) ==
  LET o == Refs[b][j].obj IN
  Exists(cache[o]) /\ (Refs[b][j].watch => MarkedFor(b, store[o]))

EventPending(b) == \E o \in Watched(b) : meta[o] # store[o]

Handling(b) ==
  \E h \in Handlers : ReadsFor(h, b) \/ \E i \in DOMAIN th[h].calls : th[h].calls[i] = b

\* A reconcile of b that starts from here is already on its way.
Notified(b) == b \in queue \/ wlEvent[b] \/ EventPending(b) \/ Handling(b)

-----------------------------------------------------------------------------
(* Environments in which no change is lost.                                 *)

Exclusive ==
  \A b1, b2 \in Backstages : b1 # b2 => Watched(b1) \cap Watched(b2) = {}

Benign == AutoSync /\ TypedFirst /\ ~MayReplace /\ ~OpenShift /\ Exclusive

-----------------------------------------------------------------------------
(* No change is lost.                                                       *)

\* Marks appear together, on existing objects of the right instance, and no cache
\* is ahead of the API server.
MarksInv ==
  \A o \in Objects :
    /\ store[o].ver <= edits /\ meta[o].ver <= edits
    /\ Exists(cache[o]) => Exists(store[o])
    /\ store[o].label = "" <=> store[o].owner = NoName
    /\ store[o].owner # NoName =>
         MarkedFor(store[o].owner, store[o]) /\ o \in Watched(store[o].owner)
    /\ cache[o].owner # NoName => cache[o].owner = store[o].owner
    /\ meta[o].owner # NoName => meta[o].owner = store[o].owner
    /\ meta[o] = store[o] => cache[o] = store[o]

\* What the worker has read stays readable and marked.
WorkerInv ==
  th[Worker].pc = "prep" =>
    /\ Len(th[Worker].data) <= Len(Refs[th[Worker].b])
    /\ \A j \in 1 .. Len(th[Worker].data) :
         /\ WasRead(th[Worker].b, j)
         /\ ~Refs[th[Worker].b][j].watch => th[Worker].data[j] = NoData

WorkloadsInv ==
  \A b \in Backstages :
    /\ ~wl[b].exists => b \in queue \/ ReadsFor(Worker, b)
    /\ wl[b].exists =>
         /\ Len(wl[b].hash) = Len(Refs[b])
         /\ wlSeen[b] \/ wlEvent[b]
         /\ \A j \in 1 .. Len(Refs[b]) :
              WasRead(b, j) /\ (~Refs[b][j].watch => wl[b].hash[j] = NoData)

\* A workload that is behind is about to be brought up to date, and a reconcile
\* that will apply old contents is about to be followed by another: whenever
\* requestByExtConfigLabel drops an event, another one is still to come.
RefreshPending ==
  \A b \in Backstages : wl[b].exists =>
    /\ Stale(b, wl[b].hash) => Notified(b) \/ ReadsFor(Worker, b)
    /\ ReadsFor(Worker, b) /\ Stale(b, th[Worker].data) => Notified(b)

RefreshInv == TypeInv /\ MarksInv /\ WorkerInv /\ WorkloadsInv /\ RefreshPending

-----------------------------------------------------------------------------
(* Workloads move only forward, in every environment.                       *)

\* No copy of an object is newer than the object.
VersionsInv ==
  /\ edits >= 1
  /\ \A o \in Objects :
       /\ store[o].ver <= edits /\ cache[o].ver <= edits
       /\ Exists(store[o]) => cache[o].ver <= store[o].ver

\* v is a version read from o: newer ones may follow, older ones may not.
ReadFrom(v, o) ==
  /\ v \in 1 .. edits
  /\ Exists(cache[o]) => v <= cache[o].ver
  /\ Exists(store[o]) => v <= store[o].ver

Contents(b, data) ==
  /\ Len(data) <= Len(Refs[b])
  /\ \A j \in 1 .. Len(data) :
       IF Refs[b][j].watch THEN ReadFrom(data[j], Refs[b][j].obj) ELSE data[j] = NoData

\* Workloads carry contents that were read, the worker holds such contents, and
\* none that are older than those of the workload.
ForwardInv ==
  /\ VersionsInv
  /\ \A b \in Backstages : wl[b].exists =>
       Len(wl[b].hash) = Len(Refs[b]) /\ Contents(b, wl[b].hash)
  /\ th[Worker].pc = "prep" =>
       /\ Contents(th[Worker].b, th[Worker].data)
       /\ wl[th[Worker].b].exists =>
            \A j \in 1 .. Len(th[Worker].data) : wl[th[Worker].b].hash[j] <= th[Worker].data[j]
====
