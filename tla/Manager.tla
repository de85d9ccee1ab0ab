------------------------------- MODULE Manager -------------------------------
(***************************************************************************)
(* The process of the operator on OpenShift: at its start it takes the TLS *)
(* profile and the adherence policy of the cluster for its servers, and    *)
(* stops when they change, to be started again.                            *)
(***************************************************************************)
EXTENDS Integers

CONSTANTS
  Profiles,      \* TLS profiles
  Policies,      \* adherence policies
  Intermediate,  \* the profile taken when that of the cluster cannot be read
  NoOpinion,     \* the policy taken when that of the cluster cannot be read
  MaxChanges,    \* bound on the changes in the cluster
  MaxFaults,     \* bound on the failing calls
  MaxCrashes     \* bound on the crashes of the process

ASSUME ManagerAssumption ==
  /\ Intermediate \in Profiles /\ NoOpinion \in Policies
  /\ MaxChanges \in Nat /\ MaxFaults \in Nat /\ MaxCrashes \in Nat

VARIABLES
  cluster,     \* the profile and the policy of the cluster
  pc,          \* where the process is
  tls,         \* the profile and the policy the process has taken
  event,       \* the watch has an object to deliver that the watcher has not seen
  changes, faults, crashes

vars == <<cluster, pc, tls, event, changes, faults, crashes>>

Settings == [profile : Profiles, policy : Policies]

\* Mutant: nothing is put in the place of a profile that cannot be read.
NoFallback == [profile |-> "", policy |-> NoOpinion]

Fallback == [profile |-> Intermediate, policy |-> NoOpinion]

TypeOK ==
  /\ cluster \in Settings /\ tls \in Settings
  /\ pc \in {"down", "profile", "policy", "setup", "running", "stopping"}
  /\ event \in BOOLEAN
  /\ changes \in Nat /\ faults \in Nat /\ crashes \in Nat

Init ==
  /\ cluster \in Settings
  /\ pc = "down" /\ tls = Fallback /\ event = FALSE
  /\ changes = 0 /\ faults = 0 /\ crashes = 0

-----------------------------------------------------------------------------
(* main                                                                     *)

\* The platform is detected, and the client for the TLS profile created.
Start ==
  /\ pc = "down"
  /\ pc' = "profile" /\ tls' = Fallback /\ event' = FALSE
  /\ UNCHANGED <<cluster, changes, faults, crashes>>

\* A call fails: os.Exit(1) for the platform and for the setup of the manager,
\* the fallback for what concerns TLS, for both when there is no client.
Fault(from, to) ==
  /\ pc = from
  /\ faults < MaxFaults
  /\ faults' = faults + 1
  /\ pc' = to
  /\ UNCHANGED <<cluster, tls, event, changes, crashes>>

StartFault   == Fault("down", "down")
ClientFault  == Fault("profile", "setup")
ProfileFault == Fault("profile", "policy")
PolicyFault  == Fault("policy", "setup")
SetupFault   == Fault("setup", "down")

FetchProfile ==
  /\ pc = "profile"
  /\ pc' = "policy" /\ tls' = [tls EXCEPT !.profile = cluster.profile]
  /\ UNCHANGED <<cluster, event, changes, faults, crashes>>

FetchPolicy ==
  /\ pc = "policy"
  /\ pc' = "setup" /\ tls' = [tls EXCEPT !.policy = cluster.policy]
  /\ UNCHANGED <<cluster, event, changes, faults, crashes>>

\* setupTLSProfileWatcher and mgr.Start: the watch begins with what there is.
StartManager ==
  /\ pc = "setup"
  /\ pc' = "running" /\ event' = TRUE
  /\ UNCHANGED <<cluster, tls, changes, faults, crashes>>

\* Mutant: the policy is not watched.
WatchedProfile == cluster.profile # tls.profile

\* The watcher compares with what the process has taken, not with what it saw last.
Differs == cluster # tls

\* SecurityProfileWatcher, which calls cancel() on a difference.
Watch ==
  /\ pc = "running" /\ event
  /\ event' = FALSE
  /\ pc' = IF Differs THEN "stopping" ELSE pc
  /\ UNCHANGED <<cluster, tls, changes, faults, crashes>>

\* mgr.Start returns, and main.
Stop ==
  /\ pc = "stopping"
  /\ pc' = "down"
  /\ UNCHANGED <<cluster, tls, event, changes, faults, crashes>>

-----------------------------------------------------------------------------
(* The cluster                                                              *)

Crash ==
  /\ pc # "down"
  /\ crashes < MaxCrashes
  /\ crashes' = crashes + 1
  /\ pc' = "down"
  /\ UNCHANGED <<cluster, tls, event, changes, faults>>

Change(s) ==
  /\ s # cluster
  /\ changes < MaxChanges
  /\ changes' = changes + 1
  /\ cluster' = s
  /\ event' = (event \/ pc = "running")
  /\ UNCHANGED <<pc, tls, faults, crashes>>

Step == Start \/ FetchProfile \/ FetchPolicy \/ StartManager \/ Watch \/ Stop

Next ==
  \/ Step \/ StartFault \/ ClientFault \/ ProfileFault \/ PolicyFault \/ SetupFault
  \/ Crash \/ \E s \in Settings : Change(s)

\* The process runs, and the cluster restarts it when it ends.
Safety == Init /\ [][Next]_vars
Spec == Safety /\ WF_vars(Step)

-----------------------------------------------------------------------------
(* Properties                                                               *)

\* A process that has nothing to watch for has the settings of the cluster: a
\* change while it starts, or a fallback it had to take, is not overlooked, as
\* the watcher compares with what was really taken (setupTLSProfileWatcher).
NoStaleProfile == pc = "running" /\ ~event => tls = cluster

\* "Cancel this context when the TLS profile changes so the pod restarts with
\* the new config" (cmd/main.go): once the cluster is at rest, the process ends
\* up running with its settings, whatever failed on the way.
ProfileFollowed == <>[](pc = "running" /\ tls = cluster)
=============================================================================
