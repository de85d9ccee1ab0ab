--------------------------- MODULE ManagerProofs ---------------------------
(* Proofs about Manager, for all profiles and policies and without bounds. *)
EXTENDS Manager, TLAPS

\* Whatever fails at the start, the process serves with a profile and a policy of
\* the cluster or with the fallback for them, never with half of a setting.
THEOREM TypeCorrect == Safety => []TypeOK
<1>. DEFINE Rest == /\ cluster \in Settings /\ tls \in Settings
                    /\ pc \in {"down", "profile", "policy", "setup", "running", "stopping"}
                    /\ changes \in Nat /\ faults \in Nat /\ crashes \in Nat
<1>1. Init => Rest /\ event \in BOOLEAN
  <2>1. Fallback \in Settings
    BY ManagerAssumption DEF Settings, Fallback
  <2>2. Init => event \in BOOLEAN
    BY Zenon DEF Init
  <2>. QED BY <2>1, <2>2 DEF Init
<1>2. ASSUME Rest, [Next]_vars PROVE Rest'
  <2>1. CASE Start \/ FetchProfile \/ FetchPolicy
    BY <1>2, <2>1, ManagerAssumption DEF Start, FetchProfile, FetchPolicy, Fallback, Settings
  <2>2. CASE StartManager \/ Watch \/ Stop \/ Crash
    BY <1>2, <2>2 DEF StartManager, Watch, Stop, Crash
  <2>3. CASE StartFault \/ ClientFault \/ ProfileFault \/ PolicyFault \/ SetupFault
    BY <1>2, <2>3 DEF StartFault, ClientFault, ProfileFault, PolicyFault, SetupFault, Fault
  <2>4. ASSUME NEW s \in Settings, Change(s) PROVE Rest'
    BY <1>2, <2>4 DEF Change
  <2>5. CASE UNCHANGED vars
    BY <1>2, <2>5 DEF vars
  <2>. QED BY <1>2, <2>1, <2>2, <2>3, <2>4, <2>5 DEF Next, Step
<1>3. ASSUME event \in BOOLEAN, [Next]_vars PROVE event' \in BOOLEAN
  BY <1>3, Zenon DEF Next, Step, Start, FetchProfile, FetchPolicy, StartManager, Watch, Stop, Crash,
     StartFault, ClientFault, ProfileFault, PolicyFault, SetupFault, Fault, Change, vars
<1>4. TypeOK <=> Rest /\ event \in BOOLEAN
  BY DEF TypeOK
<1>5. Init => TypeOK
  BY <1>1, <1>4
<1>6. TypeOK /\ [Next]_vars => TypeOK'
  BY <1>2, <1>3 DEF TypeOK
<1>. QED BY <1>5, <1>6, PTL DEF Safety

\* A process that runs and has no event to come serves with the settings of the
\* cluster, whichever reads failed at its start and whatever changed meanwhile:
\* setupTLSProfileWatcher is given what getTLSProfileConfig really returned.
THEOREM ProfileNeverStale == Safety => []NoStaleProfile
<1>1. Init => NoStaleProfile
  BY DEF Init, NoStaleProfile
<1>2. ASSUME NoStaleProfile, [Next]_vars PROVE NoStaleProfile'
  <2>1. CASE Start \/ FetchProfile \/ FetchPolicy \/ StartManager \/ Stop \/ Crash
    BY <2>1 DEF Start, FetchProfile, FetchPolicy, StartManager, Stop, Crash, NoStaleProfile
  <2>2. CASE StartFault \/ ClientFault \/ ProfileFault \/ PolicyFault \/ SetupFault
    BY <2>2 DEF StartFault, ClientFault, ProfileFault, PolicyFault, SetupFault, Fault, NoStaleProfile
  <2>3. CASE Watch
    BY <2>3 DEF Watch, Differs, NoStaleProfile
  <2>4. ASSUME NEW s \in Settings, Change(s) PROVE NoStaleProfile'
    <3>1. pc = "running" => event'
      BY <2>4, Zenon DEF Change
    <3>2. pc' = pc
      BY <2>4, Zenon DEF Change
    <3>. QED BY <3>1, <3>2 DEF NoStaleProfile
  <2>5. CASE UNCHANGED vars
    BY <1>2, <2>5 DEF vars, NoStaleProfile
  <2>. QED BY <1>2, <2>1, <2>2, <2>3, <2>4, <2>5 DEF Next, Step
<1>. QED BY <1>1, <1>2, PTL DEF Safety
=============================================================================
