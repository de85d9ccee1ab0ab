----------------------------- MODULE PodRefresh -----------------------------
(***************************************************************************)
(* What the operator promises about external configuration: the Pods of an *)
(* instance only ever move forward through the contents of its objects,    *)
(* and end up with the present ones.  ConfigSync implements it.            *)
(***************************************************************************)
EXTENDS Integers, Sequences

CONSTANTS Backstages, Objects, Refs

VARIABLES
  clock,      \* the number of writes so far
  contents,   \* contents[o]: the write that made the present contents of o
  applied     \* applied[b]: the contents b's Pods were made with

vars == <<clock, contents, applied>>

NotApplied == [exists |-> FALSE, hash |-> <<>>]

Init ==
  /\ clock = 1
  /\ contents \in [Objects -> {0, 1}]
  /\ applied = [b \in Backstages |-> NotApplied]

\* A user writes an object or deletes it.
UserWrite(o) ==
  /\ clock' = clock + 1
  /\ contents' \in {[contents EXCEPT ![o] = 0], [contents EXCEPT ![o] = clock']}
  /\ UNCHANGED applied

\* Contents that may follow what b has: for every watched reference a write that
\* has happened, and none older than the one b has.
Forward(b, new) ==
  /\ new \in [DOMAIN Refs[b] -> 0 .. clock]
  /\ \A j \in DOMAIN Refs[b] :
       /\ Refs[b][j].watch <=> new[j] > 0
       /\ applied[b].exists => applied[b].hash[j] <= new[j]

Rollout(b) ==
  \E new \in [DOMAIN Refs[b] -> 0 .. clock] :
    /\ Forward(b, new)
    /\ applied' = [applied EXCEPT ![b] = [exists |-> TRUE, hash |-> new]]
    /\ UNCHANGED <<clock, contents>>

Current(b) == [j \in DOMAIN Refs[b] |-> IF Refs[b][j].watch THEN contents[Refs[b][j].obj] ELSE 0]

\* The roll-out that brings b up to date.
RolloutCurrent(b) ==
  /\ \A j \in DOMAIN Refs[b] : contents[Refs[b][j].obj] > 0
  /\ applied' = [applied EXCEPT ![b] = [exists |-> TRUE, hash |-> Current(b)]]
  /\ UNCHANGED <<clock, contents>>

Next ==
  \/ \E o \in Objects : UserWrite(o)
  \/ \E b \in Backstages : Rollout(b)

Safety == Init /\ [][Next]_vars
Spec == Safety /\ \A b \in Backstages : WF_vars(RolloutCurrent(b))
=============================================================================
