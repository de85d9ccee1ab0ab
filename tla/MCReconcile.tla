----------------------------- MODULE MCReconcile -----------------------------
(* Instances of Reconcile for model checking.                               *)
EXTENDS ReconcileInv, TLC

Plain == [idle |-> FALSE, localDb |-> TRUE, auth |-> FALSE, monitoring |-> FALSE,
          kind |-> "Deployment", deps |-> {}, valid |-> TRUE]

\* Idling and waking, and a spec that InitObjects refuses.
Lifecycle == {Plain, [Plain EXCEPT !.idle = TRUE, !.monitoring = TRUE], [Plain EXCEPT !.valid = FALSE]}

Idling == {Plain, [Plain EXCEPT !.idle = TRUE]}

\* No dependency is special.
DepsSymmetry == Permutations(Deps)

\* A StatefulSet, with the local database and the generated Secret, with that and
\* the user's Secret, and with an external database and dependencies.
Databases ==
  LET own == [Plain EXCEPT !.kind = "StatefulSet"]
  IN  {own, [own EXCEPT !.auth = TRUE], [own EXCEPT !.localDb = FALSE, !.deps = Deps]}
=============================================================================
