---------------------------- MODULE ReconcileInv ----------------------------
(* Inductive invariants of Reconcile.                                       *)
EXTENDS Reconcile

\* The copies that are said to be up to date are.
CachesInv ==
  /\ crFresh => crCache = cr
  /\ \A w \in Workloads : wlFresh[w] => wlCache[w] = wls[w]

\* Only the first generated password ever gets into the Secret, and from there
\* into the database and the Pods.
PasswordsInv ==
  /\ password.user <= UserPassword
  /\ dbPassword > UserPassword => dbPassword = password.own
  /\ \A k \in Kinds : podPassword[k] > UserPassword => podPassword[k] = password.own

\* As long as no dependency failed, those that were tried exist.
DepsInv ==
  /\ wk.pc = "deps" /\ ~wk.err => wk.bs.spec.deps \subseteq deps \cup wk.left
  /\ wk.pc = "apply" => wk.bs.spec.deps \subseteq deps

\* Object o of the runtime model is as the spec asks.
InLine(o, s) == IF o = "DbSecret" THEN password.own # 0 ELSE Conforms(o, s)

\* The objects of the model before those that are left are in line.
AppliedUpTo(s, todo) ==
  LET os == RuntimeObjects(s) IN
  /\ Len(todo) <= Len(os)
  /\ \A i \in 1 .. Len(todo) : todo[i] = os[Len(os) - Len(todo) + i]
  /\ \A i \in 1 .. Len(os) - Len(todo) : InLine(os[i], s)

\* No reconcile is asked for, nor about to be.
Unasked == ~queued /\ crFresh /\ \A w \in Workloads : wlFresh[w]

\* Whenever nobody asks for a reconcile, either one is under way that works on the
\* present spec with the present caches, or the last one has left all in line: no
\* edit, failure or restart may come between without asking for another.
Converging ==
  Unasked =>
    /\ wk.pc \notin {"idle", "status"} => wk.bs.spec = cr.spec
    /\ wk.pc = "apply" => AppliedUpTo(cr.spec, wk.todo)
    /\ wk.pc = "idle" \/ (wk.pc = "status" /\ ~wk.err) =>
         AppliedUpTo(cr.spec, <<>>) /\ cr.spec.deps \subseteq deps

\* The same for the status, when no update of it is lost.
Reporting ==
  Unasked =>
    /\ wk.pc # "idle" => wk.fresh
    /\ wk.pc = "idle" => cr.status = DeploymentStatus(cr.spec, wls)
    /\ wk.pc = "status" /\ ~wk.err => wk.bs.status = DeploymentStatus(cr.spec, wls)
=============================================================================
