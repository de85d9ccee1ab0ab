--------------------------- MODULE PodSpecProofs ---------------------------
(***************************************************************************)
(* What the operations on the Pod template do to it, for every Pod, and    *)
(* what they promise when one object after the other asks something of it. *)
(***************************************************************************)
EXTENDS PodPromises, FiniteSetTheorems, SequenceTheorems, TLAPS

USE Zenon

-----------------------------------------------------------------------------
(* Induction                                                                *)

\* A set of natural numbers that is not empty has a least element.
LEMMA LeastNumber ==
  ASSUME NEW T \in SUBSET Nat, T # {}
  PROVE  \E x \in T : \A y \in T : ~(y < x)
<1>. DEFINE Less == {ss \in Nat \X Nat : ss[1] < ss[2]}
<1>1. IsWellFoundedOn(Less, Nat)
  BY NatLessThanWellFounded DEF OpToRel
<1>2. \E x \in T : \A y \in T : <<y, x>> \notin Less
  <2>. HIDE DEF Less
  <2>. QED BY <1>1, WFMin
<1>. QED BY <1>2

\* The rounds of a loop of N rounds are all in a set, if the state before the first
\* round is and each round comes after one that is.
LEMMA RoundInduction ==
  ASSUME NEW N \in Nat, NEW T, 0 \in T, \A n \in 1 .. N : n - 1 \in T => n \in T
  PROVE  \A n \in 0 .. N : n \in T
<1>. DEFINE U == {n \in 0 .. N : n \notin T}
<1>. SUFFICES ASSUME U # {} PROVE FALSE
  OBVIOUS
<1>1. U \in SUBSET Nat
  BY SMT
<1>2. PICK x \in U : \A y \in U : ~(y < x)
  <2>. HIDE DEF U
  <2>. QED BY <1>1, LeastNumber
<1>3. x \in 1 .. N /\ x - 1 \in 0 .. N /\ x - 1 < x
  BY <1>2, SMT
<1>. QED BY <1>2, <1>3

-----------------------------------------------------------------------------
(* The loops of the Pod operations                                          *)

\* The operations that are done one after the other.
PodOps == {"files", "claims", "envs", "configs", "extra"}
PodOp(op, p, r) ==
  IF op = "files" THEN mountFilesFrom(p, r)
  ELSE IF op = "claims" THEN addPvc(p, r)
  ELSE IF op = "envs" THEN addEnvVarsFrom(p, r)
  ELSE IF op = "configs" THEN updatePodWithAppConfig(p, r) ELSE addExtraEnv(p, r)

\* What they do to the sequence of each container: new mounts, a variable, or one
\* more mount or source.
AddTo(how, xs, x) ==
  IF how = "mounts" THEN ReplaceOrAppend(xs, x)
  ELSE IF how = "variable" THEN setOrAppendEnvVar(xs, x) ELSE Append(xs, x)

\* One round of a loop that is written as FoldLeft: the value so far is v, the next
\* element x, and what does not change in the loop is what.  The loops put a sequence
\* together, set variables, merge workloads, add something to the containers x, or
\* do an operation on Pods.
Round(how, what, v, x) ==
  IF how = "joined" THEN v \o x
  ELSE IF how = "variables" THEN setOrAppendEnvVar(v, x)
  ELSE IF how = "workloads" THEN MergeStrings(v, x)
  ELSE IF how = "mounts" THEN [v EXCEPT ![x] = AddTo(how, @, what)]
  ELSE IF how = "variable" THEN [v EXCEPT ![x] = AddTo(how, @, what)]
  ELSE IF how = "one" THEN [v EXCEPT ![x] = AddTo(how, @, what)]
  ELSE UNION {PodOp(how, p, x) : p \in v}

Greatest(t) == CHOOSE x \in t : \A y \in t : x >= y

\* g is the function that FoldLeft chooses for the elements at the indices D.
Solves(g, how, what, base, seq, D) ==
  g = [t \in SUBSET D |->
         IF t = {} THEN base ELSE Round(how, what, g[t \ {Greatest(t)}], seq[Greatest(t)])]

\* FoldLeft(LAMBDA v, x : Round(how, what, v, x), base, seq)
Run(how, what, base, seq) == (CHOOSE g : Solves(g, how, what, base, seq, DOMAIN seq))[DOMAIN seq]

\* f are the values of the loop: the base, then one after each round.
IsTrace(f, how, what, base, seq) ==
  /\ f[0] = base
  /\ \A n \in 1 .. Len(seq) : f[n] = Round(how, what, f[n - 1], seq[n])
  /\ f[Len(seq)] = Run(how, what, base, seq)

\* A loop over a sequence has a trace: there is a function that solves the equation
\* for every length, and the values of the one that is chosen are those of the loop.
LEMMA LoopTrace ==
  ASSUME NEW S, NEW seq \in Seq(S), NEW how, NEW what, NEW base
  PROVE  \E f : IsTrace(f, how, what, base, seq)
<1>. DEFINE N == Len(seq)
            iter == CHOOSE g : Solves(g, how, what, base, seq, 1 .. N)
<1>0. ASSUME NEW n \in Nat, NEW t \in SUBSET (1 .. n), n \in t PROVE Greatest(t) = n
  <2>1. \A y \in t : n >= y
    BY SMT
  <2>2. \A x \in t : (\A y \in t : x >= y) => x = n
    BY <1>0, SMT
  <2>. QED BY <1>0, <2>1, <2>2 DEF Greatest
<1>1. DOMAIN seq = 1 .. N /\ N \in Nat
  BY SMT
<1>2. Run(how, what, base, seq) = iter[1 .. N]
  BY <1>1 DEF Run
<1>3. Solves(iter, how, what, base, seq, 1 .. N)
  <2>. DEFINE T == {n \in Nat : \E g : Solves(g, how, what, base, seq, 1 .. n)}
  <2>1. 0 \in T
    <3>. DEFINE g == [t \in SUBSET (1 .. 0) |-> base]
    <3>1. \A t \in SUBSET (1 .. 0) : t = {}
      BY SMT
    <3>2. Solves(g, how, what, base, seq, 1 .. 0)
      BY <3>1 DEF Solves
    <3>. QED BY <3>2
  <2>2. ASSUME NEW n \in 1 .. N, n - 1 \in T PROVE n \in T
    <3>1. PICK g : Solves(g, how, what, base, seq, 1 .. n - 1)
      BY <2>2
    <3>. DEFINE h == [t \in SUBSET (1 .. n) |->
                        IF n \in t THEN Round(how, what, g[t \ {n}], seq[n]) ELSE g[t]]
    <3>2. ASSUME NEW t \in SUBSET (1 .. n)
          PROVE  h[t] = IF t = {} THEN base ELSE Round(how, what, h[t \ {Greatest(t)}], seq[Greatest(t)])
      <4>1. CASE n \in t
        <5>1. Greatest(t) = n
          BY <1>0, <1>1, <4>1, SMT
        <5>2. t \ {n} \in SUBSET (1 .. n) /\ n \notin t \ {n}
          OBVIOUS
        <5>3. h[t \ {n}] = g[t \ {n}]
          BY <5>2
        <5>. QED BY <4>1, <5>1, <5>3
      <4>2. CASE n \notin t
        <5>1. t \in SUBSET (1 .. n - 1)
          BY <4>2, SMT
        <5>2. g[t] = IF t = {} THEN base ELSE Round(how, what, g[t \ {Greatest(t)}], seq[Greatest(t)])
          BY <3>1, <5>1 DEF Solves
        <5>3. t \ {Greatest(t)} \in SUBSET (1 .. n) /\ n \notin t \ {Greatest(t)}
          BY <4>2
        <5>4. h[t \ {Greatest(t)}] = g[t \ {Greatest(t)}] /\ h[t] = g[t]
          BY <4>2, <5>3
        <5>. QED BY <5>2, <5>4
      <4>. QED BY <4>1, <4>2
    <3>3. h = [t \in SUBSET (1 .. n) |-> h[t]]
      OBVIOUS
    <3>4. Solves(h, how, what, base, seq, 1 .. n)
      <4>. HIDE DEF h
      <4>. QED BY <3>2, <3>3 DEF Solves
    <3>. QED BY <3>4, SMT
  <2>3. N \in T
    <3>. HIDE DEF T
    <3>1. \A n \in 0 .. N : n \in T
      BY <1>1, <2>1, <2>2, RoundInduction
    <3>. QED BY <1>1, <3>1, SMT
  <2>. QED BY <2>3
<1>. HIDE DEF iter
<1>. DEFINE f == [n \in 0 .. N |-> iter[1 .. n]]
<1>4. f[0] = base
  <2>1. 1 .. 0 = {} /\ {} \in SUBSET (1 .. N)
    BY SMT
  <2>2. iter[{}] = base
    BY <1>3, <2>1 DEF Solves
  <2>. QED BY <2>1, <2>2, SMT
<1>5. ASSUME NEW n \in 1 .. N PROVE f[n] = Round(how, what, f[n - 1], seq[n])
  <2>1. 1 .. n \in SUBSET (1 .. N) /\ 1 .. n # {} /\ n \in Nat /\ n \in 1 .. n
    BY SMT
  <2>2. (1 .. n) \ {n} = 1 .. n - 1
    BY SMT
  <2>3. Greatest(1 .. n) = n
    BY <1>0, <2>1
  <2>4. iter[1 .. n] = Round(how, what, iter[1 .. n - 1], seq[n])
    BY <1>3, <2>1, <2>2, <2>3 DEF Solves
  <2>. QED BY <2>4, SMT
<1>6. f[N] = Run(how, what, base, seq)
  BY <1>1, <1>2, SMT
<1>. HIDE DEF f
<1>. QED BY <1>4, <1>5, <1>6 DEF IsTrace

LEMMA MountLoopRun ==
  \A p, r : mountFilesFrom(p, r) =
    {[p EXCEPT !.volumes = AddVolume(p, r),
               !.mounts = Run("mounts", MountsToAdd(r), p.mounts, cs)] :
       cs \in getContainers(p, r.containers)}
BY SMT DEF Run, Solves, Greatest, FoldLeft, MapThenFoldSet, Max, mountFilesFrom, Round, AddTo

LEMMA PvcLoopRun ==
  \A p, r : addPvc(p, r) =
    {[p EXCEPT !.volumes = AddVolume(p, r),
               !.mounts = Run("one", [path |-> r.path, sub |-> r.file,
                                    volume |-> ToRFC1123Label(r.name)],
                             p.mounts, cs)] :
       cs \in getContainers(p, r.containers)}
BY SMT DEF Run, Solves, Greatest, FoldLeft, MapThenFoldSet, Max, addPvc, Round, AddTo

LEMMA EnvFromLoopRun ==
  \A p, r : addEnvVarsFrom(p, r) =
    {IF r.key = ""
     THEN [p EXCEPT !.envFrom = Run("one", [kind |-> r.kind, object |-> r.name], p.envFrom, cs)]
     ELSE [p EXCEPT !.env = Run("one", [name |-> r.key, from |-> [kind |-> r.kind, object |-> r.name]],
                                         p.env, cs)] :
       cs \in getContainers(p, r.containers)}
BY SMT DEF Run, Solves, Greatest, FoldLeft, MapThenFoldSet, Max, addEnvVarsFrom, Round, AddTo

LEMMA ExtraEnvLoopRun ==
  \A p, v : addExtraEnv(p, v) =
    {[p EXCEPT !.env = Run("variable", Value(v), p.env, cs)] :
       cs \in getContainers(p, v.containers)}
BY SMT DEF Run, Solves, Greatest, FoldLeft, MapThenFoldSet, Max, addExtraEnv, Round, AddTo

\* Adding x changes what is in X in a way R, and so do several additions.
Changes(how, x, X, R) ==
  /\ \A s \in X : AddTo(how, s, x) \in X /\ <<s, AddTo(how, s, x)>> \in R
  /\ \A s, t \in X : <<s, t>> \in R => <<s, AddTo(how, t, x)>> \in R

\* The containers cs, of those in C, are changed in the way R.
EachChanged(C, X, R, cs, old, new) ==
  /\ new \in [C -> X]
  /\ \A c \in C : IF c \in ToSet(cs) THEN <<old[c], new[c]>> \in R ELSE new[c] = old[c]

\* The loop changes the sequences of the containers it is for.
LEMMA EachRounds ==
  ASSUME NEW C, NEW X, NEW xs \in [C -> X], NEW cs \in Seq(C), NEW how \in {"mounts", "variable", "one"},
         NEW x, NEW R, Changes(how, x, X, R)
  PROVE  EachChanged(C, X, R, cs, xs, Run(how, x, xs, cs))
<1>. DEFINE new == Run(how, x, xs, cs)
<1>. HIDE DEF new
<1>0. Len(cs) \in Nat /\ DOMAIN cs = 1 .. Len(cs) /\ \A n \in 1 .. Len(cs) : cs[n] \in C
  BY SMT
<1>1. PICK f : IsTrace(f, how, x, xs, cs)
  BY LoopTrace
<1>2. /\ f[0] = xs /\ f[Len(cs)] = new
      /\ \A n \in 1 .. Len(cs) : f[n] = [f[n - 1] EXCEPT ![cs[n]] = AddTo(how, @, x)]
  BY <1>1 DEF IsTrace, Round, new
<1>. DEFINE Done(n, c) == \E k \in 1 .. n : cs[k] = c
            Good(n) == /\ f[n] \in [C -> X]
                       /\ \A c \in C : IF Done(n, c) THEN <<xs[c], f[n][c]>> \in R ELSE f[n][c] = xs[c]
            T == {n \in 0 .. Len(cs) : Good(n)}
<1>3. 0 \in T
  BY <1>0, <1>2, SMT
<1>4. ASSUME NEW n \in 1 .. Len(cs), n - 1 \in T PROVE n \in T
  <2>. DEFINE y == AddTo(how, f[n - 1][cs[n]], x)
  <2>1. Good(n - 1) /\ f[n] = [f[n - 1] EXCEPT ![cs[n]] = y]
    BY <1>2, <1>4
  <2>2. y \in X /\ <<xs[cs[n]], y>> \in R
    BY <1>0, <2>1 DEF Changes
  <2>. HIDE DEF y
  <2>3. f[n] \in [C -> X] /\ f[n][cs[n]] = y
    BY <1>0, <2>1, <2>2, SMT
  <2>4. \A c \in C : c # cs[n] => f[n][c] = f[n - 1][c]
    BY <1>0, <2>1
  <2>5. \A c \in C : Done(n, c) <=> (c = cs[n] \/ Done(n - 1, c))
    BY <1>0, SMT
  <2>6. Good(n)
    <3>. HIDE DEF Done
    <3>. QED BY <2>1, <2>2, <2>3, <2>4, <2>5
  <2>. HIDE DEF Good
  <2>. QED BY <1>0, <2>6, SMT
<1>5. Good(Len(cs))
  <2>. HIDE DEF T, Good
  <2>1. \A n \in 0 .. Len(cs) : n \in T
    BY <1>0, <1>3, <1>4, RoundInduction
  <2>. QED BY <1>0, <2>1, SMT DEF T
<1>6. \A c \in C : Done(Len(cs), c) <=> c \in ToSet(cs)
  BY <1>0 DEF ToSet
<1>. HIDE DEF Done
<1>. QED BY <1>2, <1>5, <1>6 DEF EachChanged, new

-----------------------------------------------------------------------------
(* The containers of an object                                              *)

\* The containers are listed in some order.
LEMMA Listing ==
  ASSUME NEW C, IsFiniteSet(C)
  PROVE  /\ SetToSeq(C) \in Seq(C)
         /\ \A c \in C : \E i \in DOMAIN SetToSeq(C) : SetToSeq(C)[i] = c
<1>. DEFINE n == Cardinality(C)
<1>1. n \in Nat /\ ExistsBijection(1 .. n, C)
  BY FS_CardinalityType
<1>2. PICK f \in [1 .. n -> C] : IsInjective(f)
  BY <1>1 DEF ExistsBijection, Bijection, Injection
<1>3. SetToSeq(C) \in [1 .. n -> C] /\ IsInjective(SetToSeq(C))
  BY <1>2 DEF SetToSeq
<1>. HIDE DEF n
<1>4. SetToSeq(C) \in Injection(1 .. n, C)
  BY <1>3 DEF Injection
<1>5. IsFiniteSet(1 .. n) /\ Cardinality(1 .. n) = n
  BY <1>1, FS_Interval, SMT
<1>6. SetToSeq(C) \in Surjection(1 .. n, C)
  BY <1>4, <1>5, FS_Injection DEF n
<1>7. SetToSeq(C) \in Seq(C)
  BY <1>1, <1>3, SMT
<1>8. DOMAIN SetToSeq(C) = 1 .. n
  BY <1>3
<1>. QED BY <1>6, <1>7, <1>8 DEF Surjection

\* getContainers yields containers of the Pod.
LEMMA ContainersOfPod ==
  ASSUME NEW C, IsFiniteSet(C), Main \in C, NEW p, allContainers(p) = C,
         NEW names \in Seq(STRING), NEW cs \in getContainers(p, names)
  PROVE  cs \in Seq(C)
<1>. CASE names = <<>>
  <2>1. cs = <<Main>>
    BY DEF getContainers
  <2>. HIDE DEF Main
  <2>. QED BY <2>1, SMT
<1>. CASE names # <<>> /\ names = <<"*">>
  BY Listing DEF getContainers
<1>. CASE names # <<>> /\ names # <<"*">>
  <2>1. cs = names /\ \A i \in 1 .. Len(names) : names[i] \in C
    BY SMT DEF getContainers, ToSet
  <2>. QED BY <2>1, SMT
<1>. QED OBVIOUS

\* There is at most one such sequence.
LEMMA OneFilter ==
  ASSUME NEW p, NEW names, NEW cs \in getContainers(p, names)
  PROVE  getContainers(p, names) = {cs}
BY DEF getContainers

-----------------------------------------------------------------------------
(* Mounts                                                                   *)

Once(ms, path) == \A k, l \in DOMAIN ms : ms[k].path = path /\ ms[l].path = path => k = l

\* What mounting `add' among the mounts ms may lead to: each mount is one of the
\* new ones, or an old one whose path is not asked for; a path that is mounted
\* stays mounted, and once if it was; an old mount stays or makes way for a new
\* one at its path; a single new mount finds its place.
Remounted(ms, new, add) ==
  /\ new \in Seq(Mount)
  /\ \A m \in ToSet(new) : m \in ToSet(add) \/ (m \in ToSet(ms) /\ \A n \in ToSet(add) : n.path # m.path)
  /\ \A m \in ToSet(ms) : m \in ToSet(new) \/ \E n \in ToSet(add) \cap ToSet(new) : n.path = m.path
  /\ \A path : Once(ms, path) => Once(new, path)
  /\ Len(add) = 1 => add[1] \in ToSet(new)

\* The new mounts are at different paths.
Distinct(add) == \A k, l \in DOMAIN add : add[k].path = add[l].path => k = l

LEMMA ReplaceOrAppendRemounts ==
  ASSUME NEW ms \in Seq(Mount), NEW add \in Seq(Mount), Distinct(add)
  PROVE  Remounted(ms, ReplaceOrAppend(ms, add), add)
<1>. DEFINE At(p) == {n \in ToSet(add) : n.path = p}
            new == ReplaceOrAppend(ms, add)
<1>0. DOMAIN ms = 1 .. Len(ms) /\ DOMAIN add = 1 .. Len(add) /\ Len(ms) \in Nat /\ Len(add) \in Nat
  BY SMT
<1>. CASE \E m \in ToSet(ms) : At(m.path) # {}
  <2>1. new = [i \in DOMAIN ms |-> IF At(ms[i].path) = {} THEN ms[i]
                                   ELSE CHOOSE n \in At(ms[i].path) : TRUE]
    BY DEF ReplaceOrAppend
  <2>2. \A i \in DOMAIN ms : IF At(ms[i].path) = {} THEN new[i] = ms[i]
                             ELSE new[i] \in ToSet(add) /\ new[i].path = ms[i].path
    <3>. HIDE DEF new
    <3>. SUFFICES ASSUME NEW i \in DOMAIN ms, At(ms[i].path) # {}
                  PROVE  new[i] \in At(ms[i].path)
      BY <2>1
    <3>. QED BY <2>1
  <2>3. DOMAIN new = DOMAIN ms
    BY <2>1
  <2>. HIDE DEF new
  <2>4. \A i \in DOMAIN ms : new[i].path = ms[i].path /\ new[i] \in Mount
    BY <1>0, <2>2, SMT DEF ToSet
  <2>5. new \in Seq(Mount)
    <3>1. new = [i \in 1 .. Len(ms) |-> new[i]]
      BY <1>0, <2>1, <2>3, SMT
    <3>. QED BY <1>0, <2>4, <3>1, SMT
  <2>6. ASSUME Len(add) = 1 PROVE add[1] \in ToSet(new)
    <3>1. PICK i \in DOMAIN ms : At(ms[i].path) # {}
      BY DEF ToSet
    <3>2. ToSet(add) = {add[1]}
      BY <1>0, <2>6, SMT DEF ToSet
    <3>3. new[i] = add[1]
      BY <2>2, <3>1, <3>2
    <3>. QED BY <2>3, <3>1, <3>3 DEF ToSet
  <2>7. \A m \in ToSet(new) : m \in ToSet(add) \/ (m \in ToSet(ms) /\ \A n \in ToSet(add) : n.path # m.path)
    <3>. SUFFICES ASSUME NEW i \in DOMAIN ms
                  PROVE  \/ new[i] \in ToSet(add)
                         \/ new[i] \in ToSet(ms) /\ \A n \in ToSet(add) : n.path # new[i].path
      BY <2>3 DEF ToSet
    <3>1. ms[i] \in ToSet(ms)
      BY DEF ToSet
    <3>. QED BY <2>2, <3>1
  <2>8. \A m \in ToSet(ms) : m \in ToSet(new) \/ \E n \in ToSet(add) \cap ToSet(new) : n.path = m.path
    <3>. SUFFICES ASSUME NEW i \in DOMAIN ms
                  PROVE  ms[i] \in ToSet(new) \/ \E n \in ToSet(add) \cap ToSet(new) : n.path = ms[i].path
      BY DEF ToSet
    <3>1. new[i] \in ToSet(new)
      BY <2>3 DEF ToSet
    <3>2. new[i] = ms[i] \/ (new[i] \in ToSet(add) /\ new[i].path = ms[i].path)
      BY <2>2
    <3>. QED BY <3>1, <3>2
  <2>9. \A path : Once(ms, path) => Once(new, path)
    BY <2>3, <2>4 DEF Once
  <2>. QED BY <2>5, <2>6, <2>7, <2>8, <2>9 DEF Remounted, new
<1>. CASE ~ \E m \in ToSet(ms) : At(m.path) # {}
  <2>1. new = ms \o add
    BY DEF ReplaceOrAppend
  <2>2. /\ new \in Seq(Mount) /\ Len(new) = Len(ms) + Len(add)
        /\ \A i \in 1 .. Len(ms) + Len(add) : new[i] = IF i <= Len(ms) THEN ms[i] ELSE add[i - Len(ms)]
    BY <2>1, ConcatProperties, SMT
  <2>. HIDE DEF new
  <2>3. DOMAIN new = 1 .. Len(ms) + Len(add)
    BY <2>2, SMT
  <2>4. \A i \in 1 .. Len(ms) : i \in DOMAIN new /\ new[i] = ms[i]
    BY <1>0, <2>2, <2>3, SMT
  <2>5. \A i \in 1 .. Len(add) : Len(ms) + i \in DOMAIN new /\ new[Len(ms) + i] = add[i]
    BY <1>0, <2>2, <2>3, SMT
  <2>6. \A i \in DOMAIN new : \/ i \in 1 .. Len(ms) /\ new[i] = ms[i]
                              \/ i - Len(ms) \in 1 .. Len(add) /\ new[i] = add[i - Len(ms)]
    BY <1>0, <2>2, <2>3, SMT
  <2>7. \A m \in ToSet(ms), n \in ToSet(add) : n.path # m.path
    OBVIOUS
  <2>8. \A m \in ToSet(new) : m \in ToSet(add) \/ m \in ToSet(ms)
    BY <1>0, <2>6 DEF ToSet
  <2>9. \A m \in ToSet(ms) : m \in ToSet(new)
    BY <1>0, <2>4 DEF ToSet
  <2>10. ASSUME NEW path, Once(ms, path), NEW k \in DOMAIN new, NEW l \in DOMAIN new,
                new[k].path = path, new[l].path = path
         PROVE  k = l
    <3>. CASE k \in 1 .. Len(ms) /\ l \in 1 .. Len(ms)
      BY <1>0, <2>4, <2>10 DEF Once
    <3>. CASE k \notin 1 .. Len(ms) /\ l \notin 1 .. Len(ms)
      <4>1. /\ k - Len(ms) \in DOMAIN add /\ l - Len(ms) \in DOMAIN add
            /\ add[k - Len(ms)].path = add[l - Len(ms)].path
        BY <1>0, <2>6, <2>10
      <4>2. k - Len(ms) = l - Len(ms)
        BY <4>1 DEF Distinct
      <4>. QED BY <1>0, <2>3, <4>2, SMT
    <3>3. ASSUME NEW i \in DOMAIN new, NEW j \in DOMAIN new, i \in 1 .. Len(ms), j \notin 1 .. Len(ms)
          PROVE  new[i].path # new[j].path
      BY <1>0, <2>6, <2>7, <3>3, SMT DEF ToSet
    <3>. QED BY <2>10, <3>3
  <2>11. Len(add) = 1 => add[1] \in ToSet(new)
    BY <1>0, <2>5, SMT DEF ToSet
  <2>12. \A path : Once(ms, path) => Once(new, path)
    BY <2>10 DEF Once
  <2>. QED BY <2>2, <2>7, <2>8, <2>9, <2>11, <2>12 DEF Remounted, new
<1>. QED OBVIOUS

\* To mount the same once more changes nothing of that.
LEMMA RemountedAgain ==
  ASSUME NEW ms \in Seq(Mount), NEW add \in Seq(Mount), Distinct(add),
         NEW new, Remounted(ms, new, add)
  PROVE  Remounted(ms, ReplaceOrAppend(new, add), add)
<1>. DEFINE again == ReplaceOrAppend(new, add)
<1>1. new \in Seq(Mount)
  BY DEF Remounted
<1>2. Remounted(new, again, add)
  BY <1>1, ReplaceOrAppendRemounts
<1>. HIDE DEF again
<1>3. \A m \in ToSet(again) : m \in ToSet(add) \/ (m \in ToSet(ms) /\ \A n \in ToSet(add) : n.path # m.path)
  BY <1>2 DEF Remounted
<1>4. ASSUME NEW m \in ToSet(ms)
      PROVE  m \in ToSet(again) \/ \E n \in ToSet(add) \cap ToSet(again) : n.path = m.path
  <2>1. PICK m1 \in ToSet(new) : m1.path = m.path /\ (m1 = m \/ m1 \in ToSet(add))
    BY DEF Remounted
  <2>2. PICK m2 \in ToSet(again) : m2.path = m1.path /\ (m2 = m1 \/ m2 \in ToSet(add))
    BY <1>2 DEF Remounted
  <2>. QED BY <2>1, <2>2
<1>5. \A path : Once(ms, path) => Once(again, path)
  BY <1>2 DEF Remounted
<1>6. Len(add) = 1 => add[1] \in ToSet(again)
  BY <1>2 DEF Remounted
<1>7. again \in Seq(Mount)
  BY <1>2 DEF Remounted
<1>. QED BY <1>3, <1>4, <1>5, <1>6, <1>7 DEF Remounted, again

\* Of the containers C those in cs have had their mounts changed.
AllRemounted(C, cs, ms, new, add) ==
  /\ new \in [C -> Seq(Mount)]
  /\ \A c \in C : IF c \in ToSet(cs) THEN Remounted(ms[c], new[c], add) ELSE new[c] = ms[c]

\* The loop over the containers changes the mounts of those it is for.
LEMMA MountRounds ==
  ASSUME NEW C, NEW ms \in [C -> Seq(Mount)], NEW cs \in Seq(C), NEW add \in Seq(Mount), Distinct(add)
  PROVE  AllRemounted(C, cs, ms, Run("mounts", add, ms, cs), add)
<1>. DEFINE X == Seq(Mount)
            R == {z \in X \X X : Remounted(z[1], z[2], add)}
<1>0. PICK how, new : how = "mounts" /\ new = Run(how, add, ms, cs)
  OBVIOUS
<1>1. \A s, t \in X : <<s, t>> \in R <=> Remounted(s, t, add)
  OBVIOUS
<1>2. \A s : AddTo(how, s, add) = ReplaceOrAppend(s, add)
  BY <1>0 DEF AddTo
<1>. HIDE DEF R
<1>3. \A s \in X : AddTo(how, s, add) \in X /\ <<s, AddTo(how, s, add)>> \in R
  <2>1. \A s \in X : Remounted(s, ReplaceOrAppend(s, add), add) /\ ReplaceOrAppend(s, add) \in X
    BY ReplaceOrAppendRemounts DEF Remounted
  <2>. QED BY <1>1, <1>2, <2>1
<1>4. \A s, t \in X : <<s, t>> \in R => <<s, AddTo(how, t, add)>> \in R
  BY <1>1, <1>2, <1>3, RemountedAgain
<1>5. how \in {"mounts", "variable", "one"}
  BY <1>0
<1>6. /\ new \in [C -> X]
      /\ \A c \in C : IF c \in ToSet(cs) THEN <<ms[c], new[c]>> \in R ELSE new[c] = ms[c]
  <2>. HIDE DEF X
  <2>1. Changes(how, add, X, R)
    BY <1>3, <1>4 DEF Changes
  <2>2. EachChanged(C, X, R, cs, ms, Run(how, add, ms, cs))
    BY <1>5, <2>1, EachRounds DEF X
  <2>. QED BY <1>0, <2>2 DEF EachChanged
<1>7. \A c \in C : ms[c] \in X /\ new[c] \in X
  BY <1>6
<1>. QED BY <1>0, <1>1, <1>6, <1>7 DEF AllRemounted

\* What appending x, once or several times, makes of the sequence old.
Extended(old, new, x) ==
  /\ Len(old) < Len(new)
  /\ \A i \in 1 .. Len(old) : new[i] = old[i]
  /\ \A i \in Len(old) + 1 .. Len(new) : new[i] = x

AllExtended(C, S, cs, xs, new, x) ==
  /\ new \in [C -> Seq(S)]
  /\ \A c \in C : IF c \in ToSet(cs) THEN Extended(xs[c], new[c], x) ELSE new[c] = xs[c]

LEMMA AppendRounds ==
  ASSUME NEW C, NEW S, NEW xs \in [C -> Seq(S)], NEW cs \in Seq(C), NEW x \in S
  PROVE  AllExtended(C, S, cs, xs, Run("one", x, xs, cs), x)
<1>. DEFINE X == Seq(S)
            R == {z \in X \X X : Extended(z[1], z[2], x)}
<1>0. PICK how, new : how = "one" /\ new = Run(how, x, xs, cs)
  OBVIOUS
<1>1. \A s, t \in X : <<s, t>> \in R <=> Extended(s, t, x)
  OBVIOUS
<1>2. \A s : AddTo(how, s, x) = Append(s, x)
  BY <1>0 DEF AddTo
<1>. HIDE DEF R
<1>3. \A s \in X : Append(s, x) \in X /\ Extended(s, Append(s, x), x)
  BY SMT DEF Extended
<1>4. ASSUME NEW s \in X, NEW t \in X, Extended(s, t, x) PROVE Extended(s, Append(t, x), x)
  <2>1. /\ Len(s) \in Nat /\ Len(t) \in Nat /\ Len(Append(t, x)) = Len(t) + 1
        /\ \A i \in 1 .. Len(t) : Append(t, x)[i] = t[i]
        /\ Append(t, x)[Len(t) + 1] = x
    BY SMT
  <2>. DEFINE u == Append(t, x)
  <2>. HIDE DEF u
  <2>2. Len(s) < Len(u) /\ \A i \in 1 .. Len(s) : u[i] = s[i]
    BY <1>4, <2>1, SMT DEF Extended, u
  <2>3. ASSUME NEW i \in Len(s) + 1 .. Len(u) PROVE u[i] = x
    <3>. CASE i = Len(t) + 1
      BY <2>1 DEF u
    <3>. CASE i # Len(t) + 1
      <4>1. i \in Len(s) + 1 .. Len(t) /\ i \in 1 .. Len(t)
        BY <2>1, SMT DEF u
      <4>. QED BY <1>4, <2>1, <4>1 DEF Extended, u
    <3>. QED OBVIOUS
  <2>. QED BY <2>2, <2>3 DEF Extended, u
<1>5. how \in {"mounts", "variable", "one"}
  BY <1>0
<1>6. /\ new \in [C -> X]
      /\ \A c \in C : IF c \in ToSet(cs) THEN <<xs[c], new[c]>> \in R ELSE new[c] = xs[c]
  <2>. HIDE DEF X
  <2>1. \A s \in X : AddTo(how, s, x) \in X /\ <<s, AddTo(how, s, x)>> \in R
    BY <1>1, <1>2, <1>3
  <2>2. \A s, t \in X : <<s, t>> \in R => <<s, AddTo(how, t, x)>> \in R
    BY <1>1, <1>2, <1>3, <1>4
  <2>3. Changes(how, x, X, R)
    BY <2>1, <2>2 DEF Changes
  <2>4. EachChanged(C, X, R, cs, xs, Run(how, x, xs, cs))
    BY <1>5, <2>3, EachRounds DEF X
  <2>. QED BY <1>0, <2>4 DEF EachChanged
<1>7. \A c \in C : xs[c] \in X /\ new[c] \in X
  BY <1>6
<1>. QED BY <1>0, <1>1, <1>6, <1>7 DEF AllExtended

-----------------------------------------------------------------------------
(* Variables                                                                *)

OnceNamed(env, name) == \A k, l \in DOMAIN env : env[k].name = name /\ env[l].name = name => k = l

\* What setting the variable v, once or several times, makes of the variables env:
\* v is there, the others stay, and a variable that is listed once is listed once.
Set(env, new, v) ==
  /\ new \in Seq(Variable)
  /\ v \in ToSet(new) /\ ToSet(new) \subseteq ToSet(env) \cup {v}
  /\ \A e \in ToSet(env) : e.name # v.name => e \in ToSet(new)
  /\ \A name : OnceNamed(env, name) => OnceNamed(new, name)

\* The first index with the name, 0 when there is none.
LEMMA FirstNamed ==
  ASSUME NEW env \in Seq(Variable), NEW name,
         NEW i, i = SelectInSeq(env, LAMBDA e : e.name = name)
  PROVE  \/ i \in 1 .. Len(env) /\ env[i].name = name
         \/ i = 0 /\ \A k \in 1 .. Len(env) : env[k].name # name
<1>. DEFINE I == {k \in 1 .. Len(env) : env[k].name = name}
<1>1. i = IF I # {} THEN Min(I) ELSE 0
  BY DEF SelectInSeq
<1>2. ASSUME I # {} PROVE Min(I) \in I
  <2>1. I \in SUBSET Nat
    BY SMT
  <2>2. PICK x \in I : \A y \in I : ~(y < x)
    <3>. HIDE DEF I
    <3>. QED BY <1>2, <2>1, LeastNumber
  <2>3. \A y \in I : x =< y
    BY <2>2, SMT
  <2>. HIDE DEF I
  <2>. QED BY <2>3 DEF Min
<1>. QED BY <1>1, <1>2

LEMMA SetOrAppendSets ==
  ASSUME NEW env \in Seq(Variable), NEW v \in Variable
  PROVE  Set(env, setOrAppendEnvVar(env, v), v)
<1>. DEFINE i == SelectInSeq(env, LAMBDA e : e.name = v.name)
            new == setOrAppendEnvVar(env, v)
<1>0. DOMAIN env = 1 .. Len(env) /\ Len(env) \in Nat
  BY SMT
<1>1. \/ i \in 1 .. Len(env) /\ env[i].name = v.name
      \/ i = 0 /\ \A k \in 1 .. Len(env) : env[k].name # v.name
  BY FirstNamed
<1>2. new = IF i = 0 THEN Append(env, v) ELSE [env EXCEPT ![i] = v]
  BY DEF setOrAppendEnvVar
<1>. HIDE DEF i, new
<1>. CASE i \in 1 .. Len(env) /\ env[i].name = v.name
  <2>1. new = [env EXCEPT ![i] = v] /\ new \in Seq(Variable) /\ DOMAIN new = 1 .. Len(env)
    BY <1>2, SMT
  <2>2. \A k \in 1 .. Len(env) : new[k] = IF k = i THEN v ELSE env[k]
    BY <1>0, <2>1
  <2>3. v \in ToSet(new) /\ ToSet(new) \subseteq ToSet(env) \cup {v}
    BY <1>0, <2>1, <2>2 DEF ToSet
  <2>4. \A e \in ToSet(env) : e.name # v.name => e \in ToSet(new)
    BY <1>0, <2>1, <2>2 DEF ToSet
  <2>5. \A k \in 1 .. Len(env) : new[k].name = env[k].name
    BY <2>2
  <2>6. \A name : OnceNamed(env, name) => OnceNamed(new, name)
    BY <1>0, <2>1, <2>5, SMT DEF OnceNamed
  <2>. QED BY <2>1, <2>3, <2>4, <2>6 DEF Set, new
<1>. CASE i = 0 /\ \A k \in 1 .. Len(env) : env[k].name # v.name
  <2>1. new = Append(env, v)
    BY <1>2
  <2>2. /\ new \in Seq(Variable) /\ DOMAIN new = 1 .. Len(env) + 1 /\ new[Len(env) + 1] = v
        /\ \A k \in 1 .. Len(env) : new[k] = env[k]
    BY <2>1, SMT
  <2>3. \A k \in DOMAIN new : (k \in 1 .. Len(env) /\ new[k] = env[k]) \/ (k = Len(env) + 1 /\ new[k] = v)
    BY <1>0, <2>2, SMT
  <2>4. v \in ToSet(new) /\ ToSet(new) \subseteq ToSet(env) \cup {v}
    BY <1>0, <2>2, <2>3, SMT DEF ToSet
  <2>5. \A e \in ToSet(env) : e \in ToSet(new)
    BY <1>0, <2>2, SMT DEF ToSet
  <2>6. ASSUME NEW name, OnceNamed(env, name), NEW k \in DOMAIN new, NEW l \in DOMAIN new,
               new[k].name = name, new[l].name = name
        PROVE  k = l
    BY <1>0, <2>3, <2>6 DEF OnceNamed
  <2>7. \A name : OnceNamed(env, name) => OnceNamed(new, name)
    BY <2>6 DEF OnceNamed
  <2>. QED BY <2>2, <2>4, <2>5, <2>7 DEF Set, new
<1>. QED BY <1>1

LEMMA SetAgain ==
  ASSUME NEW env \in Seq(Variable), NEW v \in Variable, NEW new, Set(env, new, v)
  PROVE  Set(env, setOrAppendEnvVar(new, v), v)
<1>. DEFINE again == setOrAppendEnvVar(new, v)
<1>1. new \in Seq(Variable)
  BY DEF Set
<1>2. Set(new, again, v)
  BY <1>1, SetOrAppendSets
<1>. HIDE DEF again
<1>3. \A name : OnceNamed(env, name) => OnceNamed(again, name)
  BY <1>2 DEF Set
<1>4. \A e \in ToSet(env) : e.name # v.name => e \in ToSet(again)
  BY <1>2 DEF Set
<1>5. /\ v \in ToSet(again) /\ ToSet(again) \subseteq ToSet(env) \cup {v}
      /\ again \in Seq(Variable)
  BY <1>2 DEF Set
<1>. QED BY <1>3, <1>4, <1>5 DEF Set, again

AllSet(C, cs, es, new, v) ==
  /\ new \in [C -> Seq(Variable)]
  /\ \A c \in C : IF c \in ToSet(cs) THEN Set(es[c], new[c], v) ELSE new[c] = es[c]

LEMMA SetRounds ==
  ASSUME NEW C, NEW es \in [C -> Seq(Variable)], NEW cs \in Seq(C), NEW v \in Variable
  PROVE  AllSet(C, cs, es, Run("variable", v, es, cs), v)
<1>. DEFINE X == Seq(Variable)
            R == {z \in X \X X : Set(z[1], z[2], v)}
<1>0. PICK how, new : how = "variable" /\ new = Run(how, v, es, cs)
  OBVIOUS
<1>1. \A s, t \in X : <<s, t>> \in R <=> Set(s, t, v)
  OBVIOUS
<1>2. \A s : AddTo(how, s, v) = setOrAppendEnvVar(s, v)
  BY <1>0 DEF AddTo
<1>. HIDE DEF R
<1>3. \A s \in X : AddTo(how, s, v) \in X /\ <<s, AddTo(how, s, v)>> \in R
  <2>1. \A s \in X : Set(s, setOrAppendEnvVar(s, v), v) /\ setOrAppendEnvVar(s, v) \in X
    BY SetOrAppendSets DEF Set
  <2>. QED BY <1>1, <1>2, <2>1
<1>4. \A s, t \in X : <<s, t>> \in R => <<s, AddTo(how, t, v)>> \in R
  BY <1>1, <1>2, <1>3, SetAgain
<1>5. how \in {"mounts", "variable", "one"}
  BY <1>0
<1>6. /\ new \in [C -> X]
      /\ \A c \in C : IF c \in ToSet(cs) THEN <<es[c], new[c]>> \in R ELSE new[c] = es[c]
  <2>. HIDE DEF X
  <2>1. Changes(how, v, X, R)
    BY <1>3, <1>4 DEF Changes
  <2>2. EachChanged(C, X, R, cs, es, Run(how, v, es, cs))
    BY <1>5, <2>1, EachRounds DEF X
  <2>. QED BY <1>0, <2>2 DEF EachChanged
<1>7. \A c \in C : es[c] \in X /\ new[c] \in X
  BY <1>6
<1>. QED BY <1>0, <1>1, <1>6, <1>7 DEF AllSet

-----------------------------------------------------------------------------
(* The operations on a Pod                                                  *)

\* What they change.
FilesMounted(p, q, r) ==
  /\ q.env = p.env /\ q.envFrom = p.envFrom /\ q.args = p.args /\ q.image = p.image
  /\ q.volumes = AddVolume(p, r)
  /\ \A c \in allContainers(p) :
       IF IsFor(p, r, c) THEN Remounted(p.mounts[c], q.mounts[c], MountsToAdd(r)) ELSE q.mounts[c] = p.mounts[c]
ClaimMounted(p, q, r) ==
  /\ q.env = p.env /\ q.envFrom = p.envFrom /\ q.args = p.args /\ q.image = p.image
  /\ q.volumes = AddVolume(p, r)
  /\ \A c \in allContainers(p) :
       IF IsFor(p, r, c)
       THEN Extended(p.mounts[c], q.mounts[c], [path |-> r.path, sub |-> r.file, volume |-> ToRFC1123Label(r.name)])
       ELSE q.mounts[c] = p.mounts[c]
EnvAdded(p, q, r) ==
  LET src == [kind |-> r.kind, object |-> r.name]
  IN  /\ q.volumes = p.volumes /\ q.mounts = p.mounts /\ q.args = p.args /\ q.image = p.image
      /\ \A c \in allContainers(p) :
           /\ IF r.key = "" /\ IsFor(p, r, c) THEN Extended(p.envFrom[c], q.envFrom[c], src)
              ELSE q.envFrom[c] = p.envFrom[c]
           /\ IF r.key # "" /\ IsFor(p, r, c) THEN Extended(p.env[c], q.env[c], [name |-> r.key, from |-> src])
              ELSE q.env[c] = p.env[c]
EnvSet(p, q, v) ==
  /\ q.volumes = p.volumes /\ q.mounts = p.mounts /\ q.envFrom = p.envFrom
  /\ q.args = p.args /\ q.image = p.image
  /\ \A c \in allContainers(p) :
       IF IsFor(p, v, c) THEN Set(p.env[c], q.env[c], Value(v)) ELSE q.env[c] = p.env[c]

\* Sequences, for sets of strings as for any other.
LEMMA SmallSeqs ==
  /\ \A S : <<>> \in Seq(S) /\ \A x \in S : <<x>> \in Seq(S)
  /\ \A x : Len(<<x>>) = 1
  /\ \A S : \A s \in Seq(S), x \in S : Append(s, x) \in Seq(S)
BY SMT

LEMMA LastAppended ==
  \A S : \A s \in Seq(S), x, y \in S : Append(s, x) = Append(s, y) => x = y
<1>. SUFFICES ASSUME NEW S, NEW s \in Seq(S), NEW x \in S, NEW y \in S, Append(s, x) = Append(s, y)
              PROVE  x = y
  OBVIOUS
<1>1. Append(s, x)[Len(s) + 1] = x /\ Append(s, y)[Len(s) + 1] = y
  BY SMT
<1>. QED BY <1>1

LEMMA KeysType ==
  ASSUME NEW s \in KeyList
  PROVE  s \in Seq(STRING) /\ \A i \in DOMAIN s : s[i] \in STRING /\ s[i] # ""
<1>1. s \in Seq(STRING \ {""})
  BY DEF KeyList
<1>2. s \in Seq(STRING)
  BY <1>1, SeqMonotonic
<1>3. DOMAIN s = 1 .. Len(s)
  BY <1>1, LenProperties
<1>4. \A i \in 1 .. Len(s) : s[i] \in STRING \ {""}
  BY <1>1, ElementOfSeq
<1>. QED BY <1>2, <1>3, <1>4

LEMMA LabelType == \A name \in STRING : ToRFC1123Label(name) \in STRING
BY LabelsAssumption DEF ToRFC1123Label

LEMMA EntriesType ==
  ASSUME NEW r, r.file \in STRING, r.keys \in KeyList
  PROVE  EntriesOf(r) \in KeyList
<1>1. r.keys \in Seq(STRING \ {""})
  BY DEF KeyList
<1>2. CASE r.file = ""
  BY <1>2 DEF EntriesOf
<1>3. CASE r.file # "" /\ r.file \in ToSet(r.keys)
  <2>1. EntriesOf(r) = <<r.file>>
    BY <1>3 DEF EntriesOf
  <2>2. <<r.file>> \in Seq(STRING \ {""})
    <3>1. r.file \in STRING \ {""}
      BY <1>3
    <3>. QED BY <3>1, SmallSeqs
  <2>3. IsInjective(<<r.file>>)
    BY SMT DEF IsInjective
  <2>. QED BY <2>1, <2>2, <2>3 DEF KeyList
<1>4. CASE r.file # "" /\ r.file \notin ToSet(r.keys)
  <2>1. EntriesOf(r) = <<>>
    BY <1>4 DEF EntriesOf
  <2>2. IsInjective(<<>>)
    BY SMT DEF IsInjective
  <2>3. <<>> \in Seq(STRING \ {""})
    BY SmallSeqs
  <2>. QED BY <2>1, <2>2, <2>3 DEF KeyList
<1>. QED BY <1>2, <1>3, <1>4

\* The mounts asked for are at different paths.
LEMMA MountsToAddType ==
  ASSUME NEW r, IsFileRequest(r)
  PROVE  MountsToAdd(r) \in Seq(Mount) /\ Distinct(MountsToAdd(r))
<1>. DEFINE files == IF ~r.sub THEN <<"">> ELSE IF r.keys = <<>> THEN <<r.file>> ELSE EntriesOf(r)
<1>1. files \in Seq(STRING) /\ (Len(files) = 1 \/ files \in KeyList)
  <2>1. EntriesOf(r) \in KeyList
    BY EntriesType DEF IsFileRequest
  <2>2. EntriesOf(r) \in Seq(STRING)
    BY <2>1, KeysType
  <2>3. <<"">> \in Seq(STRING) /\ <<r.file>> \in Seq(STRING) /\ Len(<<"">>) = 1 /\ Len(<<r.file>>) = 1
    <3>1. "" \in STRING
      BY TextsAssumption
    <3>2. r.file \in STRING
      BY DEF IsFileRequest
    <3>. QED BY <3>1, <3>2, SmallSeqs
  <2>. QED BY <2>1, <2>2, <2>3
<1>2. MountsToAdd(r) = [i \in DOMAIN files |-> [path |-> Join(r.path, files[i]), sub |-> files[i],
                                                volume |-> ToRFC1123Label(r.name)]]
  BY DEF MountsToAdd
<1>. HIDE DEF files
<1>3. DOMAIN files = 1 .. Len(files) /\ Len(files) \in Nat /\ \A i \in 1 .. Len(files) : files[i] \in STRING
  BY <1>1, SMT
<1>4. \A i \in 1 .. Len(files) : Join(r.path, files[i]) \in Dir
  BY <1>3, SmallSeqs DEF Join, Dir, IsFileRequest
<1>5. ASSUME NEW i \in 1 .. Len(files) PROVE MountsToAdd(r)[i] \in Mount
  <2>1. MountsToAdd(r)[i] = [path |-> Join(r.path, files[i]), sub |-> files[i],
                             volume |-> ToRFC1123Label(r.name)]
    BY <1>2, <1>3
  <2>2. Join(r.path, files[i]) \in Dir /\ files[i] \in STRING /\ ToRFC1123Label(r.name) \in STRING
    BY <1>3, <1>4, LabelType DEF IsFileRequest
  <2>. QED BY <2>1, <2>2, SMT DEF Mount
<1>6. MountsToAdd(r) \in Seq(Mount)
  <2>1. MountsToAdd(r) = [i \in 1 .. Len(files) |-> MountsToAdd(r)[i]]
    BY <1>2, <1>3
  <2>. QED BY <1>3, <1>5, <2>1, SMT
<1>7. Distinct(MountsToAdd(r))
  <2>. CASE Len(files) = 1
    BY <1>2, <1>3, SMT DEF Distinct
  <2>. CASE files \in KeyList
    <3>1. \A i \in 1 .. Len(files) : files[i] # ""
      BY <1>3, KeysType
    <3>2. \A k, l \in 1 .. Len(files) : Append(r.path, files[k]) = Append(r.path, files[l]) => files[k] = files[l]
      BY <1>3, LastAppended DEF IsFileRequest, Dir
    <3>3. \A k, l \in 1 .. Len(files) : files[k] = files[l] => k = l
      BY <1>3 DEF KeyList, IsInjective
    <3>4. \A k \in 1 .. Len(files) : MountsToAdd(r)[k].path = Join(r.path, files[k])
      BY <1>2, <1>3, SMT
    <3>5. \A k \in 1 .. Len(files) : MountsToAdd(r)[k].path = Append(r.path, files[k])
      BY <3>1, <3>4 DEF Join
    <3>6. DOMAIN MountsToAdd(r) = 1 .. Len(files)
      BY <1>2, <1>3
    <3>. QED BY <3>2, <3>3, <3>5, <3>6, SMT DEF Distinct
  <2>. QED BY <1>1
<1>. QED BY <1>6, <1>7

LEMMA MountFilesFrom ==
  ASSUME NEW C, IsFiniteSet(C), Main \in C, NEW p \in Pods(C), NEW r, IsFileRequest(r),
         NEW q \in mountFilesFrom(p, r)
  PROVE  q \in Pods(C) /\ FilesMounted(p, q, r)
<1>. PICK add : add = MountsToAdd(r)
  OBVIOUS
<1>1. /\ p.mounts \in [C -> Seq(Mount)] /\ allContainers(p) = C /\ p.volumes \in Seq(Volume)
      /\ r.containers \in Seq(STRING) /\ add \in Seq(Mount) /\ Distinct(add)
  BY MountsToAddType DEF Pods, allContainers, IsFileRequest
<1>2. PICK cs \in getContainers(p, r.containers) :
        q = [p EXCEPT !.volumes = AddVolume(p, r), !.mounts = Run("mounts", add, p.mounts, cs)]
  BY MountLoopRun
<1>3. cs \in Seq(C)
  BY <1>1, ContainersOfPod
<1>0. PICK new : new = Run("mounts", add, p.mounts, cs)
  OBVIOUS
<1>4. /\ new \in [C -> Seq(Mount)]
      /\ \A c \in C : IF c \in ToSet(cs) THEN Remounted(p.mounts[c], new[c], add) ELSE new[c] = p.mounts[c]
  <2>1. AllRemounted(C, cs, p.mounts, new, add)
    BY <1>0, <1>1, <1>3, MountRounds
  <2>. QED BY <2>1 DEF AllRemounted
<1>5. \A c : IsFor(p, r, c) <=> c \in ToSet(cs)
  BY OneFilter, SMT DEF IsFor
<1>6. AddVolume(p, r) \in Seq(Volume)
  <2>1. [name |-> ToRFC1123Label(r.name), kind |-> r.kind, object |-> r.name] \in Volume
    BY LabelType DEF Volume, IsFileRequest
  <2>. QED BY <1>1, <2>1, SmallSeqs DEF AddVolume
<1>7. q.mounts = new /\ q.volumes = AddVolume(p, r)
  BY <1>0, <1>2 DEF Pods
<1>8. q.env = p.env /\ q.envFrom = p.envFrom /\ q.args = p.args /\ q.image = p.image
  BY <1>2 DEF Pods
<1>9. q \in Pods(C)
  BY <1>0, <1>2, <1>4, <1>6 DEF Pods
<1>. QED BY <1>1, <1>4, <1>5, <1>7, <1>8, <1>9 DEF FilesMounted

LEMMA AddPvc ==
  ASSUME NEW C, IsFiniteSet(C), Main \in C, NEW p \in Pods(C), NEW r, IsClaimRequest(r),
         NEW q \in addPvc(p, r)
  PROVE  q \in Pods(C) /\ ClaimMounted(p, q, r)
<1>. PICK m : m = [path |-> r.path, sub |-> r.file, volume |-> ToRFC1123Label(r.name)]
  OBVIOUS
<1>1. /\ p.mounts \in [C -> Seq(Mount)] /\ allContainers(p) = C /\ p.volumes \in Seq(Volume)
      /\ r.containers \in Seq(STRING) /\ m \in Mount
  BY LabelType DEF Pods, allContainers, IsClaimRequest, Mount
<1>2. PICK cs \in getContainers(p, r.containers) :
        q = [p EXCEPT !.volumes = AddVolume(p, r), !.mounts = Run("one", m, p.mounts, cs)]
  BY PvcLoopRun
<1>3. cs \in Seq(C)
  BY <1>1, ContainersOfPod
<1>0. PICK new : new = Run("one", m, p.mounts, cs)
  OBVIOUS
<1>4. /\ new \in [C -> Seq(Mount)]
      /\ \A c \in C : IF c \in ToSet(cs) THEN Extended(p.mounts[c], new[c], m) ELSE new[c] = p.mounts[c]
  <2>1. AllExtended(C, Mount, cs, p.mounts, new, m)
    BY <1>0, <1>1, <1>3, AppendRounds
  <2>. QED BY <2>1 DEF AllExtended
<1>5. \A c : IsFor(p, r, c) <=> c \in ToSet(cs)
  BY OneFilter, SMT DEF IsFor
<1>6. AddVolume(p, r) \in Seq(Volume)
  <2>1. [name |-> ToRFC1123Label(r.name), kind |-> r.kind, object |-> r.name] \in Volume
    BY LabelType DEF Volume, IsClaimRequest
  <2>. QED BY <1>1, <2>1, SmallSeqs DEF AddVolume
<1>7. q.mounts = new /\ q.volumes = AddVolume(p, r)
  BY <1>0, <1>2 DEF Pods
<1>8. q.env = p.env /\ q.envFrom = p.envFrom /\ q.args = p.args /\ q.image = p.image
  BY <1>2 DEF Pods
<1>9. q \in Pods(C)
  BY <1>0, <1>2, <1>4, <1>6 DEF Pods
<1>. QED BY <1>1, <1>4, <1>5, <1>7, <1>8, <1>9 DEF ClaimMounted

LEMMA AddEnvVarsFrom ==
  ASSUME NEW C, IsFiniteSet(C), Main \in C, NEW p \in Pods(C), NEW r, IsEnvRequest(r),
         NEW q \in addEnvVarsFrom(p, r)
  PROVE  q \in Pods(C) /\ EnvAdded(p, q, r)
<1>. PICK src, v : src = [kind |-> r.kind, object |-> r.name] /\ v = [name |-> r.key, from |-> src]
  OBVIOUS
<1>1. /\ p.envFrom \in [C -> Seq(Source)] /\ p.env \in [C -> Seq(Variable)] /\ allContainers(p) = C
      /\ r.containers \in Seq(STRING) /\ src \in Source /\ v \in Variable
  BY DEF Pods, allContainers, IsEnvRequest, Source, Variable
<1>2. PICK cs \in getContainers(p, r.containers) :
        q = IF r.key = "" THEN [p EXCEPT !.envFrom = Run("one", src, p.envFrom, cs)]
            ELSE [p EXCEPT !.env = Run("one", v, p.env, cs)]
  BY EnvFromLoopRun
<1>3. cs \in Seq(C)
  BY <1>1, ContainersOfPod
<1>0. PICK newFrom, newEnv : newFrom = Run("one", src, p.envFrom, cs) /\ newEnv = Run("one", v, p.env, cs)
  OBVIOUS
<1>4. /\ newFrom \in [C -> Seq(Source)]
      /\ \A c \in C : IF c \in ToSet(cs) THEN Extended(p.envFrom[c], newFrom[c], src)
                      ELSE newFrom[c] = p.envFrom[c]
  <2>1. AllExtended(C, Source, cs, p.envFrom, newFrom, src)
    BY <1>0, <1>1, <1>3, AppendRounds
  <2>. QED BY <2>1 DEF AllExtended
<1>5. /\ newEnv \in [C -> Seq(Variable)]
      /\ \A c \in C : IF c \in ToSet(cs) THEN Extended(p.env[c], newEnv[c], v) ELSE newEnv[c] = p.env[c]
  <2>1. AllExtended(C, Variable, cs, p.env, newEnv, v)
    BY <1>0, <1>1, <1>3, AppendRounds
  <2>. QED BY <2>1 DEF AllExtended
<1>6. \A c : IsFor(p, r, c) <=> c \in ToSet(cs)
  BY OneFilter, SMT DEF IsFor
<1>7. /\ q.envFrom = IF r.key = "" THEN newFrom ELSE p.envFrom
      /\ q.env = IF r.key = "" THEN p.env ELSE newEnv
  BY <1>0, <1>2 DEF Pods
<1>8. q.volumes = p.volumes /\ q.mounts = p.mounts /\ q.args = p.args /\ q.image = p.image
  BY <1>2 DEF Pods
<1>9. q \in Pods(C)
  BY <1>0, <1>2, <1>4, <1>5 DEF Pods
<1>. QED BY <1>1, <1>4, <1>5, <1>6, <1>7, <1>8, <1>9 DEF EnvAdded

LEMMA AddExtraEnv ==
  ASSUME NEW C, IsFiniteSet(C), Main \in C, NEW p \in Pods(C), NEW v \in Env, NEW q \in addExtraEnv(p, v)
  PROVE  q \in Pods(C) /\ EnvSet(p, q, v)
<1>. PICK w : w = Value(v)
  OBVIOUS
<1>1. /\ p.env \in [C -> Seq(Variable)] /\ allContainers(p) = C
      /\ v.containers \in Seq(STRING) /\ w \in Variable
  <2>1. p.env \in [C -> Seq(Variable)] /\ allContainers(p) = C
    BY DEF Pods, allContainers
  <2>2. v.containers \in Seq(STRING)
    BY DEF Env
  <2>3. v.name \in STRING /\ v.value \in STRING
    BY DEF Env
  <2>4. Value(v) \in Variable
    BY <2>3, TextsAssumption DEF Value, Variable, Source
  <2>. QED BY <2>1, <2>2, <2>4
<1>2. PICK cs \in getContainers(p, v.containers) : q = [p EXCEPT !.env = Run("variable", w, p.env, cs)]
  BY ExtraEnvLoopRun
<1>3. cs \in Seq(C)
  BY <1>1, ContainersOfPod
<1>0. PICK new : new = Run("variable", w, p.env, cs)
  OBVIOUS
<1>4. /\ new \in [C -> Seq(Variable)]
      /\ \A c \in C : IF c \in ToSet(cs) THEN Set(p.env[c], new[c], w) ELSE new[c] = p.env[c]
  <2>1. AllSet(C, cs, p.env, new, w)
    BY <1>0, <1>1, <1>3, SetRounds
  <2>. QED BY <2>1 DEF AllSet
<1>5. \A c : IsFor(p, v, c) <=> c \in ToSet(cs)
  BY OneFilter, SMT DEF IsFor
<1>6. q.env = new
  BY <1>0, <1>2 DEF Pods
<1>7. /\ q.volumes = p.volumes /\ q.mounts = p.mounts /\ q.envFrom = p.envFrom
      /\ q.args = p.args /\ q.image = p.image
  BY <1>2 DEF Pods
<1>8. q \in Pods(C)
  BY <1>0, <1>2, <1>4 DEF Pods
<1>. QED BY <1>1, <1>4, <1>5, <1>6, <1>7, <1>8 DEF EnvSet

\* updatePodWithAppConfig is mountFilesFrom with arguments.
ConfigMounted(p, q, r) ==
  /\ Len(r.keys) <= 1
  /\ \E w \in Pods(allContainers(p)) : FilesMounted(p, w, r) /\ q = [w EXCEPT !.args = p.args \o ConfigArgs(r)]

LEMMA ConfigArgsType ==
  ASSUME NEW r, IsFileRequest(r)
  PROVE  ConfigArgs(r) \in Seq(Dir)
<1>1. EntriesOf(r) \in KeyList
  BY EntriesType DEF IsFileRequest
<1>2. EntriesOf(r) \in Seq(STRING) /\ \A i \in DOMAIN EntriesOf(r) : EntriesOf(r)[i] \in STRING
  BY <1>1, KeysType
<1>. DEFINE es == EntriesOf(r)
<1>3. DOMAIN es = 1 .. Len(es) /\ Len(es) \in Nat
  BY <1>2, LenProperties
<1>4. \A i \in 1 .. Len(es) : Append(r.path, es[i]) \in Dir
  BY <1>2, <1>3, SmallSeqs DEF Dir, IsFileRequest
<1>5. ConfigArgs(r) = [i \in 1 .. Len(es) |-> Append(r.path, es[i])]
  BY <1>3 DEF ConfigArgs
<1>. HIDE DEF es
<1>. QED BY <1>3, <1>4, <1>5, SMT

LEMMA UpdatePodWithAppConfig ==
  ASSUME NEW C, IsFiniteSet(C), Main \in C, NEW p \in Pods(C), NEW r, IsFileRequest(r),
         NEW q \in updatePodWithAppConfig(p, r)
  PROVE  q \in Pods(C) /\ ConfigMounted(p, q, r)
<1>1. Len(r.keys) <= 1 /\ \E w \in mountFilesFrom(p, r) : q = [w EXCEPT !.args = w.args \o ConfigArgs(r)]
  <2>1. ~(Len(r.keys) > 1)
    BY DEF updatePodWithAppConfig
  <2>2. r.keys \in Seq(STRING)
    BY KeysType DEF IsFileRequest
  <2>3. Len(r.keys) \in Nat
    BY <2>2, LenProperties
  <2>. QED BY <2>1, <2>3, SMT DEF updatePodWithAppConfig
<1>2. PICK w \in mountFilesFrom(p, r) : q = [w EXCEPT !.args = w.args \o ConfigArgs(r)]
  BY <1>1
<1>3. w \in Pods(C) /\ FilesMounted(p, w, r) /\ w.args = p.args /\ allContainers(p) = C
  <2>1. w \in Pods(C) /\ FilesMounted(p, w, r)
    BY MountFilesFrom
  <2>. QED BY <2>1 DEF FilesMounted, allContainers, Pods
<1>4. ConfigArgs(r) \in Seq(Dir)
  BY ConfigArgsType
<1>5. p.args \o ConfigArgs(r) \in Seq(Dir)
  BY <1>4, ConcatProperties DEF Pods
<1>6. q \in Pods(C)
  BY <1>2, <1>3, <1>5 DEF Pods
<1>. QED BY <1>1, <1>2, <1>3, <1>6 DEF ConfigMounted

-----------------------------------------------------------------------------
(* Sequences of sequences                                                   *)

LEMMA Concatenated ==
  \A S : <<>> \in Seq(S) /\ \A s, t \in Seq(S) : s \o t \in Seq(S) /\ <<>> \o s = s
BY ConcatProperties, ConcatEmptySeq, SMT

\* f has the beginnings of the flattened sequence.
IsFlattening(f, ss) ==
  /\ f[0] = <<>> /\ f[Len(ss)] = FlattenSeq(ss)
  /\ \A n \in 1 .. Len(ss) : f[n] = f[n - 1] \o ss[n]

Flattens(g, ss) == g = [i \in 1 .. Len(ss) |-> IF i = 1 THEN ss[i] ELSE g[i - 1] \o ss[i]]

LEMMA FlattenSeqChosen ==
  \A ss : FlattenSeq(ss) = IF Len(ss) = 0 THEN ss ELSE (CHOOSE g : Flattens(g, ss))[Len(ss)]
BY DEF FlattenSeq, Flattens

LEMMA Flattened ==
  ASSUME NEW S, NEW ss \in Seq(Seq(S))
  PROVE  \E f : IsFlattening(f, ss) /\ \A n \in 0 .. Len(ss) : f[n] \in Seq(S)
<1>0. Len(ss) \in Nat /\ DOMAIN ss = 1 .. Len(ss) /\ \A n \in 1 .. Len(ss) : ss[n] \in Seq(S)
  BY LenProperties, ElementOfSeq
<1>1. PICK f : IsTrace(f, "joined", 0, <<>>, ss)
  BY LoopTrace
<1>2. f[0] = <<>> /\ \A n \in 1 .. Len(ss) : f[n] = f[n - 1] \o ss[n]
  BY <1>1 DEF IsTrace, Round
<1>3. \A n \in 0 .. Len(ss) : f[n] \in Seq(S)
  <2>. DEFINE T == {n \in 0 .. Len(ss) : f[n] \in Seq(S)}
  <2>1. 0 \in T
    <3>1. 0 \in 0 .. Len(ss)
      BY <1>0, SMT
    <3>. QED BY <1>2, <3>1, Concatenated
  <2>2. ASSUME NEW n \in 1 .. Len(ss), n - 1 \in T PROVE n \in T
    <3>1. n \in 0 .. Len(ss)
      BY <1>0, SMT
    <3>2. f[n - 1] \in Seq(S) /\ ss[n] \in Seq(S) /\ f[n] = f[n - 1] \o ss[n]
      BY <1>0, <1>2, <2>2
    <3>3. f[n] \in Seq(S)
      BY <3>2, Concatenated
    <3>. QED BY <3>1, <3>3
  <2>3. \A n \in 0 .. Len(ss) : n \in T
    <3>. HIDE DEF T
    <3>. QED BY <1>0, <2>1, <2>2, RoundInduction
  <2>. QED BY <2>3
<1>. CASE Len(ss) = 0
  <2>1. ss = <<>> /\ FlattenSeq(ss) = ss
    BY FlattenSeqChosen, SMT
  <2>. QED BY <1>2, <1>3, <2>1 DEF IsFlattening
<1>. CASE Len(ss) # 0
  <2>. DEFINE h == [i \in 1 .. Len(ss) |-> f[i]]
  <2>1. h = [i \in 1 .. Len(ss) |-> IF i = 1 THEN ss[i] ELSE h[i - 1] \o ss[i]]
    <3>1. ASSUME NEW i \in 1 .. Len(ss) PROVE f[i] = IF i = 1 THEN ss[i] ELSE h[i - 1] \o ss[i]
      <4>. CASE i = 1
        <5>1. i - 1 = 0
          BY SMT
        <5>2. f[i] = <<>> \o ss[i] /\ ss[i] \in Seq(S)
          BY <1>0, <1>2, <5>1
        <5>. QED BY <5>2, Concatenated
      <4>. CASE i # 1
        <5>1. i - 1 \in 1 .. Len(ss) /\ h[i - 1] = f[i - 1]
          BY <1>0, SMT
        <5>. QED BY <1>2, <5>1
      <4>. QED OBVIOUS
    <3>. QED BY <3>1
  <2>2. Flattens(h, ss)
    BY <2>1 DEF Flattens
  <2>. HIDE DEF h
  <2>3. PICK g : g = CHOOSE x : Flattens(x, ss)
    OBVIOUS
  <2>4. Flattens(g, ss)
    BY <2>2, <2>3
  <2>5. \A i \in 1 .. Len(ss) : g[i] = IF i = 1 THEN ss[i] ELSE g[i - 1] \o ss[i]
    BY <2>4 DEF Flattens
  <2>. DEFINE T == {n \in 0 .. Len(ss) : n # 0 => g[n] = f[n]}
  <2>6. 0 \in T
    BY <1>0, SMT
  <2>7. ASSUME NEW n \in 1 .. Len(ss), n - 1 \in T PROVE n \in T
    <3>0. n \in 0 .. Len(ss)
      BY <1>0, SMT
    <3>. CASE n = 1
      <4>1. n - 1 = 0
        BY SMT
      <4>2. f[n] = <<>> \o ss[n] /\ ss[n] \in Seq(S)
        BY <1>0, <1>2, <4>1
      <4>3. g[n] = ss[n]
        BY <2>5
      <4>4. g[n] = f[n]
        BY <4>2, <4>3, Concatenated
      <4>. QED BY <3>0, <4>4
    <3>. CASE n # 1
      <4>1. g[n - 1] = f[n - 1]
        BY <1>0, <2>7, SMT
      <4>2. g[n] = f[n]
        BY <1>2, <2>5, <4>1
      <4>. QED BY <3>0, <4>2
    <3>. QED OBVIOUS
  <2>8. \A n \in 0 .. Len(ss) : n \in T
    <3>. HIDE DEF T
    <3>. QED BY <1>0, <2>6, <2>7, RoundInduction
  <2>9. g[Len(ss)] = f[Len(ss)]
    BY <1>0, <2>8, SMT
  <2>10. FlattenSeq(ss) = f[Len(ss)]
    BY <2>3, <2>9, FlattenSeqChosen
  <2>. QED BY <1>2, <1>3, <2>10 DEF IsFlattening
<1>. QED OBVIOUS

LEMMA FlattenType ==
  ASSUME NEW S, NEW ss \in Seq(Seq(S))
  PROVE  FlattenSeq(ss) \in Seq(S)
<1>1. PICK f : IsFlattening(f, ss) /\ \A n \in 0 .. Len(ss) : f[n] \in Seq(S)
  BY Flattened
<1>2. Len(ss) \in 0 .. Len(ss)
  BY SMT
<1>. QED BY <1>1, <1>2 DEF IsFlattening

-----------------------------------------------------------------------------
(* One operation after the other                                            *)

\* What is asked of the operations that are done one after the other, and what they change.
IsRequest(op, r) ==
  IF op \in {"files", "configs"} THEN IsFileRequest(r)
  ELSE IF op = "claims" THEN IsClaimRequest(r)
  ELSE IF op = "envs" THEN IsEnvRequest(r) ELSE r \in Env
Changed(op, p, q, r) ==
  IF op = "files" THEN FilesMounted(p, q, r)
  ELSE IF op = "claims" THEN ClaimMounted(p, q, r)
  ELSE IF op = "envs" THEN EnvAdded(p, q, r)
  ELSE IF op = "configs" THEN ConfigMounted(p, q, r) ELSE EnvSet(p, q, r)

LEMMA PodLoopRun ==
  \A p, rs : /\ All(mountFilesFrom, p, rs) = Run("files", 0, {p}, rs)
             /\ All(addPvc, p, rs) = Run("claims", 0, {p}, rs)
             /\ All(addEnvVarsFrom, p, rs) = Run("envs", 0, {p}, rs)
             /\ All(updatePodWithAppConfig, p, rs) = Run("configs", 0, {p}, rs)
             /\ All(addExtraEnv, p, rs) = Run("extra", 0, {p}, rs)
BY SMT DEF Run, Solves, Greatest, Round, FoldLeft, MapThenFoldSet, Max, All, PodOp

LEMMA PodOpChanges ==
  ASSUME NEW C, IsFiniteSet(C), Main \in C, NEW p \in Pods(C), NEW op, NEW r, IsRequest(op, r),
         NEW q \in PodOp(op, p, r)
  PROVE  q \in Pods(C) /\ Changed(op, p, q, r)
<1>. CASE op = "files"
  BY MountFilesFrom DEF PodOp, IsRequest, Changed
<1>. CASE op = "claims"
  BY AddPvc DEF PodOp, IsRequest, Changed
<1>. CASE op = "envs"
  BY AddEnvVarsFrom DEF PodOp, IsRequest, Changed
<1>. CASE op = "configs"
  BY UpdatePodWithAppConfig DEF PodOp, IsRequest, Changed
<1>. CASE op \notin {"files", "claims", "envs", "configs"}
  BY AddExtraEnv DEF PodOp, IsRequest, Changed
<1>. QED OBVIOUS

\* S has pairs of the number of operations that are done and a Pod.
Kept(C, op, rs, S) ==
  \A n \in 1 .. Len(rs), p, q \in Pods(C) : <<n - 1, p>> \in S /\ Changed(op, p, q, rs[n]) => <<n, q>> \in S

\* What is true of the Pod before the operations, and after each of them if it was
\* before, is true of the Pod that comes out.
LEMMA PodInduction ==
  ASSUME NEW C, IsFiniteSet(C), Main \in C, NEW p \in Pods(C),
         NEW op \in PodOps, NEW R, NEW rs \in Seq(R), \A r \in R : IsRequest(op, r),
         NEW S, <<0, p>> \in S, Kept(C, op, rs, S), NEW q \in Run(op, 0, {p}, rs)
  PROVE  q \in Pods(C) /\ <<Len(rs), q>> \in S
<1>0. Len(rs) \in Nat /\ \A n \in 1 .. Len(rs) : rs[n] \in R
  BY SMT
<1>1. PICK f : IsTrace(f, op, 0, {p}, rs)
  BY LoopTrace
<1>2. /\ f[0] = {p} /\ f[Len(rs)] = Run(op, 0, {p}, rs)
      /\ \A n \in 1 .. Len(rs) : f[n] = UNION {PodOp(op, v, rs[n]) : v \in f[n - 1]}
  BY <1>1 DEF IsTrace, Round, PodOps
<1>. DEFINE T == {n \in 0 .. Len(rs) : \A v \in f[n] : v \in Pods(C) /\ <<n, v>> \in S}
<1>3. 0 \in T
  BY <1>0, <1>2, SMT
<1>4. ASSUME NEW n \in 1 .. Len(rs), n - 1 \in T PROVE n \in T
  <2>. SUFFICES ASSUME NEW w \in f[n] PROVE w \in Pods(C) /\ <<n, w>> \in S
    BY <1>0, SMT
  <2>1. PICK v \in f[n - 1] : w \in PodOp(op, v, rs[n])
    BY <1>2, SMT
  <2>2. v \in Pods(C) /\ <<n - 1, v>> \in S
    BY <1>4, <2>1
  <2>3. w \in Pods(C) /\ Changed(op, v, w, rs[n])
    BY <1>0, <2>1, <2>2, PodOpChanges
  <2>. QED BY <2>2, <2>3 DEF Kept
<1>5. Len(rs) \in T
  <2>. HIDE DEF T
  <2>1. \A n \in 0 .. Len(rs) : n \in T
    BY <1>0, <1>3, <1>4, RoundInduction
  <2>. QED BY <1>0, <2>1, SMT
<1>. QED BY <1>2, <1>5

-----------------------------------------------------------------------------
(* What one operation keeps                                                 *)

\* What is said of the mounts does not depend on the rest of the Pod.
LEMMA SameMounts ==
  ASSUME NEW p, NEW q, q.mounts = p.mounts, q.volumes = p.volumes
  PROVE  /\ MountsResolved(p) => MountsResolved(q)
         /\ \A rs, n, c, path : Overridden(p, rs, n, c, path) => Overridden(q, rs, n, c, path)
         /\ \A file, ms : Readable(p, file, ms) => Readable(q, file, ms)
<1>1. allContainers(q) = allContainers(p)
  BY DEF allContainers
<1>2. \A r, c : IsFor(q, r, c) <=> IsFor(p, r, c)
  BY <1>1 DEF IsFor, getContainers
<1>3. \A rs, n, i, c, path : LastToAsk(q, rs, n, i, c, path) <=> LastToAsk(p, rs, n, i, c, path)
  BY <1>2, SMT DEF LastToAsk, AsksFor
<1>. QED BY <1>1, <1>3, SMT DEF MountsResolved, Overridden, Readable

LEMMA AppendedSet ==
  ASSUME NEW S, NEW s \in Seq(S), NEW x \in S
  PROVE  x \in ToSet(Append(s, x)) /\ \A y \in ToSet(s) : y \in ToSet(Append(s, x))
<1>1. /\ DOMAIN s = 1 .. Len(s) /\ Len(s) \in Nat /\ DOMAIN Append(s, x) = 1 .. Len(s) + 1
      /\ Append(s, x)[Len(s) + 1] = x /\ \A i \in 1 .. Len(s) : Append(s, x)[i] = s[i]
  BY SMT
<1>2. Len(s) + 1 \in 1 .. Len(s) + 1 /\ \A i \in 1 .. Len(s) : i \in 1 .. Len(s) + 1
  BY <1>1, SMT
<1>. QED BY <1>1, <1>2 DEF ToSet

LEMMA VolumeAdded ==
  ASSUME NEW C, NEW p \in Pods(C), NEW r, r.kind \in STRING, r.name \in STRING
  PROVE  /\ \A v \in ToSet(p.volumes) : v \in ToSet(AddVolume(p, r))
         /\ \E v \in ToSet(AddVolume(p, r)) : v.name = ToRFC1123Label(r.name)
<1>. DEFINE v == [name |-> ToRFC1123Label(r.name), kind |-> r.kind, object |-> r.name]
<1>1. p.volumes \in Seq(Volume) /\ v \in Volume
  BY LabelType DEF Pods, Volume
<1>2. AddVolume(p, r) = Append(p.volumes, v) /\ v.name = ToRFC1123Label(r.name)
  BY DEF AddVolume
<1>. HIDE DEF v
<1>. QED BY <1>1, <1>2, AppendedSet

LEMMA VolumeOfMounts == \A r : \A m \in ToSet(MountsToAdd(r)) : m.volume = ToRFC1123Label(r.name)
<1>. SUFFICES ASSUME NEW r, NEW i \in DOMAIN MountsToAdd(r)
              PROVE  MountsToAdd(r)[i].volume = ToRFC1123Label(r.name)
  BY DEF ToSet
<1>1. PICK files : MountsToAdd(r) = [k \in DOMAIN files |-> [path |-> Join(r.path, files[k]), sub |-> files[k],
                                                             volume |-> ToRFC1123Label(r.name)]]
  BY DEF MountsToAdd
<1>. QED BY <1>1, SMT

LEMMA ContainersKept ==
  ASSUME NEW C, NEW p \in Pods(C), NEW q \in Pods(C)
  PROVE  /\ allContainers(p) = C /\ allContainers(q) = C
         /\ \A r, c : IsFor(q, r, c) <=> IsFor(p, r, c)
<1>1. allContainers(p) = C /\ allContainers(q) = C
  BY DEF allContainers, Pods
<1>. QED BY <1>1 DEF IsFor, getContainers

\* After mountFilesFrom what is mounted is a volume if it was before.
LEMMA FilesResolved ==
  ASSUME NEW C, NEW p \in Pods(C), NEW q \in Pods(C), NEW r, IsFileRequest(r),
         FilesMounted(p, q, r), MountsResolved(p)
  PROVE  MountsResolved(q)
<1>. SUFFICES ASSUME NEW c \in C, NEW m \in ToSet(q.mounts[c])
              PROVE  \E v \in ToSet(q.volumes) : v.name = m.volume
  BY ContainersKept DEF MountsResolved
<1>1. q.volumes = AddVolume(p, r) /\ allContainers(p) = C
  BY ContainersKept DEF FilesMounted
<1>2. m \in ToSet(MountsToAdd(r)) \/ m \in ToSet(p.mounts[c])
  BY <1>1 DEF FilesMounted, Remounted
<1>. CASE m \in ToSet(MountsToAdd(r))
  <2>1. m.volume = ToRFC1123Label(r.name)
    BY VolumeOfMounts
  <2>. QED BY <1>1, <2>1, VolumeAdded DEF IsFileRequest
<1>. CASE m \in ToSet(p.mounts[c])
  <2>1. PICK v \in ToSet(p.volumes) : v.name = m.volume
    BY <1>1 DEF MountsResolved
  <2>. QED BY <1>1, <2>1, VolumeAdded DEF IsFileRequest
<1>. QED BY <1>2

\* One more request is served.
LEMMA FilesOverridden ==
  ASSUME NEW C, NEW p \in Pods(C), NEW q \in Pods(C), NEW rs, NEW n \in Nat,
         FilesMounted(p, q, rs[n + 1]), NEW c \in C, NEW path, Overridden(p, rs, n, c, path)
  PROVE  Overridden(q, rs, n + 1, c, path)
<1>. PICK r : r = rs[n + 1]
  OBVIOUS
<1>0. /\ FilesMounted(p, q, r) /\ allContainers(p) = C
      /\ \A i \in 1 .. n + 1 : i \in 1 .. n \/ i = n + 1
      /\ \A x : AsksFor(q, x, c, path) <=> AsksFor(p, x, c, path)
  BY ContainersKept, SMT DEF AsksFor
<1>1. IF IsFor(p, r, c) THEN Remounted(p.mounts[c], q.mounts[c], MountsToAdd(r)) ELSE q.mounts[c] = p.mounts[c]
  BY <1>0 DEF FilesMounted
<1>. DEFINE here == {k \in DOMAIN q.mounts[c] : q.mounts[c][k].path = path}
<1>2. \A k, l \in here : k = l
  <2>1. Once(p.mounts[c], path)
    BY DEF Overridden, Once
  <2>2. Once(q.mounts[c], path)
    BY <1>1, <2>1 DEF Remounted
  <2>. QED BY <2>2 DEF Once
<1>3. ASSUME NEW i \in 1 .. n + 1, NEW k \in here, LastToAsk(q, rs, n + 1, i, c, path)
      PROVE  q.mounts[c][k].volume = ToRFC1123Label(rs[i].name)
  <2>. PICK m : m = q.mounts[c][k]
    OBVIOUS
  <2>0. m \in ToSet(q.mounts[c]) /\ m.path = path
    BY DEF ToSet
  <2>. CASE i = n + 1
    <3>1. IsFor(p, r, c) /\ path \in PathsOf(r)
      BY <1>0, <1>3 DEF LastToAsk, AsksFor
    <3>2. m \in ToSet(MountsToAdd(r))
      BY <1>1, <2>0, <3>1 DEF Remounted, PathsOf
    <3>. QED BY <3>2, VolumeOfMounts
  <2>. CASE i \in 1 .. n
    <3>1. LastToAsk(p, rs, n, i, c, path) /\ ~AsksFor(p, r, c, path)
      BY <1>0, <1>3, SMT DEF LastToAsk
    <3>2. m \in ToSet(p.mounts[c])
      <4>. CASE IsFor(p, r, c)
        <5>1. path \notin PathsOf(r)
          BY <3>1 DEF AsksFor
        <5>2. m \notin ToSet(MountsToAdd(r))
          BY <2>0, <5>1 DEF PathsOf
        <5>. QED BY <1>1, <2>0, <5>2 DEF Remounted
      <4>. CASE ~IsFor(p, r, c)
        BY <1>1, <2>0
      <4>. QED OBVIOUS
    <3>3. PICK l \in DOMAIN p.mounts[c] : p.mounts[c][l] = m
      BY <3>2 DEF ToSet
    <3>. QED BY <2>0, <3>1, <3>3 DEF Overridden
  <2>. QED BY <1>0
<1>. QED BY <1>2, <1>3 DEF Overridden

\* A file that is read makes way for another one at most.
LEMMA FilesReadable ==
  ASSUME NEW C, Main \in C, NEW p \in Pods(C), NEW q \in Pods(C), NEW r, FilesMounted(p, q, r),
         NEW ms, Unambiguous(ms), ToSet(MountsToAdd(r)) \subseteq ms, NEW file, Readable(p, file, ms)
  PROVE  Readable(q, file, ms)
<1>1. IF IsFor(p, r, Main) THEN Remounted(p.mounts[Main], q.mounts[Main], MountsToAdd(r))
      ELSE q.mounts[Main] = p.mounts[Main]
  BY ContainersKept DEF FilesMounted
<1>2. PICK m \in ToSet(p.mounts[Main]) \cap ms : m.path = file \/ (m.sub = "" /\ IsPrefix(m.path, file))
  BY DEF Readable, ComesWith
<1>3. \/ m \in ToSet(q.mounts[Main])
      \/ \E x \in ToSet(MountsToAdd(r)) \cap ToSet(q.mounts[Main]) : x.path = m.path
  BY <1>1, <1>2 DEF Remounted
<1>. CASE m \in ToSet(q.mounts[Main])
  BY <1>2 DEF Readable, ComesWith
<1>5. ASSUME NEW x \in ToSet(MountsToAdd(r)) \cap ToSet(q.mounts[Main]), x.path = m.path
      PROVE  Readable(q, file, ms)
  BY <1>2, <1>5 DEF Readable, ComesWith, Unambiguous
<1>. QED BY <1>3, <1>5

\* What was mounted stays, and the claim comes with it.
ClaimMount(r) == [path |-> r.path, sub |-> r.file, volume |-> ToRFC1123Label(r.name)]
Adds(old, new, m) ==
  /\ \A i \in DOMAIN old : i \in DOMAIN new /\ new[i] = old[i]
  /\ \A i \in DOMAIN new : i \in DOMAIN old \/ new[i] = m

LEMMA Added ==
  ASSUME NEW old, NEW new, NEW m, Adds(old, new, m)
  PROVE  ToSet(old) \subseteq ToSet(new) /\ \A x \in ToSet(new) : x \in ToSet(old) \/ x = m
<1>1. ToSet(old) = {old[i] : i \in DOMAIN old} /\ ToSet(new) = {new[i] : i \in DOMAIN new}
  BY DEF ToSet
<1>2. ASSUME NEW x \in ToSet(old) PROVE x \in ToSet(new)
  <2>1. PICK i \in DOMAIN old : x = old[i]
    BY <1>1
  <2>. QED BY <1>1, <2>1 DEF Adds
<1>3. ASSUME NEW x \in ToSet(new) PROVE x \in ToSet(old) \/ x = m
  <2>1. PICK i \in DOMAIN new : x = new[i]
    BY <1>1
  <2>. QED BY <1>1, <2>1 DEF Adds
<1>. QED BY <1>2, <1>3

LEMMA ClaimAdds ==
  ASSUME NEW C, NEW p \in Pods(C), NEW q \in Pods(C), NEW r, ClaimMounted(p, q, r), NEW c \in C
  PROVE  Adds(p.mounts[c], q.mounts[c], ClaimMount(r))
<1>. PICK old, new, m : old = p.mounts[c] /\ new = q.mounts[c] /\ m = ClaimMount(r)
  OBVIOUS
<1>1. old \in Seq(Mount) /\ new \in Seq(Mount)
  BY DEF Pods
<1>2. new = old \/ Extended(old, new, m)
  BY ContainersKept DEF ClaimMounted, ClaimMount
<1>3. /\ DOMAIN old = 1 .. Len(old) /\ DOMAIN new = 1 .. Len(new)
      /\ Len(old) \in Nat /\ Len(new) \in Nat
  BY <1>1, SMT
<1>4. Adds(old, new, m)
  BY <1>2, <1>3, SMT DEF Extended, Adds
<1>. QED BY <1>4

LEMMA ClaimResolved ==
  ASSUME NEW C, NEW p \in Pods(C), NEW q \in Pods(C), NEW r, IsClaimRequest(r),
         ClaimMounted(p, q, r), MountsResolved(p)
  PROVE  MountsResolved(q)
<1>. SUFFICES ASSUME NEW c \in C, NEW m \in ToSet(q.mounts[c])
              PROVE  \E v \in ToSet(q.volumes) : v.name = m.volume
  BY ContainersKept DEF MountsResolved
<1>1. q.volumes = AddVolume(p, r) /\ allContainers(p) = C
  BY ContainersKept DEF ClaimMounted
<1>2. m \in ToSet(p.mounts[c]) \/ m = ClaimMount(r)
  BY ClaimAdds, Added
<1>. CASE m \in ToSet(p.mounts[c])
  <2>1. PICK v \in ToSet(p.volumes) : v.name = m.volume
    BY <1>1 DEF MountsResolved
  <2>. QED BY <1>1, <2>1, VolumeAdded DEF IsClaimRequest
<1>. CASE m = ClaimMount(r)
  <2>1. m.volume = ToRFC1123Label(r.name)
    BY DEF ClaimMount
  <2>. QED BY <1>1, <2>1, VolumeAdded DEF IsClaimRequest
<1>. QED BY <1>2

LEMMA ClaimOverridden ==
  ASSUME NEW C, NEW p \in Pods(C), NEW q \in Pods(C), NEW r, ClaimMounted(p, q, r),
         NEW rs, NEW n, NEW c \in C, NEW path, path # r.path, Overridden(p, rs, n, c, path)
  PROVE  Overridden(q, rs, n, c, path)
<1>1. Adds(p.mounts[c], q.mounts[c], ClaimMount(r)) /\ ClaimMount(r).path = r.path
  BY ClaimAdds DEF ClaimMount
<1>2. \A i \in DOMAIN q.mounts[c] : q.mounts[c][i].path = path =>
        i \in DOMAIN p.mounts[c] /\ q.mounts[c][i] = p.mounts[c][i]
  BY <1>1 DEF Adds
<1>3. \A i : LastToAsk(q, rs, n, i, c, path) <=> LastToAsk(p, rs, n, i, c, path)
  BY ContainersKept DEF LastToAsk, AsksFor
<1>. QED BY <1>2, <1>3 DEF Overridden

LEMMA ClaimReadable ==
  ASSUME NEW C, Main \in C, NEW p \in Pods(C), NEW q \in Pods(C), NEW r, ClaimMounted(p, q, r),
         NEW ms, NEW file, Readable(p, file, ms)
  PROVE  Readable(q, file, ms)
<1>0. Adds(p.mounts[Main], q.mounts[Main], ClaimMount(r))
  BY ClaimAdds
<1>1. ToSet(p.mounts[Main]) \subseteq ToSet(q.mounts[Main])
  BY <1>0, Added
<1>. QED BY <1>1 DEF Readable, ComesWith

LEMMA AppendPrefix == \A S : \A s \in Seq(S), x \in S : IsPrefix(s, Append(s, x))
<1>. SUFFICES ASSUME NEW S, NEW s \in Seq(S), NEW x \in S
              PROVE  Len(s) <= Len(Append(s, x)) /\ SubSeq(s, 1, Len(s)) = SubSeq(Append(s, x), 1, Len(s))
  BY DEF IsPrefix
<1>1. /\ Len(s) \in Nat /\ Len(Append(s, x)) = Len(s) + 1
      /\ \A i \in 1 .. Len(s) : Append(s, x)[i] = s[i]
  BY SMT
<1>2. SubSeq(s, 1, Len(s)) = SubSeq(Append(s, x), 1, Len(s))
  BY <1>1, SMT
<1>. QED BY <1>1, <1>2, SMT

\* The single file of an app-config is mounted, by itself or with its directory.
LEMMA ConfigReadable ==
  ASSUME NEW C, Main \in C, NEW p \in Pods(C), NEW q \in Pods(C), NEW r, IsFileRequest(r),
         r.containers = <<>>, Len(r.keys) <= 1, FilesMounted(p, q, r),
         NEW ms, ToSet(MountsToAdd(r)) \subseteq ms, NEW file \in ToSet(ConfigArgs(r))
  PROVE  Readable(q, file, ms)
<1>. PICK es, add : es = EntriesOf(r) /\ add = MountsToAdd(r)
  OBVIOUS
<1>0. /\ r.keys \in Seq(STRING) /\ es \in Seq(STRING) /\ \A i \in DOMAIN es : es[i] \in STRING /\ es[i] # ""
      /\ r.path \in Seq(STRING)
  BY EntriesType, KeysType DEF IsFileRequest, Dir
<1>1. DOMAIN es = 1 .. Len(es) /\ Len(es) \in Nat /\ Len(r.keys) \in Nat
  BY <1>0, LenProperties
<1>2. PICK i \in DOMAIN es : file = Append(r.path, es[i])
  BY DEF ConfigArgs, ToSet
<1>3. Len(es) = 1 /\ i = 1 /\ r.keys # <<>>
  <2>1. CASE r.file = ""
    <3>1. es = r.keys
      BY <2>1 DEF EntriesOf
    <3>2. Len(es) = 1 /\ i = 1
      <4>1. Len(es) <= 1 /\ Len(es) \in Nat /\ i \in 1 .. Len(es)
        BY <1>1, <1>2, <3>1
      <4>. QED BY <4>1, SMT
    <3>3. Len(<<>>) = 0
      OBVIOUS
    <3>. QED BY <3>1, <3>2, <3>3, SMT
  <2>2. CASE r.file # ""
    <3>1. r.file \in ToSet(r.keys) /\ es = <<r.file>>
      <4>1. es # <<>>
        BY <1>1, <1>2, SMT
      <4>. QED BY <2>2, <4>1 DEF EntriesOf
    <3>2. r.keys # <<>>
      BY <3>1, SMT DEF ToSet
    <3>3. Len(es) = 1
      BY <3>1, SmallSeqs
    <3>. QED BY <1>1, <1>2, <3>2, <3>3, SMT
  <2>. QED BY <2>1, <2>2
<1>4. Len(add) = 1 /\ add[1] \in ToSet(add) /\ (add[1].path = file \/ (add[1].sub = "" /\ add[1].path = r.path))
  <2>. DEFINE files == IF ~r.sub THEN <<"">> ELSE IF r.keys = <<>> THEN <<r.file>> ELSE EntriesOf(r)
  <2>1. add = [k \in DOMAIN files |-> [path |-> Join(r.path, files[k]), sub |-> files[k],
                                        volume |-> ToRFC1123Label(r.name)]]
    BY DEF MountsToAdd
  <2>2. DOMAIN files = 1 .. 1 /\ (files[1] = "" \/ files[1] = es[1])
    BY <1>1, <1>3, SMT
  <2>. HIDE DEF files
  <2>3. /\ DOMAIN add = 1 .. 1 /\ add[1].path = Join(r.path, files[1]) /\ add[1].sub = files[1]
        /\ add = [k \in 1 .. 1 |-> add[k]]
    <3>1. DOMAIN add = 1 .. 1 /\ add = [k \in 1 .. 1 |-> add[k]]
      BY <2>1, <2>2
    <3>2. 1 \in DOMAIN files
      <4>1. 1 \in 1 .. 1
        BY SMT
      <4>. QED BY <2>2, <4>1
    <3>3. add[1] = [path |-> Join(r.path, files[1]), sub |-> files[1], volume |-> ToRFC1123Label(r.name)]
      BY <2>1, <3>2
    <3>. QED BY <3>1, <3>3, SMT
  <2>4. add[1].path = file \/ (add[1].sub = "" /\ add[1].path = r.path)
    BY <1>0, <1>2, <1>3, <2>2, <2>3 DEF Join
  <2>5. add[1] \in ToSet(add)
    BY <2>3, SMT DEF ToSet
  <2>6. Len(add) = 1
    BY <2>3, SMT
  <2>. QED BY <2>4, <2>5, <2>6
<1>5. IsPrefix(r.path, file)
  BY <1>0, <1>2, AppendPrefix
<1>6. IsFor(p, r, Main)
  <2>1. <<Main>> \in getContainers(p, r.containers)
    BY DEF getContainers
  <2>2. Main \in ToSet(<<Main>>)
    BY SMT DEF ToSet
  <2>. QED BY <2>1, <2>2 DEF IsFor
<1>7. add[1] \in ToSet(q.mounts[Main])
  <2>1. Remounted(p.mounts[Main], q.mounts[Main], add)
    BY <1>6, ContainersKept DEF FilesMounted
  <2>. QED BY <1>4, <2>1 DEF Remounted
<1>8. add[1] \in ToSet(q.mounts[Main]) \cap ms
  BY <1>4, <1>7
<1>. QED BY <1>4, <1>5, <1>8 DEF Readable, ComesWith

-----------------------------------------------------------------------------
(* What a sequence of operations keeps                                      *)

LEMMA FilesRun ==
  ASSUME NEW C, IsFiniteSet(C), Main \in C, NEW p \in Pods(C), NEW op \in {"files", "configs"},
         NEW R, NEW rs \in Seq(R), \A r \in R : IsFileRequest(r), NEW q \in Run(op, 0, {p}, rs)
  PROVE  /\ q \in Pods(C) /\ FilesDone(p, q)
         /\ OverriddenBy(C, p, q, rs, Len(rs)) /\ ReadableStill(p, q, rs)
<1>0. Len(rs) \in Nat /\ \A n \in 1 .. Len(rs) : rs[n] \in R
  BY LenProperties, ElementOfSeq
<1>. DEFINE Good(n, w) == /\ FilesDone(p, w) /\ OverriddenBy(C, p, w, rs, n) /\ ReadableStill(p, w, rs)
            S == {x \in (0 .. Len(rs)) \X Pods(C) : Good(x[1], x[2])}
<1>1. <<0, p>> \in S
  <2>1. Good(0, p)
    <3>1. OverriddenBy(C, p, p, rs, 0)
      BY SMT DEF OverriddenBy, Follows
    <3>. QED BY <3>1 DEF FilesDone, ReadableStill
  <2>. HIDE DEF Good
  <2>2. <<0, p>> \in (0 .. Len(rs)) \X Pods(C) /\ <<0, p>>[1] = 0 /\ <<0, p>>[2] = p
    BY <1>0, SMT
  <2>. QED BY <2>1, <2>2
<1>2. Kept(C, op, rs, S)
  <2>. SUFFICES ASSUME NEW n \in 1 .. Len(rs), NEW v \in Pods(C), NEW w \in Pods(C),
                       <<n - 1, v>> \in S, Changed(op, v, w, rs[n])
                PROVE  <<n, w>> \in S
    BY DEF Kept
  <2>. PICK r : r = rs[n]
    OBVIOUS
  <2>1. Good(n - 1, v) /\ IsFileRequest(r) /\ n - 1 \in Nat
    <3>. HIDE DEF Good
    <3>. QED BY <1>0, SMT
  <2>2. PICK u \in Pods(C) : /\ FilesMounted(v, u, r) /\ w.mounts = u.mounts /\ w.volumes = u.volumes
                             /\ w.env = v.env /\ w.envFrom = v.envFrom /\ w.image = v.image
    <3>. HIDE DEF S
    <3>. CASE op = "files"
      <4>1. FilesMounted(v, w, r)
        BY DEF Changed
      <4>. QED BY <4>1 DEF FilesMounted
    <3>. CASE op = "configs"
      <4>1. ConfigMounted(v, w, r) /\ allContainers(v) = C
        BY ContainersKept DEF Changed
      <4>2. PICK u \in Pods(C) : FilesMounted(v, u, r) /\ w = [u EXCEPT !.args = v.args \o ConfigArgs(r)]
        BY <4>1 DEF ConfigMounted
      <4>3. /\ w.mounts = u.mounts /\ w.volumes = u.volumes
            /\ w.env = u.env /\ w.envFrom = u.envFrom /\ w.image = u.image
        BY <4>2 DEF Pods
      <4>. QED BY <4>2, <4>3 DEF FilesMounted
    <3>. QED OBVIOUS
  <2>3. FilesDone(p, w)
    <3>1. MountsResolved(v) => MountsResolved(w)
      BY <2>1, <2>2, FilesResolved, SameMounts
    <3>. QED BY <2>1, <2>2, <3>1 DEF FilesDone
  <2>4. OverriddenBy(C, p, w, rs, n)
    <3>. SUFFICES ASSUME NEW all, NEW k, Follows(all, k, rs), NEW c \in C, NEW path, Overridden(p, all, k, c, path)
                  PROVE  Overridden(w, all, k + n, c, path)
      BY DEF OverriddenBy
    <3>1. Overridden(v, all, k + (n - 1), c, path)
      BY <2>1 DEF OverriddenBy
    <3>2. k + (n - 1) \in Nat /\ k + (n - 1) + 1 = k + n /\ all[k + n] = r
      BY <1>0, SMT DEF Follows
    <3>. PICK m : m = k + (n - 1)
      OBVIOUS
    <3>3. m \in Nat /\ m + 1 = k + n /\ FilesMounted(v, u, all[m + 1]) /\ Overridden(v, all, m, c, path)
      BY <2>2, <3>1, <3>2
    <3>4. Overridden(u, all, m + 1, c, path)
      BY <3>3, FilesOverridden
    <3>. QED BY <2>2, <3>3, <3>4, SameMounts
  <2>5. ReadableStill(p, w, rs)
    <3>. SUFFICES ASSUME NEW ms, NEW file, Unambiguous(ms),
                         \A i \in 1 .. Len(rs) : ToSet(MountsToAdd(rs[i])) \subseteq ms, Readable(p, file, ms)
                  PROVE  Readable(w, file, ms)
      BY DEF ReadableStill
    <3>1. Readable(v, file, ms) /\ ToSet(MountsToAdd(r)) \subseteq ms
      BY <2>1 DEF ReadableStill
    <3>2. Readable(u, file, ms)
      BY <2>2, <3>1, FilesReadable
    <3>. QED BY <2>2, <3>2, SameMounts
  <2>6. Good(n, w)
    BY <2>3, <2>4, <2>5
  <2>. HIDE DEF Good
  <2>7. <<n, w>> \in (0 .. Len(rs)) \X Pods(C) /\ <<n, w>>[1] = n /\ <<n, w>>[2] = w
    BY <1>0, SMT
  <2>. QED BY <2>6, <2>7
<1>3. \A r \in R : IsRequest(op, r)
  BY DEF IsRequest
<1>4. q \in Pods(C) /\ <<Len(rs), q>> \in S
  <2>1. op \in PodOps
    BY DEF PodOps
  <2>. HIDE DEF S
  <2>. QED BY <1>1, <1>2, <1>3, <2>1, PodInduction
<1>5. Good(Len(rs), q)
  <2>. HIDE DEF Good
  <2>. QED BY <1>4
<1>. QED BY <1>4, <1>5

LEMMA FilesArgs ==
  ASSUME NEW C, IsFiniteSet(C), Main \in C, NEW p \in Pods(C),
         NEW R, NEW rs \in Seq(R), \A r \in R : IsFileRequest(r), NEW q \in Run("files", 0, {p}, rs)
  PROVE  q.args = p.args
<1>0. Len(rs) \in Nat
  BY LenProperties
<1>. DEFINE S == {x \in (0 .. Len(rs)) \X Pods(C) : x[2].args = p.args}
<1>1. <<0, p>> \in S
  BY <1>0, SMT
<1>2. Kept(C, "files", rs, S)
  BY <1>0, SMT DEF Kept, Changed, FilesMounted
<1>3. \A r \in R : IsRequest("files", r)
  BY DEF IsRequest
<1>4. <<Len(rs), q>> \in S
  <2>. HIDE DEF S
  <2>. QED BY <1>1, <1>2, <1>3, PodInduction DEF PodOps
<1>. QED BY <1>4

LEMMA ConcatSet ==
  ASSUME NEW S, NEW s \in Seq(S), NEW t \in Seq(S)
  PROVE  ToSet(s \o t) = ToSet(s) \cup ToSet(t)
<1>. PICK u : u = s \o t
  OBVIOUS
<1>1. Len(s) \in Nat /\ Len(t) \in Nat /\ DOMAIN s = 1 .. Len(s) /\ DOMAIN t = 1 .. Len(t)
  BY LenProperties
<1>2. /\ DOMAIN u = 1 .. Len(s) + Len(t)
      /\ \A i \in 1 .. Len(s) + Len(t) : u[i] = IF i <= Len(s) THEN s[i] ELSE t[i - Len(s)]
  <2>1. /\ u \in Seq(S) /\ Len(u) = Len(s) + Len(t)
        /\ \A i \in 1 .. Len(s) + Len(t) : u[i] = IF i <= Len(s) THEN s[i] ELSE t[i - Len(s)]
    BY ConcatProperties
  <2>2. DOMAIN u = 1 .. Len(u)
    BY <2>1, LenProperties
  <2>. QED BY <2>1, <2>2
<1>3. \A i \in DOMAIN u : \/ i \in DOMAIN s /\ u[i] = s[i]
                          \/ i - Len(s) \in DOMAIN t /\ u[i] = t[i - Len(s)]
  BY <1>1, <1>2, SMT
<1>4. \A i \in DOMAIN s : i \in DOMAIN u /\ u[i] = s[i]
  BY <1>1, <1>2, SMT
<1>5. \A i \in DOMAIN t : Len(s) + i \in DOMAIN u /\ u[Len(s) + i] = t[i]
  BY <1>1, <1>2, SMT
<1>6. ToSet(u) = ToSet(s) \cup ToSet(t)
  <2>1. ASSUME NEW i \in DOMAIN u PROVE u[i] \in ToSet(s) \/ u[i] \in ToSet(t)
    BY <1>3 DEF ToSet
  <2>2. \A i \in DOMAIN s : s[i] \in ToSet(u)
    BY <1>4 DEF ToSet
  <2>3. \A i \in DOMAIN t : t[i] \in ToSet(u)
    BY <1>5 DEF ToSet
  <2>4. ToSet(u) \subseteq ToSet(s) \cup ToSet(t)
    BY <2>1 DEF ToSet
  <2>5. ToSet(s) \subseteq ToSet(u) /\ ToSet(t) \subseteq ToSet(u)
    BY <2>2, <2>3 DEF ToSet
  <2>. QED BY <2>4, <2>5
<1>. QED BY <1>6

Associate(s, t, u) == (s \o t) \o u = s \o (t \o u)

LEMMA Associated == ASSUME NEW S, NEW s \in Seq(S), NEW t \in Seq(S), NEW u \in Seq(S) PROVE Associate(s, t, u)
<1>1. (s \o t) \o u = s \o (t \o u)
  BY ConcatAssociative, SMT
<1>. QED BY <1>1 DEF Associate

LEMMA ConfigsArgs ==
  ASSUME NEW C, IsFiniteSet(C), Main \in C, NEW p \in Pods(C),
         NEW R, NEW rs \in Seq(R), \A r \in R : IsFileRequest(r) /\ r.containers = <<>>,
         NEW q \in Run("configs", 0, {p}, rs)
  PROVE  /\ q.args = p.args \o FlattenSeq(ArgsOf(rs)) /\ FlattenSeq(ArgsOf(rs)) \in Seq(Dir)
         /\ \A ms : Unambiguous(ms) /\ (\A i \in 1 .. Len(rs) : ToSet(MountsToAdd(rs[i])) \subseteq ms) =>
              \A file \in ToSet(FlattenSeq(ArgsOf(rs))) : Readable(q, file, ms)
<1>0. /\ Len(rs) \in Nat /\ DOMAIN rs = 1 .. Len(rs)
      /\ \A n \in 1 .. Len(rs) : IsFileRequest(rs[n]) /\ rs[n].containers = <<>>
  BY LenProperties, ElementOfSeq
<1>1. ArgsOf(rs) \in Seq(Seq(Dir)) /\ Len(ArgsOf(rs)) = Len(rs)
  <2>1. \A n \in 1 .. Len(rs) : ConfigArgs(rs[n]) \in Seq(Dir)
    BY <1>0, ConfigArgsType
  <2>. QED BY <1>0, <2>1, SMT DEF ArgsOf
<1>2. PICK f : IsFlattening(f, ArgsOf(rs)) /\ \A n \in 0 .. Len(ArgsOf(rs)) : f[n] \in Seq(Dir)
  BY <1>1, Flattened
<1>3. /\ f[0] = <<>> /\ f[Len(rs)] = FlattenSeq(ArgsOf(rs)) /\ \A n \in 0 .. Len(rs) : f[n] \in Seq(Dir)
      /\ \A n \in 1 .. Len(rs) : f[n] = f[n - 1] \o ConfigArgs(rs[n])
  BY <1>0, <1>1, <1>2 DEF IsFlattening, ArgsOf
<1>. DEFINE Good(n, w) ==
              /\ w.args = p.args \o f[n]
              /\ \A ms : Unambiguous(ms) /\ (\A i \in 1 .. Len(rs) : ToSet(MountsToAdd(rs[i])) \subseteq ms) =>
                   \A file \in ToSet(f[n]) : Readable(w, file, ms)
            S == {x \in (0 .. Len(rs)) \X Pods(C) : Good(x[1], x[2])}
<1>4. <<0, p>> \in S
  <2>1. p.args \in Seq(Dir)
    BY DEF Pods
  <2>2. ToSet(<<>>) = {}
    BY SMT DEF ToSet
  <2>3. Good(0, p)
    BY <1>3, <2>1, <2>2, ConcatEmptySeq
  <2>. HIDE DEF Good
  <2>4. <<0, p>> \in (0 .. Len(rs)) \X Pods(C) /\ <<0, p>>[1] = 0 /\ <<0, p>>[2] = p
    BY <1>0, SMT
  <2>. QED BY <2>3, <2>4
<1>5. Kept(C, "configs", rs, S)
  <2>. SUFFICES ASSUME NEW n \in 1 .. Len(rs), NEW v \in Pods(C), NEW w \in Pods(C),
                       <<n - 1, v>> \in S, Changed("configs", v, w, rs[n])
                PROVE  <<n, w>> \in S
    BY DEF Kept
  <2>. PICK r : r = rs[n]
    OBVIOUS
  <2>1. Good(n - 1, v) /\ IsFileRequest(r) /\ r.containers = <<>> /\ n - 1 \in 0 .. Len(rs)
    <3>. HIDE DEF Good
    <3>. QED BY <1>0
  <2>2. ConfigMounted(v, w, r) /\ allContainers(v) = C
    <3>. HIDE DEF S
    <3>. QED BY ContainersKept DEF Changed
  <2>3. PICK u \in Pods(C) : FilesMounted(v, u, r) /\ w = [u EXCEPT !.args = v.args \o ConfigArgs(r)]
    BY <2>2 DEF ConfigMounted
  <2>4. w.mounts = u.mounts /\ w.volumes = u.volumes /\ w.args = v.args \o ConfigArgs(r) /\ Len(r.keys) <= 1
    <3>. HIDE DEF S
    <3>. QED BY <2>2, <2>3 DEF Pods, ConfigMounted
  <2>5. p.args \in Seq(Dir) /\ f[n - 1] \in Seq(Dir) /\ ConfigArgs(r) \in Seq(Dir) /\ f[n] = f[n - 1] \o ConfigArgs(r)
    <3>1. p.args \in Seq(Dir)
      BY DEF Pods
    <3>. QED BY <1>3, <2>1, <3>1, ConfigArgsType
  <2>6. w.args = p.args \o f[n]
    <3>1. v.args = p.args \o f[n - 1]
      BY <2>1
    <3>2. (p.args \o f[n - 1]) \o ConfigArgs(r) = p.args \o (f[n - 1] \o ConfigArgs(r))
      <4>1. Associate(p.args, f[n - 1], ConfigArgs(r))
        BY <2>5, Associated
      <4>. QED BY <4>1 DEF Associate
    <3>. QED BY <2>4, <2>5, <3>1, <3>2
  <2>7. ASSUME NEW ms, Unambiguous(ms), \A i \in 1 .. Len(rs) : ToSet(MountsToAdd(rs[i])) \subseteq ms,
               NEW file \in ToSet(f[n])
        PROVE  Readable(w, file, ms)
    <3>1. ToSet(MountsToAdd(r)) \subseteq ms
      BY <2>7
    <3>2. file \in ToSet(f[n - 1]) \/ file \in ToSet(ConfigArgs(r))
      <4>1. ToSet(f[n]) = ToSet(f[n - 1]) \cup ToSet(ConfigArgs(r))
        <5>1. ToSet(f[n - 1] \o ConfigArgs(r)) = ToSet(f[n - 1]) \cup ToSet(ConfigArgs(r))
          <6>. HIDE DEF S, Good
          <6>. QED BY <2>5, ConcatSet, SMT
        <5>. QED BY <2>5, <5>1
      <4>. QED BY <4>1
    <3>. CASE file \in ToSet(f[n - 1])
      <4>1. Readable(v, file, ms)
        BY <2>1, <2>7
      <4>2. Readable(u, file, ms)
        BY <2>3, <2>7, <3>1, <4>1, FilesReadable
      <4>. QED BY <2>4, <4>2, SameMounts
    <3>. CASE file \in ToSet(ConfigArgs(r))
      <4>1. Readable(u, file, ms)
        BY <2>1, <2>3, <2>4, <3>1, ConfigReadable
      <4>. QED BY <2>4, <4>1, SameMounts
    <3>. QED BY <3>2
  <2>8. Good(n, w)
    BY <2>6, <2>7
  <2>. HIDE DEF Good
  <2>9. <<n, w>> \in (0 .. Len(rs)) \X Pods(C) /\ <<n, w>>[1] = n /\ <<n, w>>[2] = w
    BY <1>0, SMT
  <2>. QED BY <2>8, <2>9
<1>6. \A r \in R : IsRequest("configs", r)
  BY DEF IsRequest
<1>7. <<Len(rs), q>> \in S
  <2>. HIDE DEF S
  <2>. QED BY <1>4, <1>5, <1>6, PodInduction DEF PodOps
<1>8. Good(Len(rs), q)
  <2>. HIDE DEF Good
  <2>. QED BY <1>7
<1>9. f[Len(rs)] \in Seq(Dir)
  BY <1>0, <1>3, SMT
<1>. QED BY <1>3, <1>8, <1>9

\* Claims: files that can be read, and paths at which no claim is.
LEMMA ClaimsRun ==
  ASSUME NEW C, IsFiniteSet(C), Main \in C, NEW p \in Pods(C),
         NEW R, NEW rs \in Seq(R), \A r \in R : IsClaimRequest(r), NEW q \in Run("claims", 0, {p}, rs)
  PROVE  q \in Pods(C) /\ ClaimsDone(C, p, q, rs)
<1>0. Len(rs) \in Nat /\ DOMAIN rs = 1 .. Len(rs) /\ \A n \in 1 .. Len(rs) : rs[n] \in R
  BY LenProperties, ElementOfSeq
<1>. DEFINE S == {x \in (0 .. Len(rs)) \X Pods(C) : ClaimsDone(C, p, x[2], rs)}
<1>1. <<0, p>> \in S
  <2>1. ClaimsDone(C, p, p, rs)
    BY DEF ClaimsDone
  <2>. QED BY <1>0, <2>1, SMT
<1>2. Kept(C, "claims", rs, S)
  <2>. SUFFICES ASSUME NEW n \in 1 .. Len(rs), NEW v \in Pods(C), NEW w \in Pods(C),
                       <<n - 1, v>> \in S, Changed("claims", v, w, rs[n])
                PROVE  <<n, w>> \in S
    BY DEF Kept
  <2>. PICK r : r = rs[n]
    OBVIOUS
  <2>1. ClaimsDone(C, p, v, rs) /\ IsClaimRequest(r) /\ ClaimMounted(v, w, r) /\ r \in ToSet(rs)
    BY <1>0 DEF Changed, ToSet
  <2>2. w.env = v.env /\ w.envFrom = v.envFrom /\ w.args = v.args /\ w.image = v.image
    BY <2>1 DEF ClaimMounted
  <2>3. MountsResolved(v) => MountsResolved(w)
    BY <2>1, ClaimResolved
  <2>4. \A ms, file : Readable(v, file, ms) => Readable(w, file, ms)
    BY <2>1, ClaimReadable
  <2>5. ASSUME NEW all, NEW k, NEW c \in C, NEW path,
               path \notin {x.path : x \in ToSet(rs)}, Overridden(p, all, k, c, path)
        PROVE  Overridden(w, all, k, c, path)
    <3>1. Overridden(v, all, k, c, path)
      BY <2>1, <2>5 DEF ClaimsDone
    <3>2. path # r.path
      BY <2>1, <2>5
    <3>. QED BY <2>1, <3>1, <3>2, ClaimOverridden
  <2>6. ClaimsDone(C, p, w, rs)
    BY <2>1, <2>2, <2>3, <2>4, <2>5 DEF ClaimsDone
  <2>. QED BY <1>0, <2>6, SMT
<1>3. \A r \in R : IsRequest("claims", r)
  BY DEF IsRequest
<1>4. q \in Pods(C) /\ <<Len(rs), q>> \in S
  <2>. HIDE DEF S
  <2>. QED BY <1>1, <1>2, <1>3, PodInduction DEF PodOps
<1>. QED BY <1>4

LEMMA ExtraEnvsRun ==
  ASSUME NEW C, IsFiniteSet(C), Main \in C, NEW p \in Pods(C),
         NEW rs \in Seq(Env), NEW q \in Run("extra", 0, {p}, rs)
  PROVE  q \in Pods(C) /\ RestKept(p, q) /\ q.envFrom = p.envFrom
<1>0. Len(rs) \in Nat
  BY LenProperties
<1>. DEFINE S == {x \in (0 .. Len(rs)) \X Pods(C) : RestKept(p, x[2]) /\ x[2].envFrom = p.envFrom}
<1>1. <<0, p>> \in S
  BY <1>0, SMT DEF RestKept
<1>2. Kept(C, "extra", rs, S)
  BY <1>0, SMT DEF Kept, Changed, EnvSet, RestKept
<1>3. \A r \in Env : IsRequest("extra", r)
  BY DEF IsRequest
<1>4. q \in Pods(C) /\ <<Len(rs), q>> \in S
  <2>. HIDE DEF S
  <2>. QED BY <1>1, <1>2, <1>3, PodInduction DEF PodOps
<1>. QED BY <1>4

LEMMA EnvAddsSecrets ==
  ASSUME NEW C, Main \in C, NEW p \in Pods(C), NEW q \in Pods(C), NEW r, EnvAdded(p, q, r)
  PROVE  /\ SecretsOf(p) \subseteq SecretsOf(q)
         /\ SecretsOf(q) \subseteq SecretsOf(p) \cup (IF r.kind = "secret" THEN {r.name} ELSE {})
         /\ r.kind = "secret" /\ r.key = "" /\ r.containers = <<>> => r.name \in SecretsOf(q)
<1>. PICK src, old, new : /\ src = [kind |-> r.kind, object |-> r.name]
                          /\ old = p.envFrom[Main] /\ new = q.envFrom[Main]
  OBVIOUS
<1>0. src.kind = r.kind /\ src.object = r.name
  OBVIOUS
<1>1. /\ old \in Seq(Source) /\ new \in Seq(Source)
      /\ IF r.key = "" /\ IsFor(p, r, Main) THEN Extended(old, new, src) ELSE new = old
  <2>1. old \in Seq(Source) /\ new \in Seq(Source)
    BY DEF Pods
  <2>. QED BY <2>1, ContainersKept DEF EnvAdded
<1>2. /\ DOMAIN old = 1 .. Len(old) /\ DOMAIN new = 1 .. Len(new)
      /\ Len(old) \in Nat /\ Len(new) \in Nat
  BY <1>1, LenProperties
<1>3. ASSUME Extended(old, new, src)
      PROVE  /\ \A i \in DOMAIN old : i \in DOMAIN new /\ new[i] = old[i]
             /\ \A i \in DOMAIN new : new[i] = src \/ i \in DOMAIN old
             /\ Len(new) \in DOMAIN new /\ new[Len(new)] = src
  BY <1>2, <1>3, SMT DEF Extended
<1>4. ToSet(old) \subseteq ToSet(new) /\ ToSet(new) \subseteq ToSet(old) \cup {src}
  BY <1>1, <1>3 DEF ToSet
<1>5. Extended(old, new, src) => src \in ToSet(new)
  BY <1>3 DEF ToSet
<1>6. r.containers = <<>> => IsFor(p, r, Main)
  <2>1. r.containers = <<>> => <<Main>> \in getContainers(p, r.containers)
    BY DEF getContainers
  <2>2. Main \in ToSet(<<Main>>)
    BY SMT DEF ToSet
  <2>. QED BY <2>1, <2>2 DEF IsFor
<1>. QED BY <1>0, <1>1, <1>4, <1>5, <1>6 DEF SecretsOf

LEMMA EnvsRun ==
  ASSUME NEW C, IsFiniteSet(C), Main \in C, NEW p \in Pods(C),
         NEW R, NEW rs \in Seq(R), \A r \in R : IsEnvRequest(r), NEW q \in Run("envs", 0, {p}, rs)
  PROVE  /\ q \in Pods(C) /\ RestKept(p, q) /\ SecretsAdded(p, q, rs)
         /\ \A n \in 1 .. Len(rs) : rs[n].kind = "secret" /\ rs[n].key = "" /\ rs[n].containers = <<>> =>
              rs[n].name \in SecretsOf(q)
<1>0. Len(rs) \in Nat /\ DOMAIN rs = 1 .. Len(rs) /\ \A n \in 1 .. Len(rs) : rs[n] \in R
  BY LenProperties, ElementOfSeq
<1>. DEFINE Whole(n) == rs[n].kind = "secret" /\ rs[n].key = "" /\ rs[n].containers = <<>>
            Good(n, w) == /\ RestKept(p, w) /\ SecretsAdded(p, w, rs)
                          /\ \A k \in 1 .. n : Whole(k) => rs[k].name \in SecretsOf(w)
            S == {x \in (0 .. Len(rs)) \X Pods(C) : Good(x[1], x[2])}
<1>1. <<0, p>> \in S
  <2>1. RestKept(p, p) /\ SecretsAdded(p, p, rs)
    BY DEF RestKept, SecretsAdded
  <2>2. Good(0, p)
    <3>. HIDE DEF Whole
    <3>. QED BY <2>1, SMT
  <2>. HIDE DEF Good
  <2>. QED BY <1>0, <2>2, SMT
<1>2. Kept(C, "envs", rs, S)
  <2>. SUFFICES ASSUME NEW n \in 1 .. Len(rs), NEW v \in Pods(C), NEW w \in Pods(C),
                       <<n - 1, v>> \in S, Changed("envs", v, w, rs[n])
                PROVE  <<n, w>> \in S
    BY DEF Kept
  <2>. PICK r : r = rs[n]
    OBVIOUS
  <2>1. Good(n - 1, v) /\ EnvAdded(v, w, r) /\ r \in ToSet(rs)
    <3>. HIDE DEF Good
    <3>. QED BY <1>0 DEF Changed, ToSet
  <2>2. /\ SecretsOf(v) \subseteq SecretsOf(w)
        /\ SecretsOf(w) \subseteq SecretsOf(v) \cup (IF r.kind = "secret" THEN {r.name} ELSE {})
        /\ Whole(n) => r.name \in SecretsOf(w)
    BY <2>1, EnvAddsSecrets
  <2>3. RestKept(p, w)
    BY <2>1 DEF RestKept, EnvAdded
  <2>4. SecretsAdded(p, w, rs)
    <3>. HIDE DEF S
    <3>. QED BY <2>1, <2>2 DEF SecretsAdded
  <2>5. ASSUME NEW k \in 1 .. n, Whole(k) PROVE rs[k].name \in SecretsOf(w)
    <3>. HIDE DEF Whole, S
    <3>. CASE k = n
      BY <2>2, <2>5
    <3>. CASE k # n
      <4>1. k \in 1 .. n - 1
        BY SMT
      <4>. QED BY <2>1, <2>2, <2>5, <4>1
    <3>. QED OBVIOUS
  <2>6. Good(n, w)
    <3>. HIDE DEF Whole
    <3>. QED BY <2>3, <2>4, <2>5
  <2>. HIDE DEF Good
  <2>. QED BY <1>0, <2>6, SMT
<1>3. \A r \in R : IsRequest("envs", r)
  BY DEF IsRequest
<1>4. q \in Pods(C) /\ <<Len(rs), q>> \in S
  <2>. HIDE DEF S
  <2>. QED BY <1>1, <1>2, <1>3, PodInduction DEF PodOps
<1>5. Good(Len(rs), q)
  <2>. HIDE DEF Good
  <2>. QED BY <1>4
<1>. QED BY <1>4, <1>5

-----------------------------------------------------------------------------
(* The promises                                                             *)

LEMMA FilesPromised == FilesPromise /\ ConfigsPromise
<1>1. "files" \in {"files", "configs"} /\ "configs" \in {"files", "configs"}
  OBVIOUS
<1>2. ASSUME NEW C, NEW p, NEW R, NEW rs \in Seq(R), \A r \in R : IsFileRequest(r), PodOf(C, p),
             NEW q \in Run("files", 0, {p}, rs)
      PROVE  OnlyFilesMounted(C, p, q, rs)
  BY <1>1, <1>2, FilesRun, FilesArgs DEF PodOf, FilesMountedFor, OnlyFilesMounted
<1>3. ASSUME NEW C, NEW p, NEW R, NEW rs \in Seq(R), \A r \in R : IsFileRequest(r) /\ r.containers = <<>>,
             PodOf(C, p), NEW q \in Run("configs", 0, {p}, rs)
      PROVE  FilesMountedFor(C, p, q, rs) /\ ConfigsRead(p, q, rs)
  <2>1. FilesMountedFor(C, p, q, rs)
    BY <1>1, <1>3, FilesRun DEF PodOf, FilesMountedFor
  <2>. QED BY <1>3, <2>1, ConfigsArgs DEF PodOf, ConfigsRead
<1>4. \A p, rs : All(mountFilesFrom, p, rs) = Run("files", 0, {p}, rs)
  BY PodLoopRun
<1>5. \A p, rs : All(updatePodWithAppConfig, p, rs) = Run("configs", 0, {p}, rs)
  BY PodLoopRun
<1>6. FilesPromise
  BY <1>2, <1>4 DEF FilesPromise
<1>. QED BY <1>3, <1>5, <1>6 DEF ConfigsPromise

LEMMA FilePromised == FilePromise
<1>. SUFFICES ASSUME NEW C, NEW p, NEW r, NEW q \in mountFilesFrom(p, r), PodOf(C, p), IsFileRequest(r)
              PROVE  OnlyFilesMounted(C, p, q, <<r>>)
  BY DEF FilePromise
<1>1. p \in Pods(C) /\ Main \in C /\ q \in Pods(C) /\ FilesMounted(p, q, r)
  BY MountFilesFrom DEF PodOf
<1>2. Len(<<r>>) = 1 /\ <<r>>[1] = r
  OBVIOUS
<1>3. FilesDone(p, q) /\ q.args = p.args
  BY <1>1, FilesResolved DEF FilesDone, FilesMounted
<1>4. OverriddenBy(C, p, q, <<r>>, 1)
  <2>. SUFFICES ASSUME NEW all, NEW k \in Nat, all[k + 1] = r, NEW c \in C, NEW path, Overridden(p, all, k, c, path)
                PROVE  Overridden(q, all, k + 1, c, path)
    BY <1>2, SMT DEF OverriddenBy, Follows
  <2>. QED BY <1>1, FilesOverridden
<1>5. ReadableStill(p, q, <<r>>)
  <2>. SUFFICES ASSUME NEW ms, NEW file, Unambiguous(ms), ToSet(MountsToAdd(r)) \subseteq ms, Readable(p, file, ms)
                PROVE  Readable(q, file, ms)
    BY <1>2, SMT DEF ReadableStill
  <2>. QED BY <1>1, FilesReadable
<1>. QED BY <1>1, <1>2, <1>3, <1>4, <1>5 DEF FilesMountedFor, OnlyFilesMounted

LEMMA ClaimsPromised == ClaimsPromise
<1>1. ASSUME NEW C, NEW p, NEW R, NEW rs \in Seq(R), \A r \in R : IsClaimRequest(r), PodOf(C, p),
             NEW q \in Run("claims", 0, {p}, rs)
      PROVE  q \in Pods(C) /\ ClaimsDone(C, p, q, rs)
  BY <1>1, ClaimsRun DEF PodOf
<1>2. \A p, rs : All(addPvc, p, rs) = Run("claims", 0, {p}, rs)
  BY PodLoopRun
<1>. QED BY <1>1, <1>2 DEF ClaimsPromise

LEMMA EnvsPromised == EnvsPromise /\ ExtraEnvsPromise
<1>1. ASSUME NEW C, NEW p, NEW R, NEW rs \in Seq(R), \A r \in R : IsEnvRequest(r), PodOf(C, p),
             NEW q \in Run("envs", 0, {p}, rs)
      PROVE  q \in Pods(C) /\ RestKept(p, q) /\ SecretsAdded(p, q, rs) /\ WholeSecrets(q, rs)
  BY <1>1, EnvsRun DEF PodOf, WholeSecrets
<1>2. ASSUME NEW C, NEW p, NEW rs \in Seq(Env), PodOf(C, p), NEW q \in Run("extra", 0, {p}, rs)
      PROVE  OnlyEnvSet(C, p, q)
  BY <1>2, ExtraEnvsRun DEF PodOf, OnlyEnvSet
<1>3. \A p, rs : All(addEnvVarsFrom, p, rs) = Run("envs", 0, {p}, rs)
  BY PodLoopRun
<1>4. \A p, rs : All(addExtraEnv, p, rs) = Run("extra", 0, {p}, rs)
  BY PodLoopRun
<1>5. EnvsPromise
  BY <1>1, <1>3 DEF EnvsPromise
<1>6. ExtraEnvsPromise
  BY <1>2, <1>4 DEF ExtraEnvsPromise
<1>. QED BY <1>5, <1>6

-----------------------------------------------------------------------------
(* Workloads                                                                *)

LEMMA VariablesLoopRun == \A env, vs : FoldLeft(setOrAppendEnvVar, env, vs) = Run("variables", 0, env, vs)
BY SMT DEF Run, Solves, Greatest, FoldLeft, MapThenFoldSet, Max, Round

LEMMA WorkloadsLoopRun == \A d, ds : FoldLeft(MergeStrings, d, ds) = Run("workloads", 0, d, ds)
BY SMT DEF Run, Solves, Greatest, FoldLeft, MapThenFoldSet, Max, Round

LEMMA VariablesPromised == VariablesPromise
<1>. SUFFICES ASSUME NEW env \in Seq(Variable), NEW vs \in Seq(Variable)
              PROVE  FoldLeft(setOrAppendEnvVar, env, vs) \in Seq(Variable)
  BY DEF VariablesPromise
<1>0. Len(vs) \in Nat /\ \A n \in 1 .. Len(vs) : vs[n] \in Variable
  BY SMT
<1>1. PICK f : IsTrace(f, "variables", 0, env, vs)
  BY LoopTrace
<1>2. f[0] = env /\ \A n \in 1 .. Len(vs) : f[n] = setOrAppendEnvVar(f[n - 1], vs[n])
  BY <1>1 DEF IsTrace, Round
<1>6. \A e \in Seq(Variable), v \in Variable : setOrAppendEnvVar(e, v) \in Seq(Variable)
  BY SetOrAppendSets DEF Set
<1>. DEFINE T == {n \in Nat : f[n] \in Seq(Variable)}
<1>3. 0 \in T
  BY <1>2
<1>4. ASSUME NEW n \in 1 .. Len(vs), n - 1 \in T PROVE n \in T
  <2>1. f[n] = setOrAppendEnvVar(f[n - 1], vs[n]) /\ f[n - 1] \in Seq(Variable) /\ vs[n] \in Variable
    BY <1>0, <1>2, <1>4
  <2>2. setOrAppendEnvVar(f[n - 1], vs[n]) \in Seq(Variable)
    BY <1>6, <2>1
  <2>. QED BY <2>1, <2>2, SMT
<1>5. Len(vs) \in T
  <2>. HIDE DEF T
  <2>1. \A n \in 0 .. Len(vs) : n \in T
    BY <1>0, <1>3, <1>4, RoundInduction
  <2>. QED BY <1>0, <2>1, SMT
<1>. QED BY <1>1, <1>5, VariablesLoopRun DEF IsTrace

LEMMA MergedWorkload ==
  ASSUME NEW d, NEW e, IsWorkload(d), IsWorkload(e)
  PROVE  IsWorkload(MergeStrings(d, e))
<1>. DEFINE Of(x, c) == IF c \in DOMAIN x.env THEN x.env[c] ELSE <<>>
            C == DOMAIN d.env \cup DOMAIN e.env
            env == [c \in C |-> FoldLeft(setOrAppendEnvVar, Of(d, c), Of(e, c))]
<1>1. \A c \in C : Of(d, c) \in Seq(Variable) /\ Of(e, c) \in Seq(Variable)
  BY SmallSeqs DEF IsWorkload
<1>2. IsFiniteSet(C)
  BY FS_Union DEF IsWorkload
<1>3. MergeStrings(d, e) = [kind |-> e.kind, env |-> env]
  BY DEF MergeStrings
<1>. HIDE DEF Of
<1>4. env \in [C -> Seq(Variable)]
  BY <1>1, VariablesPromised DEF VariablesPromise
<1>. HIDE DEF env, C
<1>. QED BY <1>2, <1>3, <1>4, SMT DEF IsWorkload

LEMMA WorkloadsPromised == WorkloadsPromise
<1>. SUFFICES ASSUME NEW W, \A e \in W : IsWorkload(e), NEW d \in W, NEW ds \in Seq(W)
              PROVE  IsWorkload(FoldLeft(MergeStrings, d, ds))
  BY DEF WorkloadsPromise
<1>0. Len(ds) \in Nat /\ \A n \in 1 .. Len(ds) : ds[n] \in W
  BY SMT
<1>1. PICK f : IsTrace(f, "workloads", 0, d, ds)
  BY LoopTrace
<1>2. f[0] = d /\ \A n \in 1 .. Len(ds) : f[n] = MergeStrings(f[n - 1], ds[n])
  BY <1>1 DEF IsTrace, Round
<1>. DEFINE T == {n \in Nat : IsWorkload(f[n])}
<1>3. 0 \in T
  BY <1>2
<1>4. ASSUME NEW n \in 1 .. Len(ds), n - 1 \in T PROVE n \in T
  <2>1. IsWorkload(f[n])
    BY <1>0, <1>2, <1>4, MergedWorkload
  <2>. QED BY <2>1, SMT
<1>5. Len(ds) \in T
  <2>. HIDE DEF T
  <2>1. \A n \in 0 .. Len(ds) : n \in T
    BY <1>0, <1>3, <1>4, RoundInduction
  <2>. QED BY <1>0, <2>1, SMT
<1>. QED BY <1>1, <1>5, WorkloadsLoopRun DEF IsTrace

\* The operations on the Pod template keep their promises.
THEOREM PromisesKept == PodPromise
<1>1. MountsPromise
  BY SameMounts DEF MountsPromise
<1>2. FlattenPromise
  BY FlattenType DEF FlattenPromise
<1>. QED BY <1>1, <1>2, FilesPromised, FilePromised, ClaimsPromised, EnvsPromised, VariablesPromised,
            WorkloadsPromised DEF PodPromise
=============================================================================
