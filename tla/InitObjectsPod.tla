------------------------- MODULE InitObjectsPod --------------------------
(***************************************************************************)
(* What the Pod template is to begin with, and how the steps of            *)
(* InitObjects serve the requests for files, those of one object after     *)
(* those of the other: what is mounted where, and what Backstage reads.    *)
(***************************************************************************)
EXTENDS InitObjectsSteps

HIDE InputsAssumption
USE Zenon

-----------------------------------------------------------------------------
(* The workload                                                             *)

LEMMA NewPodUntouched ==
  ASSUME NEW C, NEW env \in [C -> Seq(Variable)]
  PROVE  Untouched(C, NewPod(env)) /\ NewPod(env).args = <<<<"dynamic-plugins-root", "app-config">>>>
<1>0. PICK none, vol, eph, dir, x, y, img :
        /\ none = "" /\ vol = "plugins-root" /\ eph = "ephemeral" /\ dir = "root"
        /\ x = "dynamic-plugins-root" /\ y = "app-config" /\ img = "default"
  OBVIOUS
<1>1. /\ none \in STRING /\ vol \in STRING /\ eph \in STRING /\ dir \in STRING /\ x \in STRING /\ y \in STRING
      /\ img \in Images
  BY <1>0, Texts DEF Images
<1>. DEFINE v == [name |-> vol, kind |-> eph, object |-> none]
            m == [path |-> <<dir>>, volume |-> vol, sub |-> none]
            p == [volumes |-> <<v>>, mounts |-> [c \in C |-> <<m>>], env |-> env,
                  envFrom |-> [c \in C |-> <<>>], args |-> <<<<x, y>>>>, image |-> img]
<1>2. NewPod(env) = p
  BY <1>0 DEF NewPod
<1>3. v \in Volume /\ v.name = vol
  BY <1>1, SMT DEF Volume
<1>4. m \in Mount /\ m.volume = vol
  BY <1>1, SMT DEF Mount, Dir
<1>5. <<x, y>> \in Dir
  <2>1. \A S : \A a, b \in S : <<a, b>> \in Seq(S)
    BY SMT
  <2>. QED BY <1>1, <2>1 DEF Dir
<1>. HIDE DEF v, m
<1>6. p \in Pods(C)
  BY <1>1, <1>3, <1>4, <1>5, SMT DEF Pods
<1>7. MountsResolved(p)
  BY <1>3, <1>4, SMT DEF MountsResolved, allContainers, ToSet
<1>8. \A c \in C : p.envFrom[c] = <<>> /\ Len(p.mounts[c]) = 1
  BY SMT
<1>9. p.args = <<<<x, y>>>>
  OBVIOUS
<1>. HIDE DEF p
<1>. QED BY <1>0, <1>2, <1>6, <1>7, <1>8, <1>9 DEF Untouched

LEMMA ImagesAdjusted ==
  ASSUME PodPromise, NEW C, NEW p, Untouched(C, p)
  PROVE  /\ Untouched(C, AdjustImages(p))
         /\ AdjustImages(p).args = IF in.op.operatorDp /\ Installer \in C THEN <<>> ELSE p.args
<1>1. p \in Pods(C) /\ allContainers(p) = C
  BY ContainersAre DEF Untouched
<1>. DEFINE dedicated == in.op.operatorDp /\ Installer \in C
<1>2. PICK img \in Images, args \in Seq(Dir) :
        AdjustImages(p) = [p EXCEPT !.image = img, !.args = args] /\ args = IF dedicated THEN <<>> ELSE p.args
  <2>1. "installer" \in Images /\ "backstage" \in Images /\ p.image \in Images
        /\ p.args \in Seq(Dir) /\ <<>> \in Seq(Dir)
    BY <1>1, SMT DEF Images, Pods
  <2>. QED BY <1>1, <2>1 DEF AdjustImages
<1>. DEFINE q == AdjustImages(p)
<1>3. q \in Pods(C) /\ q.args = args /\ q.mounts = p.mounts /\ q.volumes = p.volumes /\ q.envFrom = p.envFrom
  BY <1>1, <1>2 DEF Pods
<1>. HIDE DEF q
<1>4. MountsResolved(q)
  BY <1>3 DEF Untouched, PodPromise, MountsPromise
<1>. QED BY <1>2, <1>3, <1>4 DEF Untouched, q

\* The patch and the variables of the spec leave the rest as it is.
LEMMA DeploymentSet ==
  ASSUME PodPromise, in \in Inputs, NEW C, IsFiniteSet(C), Main \in C, NEW p, Untouched(C, p),
         NEW q \in setDeployment(p)
  PROVE  Untouched(C, q) /\ q.args = p.args
<1>0. PICK given, NV, vs : /\ given = in.spec.deployment.env /\ NV = [name : STRING, value : STRING]
                            /\ vs = [i \in DOMAIN given |-> Value(given[i])]
  OBVIOUS
<1>1. given \in Seq(NV)
  BY <1>0, SpecType DEF BackstageDeployment
<1>2. vs \in Seq(Variable)
  <2>1. ASSUME NEW e \in NV PROVE Value(e) \in Variable
    <3>1. PICK k \in STRING : k = "value"
      BY TextsAssumption
    <3>2. Value(e) = [name |-> e.name, from |-> [kind |-> k, object |-> e.value]]
      BY <3>1 DEF Value
    <3>3. e.name \in STRING /\ e.value \in STRING
      BY <1>0, SMT
    <3>. QED BY <3>2, <3>3, SMT DEF Variable, Source
  <2>2. \A i \in DOMAIN given : Value(given[i]) \in Variable
    BY <1>1, <2>1, ElementsOf
  <2>3. vs \in [DOMAIN given -> Variable]
    BY <1>0, <2>2
  <2>. QED BY <1>1, <2>3, SeqByElements
<1>3. PICK img \in Images, new \in Seq(Variable) :
        setDeployment(p) = All(addExtraEnv, [p EXCEPT !.image = img, !.env[Main] = new], in.spec.extraEnvs.envs)
  <2>1. p.image \in Images /\ p.env[Main] \in Seq(Variable) /\ "patch" \in Images
    BY SMT DEF Untouched, Pods, Images
  <2>2. FoldLeft(setOrAppendEnvVar, p.env[Main], vs) \in Seq(Variable)
    BY <1>2, <2>1 DEF PodPromise, VariablesPromise
  <2>. QED BY <1>0, <2>1, <2>2 DEF setDeployment
<1>4. PICK w : w = [p EXCEPT !.image = img, !.env[Main] = new]
  OBVIOUS
<1>5. w \in Pods(C) /\ w.mounts = p.mounts /\ w.volumes = p.volumes /\ w.envFrom = p.envFrom /\ w.args = p.args
  BY <1>4 DEF Untouched, Pods
<1>6. OnlyEnvSet(C, w, q)
  <2>1. q \in All(addExtraEnv, w, in.spec.extraEnvs.envs) /\ in.spec.extraEnvs.envs \in Seq(Env)
    BY <1>3, <1>4, SpecType
  <2>. QED BY <1>5, <2>1 DEF PodPromise, ExtraEnvsPromise, PodOf
<1>7. q.mounts = p.mounts /\ q.volumes = p.volumes /\ q.envFrom = p.envFrom /\ q.args = p.args
  BY <1>5, <1>6 DEF OnlyEnvSet, RestKept
<1>8. MountsResolved(q)
  BY <1>7 DEF Untouched, PodPromise, MountsPromise
<1>. QED BY <1>6, <1>7, <1>8 DEF Untouched, OnlyEnvSet

LEMMA DeploymentAdded ==
  ASSUME PodPromise, ModelInv
  PROVE  Begins
<1>. SUFFICES ASSUME AddDeployment, ~Fail
              PROVE  /\ \E C : StartsWith(C)
                     /\ \E k \in Deployables : objects' = [objects EXCEPT !.kind = k]
                     /\ pc = "deployment" /\ pc' = "sources" /\ UNCHANGED <<in, flavours, sources, data, enabled>>
  BY DEF Begins
<1>0. in \in Inputs /\ flavours \in Seq(DOMAIN Flavours)
  BY DEF ModelInv
<1>. DEFINE ds == Chosen("deployment")
            d  == IF in.raw.deployment # <<>> THEN Head(ds) ELSE mergeDeployments(ds)
<1>1. /\ ds # <<>> /\ d.kind \in Deployables /\ Main \in DOMAIN d.env
      /\ pod' \in setDeployment(AdjustImages(NewPod(d.env)))
      /\ objects' = [objects EXCEPT !.kind = ConvertTo(d.kind, in.spec.deployment.kind)]
      /\ pc = "deployment" /\ pc' = "sources" /\ UNCHANGED <<in, flavours, sources, data, enabled>>
  BY DEF AddDeployment, GoTo
<1>2. IsWorkload(d)
  <2>1. PICK W : /\ \A x \in W : IsWorkload(x)
                 /\ ds \in Seq(W) /\ in.patches[Extension] \in Seq(W)
    BY <1>0, WorkloadsType
  <2>. HIDE DEF ds
  <2>2. Head(ds) \in W /\ Tail(ds) \in Seq(W)
    BY <1>1, <2>1, SMT
  <2>3. Tail(ds) \o in.patches[Extension] \in Seq(W)
    BY <2>1, <2>2, Joined
  <2>4. IsWorkload(mergeDeployments(ds))
    BY <2>1, <2>2, <2>3 DEF mergeDeployments, PodPromise, WorkloadsPromise
  <2>. QED BY <2>1, <2>2, <2>4
<1>. HIDE DEF d
<1>. DEFINE C == DOMAIN d.env
<1>3. IsFiniteSet(C) /\ d.env \in [C -> Seq(Variable)]
  BY <1>2 DEF IsWorkload
<1>4. Untouched(C, NewPod(d.env)) /\ NewPod(d.env).args = <<<<"dynamic-plugins-root", "app-config">>>>
  BY <1>3, NewPodUntouched
<1>. HIDE DEF C
<1>5. StartsWith(C)
  <2>1. Main \in C
    BY <1>1 DEF C
  <2>2. PICK p : p = AdjustImages(NewPod(d.env))
    OBVIOUS
  <2>3. /\ Untouched(C, p)
        /\ p.args = IF in.op.operatorDp /\ Installer \in C THEN <<>> ELSE NewPod(d.env).args
    BY <1>4, <2>2, ImagesAdjusted
  <2>4. Untouched(C, pod') /\ pod'.args = p.args
    BY <1>0, <1>1, <1>3, <2>1, <2>2, <2>3, DeploymentSet
  <2>. QED BY <1>3, <1>4, <2>1, <2>3, <2>4 DEF StartsWith
<1>6. ConvertTo(d.kind, in.spec.deployment.kind) \in Deployables
  <2>1. in.spec.deployment.kind \in {"", "Deployment", "StatefulSet"}
    BY <1>0, SpecType DEF BackstageDeployment
  <2>. QED BY <1>1, <2>1 DEF ConvertTo, OrElse, Deployables
<1>. QED BY <1>1, <1>5, <1>6

-----------------------------------------------------------------------------
(* The requests for files, one part after the other                         *)

Halves(S, u, s, t) ==
  /\ u \in Seq(S) /\ Len(u) = Len(s) + Len(t) /\ Len(s) \in Nat /\ Len(t) \in Nat
  /\ \A n \in 1 .. Len(s) : u[n] = s[n]
  /\ \A n \in 1 .. Len(t) : u[Len(s) + n] = t[n]

LEMMA TwoHalves == ASSUME NEW S, NEW s \in Seq(S), NEW t \in Seq(S) PROVE Halves(S, s \o t, s, t)
BY SMT DEF Halves

PartsOf(S, all, a, b, c, d) ==
  /\ Follows(all, 0, a) /\ Follows(all, Len(a), b) /\ Follows(all, Len(a) + Len(b), c)
  /\ Follows(all, Len(a) + Len(b) + Len(c), d)
  /\ all \in Seq(S) /\ Len(all) = Len(a) + Len(b) + Len(c) + Len(d)

LEMMA Parts ==
  ASSUME NEW S, NEW a \in Seq(S), NEW b \in Seq(S), NEW c \in Seq(S), NEW d \in Seq(S)
  PROVE  PartsOf(S, a \o b \o c \o d, a, b, c, d)
<1>. DEFINE ab == a \o b
            abc == ab \o c
            all == abc \o d
<1>1. Halves(S, ab, a, b) /\ ab \in Seq(S)
  BY TwoHalves, Joined
<1>. HIDE DEF ab
<1>2. Halves(S, abc, ab, c) /\ abc \in Seq(S)
  BY <1>1, TwoHalves, Joined
<1>. HIDE DEF abc
<1>3. Halves(S, all, abc, d) /\ all \in Seq(S)
  BY <1>2, TwoHalves, Joined
<1>. HIDE DEF all
<1>4. Len(a) \in Nat /\ Len(b) \in Nat /\ Len(c) \in Nat /\ Len(d) \in Nat
  BY LenProperties
<1>5. /\ Len(ab) = Len(a) + Len(b) /\ Len(abc) = Len(a) + Len(b) + Len(c)
      /\ Len(all) = Len(a) + Len(b) + Len(c) + Len(d)
  BY <1>1, <1>2, <1>3, SMT DEF Halves
<1>6. \A n \in 1 .. Len(a) : all[0 + n] = a[n]
  BY <1>1, <1>2, <1>3, <1>4, <1>5, SMT DEF Halves
<1>7. ASSUME NEW n \in 1 .. Len(b) PROVE all[Len(a) + n] = b[n]
  <2>1. /\ Len(a) + n \in 1 .. Len(ab) /\ Len(a) + n \in 1 .. Len(abc)
    BY <1>4, <1>5, SMT
  <2>. QED BY <1>1, <1>2, <1>3, <2>1 DEF Halves
<1>8. \A n \in 1 .. Len(c) : all[Len(a) + Len(b) + n] = c[n]
  BY <1>2, <1>3, <1>4, <1>5, SMT DEF Halves
<1>9. \A n \in 1 .. Len(d) : all[Len(a) + Len(b) + Len(c) + n] = d[n]
  BY <1>3, <1>4, <1>5, SMT DEF Halves
<1>10. PartsOf(S, all, a, b, c, d)
  BY <1>3, <1>4, <1>5, <1>6, <1>7, <1>8, <1>9, SMT DEF PartsOf, Follows
<1>. QED BY <1>10 DEF all, abc, ab

\* How many are served.
SumsAt(at, a, b, c, d) ==
  /\ at \notin ConfigsServed => ServedAt(at, a, b, c, d) = 0
  /\ at \in ConfigsServed \ FilesServed => ServedAt(at, a, b, c, d) = a
  /\ at \in FilesServed \ PluginsServed => ServedAt(at, a, b, c, d) = a + b
  /\ at \in PluginsServed \ SecretsServed => ServedAt(at, a, b, c, d) = a + b + c
  /\ at \in SecretsServed => ServedAt(at, a, b, c, d) = a + b + c + d

LEMMA Sums == ASSUME NEW at, NEW a \in Nat, NEW b \in Nat, NEW c \in Nat, NEW d \in Nat PROVE SumsAt(at, a, b, c, d)
BY Stages, SMT DEF SumsAt, ServedAt

LEMMA AskedTypes ==
  ASSUME PodPromise, ModelInv
  PROVE  /\ ConfigsAsked \in Seq(FileRequest) /\ FileRequests \in Seq(FileRequest)
         /\ PluginsRequests \in Seq(FileRequest) /\ SecretRequests \in Seq(FileRequest)
<1>1. ConfigsAsked \in Seq(ConfigRequest)
  BY ItemsType, AppConfigRequestsType DEF ModelInv, ConfigsAsked
<1>2. \A r \in ConfigRequest : r \in FileRequest
  BY DEF ConfigRequest
<1>3. PluginsRequests \in Seq(FileRequest)
  BY PluginsRequestType, ShortSeqs DEF PluginsRequests
<1>. QED BY <1>1, <1>2, <1>3, Wider, RequestTypes DEF ModelInv

\* The requests rs are the next ones to be served, and they are.
ServesNext(rs) ==
  /\ ServedBy(rs) /\ Follows(AllAsked, Served, rs) /\ Served' = Served + Len(rs)
  /\ \A i \in 1 .. Len(rs) : ToSet(MountsToAdd(rs[i])) \subseteq FileMounts

LEMMA MountsOfPart ==
  ASSUME ModelInv, NEW k, NEW rs \in Seq(FileRequest), Follows(AllAsked, k, rs), k + Len(rs) <= Len(AllAsked),
         AllAsked \in Seq(FileRequest)
  PROVE  \A i \in 1 .. Len(rs) : ToSet(MountsToAdd(rs[i])) \subseteq FileMounts
<1>1. ASSUME NEW i \in 1 .. Len(rs) PROVE k + i \in DOMAIN AllAsked /\ AllAsked[k + i] = rs[i]
  BY SMT DEF Follows
<1>2. ASSUME NEW i \in 1 .. Len(rs) PROVE rs[i] \in ToSet(AllAsked)
  BY <1>1 DEF ToSet
<1>. QED BY <1>2 DEF FileMounts

LEMMA ServedSteps ==
  ASSUME PodPromise, ModelInv, PodInv, AppConfigsInv, ConfigsStep \/ MountsFiles \/ PluginsMounted
  PROVE  /\ \E rs : ServesNext(rs)
         /\ MountsFiles \/ PluginsMounted =>
              pod'.args = pod.args /\ pc \in ConfigsServed /\ pc' \in ConfigsServed
         /\ ConfigsStep => ServesNext(ConfigsAsked) /\ pc \in PodAdded \ ConfigsServed /\ pc' \in ConfigsServed
<1>. DEFINE a == ConfigsAsked
            b == FileRequests
            c == PluginsRequests
            d == SecretRequests
            la == Len(a)
            lb == Len(b)
            lc == Len(c)
            ld == Len(d)
<1>1. a \in Seq(FileRequest) /\ b \in Seq(FileRequest) /\ c \in Seq(FileRequest) /\ d \in Seq(FileRequest)
  BY AskedTypes
<1>2. UNCHANGED <<a, b, c, d>>
  BY MovesServe, SameAsked
<1>3. AllAsked = a \o b \o c \o d
  BY DEF AllAsked
<1>4. Served = ServedAt(pc, la, lb, lc, ld)
  BY DEF Served
<1>5. Served' = ServedAt(pc', la, lb, lc, ld)
  BY <1>2 DEF Served, ServedAt
<1>. HIDE DEF a, b, c, d
<1>6. PartsOf(FileRequest, AllAsked, a, b, c, d)
  BY <1>1, <1>3, Parts
<1>7. la \in Nat /\ lb \in Nat /\ lc \in Nat /\ ld \in Nat
  BY <1>1, LenProperties
<1>70. /\ Follows(AllAsked, 0, a) /\ Follows(AllAsked, la, b) /\ Follows(AllAsked, la + lb, c)
       /\ Follows(AllAsked, la + lb + lc, d)
       /\ AllAsked \in Seq(FileRequest) /\ Len(AllAsked) = la + lb + lc + ld
  BY <1>6 DEF PartsOf
<1>. HIDE DEF la, lb, lc, ld
<1>8. SumsAt(pc, la, lb, lc, ld) /\ SumsAt(pc', la, lb, lc, ld)
  BY <1>7, Sums
<1>9. /\ pc \notin ConfigsServed => Served = 0
      /\ pc \in ConfigsServed \ FilesServed => Served = la
      /\ pc \in FilesServed \ PluginsServed => Served = la + lb
      /\ pc \in PluginsServed \ SecretsServed => Served = la + lb + lc
      /\ pc' \in ConfigsServed \ FilesServed => Served' = la
      /\ pc' \in FilesServed \ PluginsServed => Served' = la + lb
      /\ pc' \in PluginsServed \ SecretsServed => Served' = la + lb + lc
      /\ pc' \in SecretsServed => Served' = la + lb + lc + ld
  BY <1>4, <1>5, <1>8 DEF SumsAt
<1>10. /\ 0 + la <= Len(AllAsked) /\ la + lb <= Len(AllAsked) /\ la + lb + lc <= Len(AllAsked)
       /\ la + lb + lc + ld <= Len(AllAsked) /\ 0 + la = la
  BY <1>70, <1>7, SMT
<1>11. ASSUME NEW k, NEW rs \in Seq(FileRequest), Follows(AllAsked, k, rs), k + Len(rs) <= Len(AllAsked)
       PROVE  \A i \in 1 .. Len(rs) : ToSet(MountsToAdd(rs[i])) \subseteq FileMounts
  BY <1>70, <1>11, MountsOfPart
<1>12. ASSUME ConfigsStep PROVE ServesNext(a) /\ pc \in PodAdded \ ConfigsServed /\ pc' \in ConfigsServed
  <2>1. pc \in PodAdded \ ConfigsServed /\ pc' \in ConfigsServed \ FilesServed
    BY <1>12, Stages, SMT DEF ConfigsStep, Goes
  <2>2. Served = 0 /\ Served' = 0 + la
    BY <1>9, <1>10, <2>1
  <2>3. ServedBy(a)
    BY <1>12, ConfigsServedBy DEF a
  <2>. QED BY <1>1, <1>70, <1>10, <1>11, <2>1, <2>2, <2>3 DEF ServesNext, la
<1>13. ASSUME PluginsMounted PROVE ServesNext(c) /\ pod'.args = pod.args /\ pc \in ConfigsServed /\ pc' \in ConfigsServed
  <2>1. pc \in FilesServed \ PluginsServed /\ pc' \in PluginsServed \ SecretsServed
    BY <1>13, Stages, SMT DEF PluginsMounted, Goes
  <2>2. ServedBy(c) /\ pod'.args = pod.args
    BY <1>13, PluginsServedBy DEF c
  <2>3. pc \in ConfigsServed /\ pc' \in ConfigsServed
    BY <2>1, Stages, SMT
  <2>. QED BY <1>1, <1>70, <1>9, <1>10, <1>11, <2>1, <2>2, <2>3 DEF ServesNext, lc
<1>14. ASSUME MountsFiles PROVE ServesNext(b) \/ ServesNext(d)
  <2>. CASE ServedBy(b) /\ pc \in ConfigsServed \ FilesServed /\ pc' \in FilesServed \ PluginsServed
    BY <1>1, <1>70, <1>9, <1>10, <1>11 DEF ServesNext, lb
  <2>. CASE ServedBy(d) /\ pc \in PluginsServed \ SecretsServed /\ pc' \in SecretsServed
    BY <1>1, <1>70, <1>9, <1>10, <1>11 DEF ServesNext, ld
  <2>. QED BY <1>14, FilesKeep DEF b, d
<1>15. ASSUME MountsFiles PROVE pod'.args = pod.args /\ pc \in ConfigsServed /\ pc' \in ConfigsServed
  BY <1>15, FilesKeep, Stages, SMT
<1>. QED BY <1>12, <1>13, <1>14, <1>15 DEF a

-----------------------------------------------------------------------------
(* Mounts and arguments                                                     *)

\* If none is served it does not matter which are asked for.
LEMMA NoneServed == \A p, rs, all, c, path : Overridden(p, rs, 0, c, path) => Overridden(p, all, 0, c, path)
<1>1. 1 .. 0 = {}
  BY SMT
<1>. QED BY <1>1, SMT DEF Overridden

LEMMA ServedMoves ==
  ASSUME SameModel
  PROVE  /\ Carried => Served' = Served
         /\ UNCHANGED <<AllAsked, FileMounts, ConfigFiles, ClaimPaths>>
<1>1. UNCHANGED <<ConfigsAsked, FileRequests, PluginsRequests, SecretRequests, AllAsked, ClaimPaths>>
  BY SameAsked
<1>2. Carried => Served' = Served
  BY <1>1 DEF Carried, Same, Served, ServedAt
<1>3. UNCHANGED <<FileMounts, ConfigFiles>>
  BY <1>1 DEF FileMounts, ConfigFiles
<1>. QED BY <1>1, <1>2, <1>3

LEMMA ServedZero ==
  /\ pc \notin ConfigsServed => Served = 0
  /\ pc' \notin ConfigsServed => Served' = 0
<1>1. \A at, a, b, c, d : at \notin ConfigsServed => ServedAt(at, a, b, c, d) = 0
  BY Stages, SMT DEF ServedAt
<1>2. \E a, b, c, d : Served' = ServedAt(pc', a, b, c, d)
  BY DEF Served, ServedAt
<1>. QED BY <1>1, <1>2 DEF Served

LEMMA MountsStep ==
  ASSUME PodPromise, Begins, ModelInv, ModelInv', PodInv, PodInv', AppConfigsInv, MountsInv, Next
  PROVE  MountsInv'
<1>. CASE Idle
  <2>. SUFFICES ASSUME pc' \in PodAdded PROVE MountsInv'
    BY DEF MountsInv
  <2>. CASE NothingServed(pc) /\ NothingServed(pc') /\ UNCHANGED <<in, pod, flavours>>
    <3>1. pc \in PodAdded /\ pc \notin ConfigsServed /\ pc' \notin ConfigsServed
      BY SMT DEF NothingServed
    <3>2. Served = 0 /\ Served' = 0
      BY <3>1, ServedZero
    <3>3. ClaimPaths' = ClaimPaths
      BY SameClaims
    <3>. QED BY <3>1, <3>2, <3>3, NoneServed DEF MountsInv
  <2>. CASE Carried /\ SameModel /\ UNCHANGED pod
    <3>1. UNCHANGED <<Served, AllAsked, ClaimPaths>>
      BY ServedMoves
    <3>2. pc \in PodAdded
      BY DEF Carried, Same
    <3>. QED BY <3>1, <3>2 DEF MountsInv
  <2>. QED BY DEF Idle
<1>. CASE AddDeployment /\ ~Fail
  <2>1. PICK C : Untouched(C, pod') /\ pc' = "sources"
    BY DEF Begins, StartsWith
  <2>2. allContainers(pod') = C
    BY <2>1, ContainersAre DEF Untouched
  <2>3. Served' = 0
    <3>1. pc' \notin ConfigsServed
      BY <2>1, Stages, SMT
    <3>. QED BY <3>1, ServedZero
  <2>. QED BY <2>1, <2>2, <2>3, UntouchedPod DEF MountsInv
<1>1. ASSUME AddsEnvs \/ MountsClaims \/ ConfigsStep \/ MountsFiles \/ PluginsMounted
      PROVE  MountsInv'
  <2>1. allContainers(pod') = allContainers(pod) /\ pc \in PodAdded
    BY <1>1, PodBecomes
  <2>2. SameModel
    BY <1>1, MovesCarry, MovesServe
  <2>3. UNCHANGED <<AllAsked, ClaimPaths>>
    BY <2>2, ServedMoves
  <2>. CASE AddsEnvs
    <3>1. Served' = Served
      BY <2>2, MovesCarry, ServedMoves
    <3>2. \A rs, n, c, path : Overridden(pod, rs, n, c, path) => Overridden(pod', rs, n, c, path)
      BY EnvsKeep DEF RestKept, PodPromise, MountsPromise
    <3>. QED BY <2>1, <2>3, <3>1, <3>2 DEF MountsInv
  <2>. CASE MountsClaims
    <3>1. Served' = Served
      BY <2>2, MovesCarry, ServedMoves
    <3>2. \A all, k : \A c \in allContainers(pod) : \A path :
            path \notin ClaimPaths /\ Overridden(pod, all, k, c, path) => Overridden(pod', all, k, c, path)
      BY ClaimsAdded DEF ClaimsDone, ClaimPaths
    <3>. QED BY <2>1, <2>3, <3>1, <3>2 DEF MountsInv
  <2>. CASE ConfigsStep \/ MountsFiles \/ PluginsMounted
    <3>1. PICK rs : ServesNext(rs)
      BY ServedSteps
    <3>2. \A c \in allContainers(pod) : \A path :
            Overridden(pod, AllAsked, Served, c, path) => Overridden(pod', AllAsked, Served', c, path)
      BY <3>1 DEF ServesNext, ServedBy, OverriddenBy
    <3>. QED BY <2>1, <2>3, <3>2 DEF MountsInv
  <2>. QED BY <1>1
<1>. QED BY <1>1, IdleSteps

LEMMA ArgsStep ==
  ASSUME PodPromise, Begins, ModelInv, PodInv, AppConfigsInv, ArgsInv, Next
  PROVE  ArgsInv'
<1>0. ConfigsServed \subseteq PodAdded
  BY Stages, SMT
<1>. CASE Idle
  <2>. CASE pc' \notin PodAdded
    BY <1>0 DEF ArgsInv
  <2>. CASE NothingServed(pc) /\ NothingServed(pc') /\ UNCHANGED <<in, pod>>
    <3>1. DefaultArgs' = DefaultArgs
      BY DEF DefaultArgs, HasInstaller
    <3>. QED BY <3>1 DEF ArgsInv, NothingServed
  <2>. CASE Carried /\ SameModel /\ UNCHANGED <<in, pod>>
    <3>1. DefaultArgs' = DefaultArgs
      BY DEF DefaultArgs, HasInstaller
    <3>2. UNCHANGED <<FileMounts, ConfigFiles>>
      BY ServedMoves
    <3>3. Same(PodAdded) /\ Same(ConfigsServed)
      BY DEF Carried
    <3>. QED BY <3>1, <3>2, <3>3 DEF ArgsInv, Same
  <2>. QED BY DEF Idle
<1>. CASE AddDeployment /\ ~Fail
  <2>1. PICK C : StartsWith(C) /\ pc' = "sources" /\ in' = in
    BY DEF Begins
  <2>2. allContainers(pod') = C
    BY <2>1, ContainersAre DEF Untouched, StartsWith
  <2>3. pod'.args = DefaultArgs'
    BY <2>1, <2>2 DEF StartsWith, DefaultArgs, HasInstaller
  <2>4. pc' \notin ConfigsServed
    BY <2>1, Stages, SMT
  <2>. QED BY <2>3, <2>4 DEF ArgsInv
<1>1. ASSUME AddsEnvs \/ MountsClaims \/ ConfigsStep \/ MountsFiles \/ PluginsMounted
      PROVE  ArgsInv'
  <2>1. allContainers(pod') = allContainers(pod) /\ pc \in PodAdded
    BY <1>1, PodBecomes
  <2>2. SameModel
    BY <1>1, MovesCarry, MovesServe
  <2>3. UNCHANGED <<FileMounts, ConfigFiles, DefaultArgs>>
    BY <2>1, <2>2, ServedMoves DEF SameModel, DefaultArgs, HasInstaller
  <2>4. ASSUME pod'.args = pod.args, pc \in ConfigsServed <=> pc' \in ConfigsServed,
               Unambiguous(FileMounts) =>
                 \A file : Readable(pod, file, FileMounts) => Readable(pod', file, FileMounts)
        PROVE  ArgsInv'
    BY <2>1, <2>3, <2>4 DEF ArgsInv
  <2>. CASE AddsEnvs
    <3>1. pod'.args = pod.args /\ \A file, ms : Readable(pod, file, ms) => Readable(pod', file, ms)
      BY EnvsKeep DEF RestKept, PodPromise, MountsPromise
    <3>. QED BY <2>4, <3>1, MovesCarry DEF Carried, Same
  <2>. CASE MountsClaims
    <3>1. pod'.args = pod.args /\ \A file, ms : Readable(pod, file, ms) => Readable(pod', file, ms)
      BY ClaimsAdded DEF ClaimsDone
    <3>. QED BY <2>4, <3>1, MovesCarry DEF Carried, Same
  <2>. CASE MountsFiles \/ PluginsMounted
    <3>1. PICK rs : ServesNext(rs)
      BY ServedSteps
    <3>2. pod'.args = pod.args /\ pc \in ConfigsServed /\ pc' \in ConfigsServed
      BY ServedSteps
    <3>3. Unambiguous(FileMounts) => \A file : Readable(pod, file, FileMounts) => Readable(pod', file, FileMounts)
      BY <3>1 DEF ServesNext, ServedBy, ReadableStill
    <3>. QED BY <2>4, <3>2, <3>3
  <2>. CASE ConfigsStep
    <3>1. pc \in PodAdded \ ConfigsServed /\ pc' \in ConfigsServed
      BY ServedSteps
    <3>2. ConfigsRead(pod, pod', ConfigsAsked)
      BY ConfigsServedBy
    <3>3. \A i \in 1 .. Len(ConfigsAsked) : ToSet(MountsToAdd(ConfigsAsked[i])) \subseteq FileMounts
      BY ServedSteps DEF ServesNext
    <3>4. ConfigFiles = FlattenSeq(ArgsOf(ConfigsAsked))
      BY DEF ConfigFiles, ArgsOf
    <3>5. pod'.args = DefaultArgs \o ConfigFiles
      BY <3>1, <3>2, <3>4 DEF ConfigsRead, ArgsInv
    <3>6. Unambiguous(FileMounts) => \A file \in ToSet(ConfigFiles) : Readable(pod', file, FileMounts)
      BY <3>2, <3>3, <3>4 DEF ConfigsRead
    <3>. QED BY <2>3, <3>1, <3>5, <3>6 DEF ArgsInv
  <2>. QED BY <1>1
<1>. QED BY <1>1, IdleSteps
=============================================================================
