------------------------- MODULE InitObjectsProofs --------------------------
(***************************************************************************)
(* What every runtime model that InitObjects builds is like, for all        *)
(* inputs and all flavours.                                                 *)
(***************************************************************************)
EXTENDS InitObjectsPod, InitObjectsState, PodSpecProofs

HIDE InputsAssumption
USE Zenon

-----------------------------------------------------------------------------
(* The inductive invariant                                                  *)

LEMMA NothingBuilt == ASSUME Init PROVE IInv
<1>0. pc = "flavours" /\ pc \notin ConfigsAdded /\ pc \notin PodAdded /\ pc \notin ConfigsServed
  BY Stages, SMT DEF Init, SecretsServed, EnvsServed, RouteUpdated, PluginsServed, DbEnvServed, DbSetUpdated,
     DbUpdated, FilesServed, ConfigsServed, ServiceAdded, PluginsAdded, PodAdded, DbAdded, DbServiceAdded,
     DbSecretAdded, ConfigsAdded
<1>1. /\ pc \notin PluginsAdded /\ pc \notin ServiceAdded /\ pc \notin RouteUpdated /\ pc \notin DbServiceAdded
      /\ pc \notin DbAdded /\ pc \notin DbUpdated /\ pc \notin DbSetUpdated /\ pc \notin DbEnvServed
  BY <1>0, SMT DEF SecretsServed, EnvsServed, RouteUpdated, PluginsServed, DbEnvServed, DbSetUpdated,
     DbUpdated, FilesServed, ConfigsServed, ServiceAdded, PluginsAdded, PodAdded, DbAdded, DbServiceAdded,
     DbSecretAdded, ConfigsAdded
<1>2. ModelInv
  BY <1>0, <1>1, ShortSeqs DEF Init, ModelInv, AtMostOneOf
<1>3. PodInv
  <2>1. <<>> \in [{} -> Seq(Variable)]
    BY SMT
  <2>2. pod \in Pods({}) /\ MountsResolved(pod)
    BY <2>1, NewPodUntouched DEF Init, Untouched
  <2>3. allContainers(pod) = {} /\ IsFiniteSet({})
    BY <2>2, ContainersAre, FS_EmptySet
  <2>. QED BY <1>0, <2>2, <2>3 DEF PodInv
<1>4. AppConfigsInv
  <2>1. ConfigsServed \subseteq ConfigsAdded /\ RouteUpdated \subseteq ConfigsAdded
    BY SMT DEF EnvsServed, RouteUpdated, PluginsServed, DbEnvServed, DbSetUpdated,
     DbUpdated, FilesServed, ConfigsServed, ServiceAdded, PluginsAdded, PodAdded, DbAdded, DbServiceAdded,
     DbSecretAdded, ConfigsAdded
  <2>. QED BY <1>0, <2>1 DEF AppConfigsInv
<1>5. ObjectsInv
  BY <1>1 DEF Init, ObjectsInv, NoObjects, IsObjects
<1>6. DbInv
  <2>1. objects.dbSecret = {}
    BY DEF Init, NoObjects
  <2>. QED BY <1>1, <2>1 DEF DbInv
<1>7. SecretsInv
  BY <1>0, <1>1 DEF SecretsInv
<1>8. MountsInv /\ ArgsInv
  BY <1>0 DEF MountsInv, ArgsInv
<1>. QED BY <1>2, <1>3, <1>4, <1>5, <1>6, <1>7, <1>8 DEF IInv

LEMMA NothingHappens == ASSUME IInv, UNCHANGED vars PROVE IInv'
<1>0. UNCHANGED <<in, pc, flavours, sources, data, enabled, pod, objects>> /\ SameModel
  BY DEF vars, SameModel
<1>1. ModelInv' /\ PodInv' /\ ObjectsInv'
  BY <1>0 DEF IInv, ModelInv, PodInv, ObjectsInv
<1>2. AppConfigsInv'
  <2>1. Chosen("appConfig")' = Chosen("appConfig") /\ WithPlugins' = WithPlugins /\ WithUrls' = WithUrls
    BY <1>0, SameConfigs
  <2>. QED BY <1>0, <2>1 DEF IInv, AppConfigsInv
<1>3. DbInv'
  <2>1. (IsLocal' <=> IsLocal) /\ LocalService' = LocalService /\ DbSecretName' = DbSecretName
    BY <1>0, SameSecret
  <2>. QED BY <1>0, <2>1 DEF IInv, DbInv
<1>4. SecretsInv'
  <2>1. /\ ToSet(DbSecretName)' = ToSet(DbSecretName)
        /\ {r.name : r \in ToSet(SecretEnvRequests)}' = {r.name : r \in ToSet(SecretEnvRequests)}
    BY <1>0, NamesKept
  <2>2. SecretsUsed' = SecretsUsed
    BY <1>0, UsedAre
  <2>. QED BY <1>0, <2>1, <2>2 DEF IInv, SecretsInv
<1>5. MountsInv'
  <2>1. Served' = Served
    BY <1>0, SameAsked DEF Served
  <2>2. UNCHANGED <<AllAsked, ClaimPaths>>
    BY <1>0, ServedMoves
  <2>. QED BY <1>0, <2>1, <2>2 DEF IInv, MountsInv
<1>6. ArgsInv'
  <2>1. UNCHANGED <<FileMounts, ConfigFiles>>
    BY <1>0, ServedMoves
  <2>2. DefaultArgs' = DefaultArgs
    BY <1>0 DEF DefaultArgs, HasInstaller
  <2>. QED BY <1>0, <2>1, <2>2 DEF IInv, ArgsInv
<1>. QED BY <1>1, <1>2, <1>3, <1>4, <1>5, <1>6 DEF IInv

LEMMA ModelBuilt == ASSUME IInv, Next PROVE IInv'
<1>1. PodPromise /\ ModelInv /\ PodInv /\ AppConfigsInv /\ ObjectsInv
  BY PromisesKept DEF IInv
<1>2. Begins
  BY <1>1, DeploymentAdded
<1>3. ModelInv' /\ PodInv'
  BY <1>1, <1>2, ModelStep, PodInvStep
<1>4. AppConfigsInv' /\ ObjectsInv'
  BY <1>1, <1>2, AppConfigsStep, ObjectsInvStep
<1>5. DbInv' /\ SecretsInv'
  BY <1>1, <1>2, DbInvStep, SecretsInvStep DEF IInv
<1>6. MountsInv' /\ ArgsInv'
  BY <1>1, <1>2, <1>3, MountsStep, ArgsStep DEF IInv
<1>. QED BY <1>3, <1>4, <1>5, <1>6 DEF IInv

\* Whatever the input, the model under construction is as IInv says after each
\* step, of InitObjects and of the objects it adds and updates.
THEOREM InvariantKept == Spec => []IInv
<1>1. Init => IInv
  BY NothingBuilt
<1>2. IInv /\ [Next]_vars => IInv'
  BY ModelBuilt, NothingHappens
<1>. QED BY <1>1, <1>2, PTL DEF Spec

-----------------------------------------------------------------------------
(* Types                                                                    *)

LEMMA StepsListed == {"flavours", "appConfig"} \cup ConfigsAdded \subseteq ToSet(Steps)
<1>1. /\ Steps[1] = "flavours" /\ Steps[2] = "appConfig" /\ Steps[3] = "dbSecret" /\ Steps[4] = "dbService"
      /\ Steps[5] = "dbStatefulSet" /\ Steps[6] = "deployment" /\ Steps[7] = "sources" /\ Steps[8] = "plugins"
      /\ Steps[9] = "route" /\ Steps[10] = "service" /\ Steps[11] = "updateAppConfig"
      /\ Steps[12] = "configMapEnvs" /\ Steps[13] = "configMapFiles" /\ Steps[14] = "updateDbSecret"
      /\ Steps[15] = "updateDbStatefulSet" /\ Steps[16] = "updateDeployment" /\ Steps[17] = "dynamicPlugins"
      /\ Steps[18] = "pvcs" /\ Steps[19] = "updateRoute" /\ Steps[20] = "secretEnvs"
      /\ Steps[21] = "secretFiles" /\ Steps[22] = "done" /\ DOMAIN Steps = 1 .. 22
  BY SMT DEF Steps
<1>2. \A i \in 1 .. 22 : Steps[i] \in ToSet(Steps)
  BY <1>1 DEF ToSet
<1>. HIDE DEF Steps
<1>3. /\ {"flavours", "appConfig", "dbSecret", "dbService", "dbStatefulSet", "deployment", "sources", "plugins",
          "route", "service", "updateAppConfig"} \subseteq ToSet(Steps)
  BY <1>1, <1>2, SMT
<1>4. /\ {"configMapEnvs", "configMapFiles", "updateDbSecret", "updateDbStatefulSet", "updateDeployment",
          "dynamicPlugins", "pvcs", "updateRoute", "secretEnvs", "secretFiles", "done"} \subseteq ToSet(Steps)
  BY <1>1, <1>2, SMT
<1>. QED BY <1>3, <1>4, SMT DEF SecretsServed, EnvsServed, RouteUpdated, PluginsServed, DbEnvServed, DbSetUpdated,
     DbUpdated, FilesServed, ConfigsServed, ServiceAdded, PluginsAdded, PodAdded, DbAdded, DbServiceAdded,
     DbSecretAdded, ConfigsAdded

LEMMA OneAtMost == ASSUME NEW S, AtMostOneOf(S) PROVE Cardinality(S) <= 1
<1>. CASE S = {}
  BY FS_EmptySet, SMT
<1>. CASE \E x \in S : S = {x}
  BY FS_Singleton, SMT
<1>. QED BY DEF AtMostOneOf

LEMMA TypesKept == ASSUME IInv PROVE TypeOK
<1>1. pc \in ToSet(Steps) \cup {"failed"}
  BY StepsListed DEF IInv, ModelInv
<1>2. ToSet(flavours) \subseteq DOMAIN Flavours
  BY ElementsOf DEF IInv, ModelInv, ToSet
<1>3. Cardinality(data) <= 1 /\ Cardinality(enabled) <= 1
  BY OneAtMost DEF IInv, ModelInv
<1>4. pod.image \in Images /\ MountsResolved(pod)
  <2>1. \A C : \A p \in Pods(C) : p.image \in Images
    BY SMT DEF Pods
  <2>. QED BY <2>1 DEF IInv, PodInv
<1>5. DOMAIN objects = DOMAIN NoObjects
  <2>1. DOMAIN NoObjects = {"appConfigs", "dbSecret", "dbService", "dbStatefulSet", "route", "kind", "service"}
    BY DEF NoObjects
  <2>2. PICK a, b, c, d, e, f, g :
          objects = [appConfigs |-> a, dbSecret |-> b, dbService |-> c, dbStatefulSet |-> d, route |-> e,
                     kind |-> f, service |-> g]
    BY DEF IInv, ObjectsInv, IsObjects
  <2>3. DOMAIN objects = {"appConfigs", "dbSecret", "dbService", "dbStatefulSet", "route", "kind", "service"}
    BY <2>2
  <2>. QED BY <2>1, <2>3
<1>6. objects.kind \in {"", "Deployment", "StatefulSet"} /\ objects.route \subseteq RouteObject
  BY DEF IInv, ObjectsInv, Deployables
<1>. QED BY <1>1, <1>2, <1>3, <1>4, <1>5, <1>6 DEF TypeOK

\* Whatever the input, the state of InitObjects is well typed after each step; above
\* all, every mount of the Pod template is of a volume that it has.
THEOREM TypeCorrect == Spec => []TypeOK
BY InvariantKept, TypesKept, PTL

-----------------------------------------------------------------------------
(* The database                                                             *)

AuthSecrets == {d.authSecretName : d \in in.spec.database} \ {""}

LEMMA SecretChosen ==
  ASSUME in \in Inputs
  PROVE  \/ \E a : IsAuthSecretSpecified(in.spec) /\ AuthSecrets = {a} /\ DbSecretName = <<a>>
         \/ ~IsAuthSecretSpecified(in.spec) /\ AuthSecrets = {} /\ DbSecretName = <<GeneratedSecret>> /\ objects.dbSecret # {}
         \/ ~IsAuthSecretSpecified(in.spec) /\ AuthSecrets = {} /\ DbSecretName = <<>> /\ objects.dbSecret = {}
<1>. CASE IsAuthSecretSpecified(in.spec)
  <2>1. PICK d \in in.spec.database : d.authSecretName # ""
    BY DEF IsAuthSecretSpecified
  <2>2. \A x, y \in in.spec.database : x = y
    BY SpecType DEF Optional
  <2>3. in.spec.database = {d}
    BY <2>1, <2>2
  <2>4. AuthSecrets = {d.authSecretName}
    BY <2>1, <2>3 DEF AuthSecrets
  <2>5. (CHOOSE x \in in.spec.database : TRUE) = d
    BY <2>1, <2>2
  <2>. QED BY <2>4, <2>5 DEF DbSecretName
<1>. CASE ~IsAuthSecretSpecified(in.spec)
  <2>1. AuthSecrets = {}
    BY DEF AuthSecrets, IsAuthSecretSpecified
  <2>. QED BY <2>1 DEF DbSecretName
<1>. QED OBVIOUS

LEMMA DatabaseIsWired == ASSUME IInv PROVE DatabaseWired
<1>. SUFFICES ASSUME pc = "done", GeneratedSecret \notin {r.name : r \in ToSet(SecretEnvRequests)}
              PROVE  LET used == SecretsUsed \cap (AuthSecrets \cup {GeneratedSecret})
                     IN  /\ \A s \in objects.dbStatefulSet : ToSet(s.secrets) = used /\ Len(s.secrets) <= 1
                         /\ IF AuthSecrets # {} THEN used = AuthSecrets /\ objects.dbSecret = {}
                            ELSE GeneratedSecret \in used <=> objects.dbSecret # {}
                         /\ \A x \in objects.dbSecret : \A s \in objects.dbStatefulSet : x.host = s.serviceName
                         /\ objects.dbSecret # {} => objects.dbStatefulSet # {}
                         /\ IF IsLocalDbEnabled(in.spec)
                            THEN {s.serviceName : s \in objects.dbStatefulSet} = {DbService.name}
                            ELSE objects.dbService \cup objects.dbStatefulSet = {}
  BY DEF DatabaseWired, SecretsUsed, AuthSecrets
<1>. DEFINE used == SecretsUsed \cap (AuthSecrets \cup {GeneratedSecret})
<1>1. /\ pc \in DbServiceAdded /\ pc \in DbAdded /\ pc \in DbUpdated /\ pc \in DbSetUpdated /\ pc \in DbEnvServed
  BY SMT DEF SecretsServed, EnvsServed, RouteUpdated, PluginsServed, DbEnvServed, DbSetUpdated, DbUpdated,
     FilesServed, ConfigsServed, ServiceAdded, PluginsAdded, PodAdded, DbAdded, DbServiceAdded
<1>2. in \in Inputs
  BY DEF IInv, ModelInv
<1>3. /\ \A s \in objects.dbStatefulSet : s.secrets = DbSecretName /\ s.serviceName = DbService.name
      /\ \A x \in objects.dbSecret : x.host = DbService.name
      /\ objects.dbService = LocalService /\ (objects.dbStatefulSet # {} <=> IsLocalDbEnabled(in.spec))
      /\ objects.dbSecret # {} => IsLocalDbEnabled(in.spec) /\ ~IsAuthSecretSpecified(in.spec)
  BY <1>1 DEF IInv, DbInv, IsLocal
<1>4. used = ToSet(DbSecretName)
  <2>1. /\ ToSet(DbSecretName) \subseteq SecretsUsed
        /\ SecretsUsed \subseteq ToSet(DbSecretName) \cup {r.name : r \in ToSet(SecretEnvRequests)}
    BY <1>1 DEF IInv, SecretsInv
  <2>2. \A a : ToSet(<<a>>) = {a}
    BY SMT DEF ToSet
  <2>3. ToSet(DbSecretName) \subseteq AuthSecrets \cup {GeneratedSecret} /\ AuthSecrets \subseteq ToSet(DbSecretName)
    <3>1. ToSet(<<>>) = {}
      BY SMT DEF ToSet
    <3>. QED BY <1>2, <2>2, <3>1, SecretChosen
  <2>. QED BY <2>1, <2>3
<1>5. /\ Len(DbSecretName) <= 1
      /\ IF AuthSecrets # {} THEN ToSet(DbSecretName) = AuthSecrets /\ objects.dbSecret = {}
         ELSE GeneratedSecret \in ToSet(DbSecretName) <=> objects.dbSecret # {}
  <2>1. Len(<<>>) <= 1 /\ \A a : Len(<<a>>) <= 1
    BY SMT
  <2>2. ToSet(<<>>) = {} /\ \A a : ToSet(<<a>>) = {a}
    BY SMT DEF ToSet
  <2>. QED BY <1>2, <1>3, <2>1, <2>2, SecretChosen
<1>. HIDE DEF used
<1>6. IF IsLocalDbEnabled(in.spec)
      THEN {s.serviceName : s \in objects.dbStatefulSet} = {DbService.name}
      ELSE objects.dbService \cup objects.dbStatefulSet = {}
  <2>. CASE IsLocalDbEnabled(in.spec)
    BY <1>3, SMT
  <2>. CASE ~IsLocalDbEnabled(in.spec)
    BY <1>3 DEF LocalService, IsLocal
  <2>. QED OBVIOUS
<1>7. \A s \in objects.dbStatefulSet : ToSet(s.secrets) = used /\ Len(s.secrets) <= 1
  BY <1>3, <1>4, <1>5
<1>. QED BY <1>3, <1>4, <1>5, <1>6, <1>7 DEF used

\* Whatever the input, Backstage and the local database take the credentials from
\* one and the same Secret, and Backstage is sent to the Service of the database, when
\* all the objects of the database have been added and updated.
THEOREM AlwaysWired == Spec => []DatabaseWired
BY InvariantKept, DatabaseIsWired, PTL

-----------------------------------------------------------------------------
(* Mounts and arguments                                                     *)

\* The base URLs that UpdateRoute sets do not change what is asked for.
LEMMA AllAreAsked ==
  ASSUME IInv, pc = "done"
  PROVE  /\ AppConfigRequests(objects.appConfigs) = ConfigsAsked /\ FilesAsked = AllAsked
         /\ Served = Len(AllAsked)
<1>0. PodPromise /\ ModelInv /\ in \in Inputs /\ flavours \in Seq(DOMAIN Flavours)
  BY PromisesKept DEF IInv, ModelInv
<1>1. pc \in RouteUpdated /\ pc \in SecretsServed
  BY SMT DEF SecretsServed, EnvsServed, RouteUpdated
<1>2. objects.appConfigs = WithUrls
  BY <1>1 DEF IInv, AppConfigsInv
<1>3. AppConfigRequests(objects.appConfigs) = ConfigsAsked
  BY <1>0, <1>2, ItemsType, UrlsKeepRequests DEF WithUrls, ConfigsAsked
<1>4. FilesAsked = AllAsked
  BY <1>3 DEF FilesAsked, AllAsked, PluginsRequests
<1>5. PICK a, b, c, d : /\ a = ConfigsAsked /\ b = FileRequests /\ c = PluginsRequests /\ d = SecretRequests
                        /\ a \in Seq(FileRequest) /\ b \in Seq(FileRequest)
                        /\ c \in Seq(FileRequest) /\ d \in Seq(FileRequest)
  BY <1>0, AskedTypes
<1>6. Len(AllAsked) = Len(a) + Len(b) + Len(c) + Len(d)
  <2>1. AllAsked = a \o b \o c \o d
    BY <1>5 DEF AllAsked
  <2>2. PartsOf(FileRequest, a \o b \o c \o d, a, b, c, d)
    BY <1>5, Parts
  <2>. QED BY <2>1, <2>2 DEF PartsOf
<1>7. Len(a) \in Nat /\ Len(b) \in Nat /\ Len(c) \in Nat /\ Len(d) \in Nat
  BY <1>5, LenProperties
<1>8. Served = Len(a) + Len(b) + Len(c) + Len(d)
  <2>1. SumsAt(pc, Len(a), Len(b), Len(c), Len(d))
    BY <1>7, Sums
  <2>2. ServedAt(pc, Len(a), Len(b), Len(c), Len(d)) = Len(a) + Len(b) + Len(c) + Len(d)
    BY <1>1, <2>1 DEF SumsAt
  <2>. QED BY <1>5, <2>2 DEF Served
<1>. QED BY <1>3, <1>4, <1>6, <1>8

LEMMA MountsOverride == ASSUME IInv PROVE LaterMountsOverride
<1>. SUFFICES ASSUME pc = "done", NEW c \in allContainers(pod), NEW path, path \notin ClaimPaths
              PROVE  Overridden(pod, FilesAsked, Len(FilesAsked), c, path)
  BY DEF LaterMountsOverride
<1>1. pc \in PodAdded
  BY Stages, SMT
<1>. QED BY <1>1, AllAreAsked DEF IInv, MountsInv

\* Whatever is asked for, and however often a path is, in every container the object
\* that asked last is mounted there, and nothing is mounted there twice: mountFilesFrom
\* over the files of app-configs, ConfigMaps, dynamic plugins and Secrets.
THEOREM AlwaysOverridden == Spec => []LaterMountsOverride
BY InvariantKept, MountsOverride, PTL

LEMMA BehindDefault ==
  ASSUME NEW S, NEW s \in Seq(S), NEW x
  PROVE  /\ SubSeq(<<>> \o s, 0 + 1, Len(<<>> \o s)) = s
         /\ SubSeq(<<x>> \o s, 1 + 1, Len(<<x>> \o s)) = s
<1>1. <<>> \o s = s /\ SubSeq(s, 1, Len(s)) = s /\ 0 + 1 = 1
  BY SMT
<1>2. PICK t : t = <<x>> \o s
  OBVIOUS
<1>3. t \in Seq(S \cup {x}) /\ Len(t) = Len(s) + 1 /\ \A i \in 1 .. Len(s) : t[i + 1] = s[i]
  BY <1>2, SMT
<1>4. SubSeq(t, 1 + 1, Len(t)) = s
  BY <1>3, SMT
<1>. QED BY <1>1, <1>2, <1>4

LEMMA ConfigFilesType == ASSUME IInv PROVE ConfigFiles \in Seq(Dir)
<1>1. PICK rs : rs = ConfigsAsked /\ rs \in Seq(FileRequest)
  BY AskedTypes, PromisesKept DEF IInv
<1>2. \A i \in DOMAIN rs : ConfigArgs(rs[i]) \in Seq(Dir)
  BY <1>1, ElementsOf, RequestsAre, ConfigArgsType
<1>3. [i \in DOMAIN rs |-> ConfigArgs(rs[i])] \in [DOMAIN rs -> Seq(Dir)]
  BY <1>2
<1>4. [i \in DOMAIN rs |-> ConfigArgs(rs[i])] \in Seq(Seq(Dir))
  BY <1>1, <1>3, SeqByElements
<1>. QED BY <1>1, <1>4, FlattenType DEF ConfigFiles

LEMMA ConfigsReadable == ASSUME IInv PROVE AppConfigsReadable
<1>. SUFFICES ASSUME pc = "done", Unambiguous(MountsAsked) PROVE AppConfigsReadable
  BY DEF AppConfigsReadable
<1>1. pc \in ConfigsServed
  BY Stages, SMT
<1>2. MountsAsked = FileMounts
  BY AllAreAsked DEF MountsAsked, FileMounts
<1>3. /\ pod.args = DefaultArgs \o ConfigFiles
      /\ \A file \in ToSet(ConfigFiles) : Readable(pod, file, FileMounts)
  BY <1>1, <1>2 DEF IInv, ArgsInv
<1>4. \A file \in ToSet(ConfigFiles) : ComesWith(file, ToSet(pod.mounts[Main]))
  BY <1>3 DEF Readable, ComesWith
<1>5. FlattenSeq([i \in DOMAIN AppConfigRequests(objects.appConfigs) |->
                   ConfigArgs(AppConfigRequests(objects.appConfigs)[i])]) = ConfigFiles
  BY AllAreAsked DEF ConfigFiles
<1>6. SubSeq(pod.args, (IF in.op.operatorDp /\ HasInstaller THEN 0 ELSE 1) + 1, Len(pod.args)) = ConfigFiles
  BY <1>3, ConfigFilesType, BehindDefault DEF DefaultArgs
<1>. QED BY <1>4, <1>5, <1>6 DEF AppConfigsReadable

\* Whatever the input, Backstage is given the app-configs of the plugins, of the
\* default configuration and of the spec, in this order, and each is mounted in its
\* container when all objects have contributed (updatePodWithAppConfig).
THEOREM AlwaysReadable == Spec => []AppConfigsReadable
BY InvariantKept, ConfigsReadable, PTL
=============================================================================
