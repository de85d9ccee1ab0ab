------------------------- MODULE InitObjectsSteps --------------------------
(***************************************************************************)
(* What the steps of InitObjects keep, by what the operations on the Pod    *)
(* template promise.  A step is taken by what it changes: the other objects *)
(* of the runtime model, or the Pod, of which one object after the other    *)
(* asks something.                                                          *)
(***************************************************************************)
EXTENDS InitObjectsInv, PodPromises, FiniteSetTheorems, SequenceTheorems, TLAPS

HIDE InputsAssumption
USE Zenon

-----------------------------------------------------------------------------
(* Texts and sequences of them                                              *)

LEMMA ShortSeqs ==
  /\ \A S : <<>> \in Seq(S) /\ \A x \in S : <<x>> \in Seq(S)
  /\ \A S : \A s \in Seq(S), x \in S : Append(s, x) \in Seq(S)
BY SMT

LEMMA LabelsAreTexts == \A name \in STRING : ToRFC1123Label(name) \in STRING
BY LabelsAssumption DEF ToRFC1123Label

LEMMA ContainersAre == \A C : \A p \in Pods(C) : allContainers(p) = C
BY SMT DEF Pods, allContainers

LEMMA Texts ==
  /\ "" \in STRING /\ "cm" \in STRING /\ "secret" \in STRING /\ "pvc" \in STRING
  /\ "ephemeral" \in STRING /\ "src" \in STRING /\ "root" \in STRING /\ "plugins-root" \in STRING
  /\ "dynamic-plugins-root" \in STRING /\ "app-config" \in STRING /\ "plugins" \in STRING
  /\ "install-dynamic-plugins" \in STRING /\ "backstage-dynamic-plugins" \in STRING
  /\ "packages.txt" \in STRING /\ "dynamic-plugins.yaml" \in STRING
  /\ "plugins-appconfig" \in STRING /\ "backstage" \in STRING /\ "backstage-psql-secret" \in STRING
BY TextsAssumption

LEMMA SingleInjective == \A x : IsInjective(<<x>>)
BY SMT DEF IsInjective

LEMMA SingleKey == ASSUME NEW x \in STRING, x # "" PROVE <<x>> \in KeyList
<1>1. x \in STRING \ {""}
  OBVIOUS
<1>2. <<x>> \in Seq(STRING \ {""})
  BY <1>1, ShortSeqs
<1>. QED BY <1>2, SingleInjective DEF KeyList

LEMMA WorkingDirType == WorkingDir \in Dir
BY Texts, ShortSeqs DEF WorkingDir, Dir

\* A sequence, element by element.
LEMMA SeqByElements ==
  ASSUME NEW S, NEW T, NEW s \in Seq(S), NEW t \in [DOMAIN s -> T]
  PROVE  t \in Seq(T) /\ Len(t) = Len(s) /\ DOMAIN t = DOMAIN s
<1>1. DOMAIN s = 1 .. Len(s) /\ Len(s) \in Nat
  BY LenProperties
<1>2. t \in [1 .. Len(s) -> T]
  BY <1>1
<1>. QED BY <1>1, <1>2, SMT

LEMMA Wider == ASSUME NEW S, NEW T, S \subseteq T, NEW s \in Seq(S) PROVE s \in Seq(T)
BY SMT

LEMMA SmallSets ==
  /\ ToSet(<<>>) = {} /\ <<>> \in Seq(ToSet(<<>>))
  /\ \A x : ToSet(<<x>>) = {x} /\ <<x>> \in Seq(ToSet(<<x>>))
<1>1. ToSet(<<>>) = {} /\ \A x : ToSet(<<x>>) = {x}
  BY SMT DEF ToSet
<1>2. \A S : <<>> \in Seq(S) /\ \A x \in S : <<x>> \in Seq(S)
  BY ShortSeqs
<1>. QED BY <1>1, <1>2

LEMMA Joined == ASSUME NEW S, NEW s \in Seq(S), NEW t \in Seq(S) PROVE s \o t \in Seq(S)
BY ConcatProperties, SMT

LEMMA ElementsOf == ASSUME NEW S, NEW s \in Seq(S), NEW i \in DOMAIN s PROVE s[i] \in S
BY LenProperties, ElementOfSeq

LEMMA JoinedSet ==
  ASSUME NEW S, NEW s \in Seq(S), NEW t \in Seq(S)
  PROVE  ToSet(s \o t) = ToSet(s) \cup ToSet(t)
<1>. PICK u : u = s \o t
  OBVIOUS
<1>1. Len(s) \in Nat /\ Len(t) \in Nat /\ DOMAIN s = 1 .. Len(s) /\ DOMAIN t = 1 .. Len(t)
  BY LenProperties
<1>2. /\ DOMAIN u = 1 .. Len(s) + Len(t)
      /\ \A i \in 1 .. Len(s) + Len(t) : u[i] = IF i <= Len(s) THEN s[i] ELSE t[i - Len(s)]
  <2>1. /\ u \in Seq(S) /\ Len(u) = Len(s) + Len(t)
        /\ \A i \in 1 .. Len(s) + Len(t) : u[i] = IF i <= Len(s) THEN s[i] ELSE t[i - Len(s)]
    BY ConcatProperties, SMT
  <2>2. DOMAIN u = 1 .. Len(u)
    BY <2>1, LenProperties
  <2>. QED BY <2>1, <2>2
<1>3. \A i \in DOMAIN u : \/ i \in DOMAIN s /\ u[i] = s[i]
                          \/ i - Len(s) \in DOMAIN t /\ u[i] = t[i - Len(s)]
  BY <1>1, <1>2, SMT
<1>4. \A i \in DOMAIN s : i \in DOMAIN u /\ u[i] = s[i]
  BY <1>1, <1>2, SMT
<1>5. \A i \in DOMAIN t : Len(s) + i \in DOMAIN u /\ u[Len(s) + i] = t[i]
  BY <1>1, <1>2, SMT
<1>6. ToSet(u) = ToSet(s) \cup ToSet(t)
  <2>1. ASSUME NEW i \in DOMAIN u PROVE u[i] \in ToSet(s) \/ u[i] \in ToSet(t)
    BY <1>3, SMT DEF ToSet
  <2>2. \A i \in DOMAIN s : s[i] \in ToSet(u)
    BY <1>4 DEF ToSet
  <2>3. \A i \in DOMAIN t : t[i] \in ToSet(u)
    BY <1>5 DEF ToSet
  <2>4. ToSet(u) \subseteq ToSet(s) \cup ToSet(t)
    BY <2>1, SMT DEF ToSet
  <2>5. ToSet(s) \subseteq ToSet(u) /\ ToSet(t) \subseteq ToSet(u)
    BY <2>2, <2>3 DEF ToSet
  <2>. QED BY <2>4, <2>5, SMT
<1>. QED BY <1>6

-----------------------------------------------------------------------------
(* What is asked for                                                        *)

FileRequest  == [kind : STRING, name : STRING, containers : Seq(STRING), path : Dir, file : STRING,
                 sub : BOOLEAN, keys : KeyList]
ClaimRequest == FileRequest \cup
                [kind : STRING, name : STRING, containers : Seq(STRING), path : Dir, file : STRING]
EnvRequest   == [kind : STRING, name : STRING, containers : Seq(STRING), key : STRING]

LEMMA RequestsAre ==
  /\ \A r \in FileRequest : IsFileRequest(r)
  /\ \A r \in ClaimRequest : IsClaimRequest(r)
  /\ \A r \in EnvRequest : IsEnvRequest(r)
<1>1. \A r \in FileRequest : IsFileRequest(r) /\ IsClaimRequest(r)
  BY SMT DEF FileRequest, IsFileRequest, IsClaimRequest
<1>2. \A r \in [kind : STRING, name : STRING, containers : Seq(STRING), path : Dir, file : STRING] :
        IsClaimRequest(r)
  BY SMT DEF IsClaimRequest
<1>3. \A r \in EnvRequest : IsEnvRequest(r)
  BY SMT DEF EnvRequest, IsEnvRequest
<1>. QED BY <1>1, <1>2, <1>3, SMT DEF ClaimRequest

LEMMA DefConfigRequestType ==
  ASSUME NEW kind \in STRING, NEW o \in FileObject
  PROVE  DefConfigRequest(kind, o) \in FileRequest
<1>0. PICK path, file, sub : /\ path = IF o.mountPath = <<>> THEN WorkingDir ELSE o.mountPath
                             /\ file = IF o.subPath = "*" THEN "" ELSE o.subPath
                             /\ sub = (o.subPath # "")
  OBVIOUS
<1>1. /\ o.name \in STRING /\ o.keys \in KeyList /\ o.mountPath \in Dir /\ o.subPath \in STRING
      /\ o.containers \in Seq(STRING)
  BY SMT DEF FileObject
<1>2. path \in Dir /\ file \in STRING
  BY <1>0, <1>1, Texts, WorkingDirType
<1>3. sub \in BOOLEAN
  BY <1>0
<1>4. DefConfigRequest(kind, o) = [kind |-> kind, name |-> o.name, containers |-> o.containers,
                                   path |-> path, file |-> file, sub |-> sub, keys |-> o.keys]
  BY <1>0 DEF DefConfigRequest
<1>. QED BY <1>1, <1>2, <1>3, <1>4, SMT DEF FileRequest

LEMMA MountPathType ==
  ASSUME NEW ref, ref.path \in Path, NEW shared \in Dir
  PROVE  mountPath(ref, shared) \in Dir
<1>1. ref.path.dir \in Dir /\ ref.path.abs \in BOOLEAN
  BY SMT DEF Path
<1>2. (IF shared = <<>> THEN WorkingDir ELSE shared) \in Dir
  BY WorkingDirType
<1>3. (IF shared = <<>> THEN WorkingDir ELSE shared) \o ref.path.dir \in Dir
  BY <1>1, <1>2, Joined DEF Dir
<1>. QED BY <1>1, <1>3 DEF mountPath

LEMMA SpecRequestType ==
  ASSUME NEW kind \in STRING, NEW ref \in FileObjectRef, NEW shared \in Dir
  PROVE  SpecRequest(kind, ref, shared) \in FileRequest
<1>. PICK path, sub : path = mountPath(ref, shared) /\ sub = WithSubPath(ref)
  OBVIOUS
<1>1. /\ ref.name \in STRING /\ ref.keys \in KeyList /\ ref.key \in STRING /\ ref.path \in Path
      /\ ref.containers \in Seq(STRING)
  BY SMT DEF FileObjectRef
<1>2. path \in Dir
  BY <1>1, MountPathType
<1>3. sub \in BOOLEAN
  BY DEF WithSubPath
<1>4. SpecRequest(kind, ref, shared) = [kind |-> kind, name |-> ref.name, containers |-> ref.containers,
                                        path |-> path, file |-> ref.key, sub |-> sub, keys |-> ref.keys]
  BY DEF SpecRequest
<1>. QED BY <1>1, <1>2, <1>3, <1>4, SMT DEF FileRequest

LEMMA DefPvcRequestType == ASSUME NEW o \in FileObject PROVE DefPvcRequest(o) \in ClaimRequest
<1>0. PICK r : r = DefConfigRequest("pvc", o)
  OBVIOUS
<1>1. r \in FileRequest /\ o.subPath \in STRING
  BY <1>0, DefConfigRequestType, Texts DEF FileObject
<1>2. DefPvcRequest(o) = [r EXCEPT !.file = o.subPath]
  BY <1>0 DEF DefPvcRequest
<1>3. [r EXCEPT !.file = o.subPath] \in FileRequest
  BY <1>1, SMT DEF FileRequest
<1>. QED BY <1>2, <1>3, SMT DEF ClaimRequest

LEMMA PvcRequestType ==
  ASSUME NEW ref \in PvcRef, NEW shared \in Dir
  PROVE  PvcRequest(ref, shared) \in ClaimRequest
<1>0. PICK path, file : /\ path = IF ref.path = NoPath THEN Append(mountPath(ref, shared), ref.name)
                                  ELSE mountPath(ref, shared)
                        /\ file = IF ref.path = NoPath THEN ToRFC1123Label(ref.name) ELSE ""
  OBVIOUS
<1>1. ref.name \in STRING /\ ref.path \in Path /\ ref.containers \in Seq(STRING)
  BY SMT DEF PvcRef
<1>2. path \in Dir
  <2>1. mountPath(ref, shared) \in Dir
    BY <1>1, MountPathType
  <2>2. Append(mountPath(ref, shared), ref.name) \in Dir
    BY <1>1, <2>1, ShortSeqs DEF Dir
  <2>. QED BY <1>0, <2>1, <2>2
<1>3. file \in STRING
  BY <1>0, <1>1, LabelsAreTexts, Texts
<1>4. PvcRequest(ref, shared) = [kind |-> "pvc", name |-> ref.name, containers |-> ref.containers,
                                 path |-> path, file |-> file]
  BY <1>0 DEF PvcRequest
<1>5. PICK kind : kind = "pvc" /\ kind \in STRING
  BY Texts
<1>6. PvcRequest(ref, shared) \in [kind : STRING, name : STRING, containers : Seq(STRING), path : Dir, file : STRING]
  BY <1>1, <1>2, <1>3, <1>4, <1>5, SMT
<1>. QED BY <1>6, SMT DEF ClaimRequest

LEMMA RequestsType ==
  ASSUME NEW kind \in STRING, NEW os \in Seq(FileObject), NEW refs \in Seq(FileObjectRef), NEW shared \in Dir
  PROVE  Requests(kind, os, refs, shared) \in Seq(FileRequest)
<1>0. PICK s, t : /\ s = [i \in DOMAIN os |-> DefConfigRequest(kind, os[i])]
                  /\ t = [i \in DOMAIN refs |-> SpecRequest(kind, refs[i], shared)]
  OBVIOUS
<1>1. s \in [DOMAIN os -> FileRequest]
  <2>1. \A i \in DOMAIN os : DefConfigRequest(kind, os[i]) \in FileRequest
    BY ElementsOf, DefConfigRequestType
  <2>. QED BY <1>0, <2>1
<1>2. t \in [DOMAIN refs -> FileRequest]
  <2>1. \A i \in DOMAIN refs : SpecRequest(kind, refs[i], shared) \in FileRequest
    BY ElementsOf, SpecRequestType
  <2>. QED BY <1>0, <2>1
<1>3. s \in Seq(FileRequest) /\ t \in Seq(FileRequest)
  BY <1>1, <1>2, SeqByElements
<1>. QED BY <1>0, <1>3, Joined DEF Requests

AllOfKind(kind, rs) == \A r \in ToSet(rs) : r.kind = kind

LEMMA EnvRequestsType ==
  ASSUME NEW kind \in STRING, NEW os \in Seq(EnvObject), NEW refs \in Seq(EnvObjectRef)
  PROVE  /\ EnvRequests(kind, os, refs) \in Seq(EnvRequest)
         /\ AllOfKind(kind, EnvRequests(kind, os, refs))
<1>0. PICK s, t : /\ s = [i \in DOMAIN os |-> [kind |-> kind, name |-> os[i].name,
                                               containers |-> os[i].containers, key |-> ""]]
                  /\ t = [i \in DOMAIN refs |-> [kind |-> kind, name |-> refs[i].name,
                                                 containers |-> refs[i].containers, key |-> refs[i].key]]
  OBVIOUS
<1>1. \A i \in DOMAIN os : s[i] \in EnvRequest /\ s[i].kind = kind
  <2>. SUFFICES ASSUME NEW i \in DOMAIN os PROVE s[i] \in EnvRequest /\ s[i].kind = kind
    OBVIOUS
  <2>0. os[i] \in EnvObject
    BY ElementsOf
  <2>1. os[i].name \in STRING /\ os[i].containers \in Seq(STRING)
    BY <2>0, SMT DEF EnvObject
  <2>2. PICK none : none = "" /\ none \in STRING
    BY Texts
  <2>3. s[i] = [kind |-> kind, name |-> os[i].name, containers |-> os[i].containers, key |-> none]
    BY <1>0, <2>2
  <2>4. none \in STRING
    BY <2>2
  <2>. QED BY <2>1, <2>3, <2>4, SMT DEF EnvRequest
<1>2. \A i \in DOMAIN refs : t[i] \in EnvRequest /\ t[i].kind = kind
  <2>. SUFFICES ASSUME NEW i \in DOMAIN refs PROVE t[i] \in EnvRequest /\ t[i].kind = kind
    OBVIOUS
  <2>0. refs[i] \in EnvObjectRef
    BY ElementsOf
  <2>1. refs[i].name \in STRING /\ refs[i].containers \in Seq(STRING) /\ refs[i].key \in STRING
    BY <2>0, SMT DEF EnvObjectRef
  <2>2. t[i] = [kind |-> kind, name |-> refs[i].name, containers |-> refs[i].containers, key |-> refs[i].key]
    BY <1>0
  <2>. QED BY <2>1, <2>2, SMT DEF EnvRequest
<1>9. s \in [DOMAIN os -> EnvRequest] /\ t \in [DOMAIN refs -> EnvRequest]
  BY <1>0, <1>1, <1>2
<1>3. s \in Seq(EnvRequest) /\ DOMAIN s = DOMAIN os
  BY <1>9, SeqByElements
<1>4. t \in Seq(EnvRequest) /\ DOMAIN t = DOMAIN refs
  BY <1>9, SeqByElements
<1>5. EnvRequests(kind, os, refs) = s \o t
  BY <1>0 DEF EnvRequests
<1>6. \A r \in ToSet(s) : r.kind = kind
  BY <1>1, <1>3 DEF ToSet
<1>7. \A r \in ToSet(t) : r.kind = kind
  BY <1>2, <1>4 DEF ToSet
<1>8. ToSet(s \o t) = ToSet(s) \cup ToSet(t)
  BY <1>3, <1>4, JoinedSet, SMT
<1>. QED BY <1>3, <1>4, <1>5, <1>6, <1>7, <1>8, Joined DEF AllOfKind

-----------------------------------------------------------------------------
(* The input                                                                *)

LEMMA InputType ==
  ASSUME in \in Inputs
  PROVE  /\ in.spec \in BackstageSpec
         /\ \A k \in Keys \ {"deployment"} : in.conf[k] \in Seq(ObjectsOf[k]) /\ in.raw[k] \in Seq(ObjectsOf[k])
         /\ \A f \in DOMAIN Flavours : \A k \in FlavourKeys \ {"deployment"} : Flavours[f][k] \in Seq(ObjectsOf[k])
BY InputsAssumption DEF IsConfig

\* What is chosen is of the type that the configurations have in common.
LEMMA ChosenFrom ==
  ASSUME PodPromise, NEW S, NEW key, in.conf[key] \in Seq(S), in.raw[key] \in Seq(S),
         key \in FlavourKeys => \A f \in DOMAIN Flavours : Flavours[f][key] \in Seq(S),
         NEW fs \in Seq(DOMAIN Flavours)
  PROVE  ChosenFor(key, fs) \in Seq(S)
<1>1. ASSUME key \in FlavourKeys PROVE FlattenSeq(collectConfigSources(key, fs)) \in Seq(S)
  <2>0. PICK t : t = [i \in DOMAIN fs |-> Flavours[fs[i]][key]]
    OBVIOUS
  <2>1. t \in [DOMAIN fs -> Seq(S)]
    <3>1. \A i \in DOMAIN fs : Flavours[fs[i]][key] \in Seq(S)
      BY <1>1, ElementsOf
    <3>. QED BY <2>0, <3>1
  <2>2. t \in Seq(Seq(S))
    BY <2>1, SeqByElements
  <2>3. <<in.conf[key]>> \in Seq(Seq(S))
    BY ShortSeqs
  <2>4. collectConfigSources(key, fs) \in Seq(Seq(S))
    BY <2>0, <2>2, <2>3, Joined DEF collectConfigSources
  <2>. QED BY <2>4 DEF PodPromise, FlattenPromise
<1>. QED BY <1>1 DEF ChosenFor, ReadDefaultConfig, mergeMultiObjectConfigs

LEMMA ChosenType ==
  ASSUME PodPromise, in \in Inputs, flavours \in Seq(DOMAIN Flavours), NEW key \in Keys \ {"deployment"}
  PROVE  Chosen(key) \in Seq(ObjectsOf[key])
<1>1. in.conf[key] \in Seq(ObjectsOf[key]) /\ in.raw[key] \in Seq(ObjectsOf[key])
  BY InputType
<1>2. key \in FlavourKeys => \A f \in DOMAIN Flavours : Flavours[f][key] \in Seq(ObjectsOf[key])
  BY InputType
<1>. QED BY <1>1, <1>2, ChosenFrom DEF Chosen

\* The workloads of all the configurations, and the patches, have types too.
LEMMA WorkloadsType ==
  ASSUME PodPromise, in \in Inputs, flavours \in Seq(DOMAIN Flavours)
  PROVE  \E W : /\ \A d \in W : IsWorkload(d)
                /\ in.raw.deployment \in Seq(W)
                /\ Chosen("deployment") \in Seq(W) /\ in.patches[Extension] \in Seq(W)
<1>. DEFINE F == UNION {ToSet(Flavours[f].deployment) : f \in DOMAIN Flavours}
            W == ToSet(in.conf.deployment) \cup ToSet(in.raw.deployment) \cup ToSet(in.patches.ocp)
                   \cup ToSet(in.patches.k8s) \cup F
<1>1. /\ AreWorkloads(in.conf.deployment) /\ AreWorkloads(in.raw.deployment)
      /\ AreWorkloads(in.patches.ocp) /\ AreWorkloads(in.patches.k8s)
      /\ \A f \in DOMAIN Flavours : AreWorkloads(Flavours[f].deployment)
  BY InputsAssumption DEF IsConfig
<1>2. \A d \in W : IsWorkload(d)
  BY <1>1 DEF AreWorkloads
<1>3. \A ds : AreWorkloads(ds) /\ ToSet(ds) \subseteq W => ds \in Seq(W)
  BY Wider DEF AreWorkloads
<1>4. ToSet(in.conf.deployment) \subseteq W /\ ToSet(in.raw.deployment) \subseteq W
  OBVIOUS
<1>5. ToSet(in.patches.ocp) \subseteq W /\ ToSet(in.patches.k8s) \subseteq W
  OBVIOUS
<1>6. \A f \in DOMAIN Flavours : ToSet(Flavours[f].deployment) \subseteq W
  OBVIOUS
<1>. HIDE DEF W, F
<1>7. in.conf["deployment"] \in Seq(W) /\ in.raw["deployment"] \in Seq(W)
  BY <1>1, <1>3, <1>4, SMT
<1>8. in.patches[Extension] \in Seq(W)
  BY <1>1, <1>3, <1>5, SMT DEF Extension
<1>9. \A f \in DOMAIN Flavours : Flavours[f]["deployment"] \in Seq(W)
  BY <1>1, <1>3, <1>6, SMT
<1>10. Chosen("deployment") \in Seq(W)
  BY <1>7, <1>9, ChosenFrom DEF Chosen
<1>. QED BY <1>2, <1>7, <1>8, <1>10, SMT

LEMMA SpecType ==
  ASSUME in \in Inputs
  PROVE  /\ in.spec.appConfig.configMaps \in Seq(FileObjectRef) /\ in.spec.appConfig.mountPath \in Dir
         /\ in.spec.extraFiles.configMaps \in Seq(FileObjectRef) /\ in.spec.extraFiles.mountPath \in Dir
         /\ in.spec.extraFiles.secrets \in Seq(FileObjectRef) /\ in.spec.extraFiles.pvcs \in Seq(PvcRef)
         /\ in.spec.extraEnvs.configMaps \in Seq(EnvObjectRef) /\ in.spec.extraEnvs.secrets \in Seq(EnvObjectRef)
         /\ in.spec.extraEnvs.envs \in Seq(Env)
         /\ in.spec.database \in Optional(Database) /\ in.spec.route \in Optional(Route)
         /\ in.spec.deployment \in BackstageDeployment
<1>1. in.spec \in BackstageSpec
  BY InputType
<1>2. /\ in.spec.appConfig \in AppConfig /\ in.spec.extraFiles \in ExtraFiles /\ in.spec.extraEnvs \in ExtraEnvs
      /\ in.spec.database \in Optional(Database) /\ in.spec.route \in Optional(Route)
      /\ in.spec.deployment \in BackstageDeployment
  BY <1>1, SMT DEF BackstageSpec
<1>3. in.spec.appConfig.configMaps \in Seq(FileObjectRef) /\ in.spec.appConfig.mountPath \in Dir
  BY <1>2, SMT DEF AppConfig
<1>4. /\ in.spec.extraFiles.configMaps \in Seq(FileObjectRef) /\ in.spec.extraFiles.mountPath \in Dir
      /\ in.spec.extraFiles.secrets \in Seq(FileObjectRef) /\ in.spec.extraFiles.pvcs \in Seq(PvcRef)
  BY <1>2, SMT DEF ExtraFiles
<1>5. /\ in.spec.extraEnvs.configMaps \in Seq(EnvObjectRef) /\ in.spec.extraEnvs.secrets \in Seq(EnvObjectRef)
      /\ in.spec.extraEnvs.envs \in Seq(Env)
  BY <1>2, SMT DEF ExtraEnvs
<1>. QED BY <1>2, <1>3, <1>4, <1>5

LEMMA ChosenTypes ==
  ASSUME PodPromise, in \in Inputs, flavours \in Seq(DOMAIN Flavours)
  PROVE  /\ Chosen("configMapFiles") \in Seq(FileObject) /\ Chosen("secretFiles") \in Seq(FileObject)
         /\ Chosen("pvcs") \in Seq(FileObject) /\ Chosen("route") \in Seq(RouteObject)
         /\ Chosen("configMapEnvs") \in Seq(EnvObject) /\ Chosen("secretEnvs") \in Seq(EnvObject)
         /\ Chosen("appConfig") \in Seq([name : STRING, keys : KeyList, settings : Optional(SUBSET Setting)])
<1>1. /\ ObjectsOf["configMapFiles"] = FileObject /\ ObjectsOf["secretFiles"] = FileObject
      /\ ObjectsOf["pvcs"] = FileObject /\ ObjectsOf["route"] = RouteObject
      /\ ObjectsOf["configMapEnvs"] = EnvObject /\ ObjectsOf["secretEnvs"] = EnvObject
      /\ ObjectsOf["appConfig"] = [name : STRING, keys : KeyList, settings : Optional(SUBSET Setting)]
  BY DEF ObjectsOf
<1>2. {"configMapFiles", "secretFiles", "pvcs", "route", "configMapEnvs", "secretEnvs", "appConfig"}
        \subseteq Keys \ {"deployment"}
  BY SMT DEF Keys, FlavourKeys
<1>3. \A k \in {"configMapFiles", "secretFiles", "pvcs", "route", "configMapEnvs", "secretEnvs", "appConfig"} :
        Chosen(k) \in Seq(ObjectsOf[k])
  BY <1>2, ChosenType
<1>. QED BY <1>1, <1>3

LEMMA RequestTypes ==
  ASSUME PodPromise, in \in Inputs, flavours \in Seq(DOMAIN Flavours)
  PROVE  /\ FileRequests \in Seq(FileRequest) /\ SecretRequests \in Seq(FileRequest)
         /\ ConfigMapEnvRequests \in Seq(EnvRequest) /\ SecretEnvRequests \in Seq(EnvRequest)
         /\ AllOfKind("cm", ConfigMapEnvRequests)
         /\ AllOfKind("secret", SecretEnvRequests)
<1>1. "cm" \in STRING /\ "secret" \in STRING
  BY Texts
<1>2. FileRequests \in Seq(FileRequest)
  BY <1>1, SpecType, ChosenTypes, RequestsType DEF FileRequests
<1>3. SecretRequests \in Seq(FileRequest)
  BY <1>1, SpecType, ChosenTypes, RequestsType DEF SecretRequests
<1>4. ConfigMapEnvRequests \in Seq(EnvRequest) /\ AllOfKind("cm", ConfigMapEnvRequests)
  <2>1. Chosen("configMapEnvs") \in Seq(EnvObject) /\ in.spec.extraEnvs.configMaps \in Seq(EnvObjectRef)
    BY SpecType, ChosenTypes
  <2>2. PICK rs : rs = EnvRequests("cm", Chosen("configMapEnvs"), in.spec.extraEnvs.configMaps)
    OBVIOUS
  <2>3. rs \in Seq(EnvRequest)
    BY <1>1, <2>1, <2>2, EnvRequestsType
  <2>4. AllOfKind("cm", rs)
    BY <1>1, <2>1, <2>2, EnvRequestsType
  <2>. QED BY <2>2, <2>3, <2>4 DEF ConfigMapEnvRequests
<1>5. SecretEnvRequests \in Seq(EnvRequest) /\ AllOfKind("secret", SecretEnvRequests)
  <2>1. Chosen("secretEnvs") \in Seq(EnvObject) /\ in.spec.extraEnvs.secrets \in Seq(EnvObjectRef)
    BY SpecType, ChosenTypes
  <2>2. PICK rs : rs = EnvRequests("secret", Chosen("secretEnvs"), in.spec.extraEnvs.secrets)
    OBVIOUS
  <2>3. rs \in Seq(EnvRequest)
    BY <1>1, <2>1, <2>2, EnvRequestsType
  <2>4. AllOfKind("secret", rs)
    BY <1>1, <2>1, <2>2, EnvRequestsType
  <2>. QED BY <2>2, <2>3, <2>4 DEF SecretEnvRequests
<1>. QED BY <1>2, <1>3, <1>4, <1>5

LEMMA ClaimRequestTypes ==
  ASSUME PodPromise, in \in Inputs, flavours \in Seq(DOMAIN Flavours)
  PROVE  PvcRequests \in Seq(ClaimRequest)
<1>0. PICK os, refs, s, t :
        /\ os = Chosen("pvcs") /\ refs = in.spec.extraFiles.pvcs
        /\ s = [i \in DOMAIN os |-> DefPvcRequest(os[i])]
        /\ t = [i \in DOMAIN refs |-> PvcRequest(refs[i], in.spec.extraFiles.mountPath)]
  OBVIOUS
<1>1. os \in Seq(FileObject) /\ refs \in Seq(PvcRef) /\ in.spec.extraFiles.mountPath \in Dir
  BY <1>0, SpecType, ChosenTypes
<1>2. \A i \in DOMAIN os : DefPvcRequest(os[i]) \in ClaimRequest
  BY <1>1, ElementsOf, DefPvcRequestType
<1>3. \A i \in DOMAIN refs : PvcRequest(refs[i], in.spec.extraFiles.mountPath) \in ClaimRequest
  BY <1>1, ElementsOf, PvcRequestType
<1>4. s \in [DOMAIN os -> ClaimRequest] /\ t \in [DOMAIN refs -> ClaimRequest]
  BY <1>0, <1>2, <1>3
<1>5. s \in Seq(ClaimRequest) /\ t \in Seq(ClaimRequest)
  BY <1>1, <1>4, SeqByElements
<1>6. PvcRequests = s \o t
  BY <1>0 DEF PvcRequests
<1>. QED BY <1>5, <1>6, Joined

\* What a request for an app-config is made from, in whichever ConfigMap it is.
IsItem(o) ==
  /\ o = [name |-> o.name, keys |-> o.keys, settings |-> o.settings]
  /\ o.name \in STRING /\ o.keys \in KeyList
AreItems(items) == \E S : items \in Seq(S) /\ \A o \in S : IsItem(o)

ConfigRequest == {r \in FileRequest : r.containers = <<>>}

LEMMA AppConfigRequestsType ==
  ASSUME in \in Inputs, NEW items, AreItems(items)
  PROVE  AppConfigRequests(items) \in Seq(ConfigRequest)
<1>0. PICK S : items \in Seq(S) /\ \A o \in S : IsItem(o)
  BY DEF AreItems
<1>1. PICK cm, none, here, yes, shared, refs, s, t :
        /\ cm = "cm" /\ none = "" /\ here = WorkingDir /\ yes = TRUE
        /\ refs = in.spec.appConfig.configMaps /\ shared = in.spec.appConfig.mountPath
        /\ s = [i \in DOMAIN items |-> [kind |-> cm, name |-> items[i].name, containers |-> <<>>,
                                        path |-> here, file |-> none, sub |-> yes, keys |-> items[i].keys]]
        /\ t = [i \in DOMAIN refs |-> [SpecRequest(cm, refs[i], shared) EXCEPT !.containers = <<>>]]
  OBVIOUS
<1>2. cm \in STRING /\ none \in STRING /\ here \in Dir /\ yes \in BOOLEAN
  BY <1>1, Texts, WorkingDirType
<1>3. refs \in Seq(FileObjectRef) /\ shared \in Dir
  BY <1>1, SpecType
<1>4. ASSUME NEW i \in DOMAIN items PROVE s[i] \in ConfigRequest
  <2>1. items[i].name \in STRING /\ items[i].keys \in KeyList
    BY <1>0, ElementsOf DEF IsItem
  <2>2. s[i] = [kind |-> cm, name |-> items[i].name, containers |-> <<>>,
                path |-> here, file |-> none, sub |-> yes, keys |-> items[i].keys]
    BY <1>1
  <2>3. <<>> \in Seq(STRING)
    BY ShortSeqs
  <2>. QED BY <1>2, <2>1, <2>2, <2>3, SMT DEF ConfigRequest, FileRequest
<1>5. ASSUME NEW i \in DOMAIN refs PROVE t[i] \in ConfigRequest
  <2>0. PICK r : r = SpecRequest(cm, refs[i], shared)
    OBVIOUS
  <2>1. r \in FileRequest
    BY <1>2, <1>3, <2>0, ElementsOf, SpecRequestType
  <2>2. t[i] = [r EXCEPT !.containers = <<>>]
    BY <1>1, <2>0
  <2>3. <<>> \in Seq(STRING)
    BY ShortSeqs
  <2>. QED BY <2>1, <2>2, <2>3 DEF ConfigRequest, FileRequest
<1>6. s \in [DOMAIN items -> ConfigRequest] /\ t \in [DOMAIN refs -> ConfigRequest]
  BY <1>1, <1>4, <1>5
<1>7. s \in Seq(ConfigRequest) /\ t \in Seq(ConfigRequest)
  BY <1>0, <1>3, <1>6, SeqByElements
<1>8. AppConfigRequests(items) = s \o t
  BY <1>1 DEF AppConfigRequests
<1>. QED BY <1>7, <1>8, Joined

LEMMA ItemsType ==
  ASSUME PodPromise, in \in Inputs, flavours \in Seq(DOMAIN Flavours)
  PROVE  AreItems(WithPlugins)
<1>. DEFINE D == [name : STRING, keys : KeyList, settings : Optional(SUBSET Setting)]
            S == D \cup ToSet(addPluginsAppConfig)
<1>1. \A o \in D : IsItem(o)
  BY SMT DEF IsItem
<1>2. PICK name, key, settings :
        /\ name = "plugins-appconfig" /\ key = "plugins"
        /\ addPluginsAppConfig = <<>> \/
             addPluginsAppConfig = <<[name |-> name, keys |-> <<key>>, settings |-> settings]>>
  BY DEF addPluginsAppConfig
<1>3. name \in STRING /\ <<key>> \in KeyList
  BY <1>2, Texts, SingleKey
<1>4. PICK o : o = [name |-> name, keys |-> <<key>>, settings |-> settings]
  OBVIOUS
<1>5. IsItem(o)
  BY <1>3, <1>4, SMT DEF IsItem
<1>6. addPluginsAppConfig \in {<<>>, <<o>>}
  BY <1>2, <1>4
<1>7. /\ addPluginsAppConfig \in Seq(ToSet(addPluginsAppConfig))
      /\ \A x \in ToSet(addPluginsAppConfig) : x = o
  BY <1>6, SmallSets
<1>8. \A x \in S : IsItem(x)
  BY <1>1, <1>5, <1>7
<1>9. Chosen("appConfig") \in Seq(D)
  BY ChosenTypes
<1>10. D \subseteq S /\ ToSet(addPluginsAppConfig) \subseteq S
  OBVIOUS
<1>. HIDE DEF S, D
<1>11. addPluginsAppConfig \in Seq(S) /\ Chosen("appConfig") \in Seq(S)
  BY <1>7, <1>9, <1>10, Wider
<1>12. WithPlugins \in Seq(S)
  BY <1>11, Joined DEF WithPlugins
<1>. QED BY <1>8, <1>12 DEF AreItems

\* The base URLs do not change what is asked for.
LEMMA UrlsKeepRequests ==
  ASSUME NEW items, AreItems(items), NEW url
  PROVE  AppConfigRequests(updateAppConfigWithBaseUrls(items, url)) = AppConfigRequests(items)
<1>0. PICK S : items \in Seq(S) /\ \A o \in S : IsItem(o)
  BY DEF AreItems
<1>1. PICK new : new = updateAppConfigWithBaseUrls(items, url)
  OBVIOUS
<1>2. DOMAIN new = DOMAIN items /\ \A i \in DOMAIN items : new[i].name = items[i].name /\ new[i].keys = items[i].keys
  <2>. CASE new = items
    OBVIOUS
  <2>. CASE new # items
    <3>1. PICK set : new = [items EXCEPT ![1].settings = set]
      BY <1>1 DEF updateAppConfigWithBaseUrls
    <3>2. DOMAIN new = DOMAIN items
      BY <3>1
    <3>3. ASSUME NEW i \in DOMAIN items
          PROVE  new[i].name = items[i].name /\ new[i].keys = items[i].keys
      <4>1. PICK o : o = items[i] /\ IsItem(o)
        BY <1>0, ElementsOf
      <4>2. new[i] = IF i = 1 THEN [o EXCEPT !.settings = set] ELSE o
        BY <3>1, <4>1
      <4>3. [o EXCEPT !.settings = set].name = o.name /\ [o EXCEPT !.settings = set].keys = o.keys
        BY <4>1, SMT DEF IsItem
      <4>. QED BY <4>1, <4>2, <4>3
    <3>. QED BY <3>2, <3>3
  <2>. QED OBVIOUS
<1>3. [i \in DOMAIN new |-> [kind |-> "cm", name |-> new[i].name, containers |-> <<>>, path |-> WorkingDir,
                             file |-> "", sub |-> TRUE, keys |-> new[i].keys]] =
      [i \in DOMAIN items |-> [kind |-> "cm", name |-> items[i].name, containers |-> <<>>, path |-> WorkingDir,
                               file |-> "", sub |-> TRUE, keys |-> items[i].keys]]
  BY <1>2
<1>. QED BY <1>1, <1>3 DEF AppConfigRequests

LEMMA DbSecretType ==
  ASSUME in \in Inputs
  PROVE  DbSecretName \in Seq(STRING) /\ Len(DbSecretName) \in 0 .. 1
<1>1. in.spec.database \in Optional(Database)
  BY SpecType
<1>2. \A d \in in.spec.database : d.authSecretName \in STRING
  BY <1>1, SMT DEF Optional, Database
<1>3. IsAuthSecretSpecified(in.spec) => (CHOOSE d \in in.spec.database : TRUE) \in in.spec.database
  BY DEF IsAuthSecretSpecified
<1>4. PICK s \in STRING : s = "backstage-psql-secret"
  BY Texts
<1>5. \/ DbSecretName = <<>>
      \/ \E x \in STRING : DbSecretName = <<x>>
  BY <1>2, <1>3, <1>4 DEF DbSecretName, GeneratedSecret
<1>6. Len(<<>>) = 0 /\ 0 \in 0 .. 1 /\ 1 \in 0 .. 1
  BY SMT
<1>. QED BY <1>5, <1>6, ShortSeqs

\* The requests for the Secret with the credentials.
AllDb(rs, names) ==
  /\ Len(rs) = Len(names)
  /\ \A n \in 1 .. Len(rs) : rs[n].kind = "secret" /\ rs[n].key = "" /\ rs[n].containers = <<>> /\ rs[n].name = names[n]

LEMMA DbRequestsType ==
  ASSUME in \in Inputs
  PROVE  DbRequests \in Seq(EnvRequest) /\ AllDb(DbRequests, DbSecretName)
<1>0. PICK names, secret, none, rs :
        /\ names = DbSecretName /\ secret = "secret" /\ none = ""
        /\ rs = [i \in DOMAIN names |-> [kind |-> secret, name |-> names[i], containers |-> <<>>, key |-> none]]
  OBVIOUS
<1>1. names \in Seq(STRING) /\ secret \in STRING /\ none \in STRING
  BY <1>0, DbSecretType, Texts
<1>2. ASSUME NEW i \in DOMAIN names
      PROVE  /\ rs[i] \in EnvRequest
             /\ rs[i].kind = secret /\ rs[i].key = none /\ rs[i].containers = <<>> /\ rs[i].name = names[i]
  <2>1. rs[i] = [kind |-> secret, name |-> names[i], containers |-> <<>>, key |-> none]
    BY <1>0
  <2>2. names[i] \in STRING /\ <<>> \in Seq(STRING)
    BY <1>1, ElementsOf, ShortSeqs
  <2>. QED BY <1>1, <2>1, <2>2, SMT DEF EnvRequest
<1>3. rs \in [DOMAIN names -> EnvRequest]
  BY <1>0, <1>2
<1>4. rs \in Seq(EnvRequest) /\ Len(rs) = Len(names) /\ DOMAIN rs = DOMAIN names
  BY <1>1, <1>3, SeqByElements
<1>5. DOMAIN rs = 1 .. Len(rs)
  BY <1>4, LenProperties
<1>6. DbRequests = rs
  BY <1>0 DEF DbRequests
<1>. QED BY <1>0, <1>2, <1>4, <1>5, <1>6 DEF AllDb

LEMMA PluginsRequestType == PluginsRequest \in FileRequest
<1>0. PICK file, cm, name, here, yes, only :
        /\ file = IF enabled # {} THEN "packages.txt" ELSE "dynamic-plugins.yaml"
        /\ cm = "cm" /\ name = "backstage-dynamic-plugins" /\ here = WorkingDir /\ yes = TRUE
        /\ only = <<Installer>>
  OBVIOUS
<1>1. cm \in STRING /\ name \in STRING /\ here \in Dir /\ yes \in BOOLEAN /\ file \in STRING
  BY <1>0, Texts, WorkingDirType
<1>2. only \in Seq(STRING)
  BY <1>0, Texts, ShortSeqs DEF Installer
<1>3. <<file>> \in KeyList
  <2>1. "packages.txt" # "" /\ "dynamic-plugins.yaml" # ""
    BY SMT
  <2>2. file # ""
    BY <1>0, <2>1
  <2>. QED BY <1>1, <2>2, SingleKey
<1>4. PluginsRequest = [kind |-> cm, name |-> name, containers |-> only, path |-> here, file |-> file,
                        sub |-> yes, keys |-> <<file>>]
  BY <1>0 DEF PluginsRequest
<1>. QED BY <1>1, <1>2, <1>3, <1>4, SMT DEF FileRequest

-----------------------------------------------------------------------------
(* The Pod template to begin with                                           *)

\* A Pod nobody has asked anything of.
Untouched(C, p) ==
  /\ p \in Pods(C) /\ MountsResolved(p)
  /\ \A c \in C : p.envFrom[c] = <<>> /\ Len(p.mounts[c]) = 1

\* Nothing is mounted twice, and no Secret is used.
LEMMA UntouchedPod ==
  ASSUME NEW C, NEW p, Untouched(C, p)
  PROVE  /\ Main \in C => SecretsOf(p) = {}
         /\ \A rs : \A c \in C : \A path : Overridden(p, rs, 0, c, path)
<1>1. \A c \in C : p.mounts[c] \in Seq(Mount)
  BY SMT DEF Untouched, Pods
<1>2. \A c \in C : DOMAIN p.mounts[c] = 1 .. 1
  BY <1>1, SMT DEF Untouched
<1>3. \A c \in C : \A k, l \in DOMAIN p.mounts[c] : k = l
  BY <1>2, SMT
<1>4. 1 .. 0 = {} /\ ToSet(<<>>) = {}
  BY SMT DEF ToSet
<1>5. Main \in C => SecretsOf(p) = {}
  BY <1>4, SMT DEF SecretsOf, Untouched
<1>6. \A rs : \A c \in C : \A path : Overridden(p, rs, 0, c, path)
  BY <1>3, <1>4, SMT DEF Overridden
<1>. QED BY <1>5, <1>6, SMT

\* What AddDeployment comes to.
StartsWith(C) ==
  /\ IsFiniteSet(C) /\ Main \in C /\ Untouched(C, pod')
  /\ pod'.args = IF in.op.operatorDp /\ Installer \in C THEN <<>> ELSE <<<<"dynamic-plugins-root", "app-config">>>>

\* That it does is proved where the operations on the Pod are known.
Begins ==
  AddDeployment /\ ~Fail =>
    /\ \E C : StartsWith(C)
    /\ \E k \in Deployables : objects' = [objects EXCEPT !.kind = k]
    /\ pc = "deployment" /\ pc' = "sources" /\ UNCHANGED <<in, flavours, sources, data, enabled>>

-----------------------------------------------------------------------------
(* The steps                                                                *)

\* The flavours that are enabled are flavours.
LEMMA FlavoursType ==
  ASSUME in \in Inputs, NEW fs \in GetEnabledFlavours(in.spec.flavours, [f \in DOMAIN Flavours |-> Flavours[f].byDefault])
  PROVE  fs \in Seq(DOMAIN Flavours)
<1>. DEFINE byDefault == [f \in DOMAIN Flavours |-> Flavours[f].byDefault]
<1>1. DOMAIN byDefault = DOMAIN Flavours
  BY SMT
<1>. HIDE DEF byDefault
<1>2. fs = <<>> \/ \E S \in SUBSET (DOMAIN Flavours) : fs \in SetToSeqs(S)
  BY <1>1 DEF GetEnabledFlavours, byDefault
<1>3. ASSUME NEW S \in SUBSET (DOMAIN Flavours), fs \in SetToSeqs(S) PROVE fs \in Seq(DOMAIN Flavours)
  <2>1. Cardinality(S) \in Nat
    BY InputsAssumption, FS_Subset, FS_CardinalityType
  <2>2. fs \in [1 .. Cardinality(S) -> S]
    BY <1>3 DEF SetToSeqs
  <2>. QED BY <2>1, <2>2, SMT
<1>. QED BY <1>2, <1>3, ShortSeqs

\* AddDynamicPlugins leaves one set of plugins at most, and one with a ConfigMap of
\* the spec.
LEMMA PluginsStep ==
  ASSUME in \in Inputs, AddDynamicPlugins, ~Fail
  PROVE  /\ AtMostOneOf(data') /\ AtMostOneOf(enabled') /\ (in.user # {} => data' # {})
         /\ pc = "plugins" /\ pc' = "route" /\ UNCHANGED <<in, flavours, sources, pod, objects>>
<1>. DEFINE user   == UNION in.user
            merged == IF in.user = {} THEN data ELSE MergePluginsData(data, user, in.op.operatorDp)
<1>1. /\ in.user # {{}} /\ ~(data # {} /\ merged = {})
      /\ \E d \in IF merged = {} THEN {{}} ELSE {{m} : m \in merged} :
           /\ data' = d
           /\ enabled' = IF in.op.operatorDp
                         THEN {SelectSeq(x.plugins, LAMBDA p : ~IsDisabled(p)) : x \in d} ELSE {}
      /\ pc = "plugins" /\ pc' = "route" /\ UNCHANGED <<in, flavours, sources, pod, objects>>
  BY DEF AddDynamicPlugins, GoTo
<1>2. in.user # {} => merged # {}
  <2>1. \A a, b \in in.user : a = b
    BY InputsAssumption DEF Optional
  <2>2. \A us : (\A a, b \in us : a = b) /\ us # {} /\ us # {{}} => UNION us # {}
    <3>. SUFFICES ASSUME NEW us, \A a, b \in us : a = b, us # {}, us # {{}}
                  PROVE  \E x : x \in UNION us
      BY SMT
    <3>1. PICK u \in us : us = {u}
      BY SMT
    <3>2. PICK x : x \in u
      BY <3>1, SMT
    <3>. QED BY <3>1, <3>2, SMT
  <2>. QED BY <1>1, <2>1, <2>2 DEF MergePluginsData
<1>. HIDE DEF merged
<1>3. PICK d : /\ d = {} \/ \E m \in merged : d = {m}
               /\ data' = d /\ (merged # {} => d # {})
               /\ enabled' = IF in.op.operatorDp
                             THEN {SelectSeq(x.plugins, LAMBDA p : ~IsDisabled(p)) : x \in d} ELSE {}
  BY <1>1
<1>4. AtMostOneOf(d) /\ AtMostOneOf({SelectSeq(x.plugins, LAMBDA p : ~IsDisabled(p)) : x \in d})
  <2>. DEFINE On(x) == SelectSeq(x.plugins, LAMBDA p : ~IsDisabled(p))
  <2>1. {SelectSeq(x.plugins, LAMBDA p : ~IsDisabled(p)) : x \in d} = {On(x) : x \in d}
    OBVIOUS
  <2>. HIDE DEF On
  <2>. CASE d = {}
    BY <2>1, SMT DEF AtMostOneOf
  <2>3. ASSUME NEW m, d = {m} PROVE AtMostOneOf(d) /\ AtMostOneOf({On(x) : x \in d})
    <3>1. {On(x) : x \in d} = {On(m)}
      BY <2>3, SMT
    <3>. QED BY <2>3, <3>1, SMT DEF AtMostOneOf
  <2>. QED BY <1>3, <2>1, <2>3
<1>5. AtMostOneOf({})
  BY SMT DEF AtMostOneOf
<1>. QED BY <1>1, <1>2, <1>3, <1>4, <1>5

\* What a step does, by what it changes: the other objects, or the Pod, of which one
\* object after the other asks something.
Goes(from, to) == pc = from /\ pc' = to
SameModel == UNCHANGED <<in, flavours, data, enabled>>
ObjectsStep(from, to) == Goes(from, to) /\ SameModel /\ UNCHANGED pod
PodStep(from, to, pods) == Goes(from, to) /\ SameModel /\ UNCHANGED objects /\ pod' \in pods

ConfigsStep ==
  /\ Goes("updateAppConfig", "configMapEnvs") /\ SameModel
  /\ \E items : /\ items = addPluginsAppConfig \o objects.appConfigs
                /\ objects' = [objects EXCEPT !.appConfigs = items]
                /\ pod' \in All(updatePodWithAppConfig, pod, AppConfigRequests(items))

\* The image of the installer is of no consequence.
OtherImage(p, q) == \E img \in Images \cup {p.image} : q = [p EXCEPT !.image = img]
PluginsMounted ==
  /\ Goes("dynamicPlugins", "pvcs") /\ SameModel /\ UNCHANGED objects
  /\ \/ data = {} /\ in.user = {} /\ UNCHANGED pod
     \/ /\ ~(data = {} /\ in.user = {})
        /\ \E p : OtherImage(pod, p) /\ pod' \in mountFilesFrom(p, PluginsRequest)

AddsObjects ==
  \/ ObjectsStep("appConfig", "dbSecret") \/ ObjectsStep("dbSecret", "dbService")
  \/ ObjectsStep("dbService", "dbStatefulSet") \/ ObjectsStep("dbStatefulSet", "deployment")
  \/ ObjectsStep("sources", "plugins") \/ ObjectsStep("route", "service")
  \/ ObjectsStep("service", "updateAppConfig")
UpdatesObjects ==
  \/ ObjectsStep("updateDbSecret", "updateDbStatefulSet")
  \/ ObjectsStep("updateDbStatefulSet", "updateDeployment")
  \/ ObjectsStep("updateRoute", "secretEnvs")
AddsEnvs ==
  \/ PodStep("configMapEnvs", "configMapFiles", All(addEnvVarsFrom, pod, ConfigMapEnvRequests))
  \/ PodStep("updateDeployment", "dynamicPlugins", All(addEnvVarsFrom, pod, DbRequests))
  \/ PodStep("secretEnvs", "secretFiles", All(addEnvVarsFrom, pod, SecretEnvRequests))
MountsFiles ==
  \/ PodStep("configMapFiles", "updateDbSecret", All(mountFilesFrom, pod, FileRequests))
  \/ PodStep("secretFiles", "done", All(mountFilesFrom, pod, SecretRequests))
MountsClaims == PodStep("pvcs", "updateRoute", All(addPvc, pod, PvcRequests))

LEMMA BecomeParts ==
  ASSUME NEW os, NEW from, NEW to, pc = from, Become(os, to), ~Fail
  PROVE  ObjectsStep(from, to)
BY DEF Become, GoTo, ObjectsStep, Goes, SameModel

LEMMA AddsObjectsSteps ==
  ASSUME ~Fail,
         \/ AddAppConfig \/ AddDbSecret \/ AddDbService \/ AddDbStatefulSet
         \/ SourcesMerged \/ AddRoute \/ AddService
  PROVE  AddsObjects
<1>. CASE AddAppConfig
  BY BecomeParts DEF AddAppConfig, AddsObjects
<1>. CASE AddDbSecret
  BY BecomeParts DEF AddDbSecret, AddsObjects
<1>. CASE AddDbService
  BY BecomeParts DEF AddDbService, AddDbObject, AddsObjects
<1>. CASE AddDbStatefulSet
  BY BecomeParts DEF AddDbStatefulSet, AddDbObject, AddsObjects
<1>. CASE SourcesMerged
  BY DEF SourcesMerged, GoTo, AddsObjects, ObjectsStep, Goes, SameModel
<1>. CASE AddRoute
  <2>1. pc = "route" /\ \E os : Become(os, "service")
    BY SMT DEF AddRoute
  <2>. QED BY <2>1, BecomeParts DEF AddsObjects
<1>. CASE AddService
  BY BecomeParts DEF AddService, AddsObjects
<1>. QED BY SMT

LEMMA UpdatesObjectsSteps ==
  ASSUME ~Fail, UpdateDbSecret \/ UpdateDbStatefulSet \/ UpdateRoute
  PROVE  UpdatesObjects
<1>. CASE UpdateDbSecret
  BY BecomeParts DEF UpdateDbSecret, UpdatesObjects
<1>. CASE UpdateDbStatefulSet
  <2>1. pc = "updateDbStatefulSet" /\ \E os : Become(os, "updateDeployment")
    BY SMT DEF UpdateDbStatefulSet
  <2>. QED BY <2>1, BecomeParts DEF UpdatesObjects
<1>. CASE UpdateRoute
  BY BecomeParts DEF UpdateRoute, UpdatesObjects
<1>. QED BY SMT

LEMMA UpdateParts ==
  ASSUME NEW from, NEW to, NEW pods, pc = from, Update(pods, to), ~Fail
  PROVE  PodStep(from, to, pods)
BY DEF Update, GoTo, PodStep, Goes, SameModel

LEMMA PodSteps ==
  ASSUME ~Fail
  PROVE  /\ UpdateConfigMapEnvs \/ UpdateDeployment \/ UpdateSecretEnvs => AddsEnvs
         /\ UpdateConfigMapFiles \/ UpdateSecretFiles => MountsFiles
         /\ UpdatePvcs => MountsClaims
<1>1. UpdateConfigMapEnvs => AddsEnvs
  BY UpdateParts DEF UpdateConfigMapEnvs, AddsEnvs
<1>2. UpdateDeployment => AddsEnvs
  BY UpdateParts DEF UpdateDeployment, AddsEnvs
<1>3. UpdateSecretEnvs => AddsEnvs
  BY UpdateParts DEF UpdateSecretEnvs, AddsEnvs
<1>4. UpdateConfigMapFiles => MountsFiles
  BY UpdateParts DEF UpdateConfigMapFiles, MountsFiles
<1>5. UpdateSecretFiles => MountsFiles
  <2>1. ASSUME UpdateSecretFiles
        PROVE  pc = "secretFiles" /\ Update(All(mountFilesFrom, pod, SecretRequests), "done")
    BY <2>1 DEF UpdateSecretFiles, Update
  <2>. QED BY <2>1, UpdateParts DEF MountsFiles
<1>6. UpdatePvcs => MountsClaims
  BY UpdateParts DEF UpdatePvcs, MountsClaims
<1>. QED BY <1>1, <1>2, <1>3, <1>4, <1>5, <1>6

LEMMA ConfigsSteps ==
  ASSUME ~Fail, UpdateAppConfig
  PROVE  ConfigsStep
<1>1. \E items : /\ items = addPluginsAppConfig \o objects.appConfigs
                 /\ objects' = [objects EXCEPT !.appConfigs = items]
                 /\ pod' \in All(updatePodWithAppConfig, pod, AppConfigRequests(items))
  BY DEF UpdateAppConfig
<1>2. Goes("updateAppConfig", "configMapEnvs") /\ SameModel
  BY DEF UpdateAppConfig, GoTo, Goes, SameModel
<1>. QED BY <1>1, <1>2 DEF ConfigsStep

LEMMA PluginsMountedStep ==
  ASSUME ~Fail, UpdateDynamicPlugins
  PROVE  PluginsMounted
<1>. CASE data = {} /\ in.user = {}
  <2>1. pc = "dynamicPlugins" /\ Update({pod}, "pvcs")
    BY DEF UpdateDynamicPlugins
  <2>. QED BY <2>1 DEF Update, GoTo, PluginsMounted, Goes, SameModel
<1>. CASE ~(data = {} /\ in.user = {})
  <2>. DEFINE img == IF in.op.backstageImage THEN "backstage" ELSE pod.image
              p   == [pod EXCEPT !.image = img]
  <2>1. pc = "dynamicPlugins" /\ Update(mountFilesFrom(p, PluginsRequest), "pvcs")
    BY DEF UpdateDynamicPlugins, Update
  <2>2. img \in Images \cup {pod.image}
    BY SMT DEF Images
  <2>. HIDE DEF img
  <2>3. OtherImage(pod, p)
    BY <2>2 DEF OtherImage
  <2>. HIDE DEF p
  <2>. QED BY <2>1, <2>3 DEF Update, GoTo, PluginsMounted, Goes, SameModel
<1>. QED BY SMT

-----------------------------------------------------------------------------
(* What stays as it is when the model does                                  *)

LEMMA SameChosen ==
  ASSUME UNCHANGED <<in, flavours>>
  PROVE  \A key : Chosen(key)' = Chosen(key)
BY SMT DEF Chosen, ChosenFor, ReadDefaultConfig, collectConfigSources

LEMMA SamePlugins ==
  ASSUME UNCHANGED enabled
  PROVE  addPluginsAppConfig' = addPluginsAppConfig
BY DEF addPluginsAppConfig

ClaimsFor(os, refs, shared) ==
  [i \in DOMAIN os |-> DefPvcRequest(os[i])] \o [i \in DOMAIN refs |-> PvcRequest(refs[i], shared)]

LEMMA SameClaims ==
  ASSUME UNCHANGED <<in, flavours>>
  PROVE  ClaimPaths' = ClaimPaths
<1>1. Chosen("pvcs")' = Chosen("pvcs")
  BY SameChosen
<1>2. /\ PvcRequests = ClaimsFor(Chosen("pvcs"), in.spec.extraFiles.pvcs, in.spec.extraFiles.mountPath)
      /\ PvcRequests' = ClaimsFor(Chosen("pvcs")', in'.spec.extraFiles.pvcs, in'.spec.extraFiles.mountPath)
  BY DEF PvcRequests, ClaimsFor
<1>. QED BY <1>1, <1>2 DEF ClaimPaths

LEMMA SameAsked ==
  ASSUME SameModel
  PROVE  /\ UNCHANGED <<ConfigsAsked, FileRequests, PluginsRequests, SecretRequests>>
         /\ UNCHANGED <<AllAsked, ClaimPaths, WithPlugins>>
<1>1. UNCHANGED <<in, flavours, data, enabled>>
  BY SMT DEF SameModel
<1>2. WithPlugins' = WithPlugins
  BY <1>1, SameChosen, SamePlugins DEF WithPlugins
<1>3. ConfigsAsked' = ConfigsAsked
  BY <1>1, <1>2 DEF ConfigsAsked, AppConfigRequests
<1>4. FileRequests' = FileRequests /\ SecretRequests' = SecretRequests
  BY <1>1, SameChosen DEF FileRequests, SecretRequests
<1>5. PluginsRequests' = PluginsRequests
  BY <1>1 DEF PluginsRequests, PluginsRequest
<1>6. ClaimPaths' = ClaimPaths
  BY <1>1, SameClaims
<1>. QED BY <1>2, <1>3, <1>4, <1>5, <1>6 DEF AllAsked

-----------------------------------------------------------------------------
(* The steps, by what they change                                           *)

LEMMA StepKinds ==
  ASSUME Next, ~Fail
  PROVE  \/ EnableFlavours \/ AddDeployment \/ MergeSource \/ AddDynamicPlugins
         \/ AddsObjects \/ UpdatesObjects \/ AddsEnvs \/ MountsClaims
         \/ ConfigsStep \/ MountsFiles \/ PluginsMounted
<1>. CASE \/ AddAppConfig \/ AddDbSecret \/ AddDbService \/ AddDbStatefulSet
           \/ SourcesMerged \/ AddRoute \/ AddService
  BY AddsObjectsSteps
<1>. CASE UpdateDbSecret \/ UpdateDbStatefulSet \/ UpdateRoute
  BY UpdatesObjectsSteps
<1>. QED BY PodSteps, ConfigsSteps, PluginsMountedStep DEF Next

\* Steps that serve no request for files.
Same(S) == pc' \in S <=> pc \in S
Carried ==
  /\ Same(PodAdded) /\ Same(PluginsAdded) /\ Same(ConfigsServed) /\ Same(FilesServed)
  /\ Same(PluginsServed) /\ Same(SecretsServed) /\ pc \in {"appConfig"} \cup ConfigsAdded /\ pc' \in ConfigsAdded

LEMMA MovesCarry ==
  ASSUME AddsObjects \/ UpdatesObjects \/ AddsEnvs \/ MountsClaims
  PROVE  Carried /\ SameModel
<1>. USE DEF SecretsServed, EnvsServed, RouteUpdated, PluginsServed, DbEnvServed, DbSetUpdated, DbUpdated,
             FilesServed, ConfigsServed, ServiceAdded, PluginsAdded, PodAdded, DbAdded, DbServiceAdded,
             DbSecretAdded, ConfigsAdded, Carried, Same, Goes
<1>. CASE AddsObjects
  BY SMT DEF AddsObjects, ObjectsStep
<1>. CASE UpdatesObjects
  BY SMT DEF UpdatesObjects, ObjectsStep
<1>. CASE AddsEnvs
  BY SMT DEF AddsEnvs, PodStep
<1>. CASE MountsClaims
  BY SMT DEF MountsClaims, PodStep
<1>. QED BY SMT

LEMMA Stages ==
  /\ SecretsServed \subseteq PluginsServed /\ PluginsServed \subseteq FilesServed /\ FilesServed \subseteq ConfigsServed
  /\ ConfigsServed \subseteq PluginsAdded /\ PluginsAdded \subseteq PodAdded /\ PodAdded \subseteq ConfigsAdded
  /\ {"flavours", "appConfig", "deployment", "failed"} \cap PodAdded = {} /\ "failed" \notin ConfigsAdded
  /\ {"sources", "plugins"} \subseteq PodAdded \ PluginsAdded /\ "route" \in PluginsAdded \ ConfigsServed
  /\ "updateAppConfig" \in PluginsAdded \ ConfigsServed /\ "configMapEnvs" \in ConfigsServed \ FilesServed
  /\ "configMapFiles" \in ConfigsServed \ FilesServed /\ "updateDbSecret" \in FilesServed \ PluginsServed
  /\ "dynamicPlugins" \in FilesServed \ PluginsServed /\ "pvcs" \in PluginsServed \ SecretsServed
  /\ "secretFiles" \in PluginsServed \ SecretsServed /\ "done" \in SecretsServed
BY SMT DEF SecretsServed, EnvsServed, RouteUpdated, PluginsServed, DbEnvServed, DbSetUpdated, DbUpdated,
       FilesServed, ConfigsServed, ServiceAdded, PluginsAdded, PodAdded, DbAdded, DbServiceAdded,
       DbSecretAdded, ConfigsAdded

\* Steps that serve requests for files.
LEMMA MovesServe ==
  ASSUME ConfigsStep \/ MountsFiles \/ PluginsMounted
  PROVE  SameModel /\ pc \in PluginsAdded /\ pc' \in PluginsAdded
<1>. CASE ConfigsStep
  BY Stages, SMT DEF ConfigsStep, Goes
<1>. CASE MountsFiles
  BY Stages, SMT DEF MountsFiles, PodStep, Goes
<1>. CASE PluginsMounted
  BY Stages, SMT DEF PluginsMounted, Goes
<1>. QED BY SMT

LEMMA ModelStep ==
  ASSUME PodPromise, Begins, ModelInv, Next
  PROVE  ModelInv'
<1>. CASE Fail
  BY Stages, SMT DEF Fail, ModelInv
<1>. CASE ~Fail
  <2>. CASE EnableFlavours
    <3>1. PICK fs \in GetEnabledFlavours(in.spec.flavours, [f \in DOMAIN Flavours |-> Flavours[f].byDefault]) :
            flavours' = fs /\ pc' = "appConfig" /\ UNCHANGED <<in, data, enabled>>
      BY DEF EnableFlavours, GoTo
    <3>2. flavours' \in Seq(DOMAIN Flavours)
      BY <3>1, FlavoursType DEF ModelInv
    <3>. QED BY <3>1, <3>2, Stages, SMT DEF ModelInv
  <2>. CASE AddDeployment
    <3>1. pc' = "sources" /\ UNCHANGED <<in, flavours, data, enabled>>
      BY DEF Begins
    <3>. QED BY <3>1, Stages, SMT DEF ModelInv
  <2>. CASE MergeSource
    <3>1. PICK d : data' = {d} /\ pc = "sources" /\ UNCHANGED <<in, pc, flavours, enabled>>
      BY DEF MergeSource
    <3>. QED BY <3>1, Stages, SMT DEF ModelInv, AtMostOneOf
  <2>. CASE AddDynamicPlugins
    <3>1. /\ AtMostOneOf(data') /\ AtMostOneOf(enabled') /\ (in.user # {} => data' # {})
          /\ pc' = "route" /\ UNCHANGED <<in, flavours>>
      BY PluginsStep DEF ModelInv
    <3>. QED BY <3>1, Stages, SMT DEF ModelInv, AtMostOneOf
  <2>. CASE AddsObjects \/ UpdatesObjects \/ AddsEnvs \/ MountsClaims
    <3>1. Carried /\ SameModel
      BY MovesCarry
    <3>. QED BY <3>1, SMT DEF Carried, Same, SameModel, ModelInv, AtMostOneOf
  <2>. CASE ConfigsStep \/ MountsFiles \/ PluginsMounted
    <3>1. SameModel /\ pc \in PluginsAdded /\ pc' \in PluginsAdded
      BY MovesServe
    <3>. QED BY <3>1, Stages, SMT DEF SameModel, ModelInv, AtMostOneOf
  <2>. QED BY StepKinds
<1>. QED BY SMT

-----------------------------------------------------------------------------
(* What the Pod becomes                                                     *)

LEMMA PodGiven ==
  ASSUME PodInv, pc \in PodAdded
  PROVE  PodOf(allContainers(pod), pod)
BY DEF PodInv, PodOf

LEMMA EnvsAdded ==
  ASSUME PodPromise, PodInv, pc \in PodAdded, NEW rs \in Seq(EnvRequest), pod' \in All(addEnvVarsFrom, pod, rs)
  PROVE  /\ pod' \in Pods(allContainers(pod)) /\ RestKept(pod, pod')
         /\ SecretsAdded(pod, pod', rs) /\ WholeSecrets(pod', rs)
BY PodGiven, RequestsAre DEF PodPromise, EnvsPromise

LEMMA ClaimsAdded ==
  ASSUME PodPromise, ModelInv, PodInv, MountsClaims
  PROVE  pod' \in Pods(allContainers(pod)) /\ ClaimsDone(allContainers(pod), pod, pod', PvcRequests)
<1>1. pod' \in All(addPvc, pod, PvcRequests) /\ pc = "pvcs"
  BY DEF MountsClaims, PodStep, Goes
<1>2. pc \in PodAdded
  BY <1>1, Stages, SMT
<1>3. /\ PvcRequests \in Seq(ClaimRequest) /\ \A r \in ClaimRequest : IsClaimRequest(r)
  BY ClaimRequestTypes, RequestsAre DEF ModelInv
<1>. QED BY <1>1, <1>2, <1>3, PodGiven DEF PodPromise, ClaimsPromise

\* The requests rs for files are served.
ServedBy(rs) ==
  /\ rs \in Seq(FileRequest) /\ pod' \in Pods(allContainers(pod)) /\ pod'.envFrom = pod.envFrom
  /\ MountsResolved(pod) => MountsResolved(pod')
  /\ OverriddenBy(allContainers(pod), pod, pod', rs, Len(rs)) /\ ReadableStill(pod, pod', rs)

LEMMA FilesServedBy ==
  ASSUME PodPromise, PodInv, pc \in PodAdded, NEW rs \in Seq(FileRequest), pod' \in All(mountFilesFrom, pod, rs)
  PROVE  ServedBy(rs) /\ pod'.args = pod.args
<1>1. OnlyFilesMounted(allContainers(pod), pod, pod', rs)
  BY PodGiven, RequestsAre DEF PodPromise, FilesPromise
<1>. QED BY <1>1 DEF ServedBy, OnlyFilesMounted, FilesMountedFor, FilesDone

LEMMA ConfigsServedBy ==
  ASSUME PodPromise, ModelInv, PodInv, AppConfigsInv, ConfigsStep
  PROVE  /\ ServedBy(ConfigsAsked) /\ ConfigsRead(pod, pod', ConfigsAsked)
         /\ objects' = [objects EXCEPT !.appConfigs = WithPlugins]
<1>1. pc = "updateAppConfig"
  BY DEF ConfigsStep, Goes
<1>2. pc \in PodAdded /\ objects.appConfigs = Chosen("appConfig")
  BY <1>1, Stages, SMT DEF AppConfigsInv
<1>3. pod' \in All(updatePodWithAppConfig, pod, ConfigsAsked) /\ objects' = [objects EXCEPT !.appConfigs = WithPlugins]
  BY <1>2 DEF ConfigsStep, ConfigsAsked, WithPlugins
<1>4. ConfigsAsked \in Seq(ConfigRequest)
  BY ItemsType, AppConfigRequestsType DEF ModelInv, ConfigsAsked
<1>5. \A r \in ConfigRequest : r \in FileRequest /\ IsFileRequest(r) /\ r.containers = <<>>
  BY RequestsAre, SMT DEF ConfigRequest
<1>6. FilesMountedFor(allContainers(pod), pod, pod', ConfigsAsked) /\ ConfigsRead(pod, pod', ConfigsAsked)
  BY <1>2, <1>3, <1>4, <1>5, PodGiven DEF PodPromise, ConfigsPromise
<1>7. ConfigsAsked \in Seq(FileRequest)
  BY <1>4, <1>5, Wider
<1>. QED BY <1>3, <1>6, <1>7 DEF ServedBy, FilesMountedFor, FilesDone

\* The image does not matter.
LEMMA ImageKept ==
  ASSUME NEW C, NEW p \in Pods(C), NEW q, OtherImage(p, q)
  PROVE  q \in Pods(C) /\ q.args = p.args /\ q.env = p.env /\ q.envFrom = p.envFrom /\ q.mounts = p.mounts /\ q.volumes = p.volumes
BY DEF OtherImage, Pods

LEMMA PluginsServedBy ==
  ASSUME PodPromise, ModelInv, PodInv, PluginsMounted
  PROVE  ServedBy(PluginsRequests) /\ pod'.args = pod.args
<1>. DEFINE C == allContainers(pod)
<1>0. pc \in PluginsAdded /\ pc \in PodAdded
  BY Stages, SMT DEF PluginsMounted, Goes
<1>1. pod \in Pods(C) /\ PodOf(C, pod)
  BY <1>0, PodGiven DEF PodInv
<1>. CASE data = {} /\ in.user = {} /\ UNCHANGED pod
  <2>1. PluginsRequests = <<>>
    BY DEF PluginsRequests
  <2>2. OverriddenBy(C, pod, pod', <<>>, Len(<<>>)) /\ ReadableStill(pod, pod', <<>>)
    BY SMT DEF OverriddenBy, ReadableStill, Follows
  <2>. QED BY <1>1, <2>1, <2>2, ShortSeqs DEF ServedBy
<1>2. ASSUME NEW p, OtherImage(pod, p), pod' \in mountFilesFrom(p, PluginsRequest), data # {}
      PROVE  ServedBy(PluginsRequests) /\ pod'.args = pod.args
  <2>. DEFINE r == PluginsRequest
  <2>1. /\ p \in Pods(C) /\ p.args = pod.args /\ p.env = pod.env /\ p.envFrom = pod.envFrom
        /\ p.mounts = pod.mounts /\ p.volumes = pod.volumes
    BY <1>1, <1>2, ImageKept
  <2>2. r \in FileRequest /\ IsFileRequest(r)
    BY PluginsRequestType, RequestsAre
  <2>. HIDE DEF r
  <2>3. OnlyFilesMounted(C, p, pod', <<r>>)
    BY <1>1, <1>2, <2>1, <2>2 DEF PodPromise, FilePromise, PodOf, r
  <2>4. PluginsRequests = <<r>> /\ <<r>> \in Seq(FileRequest)
    BY <1>2, <2>2, ShortSeqs DEF PluginsRequests, r
  <2>5. /\ MountsResolved(pod) => MountsResolved(p)
        /\ \A rs, n, c, path : Overridden(pod, rs, n, c, path) => Overridden(p, rs, n, c, path)
        /\ \A file, ms : Readable(pod, file, ms) => Readable(p, file, ms)
    BY <2>1 DEF PodPromise, MountsPromise
  <2>6. OverriddenBy(C, pod, pod', <<r>>, Len(<<r>>))
    BY <2>3, <2>5 DEF OnlyFilesMounted, FilesMountedFor, OverriddenBy
  <2>7. ReadableStill(pod, pod', <<r>>)
    BY <2>3, <2>5 DEF OnlyFilesMounted, FilesMountedFor, ReadableStill
  <2>8. pod' \in Pods(C) /\ pod'.envFrom = pod.envFrom /\ pod'.args = pod.args /\ (MountsResolved(pod) => MountsResolved(pod'))
    BY <2>1, <2>3, <2>5 DEF OnlyFilesMounted, FilesMountedFor, FilesDone
  <2>. QED BY <2>4, <2>6, <2>7, <2>8 DEF ServedBy
<1>3. in.user # {} => data # {}
  BY <1>0 DEF ModelInv
<1>. QED BY <1>2, <1>3 DEF PluginsMounted

\* The steps that leave the Pod alone.
NothingServed(at) == at \in PodAdded \ ConfigsServed
Idle ==
  /\ UNCHANGED <<in, pod>>
  /\ \/ pc' \notin PodAdded
     \/ NothingServed(pc) /\ NothingServed(pc') /\ UNCHANGED flavours
     \/ Carried /\ SameModel

LEMMA IdleSteps ==
  ASSUME ModelInv, Next
  PROVE  \/ Idle
         \/ AddDeployment /\ ~Fail
         \/ AddsEnvs \/ MountsClaims \/ ConfigsStep \/ MountsFiles \/ PluginsMounted
<1>1. /\ "failed" \notin PodAdded /\ "appConfig" \notin PodAdded
      /\ NothingServed("sources") /\ NothingServed("plugins") /\ NothingServed("route")
  BY Stages, SMT DEF NothingServed
<1>2. Fail => Idle
  BY <1>1 DEF Fail, Idle
<1>3. EnableFlavours /\ ~Fail => Idle
  BY <1>1 DEF EnableFlavours, GoTo, Idle
<1>4. MergeSource /\ ~Fail => Idle
  BY <1>1 DEF MergeSource, Idle
<1>5. ASSUME AddDynamicPlugins, ~Fail PROVE Idle
  <2>1. pc = "plugins" /\ pc' = "route" /\ UNCHANGED <<in, flavours, pod>>
    BY <1>5, PluginsStep DEF ModelInv
  <2>. QED BY <1>1, <2>1 DEF Idle
<1>6. ASSUME AddsObjects \/ UpdatesObjects PROVE Idle
  <2>1. UNCHANGED <<in, pod>>
    BY <1>6 DEF AddsObjects, UpdatesObjects, ObjectsStep, SameModel
  <2>2. Carried /\ SameModel
    BY <1>6, MovesCarry
  <2>. QED BY <2>1, <2>2 DEF Idle
<1>. QED BY <1>2, <1>3, <1>4, <1>5, <1>6, StepKinds

LEMMA EnvsKeep ==
  ASSUME PodPromise, ModelInv, PodInv, AddsEnvs
  PROVE  pod' \in Pods(allContainers(pod)) /\ RestKept(pod, pod') /\ pc \in PodAdded
<1>1. pc \in PodAdded
  BY SMT DEF AddsEnvs, PodStep, Goes, PodAdded, PluginsAdded, ServiceAdded, ConfigsServed, FilesServed, DbUpdated,
         DbSetUpdated, DbEnvServed, PluginsServed, RouteUpdated
<1>2. /\ ConfigMapEnvRequests \in Seq(EnvRequest) /\ SecretEnvRequests \in Seq(EnvRequest)
      /\ DbRequests \in Seq(EnvRequest)
  BY RequestTypes, DbRequestsType DEF ModelInv
<1>. QED BY <1>1, <1>2, EnvsAdded DEF AddsEnvs, PodStep

LEMMA FilesKeep ==
  ASSUME PodPromise, ModelInv, PodInv, MountsFiles
  PROVE  /\ pod'.args = pod.args
         /\ \/ ServedBy(FileRequests) /\ pc \in ConfigsServed \ FilesServed /\ pc' \in FilesServed \ PluginsServed
            \/ ServedBy(SecretRequests) /\ pc \in PluginsServed \ SecretsServed /\ pc' \in SecretsServed
<1>1. FileRequests \in Seq(FileRequest) /\ SecretRequests \in Seq(FileRequest)
  BY RequestTypes DEF ModelInv
<1>2. \/ /\ pc = "configMapFiles" /\ pc' = "updateDbSecret"
         /\ pod' \in All(mountFilesFrom, pod, FileRequests)
      \/ /\ pc = "secretFiles" /\ pc' = "done"
         /\ pod' \in All(mountFilesFrom, pod, SecretRequests)
  BY DEF MountsFiles, PodStep, Goes
<1>3. /\ pc = "configMapFiles" => pc \in PodAdded /\ pc \in ConfigsServed \ FilesServed
      /\ pc' = "updateDbSecret" => pc' \in FilesServed \ PluginsServed
      /\ pc = "secretFiles" => pc \in PodAdded /\ pc \in PluginsServed \ SecretsServed
      /\ pc' = "done" => pc' \in SecretsServed
  BY Stages, SMT
<1>. QED BY <1>1, <1>2, <1>3, FilesServedBy

LEMMA PodBecomes ==
  ASSUME PodPromise, ModelInv, PodInv, AppConfigsInv,
         AddsEnvs \/ MountsClaims \/ ConfigsStep \/ MountsFiles \/ PluginsMounted
  PROVE  /\ pod' \in Pods(allContainers(pod)) /\ allContainers(pod') = allContainers(pod)
         /\ MountsResolved(pod') /\ pc \in PodAdded
<1>1. MountsResolved(pod) /\ pod \in Pods(allContainers(pod))
  BY DEF PodInv
<1>. CASE AddsEnvs
  BY <1>1, EnvsKeep, ContainersAre DEF RestKept, PodPromise, MountsPromise
<1>. CASE MountsClaims
  <2>1. pc \in PodAdded
    BY Stages, SMT DEF MountsClaims, PodStep, Goes
  <2>. QED BY <1>1, <2>1, ClaimsAdded, ContainersAre DEF ClaimsDone
<1>. CASE ConfigsStep \/ MountsFiles \/ PluginsMounted
  <2>1. pc \in PodAdded
    BY MovesServe, Stages, SMT
  <2>2. \E rs : ServedBy(rs)
    BY ConfigsServedBy, FilesKeep, PluginsServedBy
  <2>. QED BY <1>1, <2>1, <2>2, ContainersAre DEF ServedBy
<1>. QED OBVIOUS

LEMMA PodInvStep ==
  ASSUME PodPromise, Begins, ModelInv, PodInv, AppConfigsInv, Next
  PROVE  PodInv'
<1>. CASE Idle
  BY Stages, SMT DEF Idle, NothingServed, Carried, Same, PodInv
<1>. CASE AddDeployment /\ ~Fail
  <2>1. PICK C : IsFiniteSet(C) /\ Main \in C /\ pod' \in Pods(C) /\ MountsResolved(pod')
    BY DEF Begins, StartsWith, Untouched
  <2>2. allContainers(pod') = C
    BY <2>1, ContainersAre
  <2>. QED BY <2>1, <2>2 DEF PodInv
<1>. CASE AddsEnvs \/ MountsClaims \/ ConfigsStep \/ MountsFiles \/ PluginsMounted
  BY PodBecomes DEF PodInv
<1>. QED BY IdleSteps
=============================================================================
