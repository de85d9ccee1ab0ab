----------------------------- MODULE InitObjects -----------------------------
(***************************************************************************)
(* InitObjects: how the runtime model of one Backstage resource is built   *)
(* from the default configuration, the enabled flavours, the raw           *)
(* configuration and the spec.  First every object is added to the model,  *)
(* then every object updates the others, both in the order in which the    *)
(* objects are registered.  The steps of objects that do nothing in one of *)
(* the two passes are left out.                                            *)
(***************************************************************************)
EXTENDS DynamicPlugins, PodSpec, AppConfigs

CONSTANTS
  Inputs,     \* what a model may be built from, see below
  Flavours,   \* [flavour -> [byDefault : BOOLEAN, and per key a sequence of objects]]
  DepsDir     \* the directory of plugin dependencies

FlavourKeys == {"appConfig", "configMapEnvs", "configMapFiles", "deployment", "dynamicPlugins"}
Keys == FlavourKeys \cup {"secretEnvs", "secretFiles", "pvcs", "route", "dbSecret", "dbService",
                          "dbStatefulSet", "service"}

\* Where the variables of a container, and the mounts, come from, the latter with
\* the annotations of the object.
EnvObject  == [name : STRING, keys : KeyList, containers : Seq(STRING)]
FileObject == [name : STRING, keys : KeyList, mountPath : Dir, subPath : STRING, containers : Seq(STRING)]
RouteObject == [host : STRING, subdomain : STRING, tls : Optional(TLS), to : STRING]

\* What the objects of a configuration are, by their keys.  The settings of an
\* app-config are {} if it cannot be decoded, and those of a ConfigMap with
\* dynamic plugins if it lacks the entry.  Of the objects of the database and of
\* the service only the number matters.
ObjectsOf ==
  [appConfig |-> [name : STRING, keys : KeyList, settings : Optional(SUBSET Setting)],
   configMapEnvs |-> EnvObject, secretEnvs |-> EnvObject,
   configMapFiles |-> FileObject, secretFiles |-> FileObject, pvcs |-> FileObject,
   dynamicPlugins |-> Optional(Layer), route |-> RouteObject,
   dbSecret |-> STRING, dbService |-> STRING, dbStatefulSet |-> STRING, service |-> STRING]

\* Of a deployment there may be several, to be merged.
AreWorkloads(ds) == ds \in Seq(ToSet(ds)) /\ \A d \in ToSet(ds) : IsWorkload(d)

IsConfig(conf, keys) ==
  /\ \A k \in keys \ {"deployment"} : conf[k] \in Seq(ObjectsOf[k])
  /\ AreWorkloads(conf.deployment)

(* An input is                                                              *)
(*   op: which environment variables of the operator are set, operatorDp,   *)
(*     backstageImage, installerImage, and dbImage;                         *)
(*   cluster: its API groups, the labels of kube-system ({} if they cannot  *)
(*     be read), and the ingress domain, "" if unknown;                     *)
(*   conf, raw: the default and the raw configuration; patches: the patch   *)
(*     of the default deployment per platform;                              *)
(*   spec, and user: {} or {data} of the ConfigMap with the plugins of the  *)
(*     spec, data being {} when the entry is empty or else {layer}.         *)
ASSUME InputsAssumption ==
  /\ \A i \in Inputs : /\ i.spec \in BackstageSpec
                       /\ i.user \in Optional(Optional(Layer))
                       /\ DOMAIN i.conf = Keys /\ IsConfig(i.conf, Keys)
                       /\ DOMAIN i.raw = Keys /\ IsConfig(i.raw, Keys)
                       /\ AreWorkloads(i.patches.ocp) /\ AreWorkloads(i.patches.k8s)
  /\ IsFiniteSet(DOMAIN Flavours)
  /\ \A f \in DOMAIN Flavours : /\ Flavours[f].byDefault \in BOOLEAN
                                /\ IsConfig(Flavours[f], FlavourKeys)

VARIABLES
  in,         \* the input
  pc,         \* the next step
  flavours,   \* the enabled flavours, in the order they are applied
  sources,    \* the layers of dynamic-plugins.yaml not merged yet
  data,       \* dynamic-plugins.yaml, {} when there is none
  enabled,    \* {} or the enabled plugins, when the operator processes them
  pod,        \* the Pod template
  objects     \* the other objects of the model

vars == <<in, pc, flavours, sources, data, enabled, pod, objects>>

Steps == <<"flavours", "appConfig", "dbSecret", "dbService", "dbStatefulSet", "deployment", "sources",
           "plugins", "route", "service", "updateAppConfig", "configMapEnvs", "configMapFiles",
           "updateDbSecret", "updateDbStatefulSet", "updateDeployment", "dynamicPlugins", "pvcs",
           "updateRoute", "secretEnvs", "secretFiles", "done">>

NoObjects == [appConfigs |-> <<>>, dbSecret |-> {}, dbService |-> {}, dbStatefulSet |-> {},
              route |-> {}, kind |-> "", service |-> {}]

TypeOK ==
  /\ pc \in ToSet(Steps) \cup {"failed"}
  /\ ToSet(flavours) \subseteq DOMAIN Flavours
  /\ Cardinality(data) <= 1 /\ Cardinality(enabled) <= 1
  /\ pod.image \in Images
  /\ DOMAIN objects = DOMAIN NoObjects /\ objects.kind \in {"", "Deployment", "StatefulSet"}
  /\ objects.route \subseteq RouteObject
  \* the Pod is one the API server can resolve: what is mounted is a volume
  /\ MountsResolved(pod)

HasInstaller == Installer \in allContainers(pod)

NewPod(env) ==
  [volumes |-> <<[name |-> "plugins-root", kind |-> "ephemeral", object |-> ""]>>,
   mounts |-> [c \in DOMAIN env |-> <<[path |-> <<"root">>, volume |-> "plugins-root", sub |-> ""]>>],
   env |-> env, envFrom |-> [c \in DOMAIN env |-> <<>>],
   args |-> <<<<"dynamic-plugins-root", "app-config">>>>, image |-> "default"]

Init ==
  /\ in \in Inputs
  /\ pc = "flavours"
  /\ flavours = <<>> /\ sources = <<>> /\ data = {} /\ enabled = {}
  /\ pod = NewPod(<<>>) /\ objects = NoObjects

GoTo(next) == pc' = next
Fail == pc' = "failed" /\ UNCHANGED <<in, flavours, sources, data, enabled, pod, objects>>

\* A step that changes the Pod, or one of the other objects, and may fail: then
\* there is none it can become.
Update(pods, next) ==
  \/ pods = {} /\ Fail
  \/ \E p \in pods : /\ pod' = p /\ GoTo(next)
                     /\ UNCHANGED <<in, flavours, sources, data, enabled, objects>>
Become(os, next) ==
  \/ os = {} /\ Fail
  \/ \E o \in os : /\ objects' = o /\ GoTo(next)
                   /\ UNCHANGED <<in, flavours, sources, data, enabled, pod>>

-----------------------------------------------------------------------------
(* Choosing a configuration                                                 *)

\* The base first, then the flavours in their order.
collectConfigSources(key, fs) ==
  <<in.conf[key]>> \o [i \in DOMAIN fs |-> Flavours[fs[i]][key]]

\* The objects of all of them; a workload and dynamic-plugins.yaml are merged
\* further below.
mergeMultiObjectConfigs(srcs) == FlattenSeq(srcs)

\* Without a merge function the flavours have no say.
ReadDefaultConfig(key, fs) ==
  IF key \in FlavourKeys THEN mergeMultiObjectConfigs(collectConfigSources(key, fs)) ELSE in.conf[key]

\* A raw configuration with an object replaces all of that.
ChosenFor(key, fs) == IF in.raw[key] # <<>> THEN in.raw[key] ELSE ReadDefaultConfig(key, fs)
Chosen(key) == ChosenFor(key, flavours)

\* adjustObject, where one object is expected.
AtMostOne(key) == Len(Chosen(key)) <= 1

\* What the operator runs on, at its start.
DetectPlatform(cluster) ==
  LET Has(label) == \E ls \in cluster.labels : label \in ls
  IN  IF "route.openshift.io" \in cluster.groups THEN "OpenShift"
      ELSE IF "eks.amazonaws.com" \in cluster.groups THEN "EKS"
      ELSE IF Has("kubernetes.azure.com/managed") THEN "AKS"
      ELSE IF Has("container.googleapis.com/cluster-name") THEN "GKE" ELSE "Kubernetes"

IsOpenshift == DetectPlatform(in.cluster) = "OpenShift"
Extension   == IF IsOpenshift THEN "ocp" ELSE "k8s"

-----------------------------------------------------------------------------
(* Phase 1: addToModel                                                      *)

EnableFlavours ==
  /\ pc = "flavours"
  /\ LET orders == GetEnabledFlavours(in.spec.flavours, [f \in DOMAIN Flavours |-> Flavours[f].byDefault])
     IN  \/ orders = {} /\ Fail
         \/ \E fs \in orders :
              /\ flavours' = fs /\ sources' = ChosenFor("dynamicPlugins", fs)
              /\ GoTo("appConfig") /\ UNCHANGED <<in, data, enabled, pod, objects>>

AddAppConfig ==
  /\ pc = "appConfig"
  /\ Become({[objects EXCEPT !.appConfigs = Chosen("appConfig")]}, "dbSecret")

\* The Secret is generated with its contents in phase 2.
AddDbSecret ==
  /\ pc = "dbSecret"
  /\ LET wanted == /\ IsLocalDbEnabled(in.spec) /\ ~IsAuthSecretSpecified(in.spec)
                   /\ Chosen("dbSecret") # <<>>
     IN  Become(IF ~AtMostOne("dbSecret") THEN {}
                ELSE {[objects EXCEPT !.dbSecret = IF wanted THEN {[host |-> ""]} ELSE {}]}, "dbService")

\* Both are needed for a local database, and are there only for one.
AddDbObject(key, object, next) ==
  Become(IF ~AtMostOne(key) \/ (IsLocalDbEnabled(in.spec) /\ Chosen(key) = <<>>) THEN {}
         ELSE {[objects EXCEPT ![key] = IF IsLocalDbEnabled(in.spec) THEN {object} ELSE {}]}, next)

DbService == [name |-> "backstage-psql", clusterIP |-> "None"]

AddDbService ==
  /\ pc = "dbService"
  /\ AddDbObject("dbService", DbService, "dbStatefulSet")

AddDbStatefulSet ==
  /\ pc = "dbStatefulSet"
  /\ AddDbObject("dbStatefulSet",
                 [serviceName |-> "", secrets |-> <<>>, image |-> IF in.op.dbImage THEN "env" ELSE "default"],
                 "deployment")

\* The flavours in their order, then the patch for the platform.
mergeDeployments(ds) == FoldLeft(MergeStrings, Head(ds), Tail(ds) \o in.patches[Extension])

\* addToModel on what was chosen: the images, and with the processing in the
\* operator those of the installer and no arguments.
AdjustImages(p) ==
  LET hasInstaller == Installer \in allContainers(p)
      dedicated    == in.op.operatorDp /\ hasInstaller
  IN  [p EXCEPT !.image = IF dedicated THEN "installer"
                          ELSE IF in.op.backstageImage /\ hasInstaller THEN "backstage" ELSE @,
                !.args = IF dedicated THEN <<>> ELSE @]

\* Mutant: the variables of the spec are added before the patch is merged.
EnvsBeforePatch(p) ==
  LET depl == in.spec.deployment
  IN  {[q EXCEPT !.image = IF depl.image THEN "patch" ELSE @,
                 !.env[Main] = FoldLeft(setOrAppendEnvVar, @, [i \in DOMAIN depl.env |-> Value(depl.env[i])])] :
         q \in All(addExtraEnv, p, in.spec.extraEnvs.envs)}

\* The patch of the spec, then the variables of the spec.
setDeployment(p) ==
  LET depl == in.spec.deployment
      patched == [p EXCEPT !.image = IF depl.image THEN "patch" ELSE @,
                           !.env[Main] = FoldLeft(setOrAppendEnvVar, @,
                                                  [i \in DOMAIN depl.env |-> Value(depl.env[i])])]
  IN  All(addExtraEnv, patched, in.spec.extraEnvs.envs)

\* The kinds that CreateDeployable knows, and the change of one into the other,
\* which keeps the Pod template.
Deployables == {"Deployment", "StatefulSet"}
ConvertTo(kind, specified) == OrElse(specified, kind)

\* Refused: no workload, one of another kind, one without the main container,
\* and no image for the installer when it needs a dedicated one.
AddDeployment ==
  /\ pc = "deployment"
  /\ LET ds == Chosen("deployment")
         d  == IF in.raw.deployment # <<>> THEN Head(ds) ELSE mergeDeployments(ds)
         refused == \/ ds = <<>> \/ Len(in.raw.deployment) > 1
                    \/ d.kind \notin Deployables \/ Main \notin DOMAIN d.env
                    \/ in.op.operatorDp /\ Installer \in DOMAIN d.env /\ ~in.op.installerImage
         pods == IF refused THEN {} ELSE setDeployment(AdjustImages(NewPod(d.env)))
     IN  \/ pods = {} /\ Fail
         \/ \E p \in pods :
              /\ pod' = p
              /\ objects' = [objects EXCEPT !.kind = ConvertTo(d.kind, in.spec.deployment.kind)]
              /\ GoTo("sources") /\ UNCHANGED <<in, flavours, sources, data, enabled>>

\* mergeDynamicPlugins, one layer; a ConfigMap without the entry is refused.
MergeSource ==
  /\ pc = "sources" /\ sources # <<>>
  /\ LET merged == IF Head(sources) = {} THEN {}
                   ELSE MergePluginsData(data, Head(sources), in.op.operatorDp)
     IN  \/ merged = {} /\ Fail
         \/ \E d \in merged :
              /\ data' = {d} /\ sources' = Tail(sources)
              /\ UNCHANGED <<in, pc, flavours, enabled, pod, objects>>

SourcesMerged ==
  /\ pc = "sources" /\ sources = <<>>
  /\ GoTo("plugins") /\ UNCHANGED <<in, flavours, sources, data, enabled, pod, objects>>

AddDynamicPlugins ==
  /\ pc = "plugins"
  /\ LET user    == UNION in.user
         merged  == IF in.user = {} THEN data ELSE MergePluginsData(data, user, in.op.operatorDp)
         refused == \/ Len(in.raw.dynamicPlugins) > 1 \/ in.user = {{}}
                    \/ data # {} /\ merged = {}
     IN  \/ refused /\ Fail
         \/ /\ ~refused
            /\ \E d \in IF merged = {} THEN {{}} ELSE {{m} : m \in merged} :
                 /\ data' = d
                 /\ enabled' = IF in.op.operatorDp
                               THEN {SelectSeq(x.plugins, LAMBDA p : ~IsDisabled(p)) : x \in d} ELSE {}
            /\ GoTo("route") /\ UNCHANGED <<in, flavours, sources, pod, objects>>

\* On OpenShift, unless the spec disables it: the default Route, if there is one
\* or the spec has some of its own, with what the spec says of it.
AddRoute ==
  /\ pc = "route"
  /\ LET default == ToSet(Chosen("route"))
         base    == IF default = {} /\ in.spec.route # {} THEN {NoRoute} ELSE default
         merged  == IF in.spec.route = {} THEN base
                    ELSE {setRoute(r, s) : r \in base, s \in in.spec.route}
     IN  Become(IF ~AtMostOne("route") THEN {}
                ELSE {[objects EXCEPT !.route = IF IsOpenshift /\ IsRouteEnabled(in.spec)
                                                THEN merged ELSE {}]}, "service")

AddService ==
  /\ pc = "service"
  /\ Become(IF Len(Chosen("service")) # 1 THEN {}
            ELSE {[objects EXCEPT !.service = {"backstage"}]}, "updateAppConfig")

-----------------------------------------------------------------------------
(* Phase 2: updateAndValidate                                               *)

Requests(kind, os, refs, shared) ==
  [i \in DOMAIN os |-> DefConfigRequest(kind, os[i])]
    \o [i \in DOMAIN refs |-> SpecRequest(kind, refs[i], shared)]

\* The configs of the enabled plugins come first, in a ConfigMap of their own.
addPluginsAppConfig ==
  LET Merged(ps) == FoldLeft(mergePluginConfigs, {}, [i \in DOMAIN ps |-> UNION ps[i].config])
  IN  IF \E ps \in enabled : Merged(ps) # {}
      THEN <<[name |-> "plugins-appconfig", keys |-> <<"plugins">>,
              settings |-> {Merged(ps) : ps \in enabled}]>> ELSE <<>>

\* App-configs are for the main container, whatever their annotations.
AppConfigRequests(items) ==
  LET AsFile(o) == [o EXCEPT !.containers = <<>>]
      refs == in.spec.appConfig.configMaps
      Item(o) == [kind |-> "cm", name |-> o.name, containers |-> <<>>, path |-> WorkingDir,
                  file |-> "", sub |-> TRUE, keys |-> o.keys]
  IN  [i \in DOMAIN items |-> Item(items[i])]
        \o [i \in DOMAIN refs |-> AsFile(SpecRequest("cm", refs[i], in.spec.appConfig.mountPath))]

UpdateAppConfig ==
  /\ pc = "updateAppConfig"
  /\ LET items == addPluginsAppConfig \o objects.appConfigs
         pods  == All(updatePodWithAppConfig, pod, AppConfigRequests(items))
     IN  \/ pods = {} /\ Fail
         \/ \E p \in pods :
              /\ pod' = p /\ objects' = [objects EXCEPT !.appConfigs = items]
              /\ GoTo("configMapEnvs") /\ UNCHANGED <<in, flavours, sources, data, enabled>>

\* All the entries of a default object; of the spec those that are referred to.
EnvRequests(kind, os, refs) ==
  [i \in DOMAIN os |-> [kind |-> kind, name |-> os[i].name, containers |-> os[i].containers, key |-> ""]]
    \o [i \in DOMAIN refs |-> [kind |-> kind, name |-> refs[i].name,
                               containers |-> refs[i].containers, key |-> refs[i].key]]

ConfigMapEnvRequests == EnvRequests("cm", Chosen("configMapEnvs"), in.spec.extraEnvs.configMaps)

UpdateConfigMapEnvs ==
  /\ pc = "configMapEnvs"
  /\ Update(All(addEnvVarsFrom, pod, ConfigMapEnvRequests), "configMapFiles")

FileRequests ==
  Requests("cm", Chosen("configMapFiles"), in.spec.extraFiles.configMaps, in.spec.extraFiles.mountPath)

UpdateConfigMapFiles ==
  /\ pc = "configMapFiles"
  /\ Update(All(mountFilesFrom, pod, FileRequests), "updateDbSecret")

\* A password, and the Service as the host; of that the model has the host.
UpdateDbSecret ==
  /\ pc = "updateDbSecret"
  /\ Become(IF objects.dbSecret # {} /\ objects.dbService = {} THEN {}
            ELSE {[objects EXCEPT !.dbSecret = IF @ = {} THEN {}
                                               ELSE {[host |-> s.name] : s \in objects.dbService}]},
            "updateDbStatefulSet")

GeneratedSecret == "backstage-psql-secret"

\* The Secret with the credentials: the one of the spec, or the generated one.
DbSecretName ==
  IF IsAuthSecretSpecified(in.spec) THEN <<(CHOOSE d \in in.spec.database : TRUE).authSecretName>>
  ELSE IF objects.dbSecret # {} THEN <<GeneratedSecret>> ELSE <<>>

\* Mutant: the database always takes the generated Secret.
SetGeneratedSecret(s) == [s EXCEPT !.secrets = Append(@, GeneratedSecret)]

setDbSecretEnvVar(s) == [s EXCEPT !.secrets = @ \o DbSecretName]

UpdateDbStatefulSet ==
  /\ pc = "updateDbStatefulSet"
  /\ LET Pointed(s) == [s EXCEPT !.serviceName = (CHOOSE d \in objects.dbService : TRUE).name]
     IN  Become({[objects EXCEPT !.dbStatefulSet =
                    {setDbSecretEnvVar(IF objects.dbService = {} THEN s ELSE Pointed(s)) : s \in @}]},
                "updateDeployment")

DbRequests ==
  [i \in DOMAIN DbSecretName |-> [kind |-> "secret", name |-> DbSecretName[i], containers |-> <<>>, key |-> ""]]

UpdateDeployment ==
  /\ pc = "updateDeployment"
  /\ Update(All(addEnvVarsFrom, pod, DbRequests), "dynamicPlugins")

\* The file for the installer: the enabled packages, or the plugins as merged.
\* It goes to the working directory of that container, which the shipped
\* workloads give the same value as that of the main container.
PluginsRequest ==
  LET file == IF enabled # {} THEN "packages.txt" ELSE "dynamic-plugins.yaml"
  IN  [kind |-> "cm", name |-> "backstage-dynamic-plugins", containers |-> <<Installer>>,
       path |-> WorkingDir, file |-> file, sub |-> TRUE, keys |-> <<file>>]

\* getInitContainer gives the container the image of Backstage again.
UpdateDynamicPlugins ==
  /\ pc = "dynamicPlugins"
  /\ IF data = {} /\ in.user = {}
     THEN Update({pod}, "pvcs")
     ELSE Update(IF ~HasInstaller THEN {}
                 ELSE mountFilesFrom([pod EXCEPT !.image = IF in.op.backstageImage THEN "backstage" ELSE @],
                                     PluginsRequest), "pvcs")

PvcRequests ==
  LET os == Chosen("pvcs")
      refs == in.spec.extraFiles.pvcs
  IN  [i \in DOMAIN os |-> DefPvcRequest(os[i])]
        \o [i \in DOMAIN refs |-> PvcRequest(refs[i], in.spec.extraFiles.mountPath)]

UpdatePvcs ==
  /\ pc = "pvcs"
  /\ Update(All(addPvc, pod, PvcRequests), "updateRoute")

\* Best effort: what cannot be updated is left as it is.
UpdateRoute ==
  /\ pc = "updateRoute"
  /\ Become({IF objects.route = {} THEN objects
             ELSE [objects EXCEPT
                     !.route = {[r EXCEPT !.to = CHOOSE s \in objects.service : TRUE] : r \in @},
                     !.appConfigs = updateAppConfigWithBaseUrls(@,
                                      buildBaseUrl(in.spec.route, in.cluster.domain))]}, "secretEnvs")

SecretEnvRequests == EnvRequests("secret", Chosen("secretEnvs"), in.spec.extraEnvs.secrets)

UpdateSecretEnvs ==
  /\ pc = "secretEnvs"
  /\ Update(All(addEnvVarsFrom, pod, SecretEnvRequests), "secretFiles")

SecretRequests ==
  Requests("secret", Chosen("secretFiles"), in.spec.extraFiles.secrets, in.spec.extraFiles.mountPath)

\* A Secret of the spec has to come with a key or a mountPath.
UpdateSecretFiles ==
  /\ pc = "secretFiles"
  /\ Update(IF \E r \in ToSet(in.spec.extraFiles.secrets) : r.path = NoPath /\ r.key = "" THEN {}
            ELSE All(mountFilesFrom, pod, SecretRequests), "done")

Next ==
  \/ EnableFlavours \/ AddAppConfig \/ AddDbSecret \/ AddDbService \/ AddDbStatefulSet
  \/ AddDeployment \/ MergeSource \/ SourcesMerged \/ AddDynamicPlugins \/ AddRoute \/ AddService
  \/ UpdateAppConfig \/ UpdateConfigMapEnvs \/ UpdateConfigMapFiles \/ UpdateDbSecret
  \/ UpdateDbStatefulSet \/ UpdateDeployment \/ UpdateDynamicPlugins \/ UpdatePvcs \/ UpdateRoute
  \/ UpdateSecretEnvs \/ UpdateSecretFiles

Spec == Init /\ [][Next]_vars

-----------------------------------------------------------------------------
(* Dynamic plugins: what the layers say                                     *)

IsReference(pkg) == pkg.scheme = "ref" \/ pkg.at = "inherit"

\* The package a reference stands for: the one of that name in a lower layer.
Target(pkg, lower) ==
  LET named == {q \in lower : ~IsReference(q) /\ q.name = pkg.name}
  IN  IF IsReference(pkg) /\ named # {}
      THEN LET q == CHOOSE q \in named : TRUE
           IN  IF pkg.path = "" THEN q ELSE [q EXCEPT !.path = pkg.path]
      ELSE pkg

\* All the entries of the layers, lowest first, references replaced.
Entries(layers) ==
  LET Packages(n) == {p.package : p \in UNION {ToSet(layers[k].plugins) : k \in 1 .. n}}
      Entry(n, p) == IF in.op.operatorDp THEN [p EXCEPT !.package = Target(@, Packages(n - 1))] ELSE p
  IN  FlattenSeq([n \in DOMAIN layers |-> [i \in DOMAIN layers[n].plugins |->
                                             Entry(n, layers[n].plugins[i])]])

Layers(fs) == FlattenSeq([i \in DOMAIN ChosenFor("dynamicPlugins", fs) |->
                             SetToSeq(ChosenFor("dynamicPlugins", fs)[i])])
AllLayers(fs) == Layers(fs) \o SetToSeq(UNION in.user)

\* The last of the entries that says something of the matter, or the first one.
LastWord(es, Says(_)) ==
  LET saying == SelectSeq(es, Says) IN IF saying = <<>> THEN Head(es) ELSE Last(saying)

\* The files the layers include: an empty list forgets those of the layers under it.
IncludedBy(layers) ==
  UNION {UNION layers[n].includes :
           n \in {m \in DOMAIN layers : \A k \in m + 1 .. Len(layers) : layers[k].includes # {{}}}}

\* The merged plugins are what the layers say, each layer over the ones before.
Layered(layers) ==
  LET es == Entries(layers)
      Of(pkg) == SelectSeq(es, LAMBDA e : e.package = pkg)
  IN  \A d \in data :
        /\ UNION d.includes = IncludedBy(layers)
        /\ IsInjective([i \in DOMAIN d.plugins |-> d.plugins[i].package])
        /\ {p.package : p \in ToSet(d.plugins)} = {e.package : e \in ToSet(es)}
        /\ \A p \in ToSet(d.plugins) :
             /\ Marshalled(p.config) =
                  Marshalled(LastWord(Of(p.package), LAMBDA e : e.config # {}).config)
             /\ Marshalled(p.deps) = Marshalled(LastWord(Of(p.package), LAMBDA e : e.deps # {}).deps)
             /\ IsDisabled(p) =
                  IsDisabled(LastWord(Of(p.package), LAMBDA e : e.enabled # {} \/ e.disabled))

\* Whatever the order in which the merges list the plugins, each package is
\* there once, with what the last layer to speak of it says: the ConfigMap of
\* the spec over the flavours over the default configuration, references
\* standing for the packages they name (MergePluginsData, resolveReferences).
LayersOverride == pc = "done" => Layered(AllLayers(flavours))

\* The flavours the spec lists and enables, in its order.
SpecOrder ==
  LET listed == SelectSeq(FlattenSeq(SetToSeq(in.spec.flavours)), LAMBDA f : f.enabled)
  IN  [i \in DOMAIN listed |-> listed[i].name]

\* "configurations merge additively in the order specified, with later entries
\* overriding earlier ones when conflicts occur" (docs/configuration.md): of
\* the flavours the spec enables, the later override the earlier.
LaterFlavoursOverride == pc = "done" => Layered(AllLayers(SpecOrder))

\* With the processing in the operator, the packages given to the installer
\* are real ones: no reference is left that only the operator can resolve, as
\* long as there is a configuration under the ConfigMap of the spec.
ReferencesResolved ==
  pc = "done" /\ in.op.operatorDp /\ Len(AllLayers(flavours)) > 1
    => \A ps \in enabled : \A p \in ToSet(ps) : ~IsReference(p.package)

-----------------------------------------------------------------------------
(* The Pod template                                                         *)

\* The requests for files, in the order in which they are served.
FilesAsked ==
  AppConfigRequests(objects.appConfigs) \o FileRequests
    \o (IF data = {} THEN <<>> ELSE <<PluginsRequest>>) \o SecretRequests

PathsAsked == UNION {PathsOf(r) : r \in ToSet(FilesAsked)}
ClaimPaths == {r.path : r \in ToSet(PvcRequests)}

\* In every container, what is mounted at a path that was asked for several
\* times is the object that asked last, and it is mounted there once, unless a
\* claim is mounted there too: among objects of one kind the spec overrides the
\* default configuration, and the API server accepts the Pod (mountFilesFrom,
\* over the steps of four objects).
LaterMountsOverride ==
  pc = "done" =>
    \A c \in allContainers(pod), path \in PathsAsked \ ClaimPaths :
      Overridden(pod, FilesAsked, Len(FilesAsked), c, path)

\* "The Operator will either get all entries from the specified object (if no
\* key is specified) or will pick the specified one, creating volumes per
\* object and mounting the files to the Backstage container."
\* (docs/configuration.md): each file asked for is mounted.
EveryFileMounted ==
  pc = "done" =>
    \A c \in allContainers(pod), path \in PathsAsked :
      (\E r \in ToSet(FilesAsked) : AsksFor(pod, r, c, path)) =>
        \E m \in ToSet(pod.mounts[c]) : m.path = path

\* The mounts that are asked for.
MountsAsked == UNION {ToSet(MountsToAdd(r)) : r \in ToSet(FilesAsked)}

\* Backstage reads the app-configs of the enabled plugins first, then those of
\* the default configuration, and last those of the spec in their order, and
\* each of the files it is told to read is mounted when all objects have
\* contributed their mounts (updatePodWithAppConfig), as long as nobody asks
\* for a file where somebody asks for a directory.
AppConfigsReadable ==
  pc = "done" /\ Unambiguous(MountsAsked) =>
    LET default == IF in.op.operatorDp /\ HasInstaller THEN 0 ELSE 1
        mine == SubSeq(pod.args, default + 1, Len(pod.args))
        asked == AppConfigRequests(objects.appConfigs)
    IN  /\ mine = FlattenSeq([i \in DOMAIN asked |-> ConfigArgs(asked[i])])
        /\ \A a \in ToSet(mine) : ComesWith(a, ToSet(pod.mounts[Main]))

\* "With OPERATOR_DP_PROCESSING=true, init container uses INSTALL_DP_IMAGE"
\* (pkg/model/deployment_test.go), unless the spec gives it an image.
InstallerImage ==
  pc = "done" /\ in.op.operatorDp /\ HasInstaller /\ ~in.spec.deployment.image => pod.image = "installer"

-----------------------------------------------------------------------------
(* Environment variables                                                    *)

\* The variables a source holds; those of the database in any Secret for it.
DbVariables == {"POSTGRES_HOST", "POSTGRES_PASSWORD"}
HeldBy(src) ==
  LET held == IF src.kind = "cm" THEN Chosen("configMapEnvs") \o in.spec.extraEnvs.configMaps
              ELSE Chosen("secretEnvs") \o in.spec.extraEnvs.secrets
  IN  IF src.kind = "secret" /\ src.object \in ToSet(DbSecretName) THEN DbVariables
      ELSE UNION {ToSet(o.keys) : o \in {h \in ToSet(held) : h.name = src.object}}

\* What the workload says of the variables of a container, lowest first: the
\* default configuration, the flavours, the platform, the patch and the spec.
WorkloadVariables(c) ==
  LET ds == Chosen("deployment") \o (IF in.raw.deployment # <<>> THEN <<>> ELSE in.patches[Extension])
      Mine(v) == IsFor(pod, v, c)
      Values(vs) == [i \in DOMAIN vs |-> Value(vs[i])]
  IN  FlattenSeq([i \in DOMAIN ds |-> IF c \in DOMAIN ds[i].env THEN ds[i].env[c] ELSE <<>>])
        \o (IF c = Main THEN Values(in.spec.deployment.env) ELSE <<>>)
        \o Values(SelectSeq(in.spec.extraEnvs.envs, Mine))

EnvsAsked == ConfigMapEnvRequests \o DbRequests \o SecretEnvRequests

\* In every container a variable has the value that the highest layer gives
\* it: whole ConfigMaps, the credentials of the database, whole Secrets, the
\* workload with its patches, the variables of the spec, and what is referred
\* to by key, in each the spec over the flavours over the default; and it is
\* listed once per reference by key and once for the rest (setDeployment,
\* addExtraEnvs: "it will be replaced (not duplicated)", addEnvVarsFrom, over
\* the steps of four objects).
VariablesLayered ==
  pc = "done" =>
    \A c \in allContainers(pod) :
    \A v \in DbVariables \cup UNION {HeldBy([kind |-> r.kind, object |-> r.name]) : r \in ToSet(EnvsAsked)}
               \cup {e.name : e \in ToSet(pod.env[c])} :
      LET For(r)   == IsFor(pod, r, c)
          From(rs) == [i \in DOMAIN rs |-> [kind |-> rs[i].kind, object |-> rs[i].name]]
          Holds(src, name) == name \in HeldBy(src)
          whole == SelectSeq(From(SelectSeq(EnvsAsked, LAMBDA r : r.key = "" /\ For(r))),
                             LAMBDA src : Holds(src, v))
          own   == SelectSeq(WorkloadVariables(c), LAMBDA e : e.name = v)
          byKey == From(SelectSeq(EnvsAsked, LAMBDA r : r.key = v /\ For(r)))
          words == whole \o [i \in DOMAIN own |-> own[i].from] \o byKey
      IN  /\ EffectiveVar(pod, c, v, Holds) = IF words = <<>> THEN {} ELSE {Last(words)}
          /\ Len(SelectSeq(pod.env[c], LAMBDA e : e.name = v)) =
               Len(byKey) + (IF own = <<>> THEN 0 ELSE 1)

-----------------------------------------------------------------------------
(* The database                                                             *)

\* Backstage and the local database take the credentials from one and the same
\* Secret, the one the spec names or the generated one; and when that is the
\* generated one, it is in the model and sends Backstage to the Service of the
\* database, which governs the StatefulSet.  Without a local database there is
\* none of its objects (steps of DbSecret, DbService, DbStatefulSet and
\* BackstageDeployment in both phases).  This is as long as the configuration
\* does not itself refer to a Secret with the name of the generated one.
DatabaseWired ==
  pc = "done" /\ GeneratedSecret \notin {r.name : r \in ToSet(SecretEnvRequests)} =>
    LET named == {d.authSecretName : d \in in.spec.database} \ {""}
        used  == {src.object : src \in {x \in ToSet(pod.envFrom[Main]) : x.kind = "secret"}}
                   \cap (named \cup {GeneratedSecret})
    IN  /\ \A s \in objects.dbStatefulSet : ToSet(s.secrets) = used /\ Len(s.secrets) <= 1
        /\ IF named # {} THEN used = named /\ objects.dbSecret = {}
           ELSE GeneratedSecret \in used <=> objects.dbSecret # {}
        /\ \A x \in objects.dbSecret : \A s \in objects.dbStatefulSet : x.host = s.serviceName
        /\ objects.dbSecret # {} => objects.dbStatefulSet # {}
        /\ IF IsLocalDbEnabled(in.spec)
           THEN {s.serviceName : s \in objects.dbStatefulSet} = {DbService.name}
           ELSE objects.dbService \cup objects.dbStatefulSet = {}

-----------------------------------------------------------------------------
(* App-configs                                                              *)

\* The settings in a file of the main container; none in one of the installer.
SettingsAt(path) ==
  LET ms == SelectSeq(pod.mounts[Main], LAMBDA m : m.path = path \/ (m.sub = "" /\ IsPrefix(m.path, path)))
      Mounted(o) == ms # <<>> /\ ToRFC1123Label(o.name) = Last(ms).volume
  IN  UNION UNION {o.settings : o \in {x \in ToSet(objects.appConfigs) : Mounted(x)}}
        \cup UNION {o.settings : o \in {x \in ToSet(in.spec.appConfig.configMaps) : Mounted(x)}}

\* Backstage reads the files in the order of its arguments, the later over the
\* earlier.
SettingsRead ==
  FoldLeft(mergePluginConfigs, {}, [i \in DOMAIN pod.args |-> SettingsAt(pod.args[i])])

SpeaksOf(settings, path) == \E s \in settings : Comparable(s.path, path)

\* The files of the app-configs that the spec refers to, in its order.
CustomFiles ==
  LET asked == AppConfigRequests(<<>>) IN FlattenSeq([i \in DOMAIN asked |-> ConfigArgs(asked[i])])

\* "The Operator may set the base URLs fields in the default app-config",
\* "users still have the ability to override such defaults by providing custom
\* app-config ConfigMap(s)" (docs/configuration.md): the base URLs that
\* Backstage ends up with are the address at which the Route serves it, or what
\* the last app-config of the spec to speak of them says, and nothing else
\* overrides them.  This is as long as the app-config they are written to can
\* be decoded and is not hidden behind a file of the same name, the default
\* Route has neither host nor subdomain, and the ingress domain is known when
\* it is needed (updateAppConfigWithBaseUrls, buildBaseUrl, setRoute,
\* addPluginsAppConfig and the chain of updatePodWithAppConfig).
BaseUrlServed ==
  pc = "done" /\ objects.appConfigs # <<>> =>
    LET first == Head(objects.appConfigs)
        seen  == /\ first.keys # <<>> /\ first.settings # {}
                 /\ SettingsAt(WorkingDir \o first.keys) = UNION first.settings
        At(settings, p) == {s \in settings : s.path = p}
    IN  \A r \in objects.route :
          /\ seen /\ (r.host # "" \/ in.cluster.domain # "")
          /\ \A d \in ToSet(Chosen("route")) : d.host = "" /\ d.subdomain = ""
          => \A p \in BaseUrlPaths :
               LET says == SelectSeq(CustomFiles, LAMBDA a : SpeaksOf(SettingsAt(a), p))
               IN  At(SettingsRead, p) =
                     IF says = <<>> THEN {[path |-> p, value |-> RouteAddress(r, in.cluster.domain)]}
                     ELSE At(SettingsAt(Last(says)), p)

\* The app-config of the plugins has what the enabled plugins say, a later one
\* over an earlier one, and nothing of a disabled one; only the base URLs may
\* be set over it (addPluginsAppConfig, mergePluginConfigs).  No other
\* app-config has its name.
PluginConfigsMerged ==
  pc = "done" /\ "plugins-appconfig" \notin {o.name : o \in ToSet(Chosen("appConfig"))} =>
    \A ps \in enabled :
      LET Says(i)   == UNION ps[i].config
          merged    == UNION UNION {o.settings : o \in {x \in ToSet(objects.appConfigs) :
                                                          x.name = "plugins-appconfig"}}
          IsUrl(s)  == objects.route # {} /\ \E p \in BaseUrlPaths : Comparable(s.path, p)
      IN  /\ \A i \in DOMAIN ps : \A s \in Says(i) :
               \/ s \in merged \/ IsUrl(s)
               \/ \E j \in i + 1 .. Len(ps) : SpeaksOf(Says(j), s.path)
          /\ \A s \in merged : IsUrl(s) \/ \E i \in DOMAIN ps : s \in Says(i)

\* The dependencies to be created are those in the files that the layers ask
\* for: a file counts if its name begins with a ref in the last word of the
\* layers on a package that their last word enables (MergePluginsData,
\* Dependencies, GetPluginDeps, ReadPluginDeps).
DependenciesLayered ==
  pc = "done" =>
    LET es == Entries(AllLayers(flavours))
        Of(e) == SelectSeq(es, LAMBDA x : x.package = e.package)
        on == {e \in ToSet(es) : ~IsDisabled(LastWord(Of(e), LAMBDA x : x.enabled # {} \/ x.disabled))}
        refs == UNION UNION {LastWord(Of(e), LAMBDA x : x.deps # {}).deps : e \in on} \ {<<>>}
        files == {f \in UNION DepsDir : f.yaml /\ \E r \in refs : IsPrefix(r, f.name)}
    IN  IF \E f \in files : f.objects = {} THEN GetPluginDeps(DepsDir, data) = {}
        ELSE GetPluginDeps(DepsDir, data) = {UNION UNION {f.objects : f \in files}}
=============================================================================
