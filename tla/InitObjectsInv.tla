--------------------------- MODULE InitObjectsInv ---------------------------
(* Inductive invariants of InitObjects.                                     *)
EXTENDS InitObjects

\* The steps that come after: the objects of the database are in the model, the
\* Pod is, the data of the plugins; the requests for files are served, object by
\* object; the objects of the database and of the Route are as they will be.
SecretsServed == {"done"}
EnvsServed    == {"secretFiles"} \cup SecretsServed
RouteUpdated  == {"secretEnvs"} \cup EnvsServed
PluginsServed == {"pvcs", "updateRoute"} \cup RouteUpdated
DbEnvServed   == {"dynamicPlugins"} \cup PluginsServed
DbSetUpdated  == {"updateDeployment"} \cup DbEnvServed
DbUpdated     == {"updateDbStatefulSet"} \cup DbSetUpdated
FilesServed   == {"updateDbSecret"} \cup DbUpdated
ConfigsServed == {"configMapEnvs", "configMapFiles"} \cup FilesServed
ServiceAdded  == {"updateAppConfig"} \cup ConfigsServed
PluginsAdded  == {"route", "service"} \cup ServiceAdded
PodAdded      == {"sources", "plugins"} \cup PluginsAdded
DbAdded       == {"deployment"} \cup PodAdded
DbServiceAdded == {"dbStatefulSet"} \cup DbAdded
DbSecretAdded == {"dbService"} \cup DbServiceAdded
ConfigsAdded  == {"dbSecret"} \cup DbSecretAdded

-----------------------------------------------------------------------------
(* Types                                                                    *)

AtMostOneOf(S) == S = {} \/ \E x \in S : S = {x}

ModelInv ==
  /\ in \in Inputs
  /\ pc \in {"flavours", "appConfig", "failed"} \cup ConfigsAdded
  /\ flavours \in Seq(DOMAIN Flavours)
  /\ AtMostOneOf(data) /\ AtMostOneOf(enabled)
  /\ pc \in PluginsAdded /\ in.user # {} => data # {}

PodInv ==
  /\ IsFiniteSet(allContainers(pod)) /\ pod \in Pods(allContainers(pod)) /\ MountsResolved(pod)
  /\ pc \in PodAdded => Main \in allContainers(pod)

\* The app-configs with that of the plugins, and with the base URLs.
WithPlugins == addPluginsAppConfig \o Chosen("appConfig")
WithUrls ==
  IF objects.route = {} THEN WithPlugins
  ELSE updateAppConfigWithBaseUrls(WithPlugins, buildBaseUrl(in.spec.route, in.cluster.domain))

IsObjects(o) ==
  o = [appConfigs |-> o.appConfigs, dbSecret |-> o.dbSecret, dbService |-> o.dbService,
       dbStatefulSet |-> o.dbStatefulSet, route |-> o.route, kind |-> o.kind, service |-> o.service]

ObjectsInv ==
  /\ objects.kind \in {""} \cup Deployables
  /\ objects.route \subseteq RouteObject
  /\ pc \in ServiceAdded => objects.service = {"backstage"}
  /\ IsObjects(objects)

\* The app-configs, step by step.
AppConfigsInv ==
  /\ pc \in ConfigsAdded \ ConfigsServed => objects.appConfigs = Chosen("appConfig")
  /\ pc \in ConfigsServed \ RouteUpdated => objects.appConfigs = WithPlugins
  /\ pc \in RouteUpdated => objects.appConfigs = WithUrls

-----------------------------------------------------------------------------
(* The database                                                             *)

IsLocal == IsLocalDbEnabled(in.spec)
LocalService == IF IsLocal THEN {DbService} ELSE {}

\* The Secrets from which Backstage has all the variables.
SecretsUsed == {src.object : src \in {x \in ToSet(pod.envFrom[Main]) : x.kind = "secret"}}

IsDbSet(s) == s = [serviceName |-> s.serviceName, secrets |-> s.secrets, image |-> s.image]

\* The objects of the database, and the Secrets that Backstage uses.
DbInv ==
  /\ objects.dbSecret # {} => IsLocal /\ ~IsAuthSecretSpecified(in.spec)
  /\ pc \in DbServiceAdded => objects.dbService = LocalService
  /\ pc \in DbAdded => (objects.dbStatefulSet # {} <=> IsLocal)
  /\ pc \in DbAdded \ DbSetUpdated => \A s \in objects.dbStatefulSet : s.secrets = <<>> /\ IsDbSet(s)
  /\ pc \in DbUpdated => \A x \in objects.dbSecret : x.host = DbService.name
  /\ pc \in DbSetUpdated =>
       \A s \in objects.dbStatefulSet : s.secrets = DbSecretName /\ s.serviceName = DbService.name

SecretsInv ==
  /\ pc \in PodAdded \ DbEnvServed => SecretsUsed = {}
  /\ pc \in DbEnvServed => ToSet(DbSecretName) \subseteq SecretsUsed
  /\ pc \in DbEnvServed =>
       SecretsUsed \subseteq ToSet(DbSecretName) \cup {r.name : r \in ToSet(SecretEnvRequests)}

-----------------------------------------------------------------------------
(* Mounts and arguments                                                     *)

\* The requests for files, of which the first are served.
PluginsRequests == IF data = {} THEN <<>> ELSE <<PluginsRequest>>
ConfigsAsked == AppConfigRequests(WithPlugins)
AllAsked == ConfigsAsked \o FileRequests \o PluginsRequests \o SecretRequests
ServedAt(at, configs, files, plugins, secrets) ==
  (IF at \in ConfigsServed THEN configs ELSE 0) + (IF at \in FilesServed THEN files ELSE 0)
    + (IF at \in PluginsServed THEN plugins ELSE 0) + (IF at \in SecretsServed THEN secrets ELSE 0)
Served == ServedAt(pc, Len(ConfigsAsked), Len(FileRequests), Len(PluginsRequests), Len(SecretRequests))

MountsInv ==
  pc \in PodAdded =>
    \A c \in allContainers(pod) : \A path : path \notin ClaimPaths => Overridden(pod, AllAsked, Served, c, path)

\* Before the app-configs are added, and with them.
DefaultArgs == IF in.op.operatorDp /\ HasInstaller THEN <<>> ELSE <<<<"dynamic-plugins-root", "app-config">>>>
ConfigFiles == FlattenSeq([i \in DOMAIN ConfigsAsked |-> ConfigArgs(ConfigsAsked[i])])

\* The mounts that are asked for in the whole.
FileMounts == UNION {ToSet(MountsToAdd(r)) : r \in ToSet(AllAsked)}

ArgsInv ==
  /\ pc \in PodAdded \ ConfigsServed => pod.args = DefaultArgs
  /\ pc \in ConfigsServed => pod.args = DefaultArgs \o ConfigFiles
  /\ pc \in ConfigsServed /\ Unambiguous(FileMounts) =>
       \A file \in ToSet(ConfigFiles) : Readable(pod, file, FileMounts)

-----------------------------------------------------------------------------

IInv == ModelInv /\ PodInv /\ AppConfigsInv /\ ObjectsInv /\ DbInv /\ SecretsInv /\ MountsInv /\ ArgsInv
=============================================================================
