--------------------------- MODULE BackstageTypes ---------------------------
(***************************************************************************)
(* The API of the operator: what a Backstage resource may say, as far as   *)
(* the runtime model depends on it.  A field that may be absent is         *)
(* Optional, and the empty string is a text that is not given.             *)
(* A reference comes with what preprocessSpec finds in the object it       *)
(* names: its keys, and the settings in it if it is an app-config.         *)
(***************************************************************************)
EXTENDS Integers, Sequences, Functions

Optional(S) == {s \in SUBSET S : \A a, b \in s : a = b}

\* The keys of a map, as they are listed.
KeyList == {s \in Seq(STRING \ {""}) : IsInjective(s)}

\* The texts that the model itself writes down are texts.
ASSUME TextsAssumption ==
  {"", "*", "cm", "secret", "pvc", "value", "ephemeral", "src", "root", "plugins-root", "app-config",
   "dynamic-plugins-root", "backstage-backend", "install-dynamic-plugins", "backstage-dynamic-plugins",
   "packages.txt", "dynamic-plugins.yaml", "plugins", "plugins-appconfig", "backstage",
   "backstage-psql", "backstage-psql-secret"} \subseteq STRING

Dir  == Seq(STRING)
Path == [abs : BOOLEAN, dir : Dir]

\* A leaf of a YAML document.
Setting == [path : Seq(STRING), value : Seq(STRING)]

\* containers: empty for the main container, <<"*">> for all.
FileObjectRef == [name : STRING, keys : KeyList, key : STRING, path : Path,
                  containers : Seq(STRING), settings : SUBSET Setting]
PvcRef        == [name : STRING, path : Path, containers : Seq(STRING)]
EnvObjectRef  == [name : STRING, keys : KeyList, key : STRING, containers : Seq(STRING)]
Env           == [name : STRING, value : STRING, containers : Seq(STRING)]

AppConfig  == [mountPath : Dir, configMaps : Seq(FileObjectRef)]
ExtraFiles == [mountPath : Dir, configMaps : Seq(FileObjectRef), secrets : Seq(FileObjectRef),
               pvcs : Seq(PvcRef)]
ExtraEnvs  == [configMaps : Seq(EnvObjectRef), secrets : Seq(EnvObjectRef), envs : Seq(Env)]

TLS   == [certificate : STRING, key : STRING, caCertificate : STRING, externalCertificate : STRING]
Route == [enabled : Optional(BOOLEAN), host : STRING, subdomain : STRING, tls : Optional(TLS)]

Database == [enableLocalDb : Optional(BOOLEAN), authSecretName : STRING]

\* Of the patch: the variables of the main container, and whether the installer
\* container is given an image.
BackstageDeployment == [kind : {"", "Deployment", "StatefulSet"}, image : BOOLEAN,
                        env : Seq([name : STRING, value : STRING])]

Flavour == [name : STRING, enabled : BOOLEAN]

BackstageSpec ==
  [database : Optional(Database), appConfig : AppConfig, extraFiles : ExtraFiles,
   extraEnvs : ExtraEnvs, route : Optional(Route), deployment : BackstageDeployment,
   flavours : Optional(Seq(Flavour))]

IsLocalDbEnabled(spec)      == \A d \in spec.database : d.enableLocalDb # {FALSE}
IsAuthSecretSpecified(spec) == \E d \in spec.database : d.authSecretName # ""
IsRouteEnabled(spec)        == \A r \in spec.route : r.enabled # {FALSE}
=============================================================================
