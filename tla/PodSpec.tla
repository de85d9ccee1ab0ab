------------------------------ MODULE PodSpec ------------------------------
(***************************************************************************)
(* The template of the Backstage Pod while the runtime model is built: its *)
(* volumes, the mounts and the environment of its containers, and the      *)
(* --config arguments of the main one.                                     *)
(*                                                                         *)
(* A path is the sequence of its components.  Operations return the set of *)
(* the pods that can come out: {} when the code returns an error.          *)
(***************************************************************************)
EXTENDS BackstageTypes, FiniteSets, SequencesExt

CONSTANTS
  Labels            \* the RFC 1123 labels of those object names that are none

ASSUME LabelsAssumption == \A name \in DOMAIN Labels : Labels[name] \in STRING

\* kind is "cm" or "secret", or "value" for a variable that has the object for its
\* value.
Source   == [kind : STRING, object : STRING]
Variable == [name : STRING, from : Source]
Volume   == [name : STRING, kind : STRING, object : STRING]
Mount    == [path : Dir, volume : STRING, sub : STRING]

Images == {"default", "backstage", "installer", "patch"}

\* With the containers cs, of which `image' is that of the installer.
Pods(cs) == [volumes : Seq(Volume), mounts : [cs -> Seq(Mount)], env : [cs -> Seq(Variable)],
             envFrom : [cs -> Seq(Source)], args : Seq(Dir), image : Images]

Main       == "backstage-backend"
Installer  == "install-dynamic-plugins"
WorkingDir == <<"src">>

ToRFC1123Label(name) == IF name \in DOMAIN Labels THEN Labels[name] ELSE name

allContainers(pod) == DOMAIN pod.mounts

\* The containers an object is for, as a sequence; {} when one is unknown.
getContainers(pod, names) ==
  IF names = <<>> THEN {<<Main>>}
  ELSE IF names = <<"*">> THEN {SetToSeq(allContainers(pod))}
  ELSE IF ToSet(names) \subseteq allContainers(pod) THEN {names} ELSE {}

\* r is for the container c.
IsFor(pod, r, c) == \E cs \in getContainers(pod, r.containers) : c \in ToSet(cs)

-----------------------------------------------------------------------------
(* Where to mount                                                           *)

NoPath == [abs |-> FALSE, dir |-> <<>>]

Join(path, file) == IF file = "" THEN path ELSE Append(path, file)

\* Of a reference in the CR: the directory, and whether files go there one by
\* one.  shared is the mountPath of all the references, <<>> when there is none.
mountPath(ref, shared) ==
  IF ref.path.abs THEN ref.path.dir
  ELSE (IF shared = <<>> THEN WorkingDir ELSE shared) \o ref.path.dir
WithSubPath(ref) == ref.path = NoPath \/ ref.key # ""

\* What is asked of mountFilesFrom for an object of the default configuration,
\* from its annotations, and for a reference of the CR.
DefConfigRequest(kind, o) ==
  [kind |-> kind, name |-> o.name, containers |-> o.containers,
   path |-> IF o.mountPath = <<>> THEN WorkingDir ELSE o.mountPath,
   file |-> IF o.subPath = "*" THEN "" ELSE o.subPath, sub |-> o.subPath # "", keys |-> o.keys]
SpecRequest(kind, ref, shared) ==
  [kind |-> kind, name |-> ref.name, containers |-> ref.containers,
   path |-> mountPath(ref, shared), file |-> ref.key, sub |-> WithSubPath(ref), keys |-> ref.keys]

-----------------------------------------------------------------------------
(* Volumes and mounts                                                       *)

\* The entries of the object that are asked for: all of them, or the one named.
EntriesOf(r) == IF r.file = "" THEN r.keys ELSE IF r.file \in ToSet(r.keys) THEN <<r.file>> ELSE <<>>

MountsToAdd(r) ==
  LET files == IF ~r.sub THEN <<"">> ELSE IF r.keys = <<>> THEN <<r.file>> ELSE EntriesOf(r)
  IN  [i \in DOMAIN files |-> [path |-> Join(r.path, files[i]), sub |-> files[i],
                               volume |-> ToRFC1123Label(r.name)]]

\* Mutant: the new mounts are added even when the path is taken.
AppendMounts(ms, new) == ms \o new

\* Mounts at the same path are replaced; only if there are none, the new ones
\* are appended.
ReplaceOrAppend(ms, new) ==
  LET At(p) == {n \in ToSet(new) : n.path = p}
  IN  IF \E m \in ToSet(ms) : At(m.path) # {}
      THEN [i \in DOMAIN ms |-> IF At(ms[i].path) = {} THEN ms[i]
                                ELSE CHOOSE n \in At(ms[i].path) : TRUE]
      ELSE ms \o new

\* Mutant: the volume has the name of the object.
AddVolumeUnlabelled(pod, r) ==
  Append(pod.volumes, [name |-> r.name, kind |-> r.kind, object |-> r.name])

AddVolume(pod, r) ==
  Append(pod.volumes, [name |-> ToRFC1123Label(r.name), kind |-> r.kind, object |-> r.name])

mountFilesFrom(pod, r) ==
  {[pod EXCEPT !.volumes = AddVolume(pod, r),
               !.mounts = FoldLeft(LAMBDA ms, c : [ms EXCEPT ![c] = ReplaceOrAppend(@, MountsToAdd(r))],
                                   @, cs)] : cs \in getContainers(pod, r.containers)}

\* A claim is one mount, added whatever is mounted there.
addPvc(pod, r) ==
  {[pod EXCEPT !.volumes = AddVolume(pod, r),
               !.mounts = FoldLeft(LAMBDA ms, c : [ms EXCEPT ![c] = Append(@,
                            [path |-> r.path, sub |-> r.file, volume |-> ToRFC1123Label(r.name)])],
                                   @, cs)] : cs \in getContainers(pod, r.containers)}

DefPvcRequest(o) ==
  LET r == DefConfigRequest("pvc", o) IN [r EXCEPT !.file = o.subPath]

\* Without a mountPath a claim of the CR is mounted in a directory of its name.
PvcRequest(ref, shared) ==
  LET own == ref.path = NoPath
      mp  == mountPath(ref, shared)
  IN  [kind |-> "pvc", name |-> ref.name, containers |-> ref.containers,
       path |-> IF own THEN Append(mp, ref.name) ELSE mp,
       file |-> IF own THEN ToRFC1123Label(ref.name) ELSE ""]

-----------------------------------------------------------------------------
(* Environment variables                                                    *)

\* The first variable of that name is replaced, or a new one appended.
setOrAppendEnvVar(env, v) ==
  LET i == SelectInSeq(env, LAMBDA e : e.name = v.name)
  IN  IF i = 0 THEN Append(env, v) ELSE [env EXCEPT ![i] = v]

\* A workload has variables for each of its containers.
IsWorkload(d) ==
  /\ d.kind \in STRING
  /\ IsFiniteSet(DOMAIN d.env) /\ d.env \in [DOMAIN d.env -> Seq(Variable)]

\* merge2.MergeStrings on the workload: containers and variables by their names.
MergeStrings(dest, src) ==
  LET Of(d, c) == IF c \in DOMAIN d.env THEN d.env[c] ELSE <<>>
  IN  [kind |-> src.kind,
       env  |-> [c \in DOMAIN dest.env \cup DOMAIN src.env |->
                   FoldLeft(setOrAppendEnvVar, Of(dest, c), Of(src, c))]]

Value(v) == [name |-> v.name, from |-> [kind |-> "value", object |-> v.value]]

\* addExtraEnvs, one variable.
addExtraEnv(pod, v) ==
  {[pod EXCEPT !.env = FoldLeft(LAMBDA es, c : [es EXCEPT ![c] = setOrAppendEnvVar(@, Value(v))],
                                @, cs)] : cs \in getContainers(pod, v.containers)}

\* All the entries of an object, or the one with the key, added whatever there is.
addEnvVarsFrom(pod, r) ==
  LET src == [kind |-> r.kind, object |-> r.name]
  IN  {IF r.key = ""
       THEN [pod EXCEPT !.envFrom = FoldLeft(LAMBDA es, c : [es EXCEPT ![c] = Append(@, src)], @, cs)]
       ELSE [pod EXCEPT !.env = FoldLeft(LAMBDA es, c : [es EXCEPT ![c] =
                                           Append(@, [name |-> r.key, from |-> src])], @, cs)] :
         cs \in getContainers(pod, r.containers)}

\* What Kubernetes makes of it: the last of the variables with the name, or else
\* the last of the sources that have it.  {} when there is none.
EffectiveVar(pod, c, name, Provides(_, _)) ==
  LET direct == SelectSeq(pod.env[c], LAMBDA e : e.name = name)
      from   == SelectSeq(pod.envFrom[c], LAMBDA src : Provides(src, name))
  IN  IF direct # <<>> THEN {Last(direct).from} ELSE IF from # <<>> THEN {Last(from)} ELSE {}

-----------------------------------------------------------------------------
(* The chain of app-config files                                            *)

\* Mutant: the argument is added for a file that is not mounted.
ConfigArgsOfAll(r) == [i \in DOMAIN r.keys |-> Append(r.path, r.keys[i])]

ConfigArgs(r) == [i \in DOMAIN EntriesOf(r) |-> Append(r.path, EntriesOf(r)[i])]

\* More than one entry is refused.
updatePodWithAppConfig(pod, r) ==
  IF Len(r.keys) > 1 THEN {}
  ELSE {[p EXCEPT !.args = @ \o ConfigArgs(r)] : p \in mountFilesFrom(pod, r)}

\* One operation after the other, until one fails.
All(Op(_, _), pod, rs) == FoldLeft(LAMBDA pods, r : UNION {Op(p, r) : p \in pods}, {pod}, rs)

-----------------------------------------------------------------------------
(* What may be said of a Pod                                                *)

\* What is mounted is a volume.
MountsResolved(pod) ==
  \A c \in allContainers(pod) : \A m \in ToSet(pod.mounts[c]) :
    \E v \in ToSet(pod.volumes) : v.name = m.volume

\* A request for files is for the container, and for the path in it.
PathsOf(r) == {m.path : m \in ToSet(MountsToAdd(r))}
AsksFor(pod, r, c, path) == IsFor(pod, r, c) /\ path \in PathsOf(r)

\* Of the first n of the requests rs the i-th is the last one for the path in the
\* container.
LastToAsk(pod, rs, n, i, c, path) ==
  AsksFor(pod, rs[i], c, path) /\ \A j \in i + 1 .. n : ~AsksFor(pod, rs[j], c, path)

\* In the container the path is mounted once at most, for the last that asked for
\* it of the first n requests.
Overridden(pod, rs, n, c, path) ==
  LET ms   == pod.mounts[c]
      here == {k \in DOMAIN ms : ms[k].path = path}
  IN  /\ \A k, l \in here : k = l
      /\ \A i \in 1 .. n, k \in here :
           LastToAsk(pod, rs, n, i, c, path) => ms[k].volume = ToRFC1123Label(rs[i].name)

\* No path is both that of a directory and that of a file.
Unambiguous(ms) == \A m, n \in ms : m.path = n.path /\ m.sub = "" => n.sub = ""

\* The file of the main container comes with one of the mounts, its own or that of
\* its directory.
ComesWith(file, ms) == \E m \in ms : m.path = file \/ (m.sub = "" /\ IsPrefix(m.path, file))
Readable(pod, file, ms) == ComesWith(file, ToSet(pod.mounts[Main]) \cap ms)
=============================================================================
