---------------------------- MODULE PodPromises ----------------------------
(***************************************************************************)
(* What the operations on the Pod template promise to the objects that use *)
(* them, one object after the other: PodSpecProofs proves it of PodSpec,   *)
(* InitObjectsSteps uses it.                                               *)
(***************************************************************************)
EXTENDS PodSpec

\* What is asked of the operations.
IsFileRequest(r) ==
  /\ r.kind \in STRING /\ r.name \in STRING /\ r.containers \in Seq(STRING)
  /\ r.path \in Dir /\ r.file \in STRING /\ r.keys \in KeyList
IsClaimRequest(r) ==
  /\ r.kind \in STRING /\ r.name \in STRING /\ r.containers \in Seq(STRING)
  /\ r.path \in Dir /\ r.file \in STRING
IsEnvRequest(r) ==
  r.kind \in STRING /\ r.name \in STRING /\ r.containers \in Seq(STRING) /\ r.key \in STRING

\* The Pods an object may find, with the containers C.
PodOf(C, p) == IsFiniteSet(C) /\ Main \in C /\ p \in Pods(C)

-----------------------------------------------------------------------------
(* Files                                                                    *)

\* Of the sequence all, rs comes after the first k.
Follows(all, k, rs) == k \in Nat /\ \A n \in 1 .. Len(rs) : all[k + n] = rs[n]

\* After the first n of the requests rs for files the Pod p has become q: what is
\* mounted is a volume, each path is mounted once, for the last that asked for it,
\* and a file that could be read can still be read.
FilesDone(p, q) ==
  /\ q.env = p.env /\ q.envFrom = p.envFrom /\ q.image = p.image
  /\ MountsResolved(p) => MountsResolved(q)
OverriddenBy(C, p, q, rs, n) ==
  \A all, k : Follows(all, k, rs) =>
    \A c \in C : \A path : Overridden(p, all, k, c, path) => Overridden(q, all, k + n, c, path)
ReadableStill(p, q, rs) ==
  \A ms, file : /\ Unambiguous(ms) /\ \A i \in 1 .. Len(rs) : ToSet(MountsToAdd(rs[i])) \subseteq ms
                /\ Readable(p, file, ms)
                => Readable(q, file, ms)
FilesMountedFor(C, p, q, rs) ==
  /\ q \in Pods(C) /\ FilesDone(p, q)
  /\ OverriddenBy(C, p, q, rs, Len(rs)) /\ ReadableStill(p, q, rs)
OnlyFilesMounted(C, p, q, rs) == FilesMountedFor(C, p, q, rs) /\ q.args = p.args

FilesPromise ==
  \A C, p, R, rs, q :
    /\ PodOf(C, p) /\ rs \in Seq(R) /\ (\A r \in R : IsFileRequest(r))
    /\ q \in All(mountFilesFrom, p, rs)
    => OnlyFilesMounted(C, p, q, rs)
FilePromise ==
  \A C, p, r, q :
    PodOf(C, p) /\ IsFileRequest(r) /\ q \in mountFilesFrom(p, r)
    => OnlyFilesMounted(C, p, q, <<r>>)

\* The arguments that the requests rs for app-configs add, and that the files they
\* name can be read.
ArgsOf(rs) == [i \in DOMAIN rs |-> ConfigArgs(rs[i])]
ConfigsRead(p, q, rs) ==
  /\ q.args = p.args \o FlattenSeq(ArgsOf(rs)) /\ FlattenSeq(ArgsOf(rs)) \in Seq(Dir)
  /\ \A ms : Unambiguous(ms) /\ (\A i \in 1 .. Len(rs) : ToSet(MountsToAdd(rs[i])) \subseteq ms) =>
       \A file \in ToSet(FlattenSeq(ArgsOf(rs))) : Readable(q, file, ms)

ConfigsPromise ==
  \A C, p, R, rs, q :
    /\ PodOf(C, p) /\ rs \in Seq(R) /\ (\A r \in R : IsFileRequest(r) /\ r.containers = <<>>)
    /\ q \in All(updatePodWithAppConfig, p, rs)
    => FilesMountedFor(C, p, q, rs) /\ ConfigsRead(p, q, rs)

-----------------------------------------------------------------------------
(* Claims and variables                                                     *)

ClaimsDone(C, p, q, rs) ==
  /\ q.env = p.env /\ q.envFrom = p.envFrom /\ q.args = p.args /\ q.image = p.image
  /\ MountsResolved(p) => MountsResolved(q)
  /\ \A all, k : \A c \in C : \A path :
       path \notin {r.path : r \in ToSet(rs)} /\ Overridden(p, all, k, c, path) => Overridden(q, all, k, c, path)
  /\ \A ms, file : Readable(p, file, ms) => Readable(q, file, ms)

ClaimsPromise ==
  \A C, p, R, rs, q :
    /\ PodOf(C, p) /\ rs \in Seq(R) /\ (\A r \in R : IsClaimRequest(r))
    /\ q \in All(addPvc, p, rs)
    => q \in Pods(C) /\ ClaimsDone(C, p, q, rs)

\* Variables leave the mounts alone.
RestKept(p, q) == q.volumes = p.volumes /\ q.mounts = p.mounts /\ q.args = p.args /\ q.image = p.image

\* The Secrets of which all the variables are taken over, in the main container:
\* those of p, and those that are asked for.
SecretsOf(p) == {src.object : src \in {x \in ToSet(p.envFrom[Main]) : x.kind = "secret"}}
SecretsAdded(p, q, rs) ==
  /\ SecretsOf(p) \subseteq SecretsOf(q)
  /\ SecretsOf(q) \subseteq SecretsOf(p) \cup {r.name : r \in {x \in ToSet(rs) : x.kind = "secret"}}
WholeSecrets(q, rs) ==
  \A n \in 1 .. Len(rs) : rs[n].kind = "secret" /\ rs[n].key = "" /\ rs[n].containers = <<>> =>
    rs[n].name \in SecretsOf(q)

EnvsPromise ==
  \A C, p, R, rs, q :
    /\ PodOf(C, p) /\ rs \in Seq(R) /\ (\A r \in R : IsEnvRequest(r))
    /\ q \in All(addEnvVarsFrom, p, rs)
    => q \in Pods(C) /\ RestKept(p, q) /\ SecretsAdded(p, q, rs) /\ WholeSecrets(q, rs)
OnlyEnvSet(C, p, q) == q \in Pods(C) /\ RestKept(p, q) /\ q.envFrom = p.envFrom
ExtraEnvsPromise ==
  \A C, p, rs, q :
    PodOf(C, p) /\ rs \in Seq(Env) /\ q \in All(addExtraEnv, p, rs)
    => OnlyEnvSet(C, p, q)

\* What is said of the mounts does not depend on the rest of the Pod.
MountsPromise ==
  \A p, q : q.mounts = p.mounts /\ q.volumes = p.volumes =>
    /\ MountsResolved(p) => MountsResolved(q)
    /\ \A rs, n, c, path : Overridden(p, rs, n, c, path) => Overridden(q, rs, n, c, path)
    /\ \A file, ms : Readable(p, file, ms) => Readable(q, file, ms)

\* FlattenSeq, of sequences of elements of S.
FlattenPromise == \A S : \A ss \in Seq(Seq(S)) : FlattenSeq(ss) \in Seq(S)

\* Variables, and with them workloads, are merged into variables and workloads,
\* however many there are.
VariablesPromise == \A env, vs \in Seq(Variable) : FoldLeft(setOrAppendEnvVar, env, vs) \in Seq(Variable)
WorkloadsPromise ==
  \A W, d, ds : (\A e \in W : IsWorkload(e)) /\ d \in W /\ ds \in Seq(W) =>
    IsWorkload(FoldLeft(MergeStrings, d, ds))

PodPromise ==
  /\ FilesPromise /\ FilePromise /\ ConfigsPromise /\ ClaimsPromise /\ EnvsPromise /\ ExtraEnvsPromise
  /\ MountsPromise /\ FlattenPromise /\ VariablesPromise /\ WorkloadsPromise
=============================================================================
