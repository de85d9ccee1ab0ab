--------------------------- MODULE DynamicPlugins ---------------------------
(***************************************************************************)
(* dynamic-plugins.yaml: one layer of plugins merged over another, package *)
(* by package, and the references by which a layer names the packages of   *)
(* the layers under it.                                                    *)
(*                                                                         *)
(* A field that may be absent is a set: {} when it is, {x} when it is x.   *)
(* Of the URL of a package `name' is the last component of its path        *)
(* without tag and version, `at' all the rest of it (registry, tag,        *)
(* digest, "inherit" for :{{inherit}}), `path' what follows the            *)
(* exclamation mark.                                                       *)
(***************************************************************************)
EXTENDS BackstageTypes, FiniteSets, SequencesExt

Package == [scheme : STRING, name : STRING, at : STRING, path : STRING]

\* deps are refs, see Dependencies.
Plugin == [package : Package, config : Optional(SUBSET Setting), integrity : Optional(STRING),
           deps : Optional(SUBSET Seq(STRING)), enabled : Optional(BOOLEAN), disabled : BOOLEAN]
Layer  == [includes : Optional(SUBSET STRING), plugins : Seq(Plugin)]

NoPackage == [scheme |-> "", name |-> "", at |-> "", path |-> ""]

DirectSchemes == {"oci", "https", "http", "local"}

\* The last component of the path of the URL; none for an unknown protocol.
Name(pkg) == IF pkg.scheme \in DirectSchemes THEN pkg.name ELSE ""

IsDisabled(p) == IF p.enabled = {} THEN p.disabled ELSE p.enabled = {FALSE}

-----------------------------------------------------------------------------
(* References                                                               *)

\* The first package of that name, {} when there is none.
Named(name, base) ==
  LET found == SelectSeq(base, LAMBDA b : b.package # NoPackage /\ Name(b.package) = name)
  IN  IF name = "" \/ found = <<>> THEN {} ELSE {Head(found).package}

\* ref://<name>: all that follows the prefix is the name, an exclamation mark too.
resolveRefReference(pkg, base) == IF pkg.path # "" THEN {} ELSE Named(pkg.name, base)

resolveInheritReference(pkg, base) ==
  {IF pkg.path = "" THEN b ELSE [b EXCEPT !.path = pkg.path] : b \in Named(Name(pkg), base)}

\* Mutant: a direct link is taken as it is before its {{inherit}} is seen.
ResolvedDirectFirst(pkg, base) ==
  IF pkg = NoPackage THEN {pkg}
  ELSE IF pkg.scheme = "ref" THEN resolveRefReference(pkg, base)
  ELSE IF pkg.scheme \in DirectSchemes THEN {pkg}
  ELSE IF pkg.at = "inherit" THEN resolveInheritReference(pkg, base) ELSE {}

\* {} when the URL is refused.
ResolvedPackage(pkg, base) ==
  IF pkg = NoPackage THEN {pkg}
  ELSE IF pkg.scheme = "ref" THEN resolveRefReference(pkg, base)
  ELSE IF pkg.at = "inherit" THEN resolveInheritReference(pkg, base)
  ELSE IF pkg.scheme \in DirectSchemes THEN {pkg} ELSE {}

\* {} when one of the references cannot be resolved.
resolveReferences(plugins, base) ==
  IF \E p \in ToSet(plugins) : ResolvedPackage(p.package, base) = {} THEN {}
  ELSE {[i \in DOMAIN plugins |->
          [plugins[i] EXCEPT !.package = CHOOSE x \in ResolvedPackage(@, base) : TRUE]]}

-----------------------------------------------------------------------------
(* Merging                                                                  *)

Given(new, old) == IF new = {} THEN old ELSE new

\* Mutant: disabling a plugin forgets to withdraw an earlier `enabled'.
OverlayKeepsEnabled(old, new) ==
  [old EXCEPT !.config = Given(new.config, @), !.deps = Given(new.deps, @),
              !.integrity = Given(new.integrity, @),
              !.enabled = Given(new.enabled, @),
              !.disabled = new.enabled = {} /\ (new.disabled \/ @)]

\* What `new' says of a package that is there already.
Overlay(old, new) ==
  [old EXCEPT !.config = Given(new.config, @), !.deps = Given(new.deps, @),
              !.integrity = Given(new.integrity, @),
              !.enabled = IF new.enabled = {} /\ new.disabled THEN {} ELSE Given(new.enabled, @),
              !.disabled = new.enabled = {} /\ (new.disabled \/ @)]

\* pluginMap, the set of its values; Put replaces, Merge overlays.
Others(m, pkg) == {q \in m : q.package # pkg}
Put(m, p) == Others(m, p.package) \cup {p}
Merge(m, p) == Others(m, p.package) \cup
  IF \E q \in m : q.package = p.package
  THEN {Overlay(q, p) : q \in m \ Others(m, p.package)} ELSE {p}

\* Written with omitempty: an empty list or map is read back as none.
Marshalled(opt) == opt \ {{}}

MergedIncludes(first, second) ==
  IF second.includes = {{}} THEN {}
  ELSE Marshalled({UNION (first.includes \cup second.includes)})

\* Every layer that can come out, as the plugins are listed in the order of a
\* map; none when a reference cannot be resolved.  The arguments are {} for
\* the empty string.
MergePluginsData(firstData, secondData, operatorDp) ==
  IF firstData = {} THEN secondData
  ELSE IF secondData = {} THEN firstData
  ELSE LET first  == CHOOSE d \in firstData : TRUE
           second == CHOOSE d \in secondData : TRUE
           over   == IF operatorDp THEN resolveReferences(second.plugins, first.plugins)
                     ELSE {second.plugins}
           Merged(ps) == FoldLeft(Merge, FoldLeft(Put, {}, first.plugins), ps)
           Written(m) == {[p EXCEPT !.deps = Marshalled(@), !.config = Marshalled(@)] : p \in m}
       IN  {[includes |-> MergedIncludes(first, second), plugins |-> s] :
              s \in UNION {SetToSeqs(Written(Merged(ps))) : ps \in over}}

-----------------------------------------------------------------------------
(* Dependencies: a ref is a sequence of letters, and so is the name of a    *)
(* file.  A file is [name, yaml : BOOLEAN, objects : {} when it cannot be   *)
(* parsed, or else {set of objects}], a directory {} or {set of files}.     *)

\* Mutant: those of disabled plugins too.
DependenciesOfAll(data) == UNION {UNION UNION {p.deps : p \in ToSet(d.plugins)} : d \in data}

Dependencies(data) ==
  UNION {UNION UNION {p.deps : p \in {q \in ToSet(d.plugins) : ~IsDisabled(q)}} : d \in data}

\* The files whose names begin with one of the refs.
getDepsFiles(files, refs) == {f \in files : \E r \in refs : IsPrefix(r, f.name)}

ReadPluginDeps(dir, refs) ==
  LET read == {f \in getDepsFiles(UNION dir, refs) : f.yaml}
  IN  IF \E f \in read : f.objects = {} THEN {} ELSE {UNION UNION {f.objects : f \in read}}

\* The objects to create, {} for an error; an empty ref asks for nothing.
GetPluginDeps(dir, data) == ReadPluginDeps(dir, Dependencies(data) \ {<<>>})

-----------------------------------------------------------------------------
(* Flavours                                                                 *)

\* Every order in which the enabled flavours can come out of the map of all
\* flavours, `byDefault' saying which are enabled when the spec is silent; no
\* order when the spec names an unknown flavour.  specified is {} when
\* spec.flavours is absent, and else holds a sequence of [name, enabled].
GetEnabledFlavours(specified, byDefault) ==
  IF specified = {<<>>} THEN {<<>>}
  ELSE LET list == UNION {ToSet(s) : s \in specified}
           all  == IF specified = {} THEN byDefault
                   ELSE FoldLeft(LAMBDA m, f : [m EXCEPT ![f.name] = f.enabled], byDefault,
                                 CHOOSE s \in specified : TRUE)
       IN  IF \E f \in list : f.name \notin DOMAIN byDefault THEN {}
           ELSE SetToSeqs({n \in DOMAIN byDefault : all[n]})
=============================================================================
