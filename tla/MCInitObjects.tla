---------------------------- MODULE MCInitObjects ----------------------------
(* Instances of InitObjects for model checking.                             *)
EXTENDS InitObjects

MCLabels == ("cm.b" :> "cm-b")

Oci(name, at, path) == [scheme |-> "oci", name |-> name, at |-> at, path |-> path]
Ref(name) == [scheme |-> "ref", name |-> name, at |-> "", path |-> ""]
Entry(pkg) == [package |-> pkg, config |-> {}, integrity |-> {}, deps |-> {}, enabled |-> {},
               disabled |-> FALSE]
LayerOf(ps) == [includes |-> {}, plugins |-> ps]

Leaf(path, value) == [path |-> path, value |-> <<value>>]
Title(value) == Leaf(<<"app", "title">>, value)

\* What a layer may say of a package.
Words(pkg) ==
  LET e == Entry(pkg)
  IN  {e, [e EXCEPT !.disabled = TRUE], [e EXCEPT !.enabled = {TRUE}, !.deps = {{<<"e">>, <<>>}}],
       [e EXCEPT !.enabled = {FALSE}, !.config = {{Title("other")}}],
       [e EXCEPT !.deps = {{}}, !.config = {{}}]}

P == Oci("p", "v1", "")
Q == Oci("q", "v1", "dir")
First == [Entry(P) EXCEPT !.config = {{Title("c"), Leaf(<<"backend", "baseUrl">>, "c")}}, !.deps = {{<<"d">>}}]

\* A file for the ref d, two more that begin like it, and one for e.
MCDepsDir ==
  {{[name |-> <<"d">>, yaml |-> TRUE, objects |-> {{"d1"}}],
    [name |-> <<"d", "d">>, yaml |-> TRUE, objects |-> {{"d2", "d3"}}],
    [name |-> <<"d", "txt">>, yaml |-> FALSE, objects |-> {}],
    [name |-> <<"e">>, yaml |-> TRUE, objects |-> {{"e1"}}],
    [name |-> <<"f">>, yaml |-> TRUE, objects |-> {}]}}

EnvOf(name, keys) == [name |-> name, keys |-> keys, containers |-> <<>>]
Var(name, value) == Value([name |-> name, value |-> value])

\* One flavour is enabled by default, and both speak of the package P.
MCFlavours ==
  [f |-> [byDefault |-> TRUE, dynamicPlugins |-> <<{LayerOf(<<[Entry(P) EXCEPT !.disabled = TRUE]>>)}>>,
          appConfig |-> <<[name |-> "flavour", keys |-> <<"f">>, settings |-> {{Title("f")}}]>>,
          configMapEnvs |-> <<EnvOf("flavour-env", <<"X">>)>>,
          deployment |-> <<[kind |-> "Deployment", env |-> Main :> <<Var("Y", "flavour")>>]>>,
          configMapFiles |-> <<>>],
   g |-> [byDefault |-> FALSE,
          dynamicPlugins |-> <<{LayerOf(<<[Entry(P) EXCEPT !.enabled = {TRUE}], Entry(Q)>>)}>>,
          appConfig |-> <<>>, configMapEnvs |-> <<>>, deployment |-> <<>>, configMapFiles |-> <<>>]]

Workload == [kind |-> "Deployment", env |-> (Main :> <<Var("Y", "default")>>) @@ (Installer :> <<>>)]

NoConf == [k \in Keys |-> <<>>]
Nothing ==
  [op |-> [operatorDp |-> FALSE, backstageImage |-> FALSE, installerImage |-> TRUE, dbImage |-> FALSE],
   cluster |-> [groups |-> {}, labels |-> {}, domain |-> ""],
   conf |-> [NoConf EXCEPT !.deployment = <<Workload>>, !.service = <<"">>],
   raw |-> NoConf, patches |-> [ocp |-> <<>>, k8s |-> <<>>], user |-> {},
   spec |-> [database |-> {[enableLocalDb |-> {FALSE}, authSecretName |-> ""]},
             appConfig |-> [mountPath |-> <<>>, configMaps |-> <<>>],
             extraFiles |-> [mountPath |-> <<>>, configMaps |-> <<>>, secrets |-> <<>>, pvcs |-> <<>>],
             extraEnvs |-> [configMaps |-> <<>>, secrets |-> <<>>, envs |-> <<>>],
             route |-> {}, deployment |-> [kind |-> "", image |-> FALSE, env |-> <<>>],
             flavours |-> {<<>>}]]

Enable(f) == [name |-> f, enabled |-> TRUE]

\* Every word of the default configuration, the flavours and the spec on P,
\* the spec naming it directly or by one of the references, alone or before
\* another entry for P, and keeping, dropping or extending the includes.
SpecLayers ==
  LET words == UNION {Words(pkg) : pkg \in {P, Ref("p"), Oci("q", "inherit", ""),
                                            Oci("q", "inherit", "other"), Ref("unknown")}}
  IN  {[includes |-> i, plugins |-> <<u>>] : i \in {{}, {{}}, {{"mine"}}}, u \in words}
        \cup {LayerOf(<<u, [Entry(P) EXCEPT !.disabled = TRUE]>>) : u \in words}
PluginInputs ==
  {[Nothing EXCEPT !.op.operatorDp = dp, !.spec.flavours = fl, !.user = {{l}},
                   !.conf.dynamicPlugins = <<{[includes |-> {{"default"}}, plugins |-> <<b, Entry(Q)>>]}>>] :
     dp \in BOOLEAN, l \in SpecLayers,
     fl \in {{}, {<<>>}, {<<Enable("g")>>}, {<<Enable("g"), Enable("f")>>}, {<<Enable("none")>>}},
     b \in {First, [First EXCEPT !.disabled = TRUE], [First EXCEPT !.enabled = {TRUE}]}}

\* Without a default configuration, with a raw one, with no entry in the
\* ConfigMap of the spec, without the installer's image.
OddInputs ==
  {[Nothing EXCEPT !.op = [operatorDp |-> dp, installerImage |-> i, backstageImage |-> TRUE, dbImage |-> FALSE],
                   !.raw.dynamicPlugins = r, !.user = u, !.spec.deployment.image = patched] :
     dp \in BOOLEAN, i \in BOOLEAN, r \in {<<>>, <<{}>>, <<{LayerOf(<<First>>)}>>, <<{LayerOf(<<>>)}, {LayerOf(<<>>)}>>},
     u \in {{}, {{}}, {{LayerOf(<<Entry(Q)>>)}},
            {{LayerOf(<<[Entry(Ref("p")) EXCEPT !.config = {{Title("c")}}, !.deps = {{<<"f">>}}]>>)}}},
     patched \in BOOLEAN}

Object(name, keys) ==
  [name |-> name, keys |-> keys, mountPath |-> <<>>, subPath |-> "*", containers |-> <<>>]
Reference(name, keys) ==
  [name |-> name, keys |-> keys, key |-> "", path |-> NoPath, containers |-> <<>>, settings |-> {}]
Abs(dir) == [abs |-> TRUE, dir |-> dir]
Rel(dir) == [abs |-> FALSE, dir |-> dir]

\* A reference to an object with two entries, in all the ways the spec can give.
Ways(name) ==
  LET r == Reference(name, <<"a", "b">>)
  IN  {r, [r EXCEPT !.key = "a"], [r EXCEPT !.path = Abs(<<"src">>), !.key = "b"],
       [r EXCEPT !.path = Rel(<<"sub">>)],
       [r EXCEPT !.key = "a", !.containers = <<"*">>]}

\* Two ConfigMaps and a Secret over a default ConfigMap and a default Secret.
FileInputs ==
  {[Nothing EXCEPT !.conf.configMapFiles = <<Object("default", <<"a">>)>>, !.conf.secretFiles = <<s>>,
                   !.conf.dynamicPlugins = base,
                   !.spec.extraFiles = [mountPath |-> shared, configMaps |-> <<x, y>>, secrets |-> <<z>>,
                                        pvcs |-> <<>>]] :
     s \in {[Object("default-secret", <<"a", "b">>) EXCEPT !.mountPath = <<"src">>, !.subPath = "b"],
            [Object("default-secret", <<"b">>) EXCEPT !.mountPath = <<"sub">>, !.subPath = "",
                                                      !.containers = <<Installer>>]},
     x \in Ways("cm.b"), y \in Ways("cm2"), z \in Ways("secret"),
     shared \in {<<>>, <<"shared">>}, base \in {<<>>, <<{LayerOf(<<First>>)}>>}}

\* The app-configs of the spec, with and without those of plugins and flavours.
AppInputs ==
  {[Nothing EXCEPT !.op.operatorDp = dp, !.spec.flavours = fl,
                   !.conf.dynamicPlugins = <<{LayerOf(<<First>>)}>>,
                   !.conf.appConfig = <<[name |-> "app", keys |-> <<"app">>, settings |-> {{Title("app")}}]>>,
                   !.conf.pvcs = <<[Object("default-pvc", <<>>) EXCEPT !.mountPath = <<"data">>]>>,
                   !.spec.appConfig = [mountPath |-> shared, configMaps |-> <<r>>],
                   !.spec.extraFiles.configMaps = <<[Reference("cm2", <<"f", "c">>) EXCEPT !.containers = cs]>>,
                   !.spec.extraFiles.pvcs = <<[name |-> "pvc", path |-> pv, containers |-> <<>>]>>] :
     dp \in BOOLEAN, fl \in {{}, {<<>>}},
     r \in {Reference("mine", <<"c">>), [Reference("mine", <<"c">>) EXCEPT !.key = "other"],
            [Reference("mine", <<"c">>) EXCEPT !.path = Rel(<<"sub">>)],
            Reference("mine", <<"c", "d">>), Reference("mine", <<>>)},
     shared \in {<<>>, <<"shared">>},
     cs \in {<<>>, <<Installer>>, <<"unknown">>},
     pv \in {NoPath, Abs(<<"claim">>)}}

\* The workload, as the default configuration and a raw one have it.
Workloads ==
  {<<>>, <<Workload>>, <<[Workload EXCEPT !.kind = "Pod"]>>, <<Workload, Workload>>,
   <<[kind |-> "StatefulSet", env |-> Main :> <<>>]>>, <<[Workload EXCEPT !.env = Installer :> <<>>]>>}
WorkloadInputs ==
  {[Nothing EXCEPT !.conf.deployment = d, !.raw.deployment = r, !.spec.flavours = {},
                   !.conf.service = s, !.spec.deployment.kind = k] :
     d \in {<<>>, <<Workload>>}, r \in Workloads, s \in {<<>>, <<"">>}, k \in {"", "StatefulSet"}}

Patch == [kind |-> "Deployment", env |-> (Main :> <<Var("Z", "platform")>>) @@ (Installer :> <<Var("Y", "platform")>>)]
EnvReference(name, key) == [name |-> name, keys |-> <<"X", "Y", "Z">>, key |-> key, containers |-> <<>>]
Own(name, value, cs) == [name |-> name, value |-> value, containers |-> cs]

\* Variables X, Y and those of the database, from all sources there are.
EnvInputs ==
  {[Nothing EXCEPT !.spec.flavours = {}, !.cluster.groups = g, !.patches.ocp = <<Patch>>,
                   !.conf.configMapEnvs = <<EnvOf("cm-env", <<"X", "Y">>)>>,
                   !.conf.secretEnvs = <<[EnvOf("secret-env", <<"X">>) EXCEPT !.containers = cs]>>,
                   !.conf.dbSecret = <<"">>, !.conf.dbService = <<"">>, !.conf.dbStatefulSet = <<"">>,
                   !.spec.database = {},
                   !.spec.deployment.env = patch,
                   !.spec.extraEnvs = [configMaps |-> <<EnvReference("cm", k1)>>,
                                       secrets |-> <<EnvReference("secret", k2)>>, envs |-> vs]] :
     g \in {{}, {"route.openshift.io", "eks.amazonaws.com"}},
     cs \in {<<>>, <<"*">>}, k1 \in {"", "X", "Y"}, k2 \in {"", "X"},
     patch \in {<<>>, <<[name |-> "Y", value |-> "patch"]>>},
     vs \in {<<>>, <<Own("Y", "1", <<"*">>)>>, <<Own("Y", "1", <<>>), Own("Y", "2", <<Installer>>), Own("Y", "3", <<>>)>>,
             <<Own("X", "1", <<"unknown">>)>>}}

\* Every database the spec can ask for, on every default configuration.
DbInputs ==
  {[Nothing EXCEPT !.spec.database = d, !.op.dbImage = i, !.conf.dbSecret = s, !.conf.dbService = sv,
                   !.conf.dbStatefulSet = ss, !.conf.secretEnvs = <<EnvOf("secret-env", <<"POSTGRES_HOST">>)>>] :
     d \in {{}} \cup {{[enableLocalDb |-> l, authSecretName |-> n]} :
                        l \in {{}, {TRUE}, {FALSE}}, n \in {"", "mine"}},
     i \in BOOLEAN, s \in {<<>>, <<"">>}, sv \in {<<>>, <<"">>, <<"", "">>}, ss \in {<<>>, <<"">>}}

Cert == [certificate |-> "c", key |-> "", caCertificate |-> "", externalCertificate |-> ""]
Second == [Entry(Q) EXCEPT !.config = {{Title("q"), Leaf(<<"backend">>, "q")}}]

\* What the default configuration says of the base URLs: nothing, as shipped,
\* some of them, or some in an app-config after one that cannot be decoded.
Item(name, key, settings) == [name |-> name, keys |-> <<key>>, settings |-> settings]
Plain == <<Item("app", "app", {{Title("app")}})>>
Spoken == <<Item("app", "app", {{Leaf(<<"backend">>, "b"), Title("app")}})>>
Odd == <<Item("odd", "app", {}), Item("next", "next", {{Leaf(<<"app", "baseUrl">>, "n")}})>>

\* A Route, and app-configs that set the base URLs or cannot be updated.
RouteInputs ==
  {[Nothing EXCEPT !.cluster = [groups |-> g, labels |-> {{"container.googleapis.com/cluster-name"}}, domain |-> d],
                   !.op.operatorDp = it.dp, !.conf.route = cr, !.spec.route = sr,
                   !.conf.dynamicPlugins = <<{LayerOf(<<First, Second>>)}>>,
                   !.user = IF it.dp THEN {{LayerOf(<<Entry(Q)>>)}} ELSE {},
                   !.conf.appConfig = it.items, !.spec.appConfig.configMaps = refs] :
     g \in {{"route.openshift.io"}, {}}, d \in {"", "domain"},
     cr \in {<<>>, <<NoRoute>>, <<[NoRoute EXCEPT !.tls = {[Cert EXCEPT !.key = "k"]}]>>},
     sr \in {{}} \cup {{[enabled |-> e, host |-> h, subdomain |-> sd, tls |-> {Cert}]} :
                         e \in {{}, {FALSE}}, h \in {"", "host"}, sd \in {"", "sub"}},
     it \in [dp : {FALSE}, items : {<<>>, Spoken, Odd}] \cup [dp : {TRUE}, items : {<<>>, Plain}],
     refs \in {<<>>, <<[Reference("mine", <<"app">>) EXCEPT !.settings = {Leaf(<<"app", "baseUrl">>, "u")}]>>,
               <<[Reference("mine", <<"c">>) EXCEPT !.settings = {Leaf(<<"backend", "baseUrl">>, "u")}]>>}}

AllInputs ==
  PluginInputs \cup OddInputs \cup FileInputs \cup AppInputs \cup WorkloadInputs \cup EnvInputs
    \cup DbInputs \cup RouteInputs

\* Two flavours that disagree, in the order of the spec.
FlavourInputs ==
  {[Nothing EXCEPT !.conf.dynamicPlugins = <<{LayerOf(<<First>>)}>>, !.spec.flavours = {fl}] :
     fl \in {<<Enable("f"), Enable("g")>>, <<Enable("g"), Enable("f")>>}}

\* A default app-config that sets base URLs, with the plugins processed by the
\* operator or not.
UrlInputs ==
  {[Nothing EXCEPT !.cluster = [groups |-> {"route.openshift.io"}, labels |-> {}, domain |-> "domain"],
                   !.op.operatorDp = dp, !.conf.route = <<NoRoute>>, !.conf.appConfig = items,
                   !.conf.dynamicPlugins = <<{LayerOf(<<First>>)}>>] :
     dp \in BOOLEAN, items \in {Plain, <<Item("app", "app", {{Leaf(<<"backend", "baseUrl">>, "b")}})>>}}

\* The operator processes the plugins of the default configuration.
InstallerInputs ==
  {[Nothing EXCEPT !.op.operatorDp = TRUE, !.op.backstageImage = i,
                   !.conf.dynamicPlugins = <<{LayerOf(<<First>>)}>>] :
     i \in BOOLEAN}
=============================================================================
