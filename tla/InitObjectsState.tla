-------------------------- MODULE InitObjectsState --------------------------
(***************************************************************************)
(* What the steps of InitObjects make of the objects other than the Pod, of*)
(* those of the database above all, and of the Secrets that Backstage uses.*)
(***************************************************************************)
EXTENDS InitObjectsSteps

HIDE InputsAssumption
USE Zenon

-----------------------------------------------------------------------------
(* The other objects                                                        *)

KeptDb(o, q) == q.dbSecret = o.dbSecret /\ q.dbService = o.dbService /\ q.dbStatefulSet = o.dbStatefulSet
KeptRest(o, q) == q.route = o.route /\ q.kind = o.kind /\ q.service = o.service

\* One object of o is v in q.
ConfigsBecome(o, q, v) == IsObjects(q) /\ q.appConfigs = v /\ KeptDb(o, q) /\ KeptRest(o, q)
DbSecretBecomes(o, q, v) ==
  /\ IsObjects(q) /\ q.dbSecret = v /\ q.dbService = o.dbService /\ q.dbStatefulSet = o.dbStatefulSet
  /\ q.appConfigs = o.appConfigs /\ KeptRest(o, q)
DbServiceBecomes(o, q, v) ==
  /\ IsObjects(q) /\ q.dbService = v /\ q.dbSecret = o.dbSecret /\ q.dbStatefulSet = o.dbStatefulSet
  /\ q.appConfigs = o.appConfigs /\ KeptRest(o, q)
DbSetBecomes(o, q, v) ==
  /\ IsObjects(q) /\ q.dbStatefulSet = v /\ q.dbSecret = o.dbSecret /\ q.dbService = o.dbService
  /\ q.appConfigs = o.appConfigs /\ KeptRest(o, q)
RouteBecomes(o, q, v) ==
  /\ IsObjects(q) /\ q.route = v /\ q.kind = o.kind /\ q.service = o.service
  /\ q.appConfigs = o.appConfigs /\ KeptDb(o, q)
KindBecomes(o, q, v) ==
  /\ IsObjects(q) /\ q.kind = v /\ q.route = o.route /\ q.service = o.service
  /\ q.appConfigs = o.appConfigs /\ KeptDb(o, q)
ServiceBecomes(o, q, v) ==
  /\ IsObjects(q) /\ q.service = v /\ q.route = o.route /\ q.kind = o.kind
  /\ q.appConfigs = o.appConfigs /\ KeptDb(o, q)

LEMMA FieldsKept ==
  ASSUME NEW o, IsObjects(o), NEW v, NEW q
  PROVE  /\ q = [o EXCEPT !.appConfigs = v] => ConfigsBecome(o, q, v)
         /\ q = [o EXCEPT !.dbSecret = v] => DbSecretBecomes(o, q, v)
         /\ q = [o EXCEPT !["dbService"] = v] => DbServiceBecomes(o, q, v)
         /\ q = [o EXCEPT !["dbStatefulSet"] = v] => DbSetBecomes(o, q, v)
         /\ q = [o EXCEPT !.route = v] => RouteBecomes(o, q, v)
         /\ q = [o EXCEPT !.kind = v] => KindBecomes(o, q, v)
         /\ q = [o EXCEPT !.service = v] => ServiceBecomes(o, q, v)
BY SMT DEF IsObjects, KeptDb, KeptRest, ConfigsBecome, DbSecretBecomes, DbServiceBecomes, DbSetBecomes, RouteBecomes,
       KindBecomes, ServiceBecomes

LEMMA BecomesOne ==
  ASSUME NEW os, NEW o, NEW to, os = {} \/ os = {o}, Become(os, to), ~Fail
  PROVE  objects' = o
BY DEF Become

\* What is added for the database.
DbSecretAs(v) == v # {} => IsLocal /\ ~IsAuthSecretSpecified(in.spec)
DbSetAs(v) == (v # {} <=> IsLocal) /\ \A s \in v : s.secrets = <<>> /\ IsDbSet(s)

LEMMA AddsDb ==
  ASSUME ~Fail
  PROVE  /\ AddDbSecret =>
              ObjectsStep("dbSecret", "dbService") /\ \E v : DbSecretAs(v) /\ objects' = [objects EXCEPT !.dbSecret = v]
         /\ AddDbService =>
              /\ ObjectsStep("dbService", "dbStatefulSet")
              /\ objects' = [objects EXCEPT !["dbService"] = IF IsLocal THEN {DbService} ELSE {}]
         /\ AddDbStatefulSet =>
              /\ ObjectsStep("dbStatefulSet", "deployment")
              /\ \E v : DbSetAs(v) /\ objects' = [objects EXCEPT !["dbStatefulSet"] = v]
<1>1. ASSUME AddDbSecret
      PROVE  ObjectsStep("dbSecret", "dbService") /\ \E v : DbSecretAs(v) /\ objects' = [objects EXCEPT !.dbSecret = v]
  <2>1. \E v, os : /\ DbSecretAs(v) /\ (os = {} \/ os = {[objects EXCEPT !.dbSecret = v]})
                   /\ pc = "dbSecret" /\ Become(os, "dbService")
    BY <1>1 DEF AddDbSecret, DbSecretAs, IsLocal
  <2>. QED BY <2>1, BecomesOne, BecomeParts
<1>2. ASSUME AddDbService
      PROVE  /\ ObjectsStep("dbService", "dbStatefulSet")
             /\ objects' = [objects EXCEPT !["dbService"] = IF IsLocal THEN {DbService} ELSE {}]
  <2>1. \E os : /\ os = {} \/ os = {[objects EXCEPT !["dbService"] = IF IsLocal THEN {DbService} ELSE {}]}
                /\ pc = "dbService" /\ Become(os, "dbStatefulSet")
    BY <1>2 DEF AddDbService, AddDbObject, IsLocal
  <2>. QED BY <2>1, BecomesOne, BecomeParts
<1>3. ASSUME AddDbStatefulSet
      PROVE  /\ ObjectsStep("dbStatefulSet", "deployment")
             /\ \E v : DbSetAs(v) /\ objects' = [objects EXCEPT !["dbStatefulSet"] = v]
  <2>0. PICK x : x = [serviceName |-> "", secrets |-> <<>>, image |-> IF in.op.dbImage THEN "env" ELSE "default"]
    OBVIOUS
  <2>1. \E os : /\ os = {} \/ os = {[objects EXCEPT !["dbStatefulSet"] = IF IsLocal THEN {x} ELSE {}]}
                /\ pc = "dbStatefulSet" /\ Become(os, "deployment")
    BY <1>3, <2>0 DEF AddDbStatefulSet, AddDbObject, IsLocal
  <2>2. x.secrets = <<>> /\ IsDbSet(x)
    BY <2>0 DEF IsDbSet
  <2>3. DbSetAs(IF IsLocal THEN {x} ELSE {})
    BY <2>2, SMT DEF DbSetAs
  <2>. QED BY <2>1, <2>3, BecomesOne, BecomeParts
<1>. QED BY <1>1, <1>2, <1>3

LEMMA UpdatesDb ==
  ASSUME ~Fail
  PROVE  /\ UpdateDbSecret =>
              /\ ObjectsStep("updateDbSecret", "updateDbStatefulSet")
              /\ objects' = [objects EXCEPT !.dbSecret = IF objects.dbSecret = {} THEN {}
                                                         ELSE {[host |-> s.name] : s \in objects.dbService}]
              /\ objects.dbSecret # {} => objects.dbService # {}
         /\ UpdateDbStatefulSet =>
              /\ ObjectsStep("updateDbStatefulSet", "updateDeployment")
              /\ \E set : /\ objects' = [objects EXCEPT !["dbStatefulSet"] = set]
                          /\ set # {} <=> objects.dbStatefulSet # {}
                          /\ \A x \in set : \E s \in objects.dbStatefulSet :
                               x = setDbSecretEnvVar(IF objects.dbService = {} THEN s
                                     ELSE [s EXCEPT !.serviceName = (CHOOSE d \in objects.dbService : TRUE).name])
<1>1. ASSUME UpdateDbSecret
      PROVE  /\ ObjectsStep("updateDbSecret", "updateDbStatefulSet")
             /\ objects' = [objects EXCEPT !.dbSecret = IF objects.dbSecret = {} THEN {}
                                                        ELSE {[host |-> s.name] : s \in objects.dbService}]
             /\ objects.dbSecret # {} => objects.dbService # {}
  <2>. DEFINE o == [objects EXCEPT !.dbSecret = IF objects.dbSecret = {} THEN {}
                                                ELSE {[host |-> s.name] : s \in objects.dbService}]
  <2>1. \E os : /\ os = {} \/ os = {o}
                /\ os # {} => (objects.dbSecret # {} => objects.dbService # {})
                /\ pc = "updateDbSecret" /\ Become(os, "updateDbStatefulSet")
    BY <1>1 DEF UpdateDbSecret
  <2>. HIDE DEF o
  <2>2. objects' = o /\ ObjectsStep("updateDbSecret", "updateDbStatefulSet")
    BY <2>1, BecomesOne, BecomeParts
  <2>3. objects.dbSecret # {} => objects.dbService # {}
    BY <2>1 DEF Become
  <2>. QED BY <2>2, <2>3 DEF o
<1>2. ASSUME UpdateDbStatefulSet
      PROVE  /\ ObjectsStep("updateDbStatefulSet", "updateDeployment")
             /\ \E set : /\ objects' = [objects EXCEPT !["dbStatefulSet"] = set]
                         /\ set # {} <=> objects.dbStatefulSet # {}
                         /\ \A x \in set : \E s \in objects.dbStatefulSet :
                              x = setDbSecretEnvVar(IF objects.dbService = {} THEN s
                                    ELSE [s EXCEPT !.serviceName = (CHOOSE d \in objects.dbService : TRUE).name])
  <2>. DEFINE Pointed(s) == [s EXCEPT !.serviceName = (CHOOSE d \in objects.dbService : TRUE).name]
              As(s) == setDbSecretEnvVar(IF objects.dbService = {} THEN s ELSE Pointed(s))
              set == {As(s) : s \in objects.dbStatefulSet}
  <2>1. pc = "updateDbStatefulSet" /\ Become({[objects EXCEPT !["dbStatefulSet"] = set]}, "updateDeployment")
    BY <1>2 DEF UpdateDbStatefulSet
  <2>. HIDE DEF As
  <2>2. /\ set # {} <=> objects.dbStatefulSet # {}
        /\ \A x \in set : \E s \in objects.dbStatefulSet : x = As(s)
    OBVIOUS
  <2>. HIDE DEF set
  <2>. QED BY <2>1, <2>2, BecomesOne, BecomeParts DEF As
<1>. QED BY <1>1, <1>2

\* What is added for the Route.
LEMMA TLSMerged ==
  ASSUME NEW old \in TLS, NEW new \in TLS
  PROVE  [f \in DOMAIN old |-> OrElse(new[f], old[f])] \in TLS
<1>. DEFINE g == [f \in DOMAIN old |-> OrElse(new[f], old[f])]
<1>1. \A a, b \in STRING : OrElse(a, b) \in STRING
  BY DEF OrElse
<1>2. /\ DOMAIN g = DOMAIN old /\ \A f \in DOMAIN old : g[f] = OrElse(new[f], old[f])
      /\ g = [f \in DOMAIN g |-> g[f]]
  BY SMT
<1>. HIDE DEF g
<1>3. \A f \in DOMAIN old : g[f] \in STRING
  BY <1>1, <1>2, SMT DEF TLS
<1>. QED BY <1>2, <1>3, SMT DEF TLS, g

LEMMA RouteType ==
  ASSUME NEW r \in RouteObject, NEW h \in STRING, NEW d \in STRING, NEW t \in Optional(TLS)
  PROVE  [r EXCEPT !.host = h, !.subdomain = d, !.tls = t] \in RouteObject
<1>. PICK T, O : T = STRING /\ O = Optional(TLS)
  OBVIOUS
<1>1. RouteObject = [host : T, subdomain : T, tls : O, to : T]
  BY DEF RouteObject
<1>2. PICK a, b, c, e : r = [host |-> a, subdomain |-> b, tls |-> c, to |-> e] /\ e \in T
  BY <1>1, SMT
<1>3. PICK x : x = [r EXCEPT !.host = h]
  OBVIOUS
<1>4. x = [host |-> h, subdomain |-> b, tls |-> c, to |-> e]
  BY <1>2, <1>3, SMT
<1>5. PICK y : y = [x EXCEPT !.subdomain = d]
  OBVIOUS
<1>6. y = [host |-> h, subdomain |-> d, tls |-> c, to |-> e]
  BY <1>4, <1>5, SMT
<1>7. [y EXCEPT !.tls = t] = [host |-> h, subdomain |-> d, tls |-> t, to |-> e]
  BY <1>6, SMT
<1>8. [y EXCEPT !.tls = t] \in RouteObject
  BY <1>1, <1>2, <1>7
<1>. QED BY <1>3, <1>5, <1>8

LEMMA RouteTo ==
  ASSUME NEW r \in RouteObject, NEW to \in STRING
  PROVE  [r EXCEPT !.to = to] \in RouteObject
<1>. PICK T, O : T = STRING /\ O = Optional(TLS)
  OBVIOUS
<1>1. RouteObject = [host : T, subdomain : T, tls : O, to : T]
  BY DEF RouteObject
<1>2. PICK a, b, c, e : r = [host |-> a, subdomain |-> b, tls |-> c, to |-> e] /\ a \in T /\ b \in T /\ c \in O
  BY <1>1, SMT
<1>3. [r EXCEPT !.to = to] = [host |-> a, subdomain |-> b, tls |-> c, to |-> to]
  BY <1>2, SMT
<1>. QED BY <1>1, <1>2, <1>3

LEMMA SetRouteType ==
  ASSUME NEW r \in RouteObject, NEW s \in Route
  PROVE  setRoute(r, s) \in RouteObject
<1>. DEFINE new == CHOOSE t \in s.tls : TRUE
            Over(old) == [f \in DOMAIN old |-> OrElse(new[f], old[f])]
            tls == IF s.tls = {} THEN r.tls ELSE IF r.tls = {} THEN s.tls ELSE {Over(old) : old \in r.tls}
<1>1. /\ r.host \in STRING /\ r.subdomain \in STRING /\ r.to \in STRING /\ r.tls \in Optional(TLS)
      /\ s.host \in STRING /\ s.subdomain \in STRING /\ s.tls \in Optional(TLS)
  BY SMT DEF RouteObject, Route
<1>2. setRoute(r, s) = [r EXCEPT !.host = OrElse(s.host, r.host), !.subdomain = OrElse(s.subdomain, r.subdomain),
                                 !.tls = tls]
  BY DEF setRoute
<1>3. \A old \in TLS : s.tls # {} => Over(old) \in TLS
  <2>1. s.tls # {} => new \in TLS
    BY <1>1 DEF Optional
  <2>. HIDE DEF new
  <2>. QED BY <2>1, TLSMerged
<1>. HIDE DEF Over
<1>4. tls \in Optional(TLS)
  <2>. CASE s.tls = {} \/ r.tls = {}
    BY <1>1
  <2>. CASE s.tls # {} /\ r.tls # {}
    <3>1. PICK old \in TLS : r.tls = {old}
      BY <1>1, SMT DEF Optional
    <3>2. tls = {Over(old)} /\ Over(old) \in TLS
      BY <1>3, <3>1
    <3>. QED BY <3>2, SMT DEF Optional
  <2>. QED BY SMT
<1>. HIDE DEF tls
<1>5. OrElse(s.host, r.host) \in STRING /\ OrElse(s.subdomain, r.subdomain) \in STRING
  BY <1>1 DEF OrElse
<1>6. PICK h, d : h = OrElse(s.host, r.host) /\ d = OrElse(s.subdomain, r.subdomain) /\ h \in STRING /\ d \in STRING
  BY <1>5
<1>7. [r EXCEPT !.host = h, !.subdomain = d, !.tls = tls] \in RouteObject
  BY <1>4, <1>6, RouteType
<1>. QED BY <1>2, <1>6, <1>7

LEMMA AddsRoute ==
  ASSUME PodPromise, ModelInv, AddRoute, ~Fail
  PROVE  ObjectsStep("route", "service") /\ \E v \in SUBSET RouteObject : objects' = [objects EXCEPT !.route = v]
<1>. DEFINE default == ToSet(Chosen("route"))
            base    == IF default = {} /\ in.spec.route # {} THEN {NoRoute} ELSE default
            merged  == IF in.spec.route = {} THEN base
                       ELSE {setRoute(r, s) : r \in base, s \in in.spec.route}
            v       == IF IsOpenshift /\ IsRouteEnabled(in.spec) THEN merged ELSE {}
            o       == [objects EXCEPT !.route = v]
<1>1. pc = "route" /\ Become(IF ~AtMostOne("route") THEN {} ELSE {o}, "service")
  BY SMT DEF AddRoute
<1>2. NoRoute \in RouteObject
  <2>0. PICK none, e : none = "" /\ e = {}
    OBVIOUS
  <2>1. none \in STRING /\ e \in Optional(TLS)
    BY <2>0, Texts DEF Optional
  <2>2. NoRoute = [host |-> none, subdomain |-> none, tls |-> e, to |-> none]
    BY <2>0 DEF NoRoute
  <2>. QED BY <2>1, <2>2, SMT DEF RouteObject
<1>3. Chosen("route") \in Seq(RouteObject) /\ in.spec.route \in Optional(Route)
  BY ChosenTypes, SpecType DEF ModelInv
<1>4. base \subseteq RouteObject
  <2>1. default \subseteq RouteObject
    BY <1>3, ElementsOf DEF ToSet
  <2>. HIDE DEF default
  <2>. QED BY <1>2, <2>1
<1>. HIDE DEF base
<1>5. \A r \in base, s \in in.spec.route : setRoute(r, s) \in RouteObject
  BY <1>3, <1>4, SetRouteType DEF Optional
<1>6. merged \in SUBSET RouteObject
  BY <1>4, <1>5, SMT
<1>. HIDE DEF merged
<1>7. v \in SUBSET RouteObject
  BY <1>6
<1>. HIDE DEF v
<1>8. objects' = o
  BY <1>1, BecomesOne
<1>. QED BY <1>1, <1>7, <1>8, BecomeParts

\* What becomes of the Route and of the app-configs when the host is known.
UrlsOf(items) == updateAppConfigWithBaseUrls(items, buildBaseUrl(in.spec.route, in.cluster.domain))

LEMMA OtherObjects ==
  ASSUME ~Fail
  PROVE  /\ AddAppConfig =>
              ObjectsStep("appConfig", "dbSecret") /\ objects' = [objects EXCEPT !.appConfigs = Chosen("appConfig")]
         /\ AddService =>
              ObjectsStep("service", "updateAppConfig") /\ objects' = [objects EXCEPT !.service = {"backstage"}]
<1>1. ASSUME AddAppConfig
      PROVE  ObjectsStep("appConfig", "dbSecret") /\ objects' = [objects EXCEPT !.appConfigs = Chosen("appConfig")]
  <2>1. pc = "appConfig" /\ Become({[objects EXCEPT !.appConfigs = Chosen("appConfig")]}, "dbSecret")
    BY <1>1 DEF AddAppConfig
  <2>. QED BY <2>1, BecomesOne, BecomeParts
<1>2. ASSUME AddService
      PROVE  ObjectsStep("service", "updateAppConfig") /\ objects' = [objects EXCEPT !.service = {"backstage"}]
  <2>1. \E os : /\ os = {} \/ os = {[objects EXCEPT !.service = {"backstage"}]}
                /\ pc = "service" /\ Become(os, "updateAppConfig")
    BY <1>2 DEF AddService
  <2>. QED BY <2>1, BecomesOne, BecomeParts
<1>. QED BY <1>1, <1>2

LEMMA UpdatesRoute ==
  ASSUME ModelInv, ObjectsInv, UpdateRoute, ~Fail
  PROVE  /\ ObjectsStep("updateRoute", "secretEnvs")
         /\ objects.route = {} => objects' = objects
         /\ objects.route # {} =>
              /\ IsObjects(objects') /\ objects'.route # {} /\ objects'.route \subseteq RouteObject
              /\ objects'.appConfigs = UrlsOf(objects.appConfigs) /\ KeptDb(objects, objects')
              /\ objects'.kind = objects.kind /\ objects'.service = objects.service
<1>. DEFINE v == {[r EXCEPT !.to = CHOOSE s \in objects.service : TRUE] : r \in objects.route}
            o == [objects EXCEPT !.route = v]
            q == [o EXCEPT !.appConfigs = UrlsOf(objects.appConfigs)]
<1>1. pc = "updateRoute" /\ Become({IF objects.route = {} THEN objects ELSE q}, "secretEnvs")
  BY DEF UpdateRoute, UrlsOf
<1>2. ObjectsStep("updateRoute", "secretEnvs") /\ objects' = IF objects.route = {} THEN objects ELSE q
  <2>. HIDE DEF q
  <2>. QED BY <1>1, BecomesOne, BecomeParts
<1>3. v \subseteq RouteObject /\ (objects.route # {} => v # {})
  <2>1. (CHOOSE s \in objects.service : TRUE) \in STRING
    <3>1. "updateRoute" \in ServiceAdded
      BY SMT DEF ServiceAdded, ConfigsServed, FilesServed, DbUpdated, DbSetUpdated, DbEnvServed, PluginsServed
    <3>2. objects.service = {"backstage"}
      BY <1>1, <3>1 DEF ObjectsInv
    <3>. QED BY <3>2, Texts
  <2>. PICK to \in STRING : to = CHOOSE s \in objects.service : TRUE
    BY <2>1
  <2>2. \A r \in RouteObject : [r EXCEPT !.to = to] \in RouteObject
    BY RouteTo
  <2>. QED BY <2>2 DEF ObjectsInv
<1>. HIDE DEF v
<1>4. RouteBecomes(objects, o, v)
  BY FieldsKept DEF ObjectsInv
<1>. HIDE DEF o
<1>5. ConfigsBecome(o, q, UrlsOf(objects.appConfigs))
  <2>1. IsObjects(o)
    BY <1>4 DEF RouteBecomes
  <2>. QED BY <2>1, FieldsKept
<1>. HIDE DEF q
<1>. QED BY <1>2, <1>3, <1>4, <1>5 DEF RouteBecomes, ConfigsBecome, KeptDb, KeptRest

-----------------------------------------------------------------------------
(* Which steps change which objects                                         *)

SameFor(from, to) ==
  /\ from \in ConfigsAdded <=> to \in ConfigsAdded
  /\ from \in ServiceAdded <=> to \in ServiceAdded
  /\ from \in ConfigsServed <=> to \in ConfigsServed
  /\ from \in RouteUpdated <=> to \in RouteUpdated
SameForDb(from, to) ==
  /\ from \in DbServiceAdded <=> to \in DbServiceAdded
  /\ from \in DbAdded <=> to \in DbAdded
  /\ from \in DbUpdated <=> to \in DbUpdated
  /\ from \in DbSetUpdated <=> to \in DbSetUpdated

LEMMA StageMoves ==
  /\ \A to \in {"sources", "plugins"} : SameFor("sources", to) /\ SameForDb("sources", to)
  /\ SameFor("plugins", "route") /\ SameForDb("plugins", "route")
  /\ SameFor("configMapEnvs", "configMapFiles") /\ SameForDb("configMapEnvs", "configMapFiles")
  /\ SameFor("configMapFiles", "updateDbSecret") /\ SameForDb("configMapFiles", "updateDbSecret")
  /\ SameFor("updateDeployment", "dynamicPlugins") /\ SameForDb("updateDeployment", "dynamicPlugins")
  /\ SameFor("dynamicPlugins", "pvcs") /\ SameForDb("dynamicPlugins", "pvcs")
  /\ SameFor("pvcs", "updateRoute") /\ SameForDb("pvcs", "updateRoute")
  /\ SameFor("secretEnvs", "secretFiles") /\ SameForDb("secretEnvs", "secretFiles")
  /\ SameFor("secretFiles", "done") /\ SameForDb("secretFiles", "done")
  /\ SameFor("dbSecret", "dbService") /\ SameFor("dbService", "dbStatefulSet") /\ SameFor("dbStatefulSet", "deployment")
  /\ SameFor("updateDbSecret", "updateDbStatefulSet") /\ SameFor("updateDbStatefulSet", "updateDeployment")
  /\ SameFor("deployment", "sources") /\ SameForDb("deployment", "sources")
  /\ SameFor("route", "service") /\ SameForDb("route", "service")
  /\ SameForDb("service", "updateAppConfig") /\ SameForDb("updateAppConfig", "configMapEnvs")
  /\ SameForDb("updateRoute", "secretEnvs") /\ SameForDb("appConfig", "dbSecret")
<1>. USE DEF SameFor, SameForDb, SecretsServed, EnvsServed, RouteUpdated, PluginsServed, DbEnvServed, DbSetUpdated,
       DbUpdated, FilesServed, ConfigsServed, ServiceAdded, PluginsAdded, PodAdded, DbAdded, DbServiceAdded,
       DbSecretAdded, ConfigsAdded
<1>1. /\ \A to \in {"sources", "plugins"} : SameFor("sources", to) /\ SameForDb("sources", to)
      /\ SameFor("plugins", "route") /\ SameForDb("plugins", "route")
  BY SMT
<1>2. /\ SameFor("configMapEnvs", "configMapFiles") /\ SameForDb("configMapEnvs", "configMapFiles")
      /\ SameFor("configMapFiles", "updateDbSecret") /\ SameForDb("configMapFiles", "updateDbSecret")
  BY SMT
<1>3. /\ SameFor("updateDeployment", "dynamicPlugins") /\ SameForDb("updateDeployment", "dynamicPlugins")
      /\ SameFor("dynamicPlugins", "pvcs") /\ SameForDb("dynamicPlugins", "pvcs")
  BY SMT
<1>4. /\ SameFor("pvcs", "updateRoute") /\ SameForDb("pvcs", "updateRoute")
      /\ SameFor("secretEnvs", "secretFiles") /\ SameForDb("secretEnvs", "secretFiles")
  BY SMT
<1>5. /\ SameFor("secretFiles", "done") /\ SameForDb("secretFiles", "done")
      /\ SameFor("dbSecret", "dbService") /\ SameFor("dbService", "dbStatefulSet") /\ SameFor("dbStatefulSet", "deployment")
  BY SMT
<1>6. /\ SameFor("updateDbSecret", "updateDbStatefulSet") /\ SameFor("updateDbStatefulSet", "updateDeployment")
      /\ SameFor("deployment", "sources") /\ SameForDb("deployment", "sources")
  BY SMT
<1>7. /\ SameFor("route", "service") /\ SameForDb("route", "service")
      /\ SameForDb("service", "updateAppConfig") /\ SameForDb("updateAppConfig", "configMapEnvs")
  BY SMT
<1>8. /\ SameForDb("updateRoute", "secretEnvs") /\ SameForDb("appConfig", "dbSecret")
  BY SMT
<1>. HIDE DEF SameFor, SameForDb
<1>. QED BY <1>1, <1>2, <1>3, <1>4, <1>5, <1>6, <1>7, <1>8

LEMMA StageSets ==
  /\ ServiceAdded \subseteq ConfigsAdded /\ ConfigsServed \subseteq ConfigsAdded /\ RouteUpdated \subseteq ConfigsServed
  /\ DbServiceAdded \subseteq ConfigsAdded /\ DbAdded \subseteq DbServiceAdded /\ DbUpdated \subseteq DbAdded
  /\ DbSetUpdated \subseteq DbUpdated /\ {"appConfig", "failed"} \cap ConfigsAdded = {}
  /\ "dbSecret" \in ConfigsAdded \ ConfigsServed /\ "updateAppConfig" \in ServiceAdded \ ConfigsServed
  /\ "configMapEnvs" \in ConfigsServed \ RouteUpdated /\ "service" \in ConfigsAdded \ ServiceAdded
  /\ "sources" \notin ServiceAdded /\ ConfigsServed \subseteq ServiceAdded
  /\ "updateRoute" \in ServiceAdded \ RouteUpdated /\ "updateRoute" \in ConfigsServed
  /\ "secretEnvs" \in ServiceAdded \cap RouteUpdated
  /\ {"dbSecret", "dbService"} \cap DbServiceAdded = {} /\ "dbStatefulSet" \in DbServiceAdded \ DbAdded
  /\ "deployment" \in DbAdded \ DbUpdated /\ "updateDbSecret" \in DbAdded \ DbUpdated
  /\ "updateDbStatefulSet" \in DbUpdated \ DbSetUpdated /\ "updateDeployment" \in DbSetUpdated
BY SMT DEF SecretsServed, EnvsServed, RouteUpdated, PluginsServed, DbEnvServed, DbSetUpdated,
       DbUpdated, FilesServed, ConfigsServed, ServiceAdded, PluginsAdded, PodAdded, DbAdded, DbServiceAdded,
       DbSecretAdded, ConfigsAdded

\* The steps that leave the objects alone.
Steady ==
  /\ UNCHANGED <<in, objects>>
  /\ \/ pc' \notin ConfigsAdded
     \/ /\ SameFor(pc, pc') /\ SameForDb(pc, pc') /\ UNCHANGED flavours
        /\ SameModel \/ pc \notin ConfigsServed

LEMMA SteadySteps ==
  ASSUME ModelInv, Next
  PROVE  \/ Steady
         \/ /\ ~Fail
            /\ \/ AddAppConfig \/ AddDbSecret \/ AddDbService \/ AddDbStatefulSet \/ AddDeployment \/ AddRoute
               \/ AddService \/ ConfigsStep \/ UpdateDbSecret \/ UpdateDbStatefulSet \/ UpdateRoute
<1>1. "failed" \notin ConfigsAdded /\ "appConfig" \notin ConfigsAdded /\ {"sources", "plugins"} \cap ConfigsServed = {}
  BY Stages, StageSets, SMT
<1>2. Fail => Steady
  BY <1>1 DEF Fail, Steady
<1>3. EnableFlavours /\ ~Fail => Steady
  BY <1>1 DEF EnableFlavours, GoTo, Steady
<1>4. (MergeSource \/ SourcesMerged) /\ ~Fail => Steady
  BY <1>1, StageMoves DEF MergeSource, SourcesMerged, GoTo, Steady
<1>5. ASSUME AddDynamicPlugins, ~Fail PROVE Steady
  <2>1. pc = "plugins" /\ pc' = "route" /\ UNCHANGED <<in, flavours, objects>>
    BY <1>5, PluginsStep DEF ModelInv
  <2>. QED BY <1>1, <2>1, StageMoves DEF Steady
<1>6. AddsEnvs \/ MountsFiles \/ MountsClaims => Steady
  BY StageMoves DEF AddsEnvs, MountsFiles, MountsClaims, PodStep, Goes, SameModel, Steady
<1>7. PluginsMounted => Steady
  BY StageMoves DEF PluginsMounted, Goes, SameModel, Steady
<1>. QED BY <1>2, <1>3, <1>4, <1>5, <1>6, <1>7, PodSteps, ConfigsSteps, PluginsMountedStep DEF Next

\* What each of the other steps does to the objects.
KeptConfigs(o, q) == q.appConfigs = o.appConfigs
OnlyConfigs(from, to, v) ==
  /\ Goes(from, to) /\ SameModel /\ IsObjects(objects') /\ KeptDb(objects, objects') /\ KeptRest(objects, objects')
  /\ objects'.appConfigs = v
OnlyDb(from, to) ==
  /\ Goes(from, to) /\ SameModel /\ IsObjects(objects') /\ KeptRest(objects, objects')
  /\ KeptConfigs(objects, objects')
OnlyRest(from, to) ==
  /\ Goes(from, to) /\ SameModel /\ IsObjects(objects') /\ KeptDb(objects, objects')
  /\ KeptConfigs(objects, objects')

LEMMA DbMoves ==
  ASSUME ObjectsInv, ~Fail
  PROVE  /\ AddDbSecret =>
              /\ OnlyDb("dbSecret", "dbService") /\ DbSecretAs(objects'.dbSecret)
         /\ AddDbService =>
              /\ OnlyDb("dbService", "dbStatefulSet") /\ objects'.dbSecret = objects.dbSecret
              /\ objects'.dbService = IF IsLocal THEN {DbService} ELSE {}
         /\ AddDbStatefulSet =>
              /\ OnlyDb("dbStatefulSet", "deployment") /\ objects'.dbSecret = objects.dbSecret
              /\ objects'.dbService = objects.dbService /\ DbSetAs(objects'.dbStatefulSet)
         /\ UpdateDbSecret =>
              /\ OnlyDb("updateDbSecret", "updateDbStatefulSet") /\ objects'.dbService = objects.dbService
              /\ objects'.dbStatefulSet = objects.dbStatefulSet
              /\ objects'.dbSecret = IF objects.dbSecret = {} THEN {}
                                     ELSE {[host |-> s.name] : s \in objects.dbService}
              /\ objects.dbSecret # {} => objects.dbService # {}
         /\ UpdateDbStatefulSet =>
              /\ OnlyDb("updateDbStatefulSet", "updateDeployment") /\ objects'.dbSecret = objects.dbSecret
              /\ objects'.dbService = objects.dbService
              /\ objects'.dbStatefulSet # {} <=> objects.dbStatefulSet # {}
              /\ \A x \in objects'.dbStatefulSet : \E s \in objects.dbStatefulSet :
                   x = setDbSecretEnvVar(IF objects.dbService = {} THEN s
                         ELSE [s EXCEPT !.serviceName = (CHOOSE d \in objects.dbService : TRUE).name])
<1>0. IsObjects(objects)
  BY DEF ObjectsInv
<1>. USE <1>0 DEF OnlyDb, ObjectsStep, KeptConfigs
<1>1. ASSUME AddDbSecret
      PROVE  OnlyDb("dbSecret", "dbService") /\ DbSecretAs(objects'.dbSecret)
  <2>1. PICK v : DbSecretAs(v) /\ ObjectsStep("dbSecret", "dbService") /\ objects' = [objects EXCEPT !.dbSecret = v]
    BY <1>1, AddsDb
  <2>2. DbSecretBecomes(objects, objects', v)
    BY <2>1, FieldsKept
  <2>. QED BY <2>1, <2>2 DEF DbSecretBecomes
<1>2. ASSUME AddDbService
      PROVE  /\ OnlyDb("dbService", "dbStatefulSet") /\ objects'.dbSecret = objects.dbSecret
             /\ objects'.dbService = IF IsLocal THEN {DbService} ELSE {}
  <2>1. PICK v : v = IF IsLocal THEN {DbService} ELSE {}
    OBVIOUS
  <2>2. ObjectsStep("dbService", "dbStatefulSet") /\ objects' = [objects EXCEPT !["dbService"] = v]
    BY <1>2, <2>1, AddsDb
  <2>3. DbServiceBecomes(objects, objects', v)
    BY <2>2, FieldsKept
  <2>. QED BY <2>1, <2>2, <2>3 DEF DbServiceBecomes
<1>3. ASSUME AddDbStatefulSet
      PROVE  /\ OnlyDb("dbStatefulSet", "deployment") /\ objects'.dbSecret = objects.dbSecret
             /\ objects'.dbService = objects.dbService /\ DbSetAs(objects'.dbStatefulSet)
  <2>1. PICK v : /\ DbSetAs(v) /\ ObjectsStep("dbStatefulSet", "deployment")
                 /\ objects' = [objects EXCEPT !["dbStatefulSet"] = v]
    BY <1>3, AddsDb
  <2>2. DbSetBecomes(objects, objects', v)
    BY <2>1, FieldsKept
  <2>. QED BY <2>1, <2>2 DEF DbSetBecomes
<1>4. ASSUME UpdateDbSecret
      PROVE  /\ OnlyDb("updateDbSecret", "updateDbStatefulSet") /\ objects'.dbService = objects.dbService
             /\ objects'.dbStatefulSet = objects.dbStatefulSet
             /\ objects'.dbSecret = IF objects.dbSecret = {} THEN {}
                                    ELSE {[host |-> s.name] : s \in objects.dbService}
             /\ objects.dbSecret # {} => objects.dbService # {}
  <2>1. PICK v : v = IF objects.dbSecret = {} THEN {} ELSE {[host |-> s.name] : s \in objects.dbService}
    OBVIOUS
  <2>2. /\ ObjectsStep("updateDbSecret", "updateDbStatefulSet") /\ objects' = [objects EXCEPT !.dbSecret = v]
        /\ objects.dbSecret # {} => objects.dbService # {}
    BY <1>4, <2>1, UpdatesDb
  <2>3. DbSecretBecomes(objects, objects', v)
    BY <2>2, FieldsKept
  <2>. QED BY <2>1, <2>2, <2>3 DEF DbSecretBecomes
<1>5. ASSUME UpdateDbStatefulSet
      PROVE  /\ OnlyDb("updateDbStatefulSet", "updateDeployment") /\ objects'.dbSecret = objects.dbSecret
             /\ objects'.dbService = objects.dbService
             /\ objects'.dbStatefulSet # {} <=> objects.dbStatefulSet # {}
             /\ \A x \in objects'.dbStatefulSet : \E s \in objects.dbStatefulSet :
                  x = setDbSecretEnvVar(IF objects.dbService = {} THEN s
                        ELSE [s EXCEPT !.serviceName = (CHOOSE d \in objects.dbService : TRUE).name])
  <2>. DEFINE As(s) == setDbSecretEnvVar(IF objects.dbService = {} THEN s
                         ELSE [s EXCEPT !.serviceName = (CHOOSE d \in objects.dbService : TRUE).name])
  <2>1. PICK set : /\ ObjectsStep("updateDbStatefulSet", "updateDeployment")
                   /\ objects' = [objects EXCEPT !["dbStatefulSet"] = set]
                   /\ set # {} <=> objects.dbStatefulSet # {}
                   /\ \A x \in set : \E s \in objects.dbStatefulSet : x = As(s)
    BY <1>5, UpdatesDb
  <2>. HIDE DEF As
  <2>2. DbSetBecomes(objects, objects', set)
    BY <2>1, FieldsKept
  <2>. QED BY <2>1, <2>2 DEF As, DbSetBecomes
<1>. HIDE DEF OnlyDb, KeptConfigs, ObjectsStep
<1>. QED BY <1>1, <1>2, <1>3, <1>4, <1>5

LEMMA RestMoves ==
  ASSUME PodPromise, Begins, ModelInv, PodInv, AppConfigsInv, ObjectsInv, ~Fail
  PROVE  /\ AddAppConfig => OnlyConfigs("appConfig", "dbSecret", Chosen("appConfig"))
         /\ ConfigsStep => OnlyConfigs("updateAppConfig", "configMapEnvs", WithPlugins)
         /\ AddDeployment =>
              /\ OnlyRest("deployment", "sources") /\ objects'.kind \in Deployables
              /\ objects'.route = objects.route /\ objects'.service = objects.service
         /\ AddRoute =>
              /\ OnlyRest("route", "service") /\ objects'.route \subseteq RouteObject
              /\ objects'.kind = objects.kind /\ objects'.service = objects.service
         /\ AddService =>
              /\ OnlyRest("service", "updateAppConfig") /\ objects'.service = {"backstage"}
              /\ objects'.kind = objects.kind /\ objects'.route = objects.route
<1>0. IsObjects(objects)
  BY DEF ObjectsInv
<1>. USE <1>0 DEF ObjectsStep, KeptConfigs
<1>1. ASSUME AddAppConfig PROVE OnlyConfigs("appConfig", "dbSecret", Chosen("appConfig"))
  <2>1. ObjectsStep("appConfig", "dbSecret") /\ objects' = [objects EXCEPT !.appConfigs = Chosen("appConfig")]
    BY <1>1, OtherObjects
  <2>2. ConfigsBecome(objects, objects', Chosen("appConfig"))
    BY <2>1, FieldsKept
  <2>. QED BY <2>1, <2>2 DEF OnlyConfigs, ConfigsBecome
<1>2. ASSUME ConfigsStep PROVE OnlyConfigs("updateAppConfig", "configMapEnvs", WithPlugins)
  <2>1. objects' = [objects EXCEPT !.appConfigs = WithPlugins]
    BY <1>2, ConfigsServedBy
  <2>2. Goes("updateAppConfig", "configMapEnvs") /\ SameModel
    BY <1>2 DEF ConfigsStep
  <2>3. ConfigsBecome(objects, objects', WithPlugins)
    BY <2>1, FieldsKept
  <2>. QED BY <2>2, <2>3 DEF OnlyConfigs, ConfigsBecome
<1>3. ASSUME AddDeployment
      PROVE  /\ OnlyRest("deployment", "sources") /\ objects'.kind \in Deployables
             /\ objects'.route = objects.route /\ objects'.service = objects.service
  <2>1. PICK k \in Deployables : objects' = [objects EXCEPT !.kind = k]
    BY <1>3 DEF Begins
  <2>2. Goes("deployment", "sources") /\ SameModel
    BY <1>3 DEF Begins, Goes, SameModel
  <2>3. KindBecomes(objects, objects', k)
    BY <2>1, FieldsKept
  <2>. QED BY <2>2, <2>3 DEF OnlyRest, KindBecomes
<1>4. ASSUME AddRoute
      PROVE  /\ OnlyRest("route", "service") /\ objects'.route \subseteq RouteObject
             /\ objects'.kind = objects.kind /\ objects'.service = objects.service
  <2>1. ObjectsStep("route", "service") /\ \E v \in SUBSET RouteObject : objects' = [objects EXCEPT !.route = v]
    BY <1>4, AddsRoute
  <2>2. PICK v \in SUBSET RouteObject : RouteBecomes(objects, objects', v)
    BY <2>1, FieldsKept
  <2>. QED BY <2>1, <2>2 DEF OnlyRest, RouteBecomes
<1>5. ASSUME AddService
      PROVE  /\ OnlyRest("service", "updateAppConfig") /\ objects'.service = {"backstage"}
             /\ objects'.kind = objects.kind /\ objects'.route = objects.route
  <2>1. ObjectsStep("service", "updateAppConfig") /\ objects' = [objects EXCEPT !.service = {"backstage"}]
    BY <1>5, OtherObjects
  <2>2. ServiceBecomes(objects, objects', {"backstage"})
    BY <2>1, FieldsKept
  <2>. QED BY <2>1, <2>2 DEF OnlyRest, ServiceBecomes
<1>. HIDE DEF ObjectsStep
<1>. QED BY <1>1, <1>2, <1>3, <1>4, <1>5

-----------------------------------------------------------------------------
(* The objects                                                              *)

LEMMA ObjectsInvStep ==
  ASSUME PodPromise, Begins, ModelInv, PodInv, AppConfigsInv, ObjectsInv, Next
  PROVE  ObjectsInv'
<1>. CASE Steady
  BY StageSets DEF Steady, SameFor, ObjectsInv
<1>1. ASSUME IsObjects(objects'), KeptRest(objects, objects'), pc' \in ServiceAdded => pc \in ServiceAdded
      PROVE  ObjectsInv'
  BY <1>1 DEF KeptRest, ObjectsInv
<1>. CASE ~Fail /\ (AddAppConfig \/ ConfigsStep)
  <2>1. /\ \E v : OnlyConfigs("appConfig", "dbSecret", v) \/ OnlyConfigs("updateAppConfig", "configMapEnvs", v)
        /\ "dbSecret" \notin ServiceAdded /\ "updateAppConfig" \in ServiceAdded
    BY RestMoves, StageSets, StageMoves, SMT DEF SameFor
  <2>. QED BY <1>1, <2>1 DEF OnlyConfigs, Goes
<1>. CASE ~Fail /\ (AddDbSecret \/ AddDbService \/ AddDbStatefulSet \/ UpdateDbSecret \/ UpdateDbStatefulSet)
  <2>1. \E from, to : OnlyDb(from, to) /\ SameFor(from, to)
    BY DbMoves, StageMoves
  <2>. QED BY <1>1, <2>1 DEF OnlyDb, Goes, SameFor
<1>. CASE ~Fail /\ AddDeployment
  BY RestMoves, StageMoves DEF OnlyRest, Goes, SameFor, ObjectsInv
<1>. CASE ~Fail /\ AddRoute
  BY RestMoves, StageMoves DEF OnlyRest, Goes, SameFor, ObjectsInv
<1>. CASE ~Fail /\ AddService
  BY RestMoves DEF OnlyRest, ObjectsInv
<1>. CASE ~Fail /\ UpdateRoute
  <2>1. "updateRoute" \in ServiceAdded /\ pc = "updateRoute"
    BY UpdatesRoute, StageSets DEF ObjectsStep, Goes
  <2>. CASE objects.route = {}
    BY <1>1, <2>1, UpdatesRoute DEF KeptRest, ObjectsInv
  <2>. CASE objects.route # {}
    BY <2>1, UpdatesRoute DEF ObjectsInv
  <2>. QED OBVIOUS
<1>. QED BY SteadySteps

\* The URLs depend on the input, and on whether there is a Route.
LEMMA SameConfigs ==
  ASSUME SameModel
  PROVE  /\ Chosen("appConfig")' = Chosen("appConfig") /\ WithPlugins' = WithPlugins
         /\ (objects'.route = {} <=> objects.route = {}) => WithUrls' = WithUrls
<1>1. WithPlugins' = WithPlugins /\ in' = in
  BY SameAsked DEF SameModel
<1>2. Chosen("appConfig")' = Chosen("appConfig")
  BY SameChosen DEF SameModel
<1>3. (objects'.route = {} <=> objects.route = {}) => WithUrls' = WithUrls
  BY <1>1 DEF WithUrls
<1>. QED BY <1>1, <1>2, <1>3

LEMMA AppConfigsStep ==
  ASSUME PodPromise, Begins, ModelInv, PodInv, AppConfigsInv, ObjectsInv, Next
  PROVE  AppConfigsInv'
<1>1. ASSUME SameModel, SameFor(pc, pc'), KeptConfigs(objects, objects'),
             pc' \in RouteUpdated => objects'.route = objects.route
      PROVE  AppConfigsInv'
  BY <1>1, SameConfigs DEF SameFor, KeptConfigs, AppConfigsInv
<1>. CASE Steady
  <2>. CASE pc' \notin ConfigsAdded
    BY StageSets DEF AppConfigsInv
  <2>. CASE SameFor(pc, pc') /\ SameModel
    BY <1>1 DEF Steady, KeptConfigs
  <2>. CASE SameFor(pc, pc') /\ UNCHANGED <<in, flavours>> /\ pc \notin ConfigsServed
    BY StageSets, SameChosen DEF Steady, SameFor, AppConfigsInv
  <2>. QED BY DEF Steady
<1>. CASE ~Fail /\ AddAppConfig
  <2>1. pc' = "dbSecret" /\ objects'.appConfigs = Chosen("appConfig") /\ SameModel
    BY RestMoves DEF OnlyConfigs, Goes
  <2>. QED BY <2>1, SameConfigs, StageSets DEF AppConfigsInv
<1>. CASE ~Fail /\ ConfigsStep
  <2>1. pc' = "configMapEnvs" /\ objects'.appConfigs = WithPlugins /\ SameModel
    BY RestMoves DEF OnlyConfigs, Goes
  <2>. QED BY <2>1, SameConfigs, StageSets DEF AppConfigsInv
<1>. CASE ~Fail /\ (AddDbSecret \/ AddDbService \/ AddDbStatefulSet \/ UpdateDbSecret \/ UpdateDbStatefulSet)
  <2>1. \E from, to : OnlyDb(from, to) /\ SameFor(from, to)
    BY DbMoves, StageMoves
  <2>. QED BY <1>1, <2>1 DEF OnlyDb, Goes, KeptRest
<1>. CASE ~Fail /\ (AddDeployment \/ AddRoute)
  <2>1. \E from, to : OnlyRest(from, to) /\ SameFor(from, to) /\ to \in {"sources", "service"}
    BY RestMoves, StageMoves
  <2>2. "sources" \notin RouteUpdated /\ "service" \notin RouteUpdated
    BY StageSets
  <2>. QED BY <1>1, <2>1, <2>2 DEF OnlyRest, Goes
<1>. CASE ~Fail /\ AddService
  <2>1. OnlyRest("service", "updateAppConfig")
    BY RestMoves
  <2>2. /\ "service" \in ConfigsAdded \ ConfigsServed /\ "updateAppConfig" \in ConfigsAdded \ ConfigsServed
        /\ "updateAppConfig" \notin RouteUpdated
    BY StageSets
  <2>. QED BY <2>1, <2>2, SameConfigs DEF OnlyRest, Goes, KeptConfigs, AppConfigsInv
<1>. CASE ~Fail /\ UpdateRoute
  <2>1. pc = "updateRoute" /\ pc' = "secretEnvs" /\ SameModel
    BY UpdatesRoute DEF ObjectsStep, Goes
  <2>2. objects.appConfigs = WithPlugins /\ "secretEnvs" \in RouteUpdated /\ "secretEnvs" \in ConfigsServed
    BY <2>1, StageSets DEF AppConfigsInv
  <2>3. objects'.appConfigs = WithUrls'
    <3>1. WithPlugins' = WithPlugins /\ in' = in
      BY <2>1, SameConfigs DEF SameModel
    <3>. CASE objects.route = {}
      BY <2>2, <3>1, UpdatesRoute DEF WithUrls
    <3>. CASE objects.route # {}
      BY <2>2, <3>1, UpdatesRoute DEF WithUrls, UrlsOf
    <3>. QED OBVIOUS
  <2>. QED BY <2>1, <2>2, <2>3 DEF AppConfigsInv
<1>. QED BY SteadySteps

-----------------------------------------------------------------------------
(* The database                                                             *)

LEMMA SameSecret ==
  ASSUME in' = in
  PROVE  /\ (IsLocal' <=> IsLocal) /\ LocalService' = LocalService
         /\ (objects'.dbSecret = {} <=> objects.dbSecret = {}) => DbSecretName' = DbSecretName
<1>1. IsLocal' <=> IsLocal
  BY DEF IsLocal
<1>2. LocalService' = LocalService
  BY <1>1 DEF LocalService
<1>3. (objects'.dbSecret = {} <=> objects.dbSecret = {}) => DbSecretName' = DbSecretName
  <2>. CASE IsAuthSecretSpecified(in.spec)
    <3>1. PICK ds : ds = in.spec.database /\ ds = in'.spec.database
      OBVIOUS
    <3>2. DbSecretName' = <<(CHOOSE d \in ds : TRUE).authSecretName>>
      <4>1. IsAuthSecretSpecified(in'.spec)
        OBVIOUS
      <4>2. DbSecretName' = <<(CHOOSE d \in in'.spec.database : TRUE).authSecretName>>
        BY <4>1 DEF DbSecretName
      <4>. QED BY <3>1, <4>2
    <3>3. DbSecretName = <<(CHOOSE d \in ds : TRUE).authSecretName>>
      BY <3>1 DEF DbSecretName
    <3>. QED BY <3>2, <3>3
  <2>. CASE ~IsAuthSecretSpecified(in.spec)
    BY DEF DbSecretName
  <2>. QED OBVIOUS
<1>. QED BY <1>1, <1>2, <1>3

\* The StatefulSet that is pointed at the Service and gets the Secrets.
LEMMA SetPointed ==
  ASSUME NEW s, IsDbSet(s), s.secrets = <<>>, in \in Inputs, NEW name
  PROVE  /\ setDbSecretEnvVar([s EXCEPT !.serviceName = name]).secrets = DbSecretName
         /\ setDbSecretEnvVar([s EXCEPT !.serviceName = name]).serviceName = name
<1>1. PICK names : names = DbSecretName /\ names \in Seq(STRING)
  BY DbSecretType
<1>2. PICK y : y = [s EXCEPT !.serviceName = name]
  OBVIOUS
<1>3. y.secrets = <<>> /\ y.serviceName = name /\ IsDbSet(y)
  BY <1>2, SMT DEF IsDbSet
<1>4. PICK x : x = [y EXCEPT !.secrets = @ \o names]
  OBVIOUS
<1>5. x.secrets = <<>> \o names /\ x.serviceName = name
  BY <1>3, <1>4, SMT DEF IsDbSet
<1>6. <<>> \o names = names
  BY <1>1, ConcatEmptySeq
<1>. QED BY <1>1, <1>2, <1>4, <1>5, <1>6 DEF setDbSecretEnvVar

LEMMA DbInvStep ==
  ASSUME PodPromise, Begins, ModelInv, PodInv, AppConfigsInv, ObjectsInv, DbInv, Next
  PROVE  DbInv'
<1>1. ASSUME in' = in, SameForDb(pc, pc'), KeptDb(objects, objects')
      PROVE  DbInv'
  <2>1. (IsLocal' <=> IsLocal) /\ LocalService' = LocalService /\ DbSecretName' = DbSecretName
    BY <1>1, SameSecret DEF KeptDb
  <2>. QED BY <1>1, <2>1 DEF SameForDb, KeptDb, DbInv
<1>. CASE Steady
  <2>. CASE pc' \notin ConfigsAdded
    BY StageSets, SameSecret DEF Steady, DbInv
  <2>. CASE SameForDb(pc, pc')
    BY <1>1 DEF Steady, KeptDb
  <2>. QED BY DEF Steady
<1>. CASE ~Fail /\ (AddAppConfig \/ ConfigsStep)
  <2>1. \E from, to, v : OnlyConfigs(from, to, v) /\ SameForDb(from, to)
    BY RestMoves, StageMoves
  <2>. QED BY <1>1, <2>1 DEF OnlyConfigs, Goes, SameModel
<1>. CASE ~Fail /\ (AddDeployment \/ AddRoute \/ AddService)
  <2>1. \E from, to : OnlyRest(from, to) /\ SameForDb(from, to)
    BY RestMoves, StageMoves
  <2>. QED BY <1>1, <2>1 DEF OnlyRest, Goes, SameModel
<1>. CASE ~Fail /\ UpdateRoute
  <2>1. Goes("updateRoute", "secretEnvs") /\ SameModel /\ KeptDb(objects, objects')
    BY UpdatesRoute DEF ObjectsStep, KeptDb
  <2>. QED BY <1>1, <2>1, StageMoves DEF Goes, SameModel
<1>. CASE ~Fail /\ AddDbSecret
  <2>1. pc' = "dbService" /\ in' = in /\ DbSecretAs(objects'.dbSecret)
    BY DbMoves DEF OnlyDb, Goes, SameModel
  <2>. QED BY <2>1, SameSecret, StageSets DEF DbSecretAs, DbInv
<1>. CASE ~Fail /\ AddDbService
  <2>1. /\ pc' = "dbStatefulSet" /\ in' = in /\ objects'.dbSecret = objects.dbSecret
        /\ objects'.dbService = LocalService
    BY DbMoves DEF OnlyDb, Goes, SameModel, LocalService
  <2>2. pc' \notin DbAdded /\ pc' \notin DbUpdated /\ pc' \notin DbSetUpdated
    BY <2>1, StageSets
  <2>. QED BY <2>1, <2>2, SameSecret DEF DbInv
<1>. CASE ~Fail /\ AddDbStatefulSet
  <2>1. /\ pc = "dbStatefulSet" /\ pc' = "deployment" /\ in' = in /\ objects'.dbSecret = objects.dbSecret
        /\ objects'.dbService = objects.dbService /\ DbSetAs(objects'.dbStatefulSet)
    BY DbMoves DEF OnlyDb, Goes, SameModel
  <2>2. pc \in DbServiceAdded /\ pc' \notin DbUpdated /\ pc' \notin DbSetUpdated
    BY <2>1, StageSets
  <2>. QED BY <2>1, <2>2, SameSecret DEF DbSetAs, DbInv
<1>. CASE ~Fail /\ UpdateDbSecret
  <2>1. /\ pc = "updateDbSecret" /\ pc' = "updateDbStatefulSet" /\ in' = in
        /\ objects'.dbService = objects.dbService /\ objects'.dbStatefulSet = objects.dbStatefulSet
        /\ objects'.dbSecret = IF objects.dbSecret = {} THEN {} ELSE {[host |-> s.name] : s \in objects.dbService}
    BY DbMoves DEF OnlyDb, Goes, SameModel
  <2>2. /\ pc \in DbServiceAdded /\ pc \in DbAdded /\ pc \notin DbSetUpdated /\ pc' \notin DbSetUpdated
    BY <2>1, StageSets
  <2>3. objects.dbService = LocalService
    BY <2>2 DEF DbInv
  <2>4. \A x \in objects'.dbSecret : x.host = DbService.name
    <3>1. \A s : [host |-> s.name].host = s.name
      OBVIOUS
    <3>2. \A x \in objects'.dbSecret : \E s \in objects.dbService : x = [host |-> s.name]
      BY <2>1
    <3>. QED BY <2>3, <3>1, <3>2 DEF LocalService
  <2>. QED BY <2>1, <2>2, <2>4, SameSecret DEF DbInv
<1>. CASE ~Fail /\ UpdateDbStatefulSet
  <2>. DEFINE As(s) == setDbSecretEnvVar(IF objects.dbService = {} THEN s
                         ELSE [s EXCEPT !.serviceName = (CHOOSE d \in objects.dbService : TRUE).name])
  <2>1. /\ pc = "updateDbStatefulSet" /\ pc' = "updateDeployment" /\ in' = in /\ objects'.dbSecret = objects.dbSecret
        /\ objects'.dbService = objects.dbService
        /\ objects'.dbStatefulSet # {} <=> objects.dbStatefulSet # {}
        /\ \A x \in objects'.dbStatefulSet : \E s \in objects.dbStatefulSet : x = As(s)
    BY DbMoves DEF OnlyDb, Goes, SameModel
  <2>2. pc \in DbServiceAdded /\ pc \in DbAdded /\ pc \in DbUpdated /\ pc \notin DbSetUpdated
    BY <2>1, StageSets
  <2>3. /\ objects.dbService = LocalService
        /\ objects.dbStatefulSet # {} <=> IsLocal
        /\ \A s \in objects.dbStatefulSet : s.secrets = <<>> /\ IsDbSet(s)
    BY <2>2 DEF DbInv
  <2>4. ASSUME NEW s \in objects.dbStatefulSet
        PROVE  As(s).secrets = DbSecretName /\ As(s).serviceName = DbService.name
    <3>1. objects.dbService = {DbService}
      BY <2>3 DEF LocalService
    <3>2. As(s) = setDbSecretEnvVar([s EXCEPT !.serviceName = DbService.name])
      BY <3>1
    <3>. HIDE DEF As
    <3>3. /\ setDbSecretEnvVar([s EXCEPT !.serviceName = DbService.name]).secrets = DbSecretName
          /\ setDbSecretEnvVar([s EXCEPT !.serviceName = DbService.name]).serviceName = DbService.name
      BY <2>3, SetPointed DEF ModelInv
    <3>. QED BY <3>2, <3>3
  <2>. HIDE DEF As
  <2>5. \A x \in objects'.dbStatefulSet : x.secrets = DbSecretName /\ x.serviceName = DbService.name
    BY <2>1, <2>4
  <2>6. pc' \in DbSetUpdated /\ (IsLocal' <=> IsLocal) /\ LocalService' = LocalService /\ DbSecretName' = DbSecretName
    BY <2>1, SameSecret, StageSets
  <2>. QED BY <2>1, <2>2, <2>5, <2>6 DEF DbInv
<1>. QED BY SteadySteps

-----------------------------------------------------------------------------
(* The Secrets that Backstage uses                                          *)

LEMMA DbEnvStages ==
  /\ DbEnvServed \subseteq ConfigsServed /\ ConfigsServed \subseteq PodAdded /\ "failed" \notin DbEnvServed
  /\ \A at \in {"dbSecret", "dbService", "dbStatefulSet", "deployment", "sources", "service", "updateAppConfig",
                "configMapEnvs", "configMapFiles", "updateDbStatefulSet", "updateDeployment"} : at \notin DbEnvServed
  /\ \A at \in {"sources", "configMapEnvs", "configMapFiles", "updateDeployment", "dynamicPlugins", "secretEnvs",
                "secretFiles"} : at \in PodAdded
  /\ "dynamicPlugins" \in DbEnvServed /\ "secretEnvs" \in DbEnvServed /\ "secretFiles" \in DbEnvServed
BY SMT DEF SecretsServed, EnvsServed, RouteUpdated, PluginsServed, DbEnvServed, DbSetUpdated, DbUpdated,
       FilesServed, ConfigsServed, ServiceAdded, PluginsAdded, PodAdded

\* The generated Secret stays in the model once Backstage uses it.
LEMMA SecretKept ==
  ASSUME PodPromise, Begins, ModelInv, PodInv, AppConfigsInv, ObjectsInv, Next, pc' \in DbEnvServed
  PROVE  objects'.dbSecret = objects.dbSecret
<1>. CASE Steady
  BY DEF Steady
<1>. CASE ~Fail /\ UpdateRoute
  BY UpdatesRoute DEF KeptDb
<1>. CASE ~Fail /\ (AddAppConfig \/ ConfigsStep)
  BY RestMoves, DbEnvStages DEF OnlyConfigs, Goes
<1>. CASE ~Fail /\ (AddDbSecret \/ AddDbService \/ AddDbStatefulSet \/ UpdateDbSecret \/ UpdateDbStatefulSet)
  BY DbMoves, DbEnvStages DEF OnlyDb, Goes
<1>. CASE ~Fail /\ (AddDeployment \/ AddRoute \/ AddService)
  BY RestMoves, DbEnvStages DEF OnlyRest, Goes
<1>. QED BY SteadySteps

LEMMA MovesKeepSecrets ==
  ASSUME AddsObjects \/ UpdatesObjects \/ MountsClaims \/ ConfigsStep \/ MountsFiles \/ PluginsMounted
  PROVE  Same(PodAdded) /\ Same(DbEnvServed) /\ SameModel
<1>. USE DEF SecretsServed, EnvsServed, RouteUpdated, PluginsServed, DbEnvServed, DbSetUpdated, DbUpdated,
             FilesServed, ConfigsServed, ServiceAdded, PluginsAdded, PodAdded, Same, Goes
<1>. CASE AddsObjects
  BY SMT DEF AddsObjects, ObjectsStep
<1>. CASE UpdatesObjects
  BY SMT DEF UpdatesObjects, ObjectsStep
<1>. CASE MountsClaims
  BY SMT DEF MountsClaims, PodStep
<1>. CASE ConfigsStep
  BY SMT DEF ConfigsStep
<1>. CASE MountsFiles
  BY SMT DEF MountsFiles, PodStep
<1>. CASE PluginsMounted
  BY SMT DEF PluginsMounted
<1>. QED BY SMT

LEMMA UsedAre == SecretsUsed = SecretsOf(pod) /\ SecretsUsed' = SecretsOf(pod')
BY DEF SecretsUsed, SecretsOf

LEMMA NamesKept ==
  ASSUME in' = in, flavours' = flavours, objects'.dbSecret = objects.dbSecret
  PROVE  /\ ToSet(DbSecretName)' = ToSet(DbSecretName)
         /\ {r.name : r \in ToSet(SecretEnvRequests)}' = {r.name : r \in ToSet(SecretEnvRequests)}
<1>1. DbSecretName' = DbSecretName
  BY SameSecret
<1>2. SecretEnvRequests' = SecretEnvRequests
  BY SameChosen DEF SecretEnvRequests
<1>. QED BY <1>1, <1>2

LEMMA SecretsStay ==
  ASSUME PodPromise, Begins, ModelInv, PodInv, AppConfigsInv, ObjectsInv, SecretsInv, Next,
         pod'.envFrom = pod.envFrom, Same(PodAdded), Same(DbEnvServed), UNCHANGED <<in, flavours>>
  PROVE  SecretsInv'
<1>1. SecretsUsed' = SecretsUsed
  BY DEF SecretsUsed
<1>2. pc' \in DbEnvServed => objects'.dbSecret = objects.dbSecret
  BY SecretKept
<1>. QED BY <1>1, <1>2, NamesKept DEF SecretsInv, Same

LEMMA DbEnvsAdded ==
  ASSUME PodPromise, ModelInv, PodInv, SecretsOf(pod) = {}, pc \in PodAdded, pod' \in All(addEnvVarsFrom, pod, DbRequests)
  PROVE  SecretsOf(pod') = ToSet(DbSecretName)
<1>. PICK rs, names : rs = DbRequests /\ names = DbSecretName
  OBVIOUS
<1>1. rs \in Seq(EnvRequest) /\ AllDb(rs, names) /\ names \in Seq(STRING)
  BY DbRequestsType, DbSecretType DEF ModelInv
<1>2. SecretsAdded(pod, pod', rs) /\ WholeSecrets(pod', rs)
  BY <1>1, EnvsAdded
<1>3. /\ DOMAIN rs = 1 .. Len(rs) /\ DOMAIN names = 1 .. Len(rs)
      /\ \A n \in 1 .. Len(rs) : rs[n].name = names[n]
  <2>1. DOMAIN rs = 1 .. Len(rs) /\ DOMAIN names = 1 .. Len(names)
    BY <1>1, LenProperties
  <2>. QED BY <1>1, <2>1 DEF AllDb
<1>4. ASSUME NEW x \in ToSet(names) PROVE x \in SecretsOf(pod')
  <2>1. PICK n \in 1 .. Len(rs) : x = names[n]
    BY <1>3, <1>4 DEF ToSet
  <2>. QED BY <1>1, <1>2, <2>1 DEF AllDb, WholeSecrets
<1>5. ASSUME NEW x \in SecretsOf(pod') PROVE x \in ToSet(names)
  <2>1. PICK r \in ToSet(rs) : x = r.name
    BY <1>2, <1>5 DEF SecretsAdded
  <2>2. PICK n \in 1 .. Len(rs) : r = rs[n]
    BY <1>3, <2>1 DEF ToSet
  <2>. QED BY <1>3, <2>1, <2>2 DEF ToSet
<1>. QED BY <1>4, <1>5

LEMMA EnvsStep ==
  ASSUME PodPromise, Begins, ModelInv, PodInv, AppConfigsInv, ObjectsInv, SecretsInv, Next, AddsEnvs
  PROVE  SecretsInv'
<1>1. SameModel /\ UNCHANGED objects
  BY DEF AddsEnvs, PodStep
<1>2. /\ ToSet(DbSecretName)' = ToSet(DbSecretName)
      /\ {r.name : r \in ToSet(SecretEnvRequests)}' = {r.name : r \in ToSet(SecretEnvRequests)}
  BY <1>1, NamesKept DEF SameModel
<1>3. /\ ConfigMapEnvRequests \in Seq(EnvRequest) /\ SecretEnvRequests \in Seq(EnvRequest)
      /\ AllOfKind("cm", ConfigMapEnvRequests)
  BY RequestTypes DEF ModelInv
<1>4. CASE PodStep("configMapEnvs", "configMapFiles", All(addEnvVarsFrom, pod, ConfigMapEnvRequests))
  <2>1. /\ pc \in PodAdded /\ pc' \in PodAdded /\ pc \notin DbEnvServed /\ pc' \notin DbEnvServed
        /\ pod' \in All(addEnvVarsFrom, pod, ConfigMapEnvRequests)
    BY <1>4, DbEnvStages DEF PodStep, Goes
  <2>2. SecretsAdded(pod, pod', ConfigMapEnvRequests)
    BY <1>3, <2>1, EnvsAdded
  <2>3. {x \in ToSet(ConfigMapEnvRequests) : x.kind = "secret"} = {}
    BY <1>3 DEF AllOfKind
  <2>4. SecretsOf(pod') \subseteq SecretsOf(pod)
    BY <2>2, <2>3 DEF SecretsAdded
  <2>. QED BY <2>1, <2>4, UsedAre DEF SecretsInv
<1>5. CASE PodStep("updateDeployment", "dynamicPlugins", All(addEnvVarsFrom, pod, DbRequests))
  <2>1. /\ pc \in PodAdded /\ pc \notin DbEnvServed /\ pc' \in DbEnvServed
        /\ pod' \in All(addEnvVarsFrom, pod, DbRequests)
    BY <1>5, DbEnvStages DEF PodStep, Goes
  <2>2. SecretsOf(pod') = ToSet(DbSecretName)
    BY <2>1, DbEnvsAdded, UsedAre DEF SecretsInv
  <2>. QED BY <1>2, <2>1, <2>2, UsedAre DEF SecretsInv
<1>6. CASE PodStep("secretEnvs", "secretFiles", All(addEnvVarsFrom, pod, SecretEnvRequests))
  <2>1. /\ pc \in PodAdded /\ pc \in DbEnvServed /\ pc' \in DbEnvServed
        /\ pod' \in All(addEnvVarsFrom, pod, SecretEnvRequests)
    BY <1>6, DbEnvStages DEF PodStep, Goes
  <2>2. SecretsAdded(pod, pod', SecretEnvRequests)
    BY <1>3, <2>1, EnvsAdded
  <2>3. /\ SecretsOf(pod) \subseteq SecretsOf(pod')
        /\ SecretsOf(pod') \subseteq SecretsOf(pod) \cup {r.name : r \in ToSet(SecretEnvRequests)}
    BY <2>2 DEF SecretsAdded
  <2>. QED BY <1>2, <2>1, <2>3, UsedAre DEF SecretsInv
<1>. QED BY <1>4, <1>5, <1>6 DEF AddsEnvs

LEMMA SecretsInvStep ==
  ASSUME PodPromise, Begins, ModelInv, PodInv, AppConfigsInv, ObjectsInv, SecretsInv, Next
  PROVE  SecretsInv'
<1>. CASE AddsEnvs
  BY EnvsStep
<1>. CASE ~Fail /\ AddDeployment
  <2>1. pc' = "sources" /\ \E C : Main \in C /\ Untouched(C, pod')
    BY DEF Begins, StartsWith
  <2>2. SecretsUsed' = {}
    BY <2>1, UntouchedPod, UsedAre
  <2>. QED BY <2>1, <2>2, DbEnvStages DEF SecretsInv
<1>. CASE AddsObjects \/ UpdatesObjects \/ MountsClaims \/ ConfigsStep \/ MountsFiles \/ PluginsMounted
  <2>1. Same(PodAdded) /\ Same(DbEnvServed) /\ UNCHANGED <<in, flavours>>
    BY MovesKeepSecrets DEF SameModel
  <2>2. pod'.envFrom = pod.envFrom
    <3>. CASE AddsObjects \/ UpdatesObjects
      BY DEF AddsObjects, UpdatesObjects, ObjectsStep
    <3>. CASE MountsClaims
      BY ClaimsAdded DEF ClaimsDone
    <3>. CASE ConfigsStep
      BY ConfigsServedBy DEF ServedBy
    <3>. CASE MountsFiles
      BY FilesKeep DEF ServedBy
    <3>. CASE PluginsMounted
      BY PluginsServedBy DEF ServedBy
    <3>. QED OBVIOUS
  <2>. QED BY <2>1, <2>2, SecretsStay
<1>. CASE pc' \notin PodAdded
  BY DbEnvStages DEF SecretsInv
<1>. CASE NothingServed(pc) /\ NothingServed(pc') /\ UNCHANGED pod
  BY UsedAre, DbEnvStages DEF NothingServed, SecretsInv
<1>. CASE Fail
  BY Stages, DbEnvStages DEF Fail, SecretsInv
<1>. CASE ~Fail /\ (EnableFlavours \/ MergeSource \/ AddDynamicPlugins)
  <2>1. /\ "appConfig" \notin PodAdded
        /\ NothingServed("sources") /\ NothingServed("plugins") /\ NothingServed("route")
    BY Stages, SMT DEF NothingServed
  <2>. CASE EnableFlavours
    BY <2>1 DEF EnableFlavours, GoTo
  <2>. CASE MergeSource
    BY <2>1 DEF MergeSource
  <2>. CASE AddDynamicPlugins
    BY <2>1, PluginsStep DEF ModelInv
  <2>. QED OBVIOUS
<1>. QED BY StepKinds
=============================================================================
