----------------------------- MODULE AppConfigs -----------------------------
(***************************************************************************)
(* App-configs as sets of settings, the leaves of their YAML documents, no *)
(* two of which have comparable paths; and the Route whose address is set  *)
(* in them.  An address is a sequence of its parts, <<>> when unknown.     *)
(***************************************************************************)
EXTENDS BackstageTypes, SequencesExt

Comparable(p, q) == IsPrefix(p, q) \/ IsPrefix(q, p)

\* Mutant: what is there already stays.
MergedUnder(dst, src) ==
  dst \cup {p \in src : \A q \in dst : ~Comparable(p.path, q.path)}

\* Maps are merged, any other value gives way to the value of src.
mergePluginConfigs(dst, src) ==
  {q \in dst : \A p \in src : ~Comparable(p.path, q.path)} \cup src

-----------------------------------------------------------------------------
(* The Route: [host, subdomain : STRING, tls : {} or {TLS}, to : STRING]    *)

OrElse(text, default) == IF text # "" THEN text ELSE default

NoRoute == [host |-> "", subdomain |-> "", tls |-> {}, to |-> ""]

\* Each field of the spec that is given overrides that of the default Route.
setRoute(route, specified) ==
  LET Over(old) == [f \in DOMAIN old |-> LET new == CHOOSE t \in specified.tls : TRUE
                                         IN  OrElse(new[f], old[f])]
  IN  [route EXCEPT !.host = OrElse(specified.host, @),
                    !.subdomain = OrElse(specified.subdomain, @),
                    !.tls = IF specified.tls = {} THEN @
                            ELSE IF @ = {} THEN specified.tls ELSE {Over(old) : old \in @}]

\* Mutant: the subdomain takes precedence over the host.
SubdomainFirst(specified, domain) ==
  LET given == {r \in specified : r.host # "" \/ r.subdomain # ""}
      r == CHOOSE x \in given : TRUE
  IN  IF given # {} /\ r.subdomain = "" THEN <<r.host>>
      ELSE IF domain = "" THEN <<>>
      ELSE <<IF given # {} THEN r.subdomain ELSE "name-namespace", domain>>

\* From the Route of the spec, whatever the default Route says.
buildBaseUrl(specified, domain) ==
  LET given == {r \in specified : r.host # "" \/ r.subdomain # ""}
      r == CHOOSE x \in given : TRUE
  IN  IF given # {} /\ r.host # "" THEN <<r.host>>
      ELSE IF domain = "" THEN <<>>
      ELSE <<IF given # {} THEN r.subdomain ELSE "name-namespace", domain>>

BaseUrlPaths == {<<"app", "baseUrl">>, <<"backend", "baseUrl">>, <<"backend", "cors", "origin">>}

\* In the first app-config, unless it cannot be decoded or has no entry.
updateAppConfigWithBaseUrls(items, url) ==
  LET urls == {[path |-> p, value |-> url] : p \in BaseUrlPaths}
  IN  IF items = <<>> \/ Head(items).keys = <<>> THEN items
      ELSE [items EXCEPT ![1].settings = {mergePluginConfigs(s, urls) : s \in @}]

\* Where OpenShift serves a Route: at its host, or else in the ingress domain.
RouteAddress(route, domain) ==
  IF route.host # "" THEN <<route.host>>
  ELSE <<OrElse(route.subdomain, "name-namespace"), domain>>
=============================================================================
