--------------------------- MODULE RequestRouting ---------------------------
(***************************************************************************)
(* The filter chain: how a request finds the backend that answers it.      *)
(*                                                                         *)
(* Every filter looks at the path of the request, which filters before it  *)
(* may have rewritten, and answers the request, sends it to a backend, or  *)
(* hands it to the next filter.  Backends in a member cluster are reached  *)
(* through the Karmada API server, when the host cluster has one.          *)
(*                                                                         *)
(* A path is the sequence of the parts between its slashes: a rooted one   *)
(* begins with the empty part, one that ends in a slash ends in it.        *)
(* Nothing before the filters cleans a path: parts may be empty anywhere,  *)
(* or ".", or "..".  The filters keep no state: requests are served one    *)
(* after the other.                                                        *)
(***************************************************************************)
EXTENDS FiniteSetsExt, Sequences

CONSTANTS
    Paths,          \* the paths that are asked for
    Behind,         \* of each pair <<x, y>> of a part x that begins with the
                    \* shorter y, which ends a prefix: what is behind y in x
    PluginPrefixes, \* the proxy paths of the services that plugins describe;
                    \* the empty path if a plugin describes none
    HostSets,       \* which components the configuration may have hosts of
    Local,          \* the cluster the service runs in
    NoCluster,      \* no cluster
    Faults          \* what may happen: a call of the Kubernetes API fails
                    \* ("api"), Karmada is installed or removed ("karmada")

\* What is before the first slash of a rooted path, behind a closing one, and
\* between two that follow each other.
Blank == ""

\* What path.Join resolves.
Dots == {".", ".."}

\* Each of these begins a path and ends a prefix.
Names == {"favicon", "rest", "ws", "password", "proxy"}

ASSUME PathsAssumption ==
    \A q \in Paths \union PluginPrefixes : q \in Seq(STRING) /\ q # <<>>

\* path.Join has cleaned the path of a plugin's service.
ASSUME PrefixAssumption ==
    \A q \in PluginPrefixes : q[1] = Blank /\ \A i \in DOMAIN q : q[i] \notin Dots

ASSUME StringAssumption ==
    Blank \in STRING /\ {Local, NoCluster} \cap STRING = {}

\* So it is with strings: neither a name nor "clusters", "api" or "apis" begins
\* with a name that it is not, and no string begins with two of the names.
ASSUME BehindAssumption ==
    /\ \A pair \in DOMAIN Behind : Behind[pair] \in STRING
    /\ \A pair \in DOMAIN Behind :
          pair[2] \in Names =>
             /\ pair[1] \notin Names \union {"clusters", "api", "apis", Blank}
             /\ \A other \in DOMAIN Behind :
                   other[1] = pair[1] /\ other[2] \in Names => other[2] = pair[2]

VARIABLES
    at,          \* the filter that has the request
    asked,       \* history: the path the request arrived with
    path,        \* req.URL.Path
    token,       \* where its bearer token is from
    cluster,     \* requestInfo.ClusterName
    proxied,     \* requestInfo.ClusterProxyHost is set
    isK8s,       \* requestInfo.IsK8sRequest
    descriptor,  \* history: the cluster whose ConsolePlugin was asked for
    dest,        \* who answers: [to, cluster, path]
    karmada,     \* the host cluster has a Karmada API server
    hosted       \* the components of whose Service the configuration has a host

info == <<cluster, proxied, isK8s>>
vars == <<at, asked, path, token, info, descriptor, dest, karmada, hosted>>

Clusters == STRING \union {Local, NoCluster}
Services == {"user", "application-management", "plugin-management",
             "marketplace", "alert", "monitoring", "webterminal"}
Components == Services \union {"oauth"}

ASSUME HostsAssumption == HostSets \subseteq SUBSET Components

Backends == Services \union {"apiserver", "oauth", "plugin", "website"}
Answers  == {"none", "console", "login", "wsLogout", "error", "badRequest",
             "notFound", "dummyClusters", "dropped"}
Stage    == {"idle", "auth", "console", "info", "apiserver", "component",
             "plugin", "descriptor", "done"}

\* Type invariant.
TypeOK ==
    /\ at \in Stage
    /\ asked \in Paths \union {<<>>}
    /\ path \in Seq(STRING)
    /\ token \in {"none", "header", "cookie"}
    /\ cluster \in Clusters
    /\ proxied \in BOOLEAN
    /\ isK8s \in BOOLEAN
    /\ descriptor \in Clusters
    /\ dest.to \in Backends \union Answers
    /\ dest.cluster \in Clusters
    /\ karmada \in BOOLEAN
    /\ hosted \subseteq Components

Nowhere == [to |-> "none", cluster |-> NoCluster, path |-> <<>>]

\* setComponentProxyHosts at the start: every host is copied by itself, and one
\* that is empty or does not name a Service is none; a ConfigMap that cannot be
\* read then leaves every component without a host.
Init ==
    /\ hosted \in HostSets \union {{}}
    /\ at = "idle"
    /\ asked = <<>>
    /\ path = <<>>
    /\ token = "none"
    /\ cluster = NoCluster
    /\ proxied = FALSE
    /\ isK8s = FALSE
    /\ descriptor = NoCluster
    /\ dest = Nowhere
    /\ karmada \in BOOLEAN

-----------------------------------------------------------------------------
(* Paths.                                                                  *)

Begins(x, p) == p = Blank \/ x = p \/ <<x, p>> \in DOMAIN Behind

Rest(x, p) ==
    IF p = Blank THEN x ELSE IF x = p THEN Blank ELSE Behind[<<x, p>>]

\* strings.HasPrefix: the last part of the prefix may end inside a part, and
\* any part begins with the empty part that a closing slash stands for.
HasPrefix(q, p) ==
    /\ Len(q) >= Len(p)
    /\ \A i \in 1..(Len(p) - 1) : q[i] = p[i]
    /\ Begins(q[Len(p)], p[Len(p)])

Drop(q, n) == SubSeq(q, n + 1, Len(q))

\* strings.TrimPrefix
TrimPrefix(q, p) ==
    IF HasPrefix(q, p) THEN <<Rest(q[Len(p)], p[Len(p)])>> \o Drop(q, Len(p))
                       ELSE q

\* All slashes at both ends are trimmed before the path is split.
splitPath(q) ==
    LET filled == {i \in 1..Len(q) : q[i] # Blank}
    IN  IF filled = {} THEN <<>> ELSE SubSeq(q, Min(filled), Max(filled))

\* path.Clean drops empty parts and ".", and ".." with the part before it that
\* is left: a part stays if from there on there are never more ".." than parts.
Stays(q, i) ==
    /\ q[i] \notin Dots \union {Blank}
    /\ \A j \in i..Len(q) :
          Cardinality({k \in (i + 1)..j : q[k] = ".."})
             <= Cardinality({k \in (i + 1)..j : q[k] \notin Dots \union {Blank}})

\* The parts of q at the indices in K, in their order.
Picked(q, K) ==
    [n \in 1..Cardinality(K) |->
        q[CHOOSE i \in K : Cardinality({k \in K : k <= i}) = n]]

\* path.Clean of a rooted path.
Clean(q) ==
    LET kept == {i \in 1..Len(q) : Stays(q, i)}
    IN  <<Blank>> \o (IF kept = {} THEN <<Blank>> ELSE Picked(q, kept))

\* Mutant of Join: the paths are joined the wrong way round.
JoinSwapped(p, q) == Clean(q \o p)

\* path.Join, where p is rooted or empty; joined with nothing, an empty path
\* stays empty, and is sent as "/" all the same.
Join(p, q) == Clean(p \o q)

\* The reverse proxies of net/http put the slash there that a path lacks.
Rooted(q) == IF q[1] = Blank /\ Len(q) > 1 THEN q ELSE <<Blank>> \o q

isRESTAuthRequest(q) == HasPrefix(q, <<Blank, "rest", "auth">>)
isWSAuthRequest(q)   == HasPrefix(q, <<Blank, "ws", "auth">>)
isOAuthRequest(q)    == HasPrefix(q, <<Blank, "password">>)

isConsoleRequest(q) ==
    /\ HasPrefix(q, <<Blank, "rest", "console">>)
    /\ ~HasPrefix(q, <<Blank, "rest", "console", "plugin", "v1beta1",
                       "consoleplugins">>)

\* The requests whose refusal is told to the page over its WebSocket.
isFuyaoApi(q) ==
    \/ isConsoleRequest(q) \/ isOAuthRequest(q)
    \/ \E p \in {<<Blank, "rest", "monitoring", Blank>>,
                 <<Blank, "rest", "alert", Blank>>, <<Blank, "rest", "user">>,
                 <<Blank, "rest", "multicluster">>,
                 <<Blank, "api", "kubernetes">>, <<Blank, "clusters">>} :
          HasPrefix(q, p)

-----------------------------------------------------------------------------
(* How a filter ends.                                                      *)

\* The request goes to the next filter as it is.
Pass(stage) ==
    /\ at' = stage
    /\ UNCHANGED <<asked, path, token, info, descriptor, dest, karmada, hosted>>

\* The request is answered by the service itself, or it is sent to a backend of
\* cluster c, under path q of the server that proxies it: the API server of the
\* service's own cluster, or Karmada.
Deliver(to, c, q) ==
    /\ at' = "done"
    /\ dest' = [to |-> to, cluster |-> c, path |-> q]
    /\ UNCHANGED <<asked, path, token, info, descriptor, karmada, hosted>>

Reply(to) == Deliver(to, NoCluster, <<>>)

\* Where the proxies that distinguish clusters send a request.
Target == IF proxied THEN cluster ELSE Local

MultiClusterProxyURL(c) ==
    <<Blank, "apis", "cluster.karmada.io", "v1alpha1", "clusters", c, "proxy">>

Through(q) == IF proxied THEN Join(MultiClusterProxyURL(cluster), q) ELSE q

-----------------------------------------------------------------------------
(* CheckRequestAuth and HandleConsoleRequests.                             *)

Arrive(q) ==
    /\ at = "idle"
    /\ at' = "auth"
    /\ asked' = q
    /\ path' = q
    /\ UNCHANGED <<token, info, descriptor, dest, karmada, hosted>>

\* Mutant of isFavicon: the name may be anywhere in the path.
faviconAnywhere(q) == \E i \in DOMAIN q : Begins(q[i], "favicon")

isFavicon(q) == HasPrefix(q, <<Blank, "favicon">>)

PassUnauthenticated ==
    /\ at = "auth"
    /\ \/ isRESTAuthRequest(path) /\ Reply("console")
       \/ ~isRESTAuthRequest(path) /\ isFavicon(path) /\ Pass("console")

\* The header or the session of the cookie has a token; see SessionAuth.
Authenticated(from) ==
    /\ at = "auth"
    /\ ~isRESTAuthRequest(path) /\ ~isFavicon(path)
    /\ token' = from
    /\ IF isWSAuthRequest(path)
       THEN /\ at' = "done"
            /\ dest' = [Nowhere EXCEPT !.to = "console"]
       ELSE /\ at' = "console"
            /\ UNCHANGED dest
    /\ UNCHANGED <<asked, path, info, descriptor, karmada, hosted>>

\* There is none, or the rotation of the token failed.
Refused ==
    /\ at = "auth"
    /\ ~isRESTAuthRequest(path) /\ ~isFavicon(path)
    /\ \/ Reply(IF isFuyaoApi(path) THEN "wsLogout" ELSE "login")
       \/ Reply("error")

HandleConsoleRequests ==
    /\ at = "console"
    /\ IF isConsoleRequest(path) THEN Reply("console") ELSE Pass("info")

-----------------------------------------------------------------------------
(* BuildRequestInfo and ProxyAPIServer.                                    *)

kubePrefix == <<Blank, "api", "kubernetes">>

namesCluster(q) == Len(splitPath(q)) >= 3 /\ splitPath(q)[1] = "clusters"

\* Mutant of extractCluster: the parts are cut one too early.
extractClusterShort(q) == <<Blank>> \o Drop(splitPath(q), 1)

extractCluster(q) == <<Blank>> \o Drop(splitPath(q), 2)

hasK8sPrefix(q) == splitPath(q) # <<>> /\ splitPath(q)[1] \in {"api", "apis"}

\* NewRequestInfo of Kubernetes wants to know what is watched or proxied.
undetermined(q) ==
    LET parts == splitPath(q)
    IN  \/ Len(parts) = 3 /\ parts[1] = "api" /\ parts[3] \in {"watch", "proxy"}
        \/ Len(parts) = 4 /\ parts[1] = "apis" /\ parts[4] \in {"watch", "proxy"}

\* The cluster is taken from the path, and the Karmada service is looked up;
\* that the lookup failed is not told from that there is none.
BuildRequestInfo ==
    /\ at = "info"
    /\ LET q     == IF namesCluster(path) THEN extractCluster(path) ELSE path
           isApi == HasPrefix(q, kubePrefix)
       IN  /\ path' = TrimPrefix(q, kubePrefix)
           /\ isK8s' = hasK8sPrefix(IF isApi THEN path' ELSE path)
           /\ IF isApi /\ undetermined(path')
              THEN /\ at' = "done"
                   /\ dest' = [Nowhere EXCEPT !.to = "error"]
              ELSE /\ at' = "apiserver"
                   /\ UNCHANGED dest
    /\ \/ /\ namesCluster(path)
          /\ cluster' = splitPath(path)[2]
          /\ \/ proxied' = karmada
             \/ "api" \in Faults /\ proxied' = FALSE
       \/ /\ ~namesCluster(path)
          /\ UNCHANGED <<cluster, proxied>>
    /\ UNCHANGED <<asked, token, descriptor, karmada, hosted>>

ProxyAPIServer ==
    /\ at = "apiserver"
    /\ IF isK8s THEN Deliver("apiserver", Target, Rooted(Through(path)))
                ELSE Pass("component")

-----------------------------------------------------------------------------
(* ProxyComponentRequest.                                                  *)

ServicePrefix(s) == <<Blank, "rest", s, Blank>>

\* The request whose body names a user, who is held against the session's.
namesCreator(q) == q = <<Blank, "api", "v2", "silences">>

isServiceRequest(q) == \E s \in Services : HasPrefix(q, ServicePrefix(s))

\* Components are reached through the API server: a component with a host by the
\* proxy path of its Service, of whatever name, namespace and port.
ServiceProxyURL(s) ==
    <<Blank, "api", "v1", "namespaces", "ns", "services", s, "proxy">>

\* convertToServiceProxyPath: without a host the path has no prefix, and the API
\* server itself is asked.
serviceProxied(s) == IF s \in hosted THEN s ELSE "apiserver"
convertToServiceProxyPath(s) ==
    IF s \in hosted THEN ServiceProxyURL(s) ELSE <<Blank>>

\* Mutant of servicePath: every component's path loses its prefix.
servicePathTrimmed(s) == TrimPrefix(path, <<Blank, "rest", s>>)

\* The path of a component's request; that of an alert loses its prefix.
servicePath(s) ==
    IF s = "alert" THEN TrimPrefix(path, <<Blank, "rest", "alert">>) ELSE path

\* A silence is refused when another user created it.
ProxyByCluster(s) ==
    /\ at = "component"
    /\ HasPrefix(path, ServicePrefix(s))
    /\ \/ Deliver(serviceProxied(s), Target,
                  Through(Join(convertToServiceProxyPath(s), servicePath(s))))
       \/ /\ s = "alert" /\ namesCreator(servicePath(s))
          /\ Reply("badRequest")

\* A password request goes to the OAuth server beside the service; a proxy
\* without a target panics at its first request.
ProxyOAuth ==
    /\ at = "component"
    /\ isOAuthRequest(path)
    /\ \/ /\ "oauth" \in hosted
          /\ Deliver("oauth", Local,
                     Join(<<Blank, "oauth2", "auth">>,
                          path \o <<"fuyaoPasswordProvider">>))
       \/ "oauth" \notin hosted /\ Reply("dropped")

NoComponent ==
    /\ at = "component"
    /\ ~isServiceRequest(path) /\ ~isOAuthRequest(path)
    /\ Pass("plugin")

-----------------------------------------------------------------------------
(* ProxyConsolePlugin and ProxyStatic.                                     *)

isPluginMjs(q) == HasPrefix(q, <<Blank, "proxy">>)

isPluginBackend(q) ==
    /\ HasPrefix(q, <<Blank, "rest">>) \/ HasPrefix(q, <<Blank, "ws">>)
    /\ ~HasPrefix(q, <<Blank, "rest", "console">>)

pluginName(q) == splitPath(q)[2]

ProxyStatic ==
    /\ at = "plugin"
    /\ ~isPluginMjs(path) /\ ~isPluginBackend(path)
    /\ Deliver("website", Local, Rooted(path))

PluginNotNamed ==
    /\ at = "plugin"
    /\ isPluginMjs(path) \/ isPluginBackend(path)
    /\ Len(splitPath(path)) < 2
    /\ Reply("badRequest")

\* Mutant of SetSingleCluster: the request keeps the cluster it names.
KeepCluster == UNCHANGED <<cluster, proxied>>

SetSingleCluster ==
    /\ cluster' = NoCluster
    /\ proxied' = FALSE

\* preparePluginRequestURLByCluster: the cluster to ask about plugin p.
describedBy(p, c, multi) == IF multi /\ p # "multicluster" THEN c ELSE Local

\* The descriptor of the plugin is asked for, where the plugin runs.
AskDescriptor ==
    /\ at = "plugin"
    /\ isPluginMjs(path) \/ isPluginBackend(path)
    /\ Len(splitPath(path)) >= 2
    /\ at' = "descriptor"
    /\ IF pluginName(path) = "multicluster"
       THEN SetSingleCluster
       ELSE UNCHANGED <<cluster, proxied>>
    /\ descriptor' = describedBy(pluginName(path), cluster', proxied')
    /\ UNCHANGED <<asked, path, token, isK8s, dest, karmada, hosted>>

\* The path of a plugin's request; that of its script loses the prefix.
pluginPath ==
    IF isPluginMjs(path)
    THEN TrimPrefix(path, <<Blank, "proxy", pluginName(path)>>)
    ELSE path

ProxyPlugin ==
    /\ at = "descriptor"
    /\ \E prefix \in PluginPrefixes :
          Deliver("plugin", Target, Through(Join(prefix, pluginPath)))

listClusters ==
    <<Blank, "rest", "multicluster", "v1beta1", "resources", "clusters">>

\* Mutant of NoDescriptor: only the page that asks for the clusters is answered.
NoDescriptorSilent ==
    /\ at = "descriptor"
    /\ Reply(IF path = listClusters THEN "dummyClusters" ELSE "silence")

\* The plugin is not installed, or its descriptor is not had: a page that asks
\* for the clusters gets the host cluster alone.  A URL that is none, or what is
\* no descriptor, panics: what it should hold is looked for in it all the same.
NoDescriptor ==
    /\ at = "descriptor"
    /\ \/ Reply(IF path = listClusters THEN "dummyClusters" ELSE "notFound")
       \/ Reply("dropped")

-----------------------------------------------------------------------------

\* The browser has its answer; the next request begins anew.
Finish ==
    /\ at = "done"
    /\ at' = "idle"
    /\ asked' = <<>> /\ path' = <<>>
    /\ token' = "none"
    /\ cluster' = NoCluster /\ proxied' = FALSE /\ isK8s' = FALSE
    /\ descriptor' = NoCluster
    /\ dest' = Nowhere
    /\ UNCHANGED <<karmada, hosted>>

\* Karmada is installed or removed, whatever requests are under way.
InstallKarmada ==
    /\ "karmada" \in Faults
    /\ karmada' = ~karmada
    /\ UNCHANGED <<at, asked, path, token, info, descriptor, dest, hosted>>

Next ==
    \/ \E q \in Paths : Arrive(q)
    \/ PassUnauthenticated \/ Refused
    \/ \E from \in {"header", "cookie"} : Authenticated(from)
    \/ HandleConsoleRequests \/ BuildRequestInfo \/ ProxyAPIServer
    \/ \E s \in Services : ProxyByCluster(s)
    \/ ProxyOAuth \/ NoComponent
    \/ ProxyStatic \/ PluginNotNamed \/ AskDescriptor
    \/ ProxyPlugin \/ NoDescriptor
    \/ Finish
    \/ InstallKarmada

Spec == Init /\ [][Next]_vars

-----------------------------------------------------------------------------
(* Properties.                                                             *)

\* Whatever the filters make of a path after the authentication looked at it,
\* a request without a token reaches no backend but the website.
NoTokenNoBackend ==
    dest.to \in Backends \ {"website"} => token # "none"

\* What a request asks of the cluster it names, or of the service's own.
InCluster(q) ==
    IF namesCluster(q)
    THEN <<Blank>> \o SubSeq(splitPath(q), 3, Len(splitPath(q))) ELSE q

\* What it asks of Kubernetes: a request for a cluster must say so with the
\* console's own prefix.
KubeRest(q) == TrimPrefix(InCluster(q), kubePrefix)
asksKube(q) == hasK8sPrefix(IF HasPrefix(InCluster(q), kubePrefix)
                            THEN KubeRest(q) ELSE q)

\* Kubernetes is sent the requests that ask for /api or /apis behind their
\* prefixes, with exactly what is behind them: each prefix is dropped once and
\* in order, also while Karmada comes and goes, and the only cluster that it is
\* looked for in is the one the path names.  No other request is one of these.
ApiServerGetsTheRest ==
    /\ dest.to = "apiserver" /\ isK8s =>
          /\ asksKube(asked)
          /\ dest.cluster = Local => dest.path = Rooted(KubeRest(asked))
          /\ dest.cluster # Local =>
                /\ namesCluster(asked) /\ dest.cluster = splitPath(asked)[2]
                /\ dest.path = Rooted(Join(MultiClusterProxyURL(dest.cluster),
                                           KubeRest(asked)))
    /\ dest.to \in Backends /\ ~isK8s => ~asksKube(asked)

\* path.Join has nothing to resolve: no part of the path, nor the cluster that
\* the path of its proxy is made with, is empty, "." or "..".
Plain ==
    /\ \A i \in DOMAIN path : path[i] \notin Dots
    /\ dest.cluster \notin Dots \union {Blank}

\* A request that is sent through Karmada is sent to the proxy of its cluster,
\* and so not to another cluster or to Karmada's own API; a path with ".." may
\* leave it.
StaysInCluster ==
    dest.cluster \notin {Local, NoCluster} /\ Plain =>
        SubSeq(dest.path, 1, 7) = MultiClusterProxyURL(dest.cluster)

\* What the API server of the request's cluster is asked for.
atServer == IF dest.cluster = Local THEN dest.path ELSE Drop(dest.path, 7)

\* A request for a component is sent to the API server only when the component
\* has no host, and then under the component's own prefix, where there is no
\* API.  Only alerts, which lost their prefix before, and paths with ".." arrive
\* there as whatever request of the API is behind it.
OnlyAlertsStray ==
    dest.to = "apiserver" /\ ~isK8s =>
        \E s \in Services \ hosted :
           /\ HasPrefix(path, ServicePrefix(s))
           /\ s # "alert" /\ Plain => ~hasK8sPrefix(atServer)

\* A plugin is served by the cluster that its descriptor was read from, also
\* when the request for it is turned back to the host cluster on the way.
PluginServedWhereDescribed ==
    dest.to = "plugin" => dest.cluster = descriptor

=============================================================================
