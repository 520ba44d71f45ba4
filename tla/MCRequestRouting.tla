-------------------------- MODULE MCRequestRouting --------------------------
(* Paths for TLC: every component, route and prefix that the filters tell    *)
(* apart, alone, under a cluster, and under the console's Kubernetes prefix; *)
(* with and without a closing slash; and paths that are not clean.           *)
EXTENDS RequestRouting, SequencesExt

Tails ==
    {<<Blank>>, <<"static">>, <<"favicon.ico">>, <<"version">>, <<"clusters">>,
     <<"api">>, <<"api", "v1">>, <<"apis", "apps", "v1">>,
     <<"api", "v1", "favicon.ico">>,
     <<"password">>, <<"password", "reset">>, <<"passwords">>,
     <<"rest">>, <<"rest", "auth", "login">>, <<"ws", "auth", "login-status">>,
     <<"rest", "console", "v1beta1", "time-offset">>,
     <<"rest", "console", "plugin", "v1beta1", "consoleplugins">>,
     <<"rest", "alert", "api", "v2", "silences">>,
     <<"rest", "multicluster", "v1beta1", "resources", "clusters">>,
     <<"proxy">>, <<"proxy", "p1", "index.mjs">>,
     <<"proxy", "multicluster", "index.mjs">>,
     <<"proxy-x", "p1">>, <<"restful", "p1">>, <<"rest", "p1">>, <<"ws", "p1", "x">>,
     <<"rest", "users", "x">>, <<"rest", "user", "api", "v1">>, <<"clusters", "c2", "api", "v1">>}
    \union {<<"rest", s>> : s \in Services}
    \union {<<"rest", s, "x">> : s \in Services}

\* What is watched or proxied, or not; empty parts and dots in every place; a
\* part that is cut in its middle.
Unclean ==
    {<<"api", "v1", "watch">>, <<"api", "v1", "watch", "pods">>,
     <<"apis", "apps", "v1", "proxy">>,
     <<"api", "v1", "..", "..", "..", "c2", "proxy", "x">>,
     <<"api", ".", "v1">>, <<"api", "..">>, <<Blank, "api", "v1">>,
     <<Blank, "clusters", "c1", "rest", "user", "x">>,
     <<"clusters", Blank, "api", "kubernetes", "api", "v1">>,
     <<"clusters", "..", "rest", "user", "x">>,
     <<"rest", "user", "..", "..", "api", "v1">>,
     <<"rest", "alert", "..", "..", "api", "v1">>,
     <<"rest", Blank, "user", "x">>, <<"rest", "user", Blank, "x">>,
     <<Blank, "rest", "user", "x">>, <<"proxy", Blank, "p1">>,
     <<"proxy", "p1", "..", "x">>, <<"ws", "..", "x">>,
     <<"favicon", "..", "api", "v1">>, <<Blank, "favicon">>}

Fronts ==
    {c \o k : c \in {<<Blank>>, <<Blank, "clusters", "c1">>},
              k \in {<<>>, <<"api", "kubernetes">>}}

\* With a closing slash.
Closed(q) == IF q[Len(q)] = Blank THEN q ELSE Append(q, Blank)

\* Not rooted: of a request without a path, for the server as such, and of one
\* that is cut in a part.
Unrooted ==
    {<<Blank>>, <<"*">>, <<Blank, "api", "kubernetesapi", "v1">>,
     <<Blank, "clusters", "c1", "api", "kubernetesapi", "v1">>,
     <<Blank, "api", "kubernetesx">>}

SomePaths ==
    LET plain == {p \o t : p \in Fronts, t \in Tails \union Unclean}
    IN  plain \union {Closed(q) : q \in plain} \union Unrooted

SomeBehind ==
    [pair \in {<<"favicon.ico", "favicon">>, <<"passwords", "password">>,
               <<"proxy-x", "proxy">>, <<"restful", "rest">>, <<"users", "user">>,
               <<"kubernetesapi", "kubernetes">>, <<"kubernetesx", "kubernetes">>}
       |-> CASE pair[1] = "favicon.ico" -> ".ico"
             [] pair[1] \in {"passwords", "users"} -> "s"
             [] pair[1] = "proxy-x" -> "-x"
             [] pair[1] = "restful" -> "ful"
             [] pair[1] = "kubernetesapi" -> "api"
             [] pair[1] = "kubernetesx" -> "x"]

SomePluginPrefixes ==
    {<<Blank>>,
     <<Blank, "api", "v1", "namespaces", "ns", "services", "p1", "proxy">>}

\* All hosts, or all but some of these.
SomeHosts == {Components \ without : without \in SUBSET {"user", "alert", "oauth"}}

-----------------------------------------------------------------------------
(* Clean is what path.Clean computes part by part.                           *)

\* One part more of a rooted path.
Resolve(kept, part) ==
    CASE part \in {Blank, "."} -> kept
      [] part = ".."           -> IF kept = <<>> THEN kept ELSE Front(kept)
      [] OTHER                 -> Append(kept, part)

cleanByParts(q) ==
    LET kept == FoldLeft(Resolve, <<>>, q)
    IN  <<Blank>> \o (IF kept = <<>> THEN <<Blank>> ELSE kept)

ASSUME CleanCorrect ==
    \A n \in 0..5 : \A q \in [1..n -> {Blank, ".", "..", "a", "b"}] :
        Clean(<<Blank>> \o q) = cleanByParts(q)
=============================================================================
