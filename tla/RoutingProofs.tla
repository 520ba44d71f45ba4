---------------------------- MODULE RoutingProofs ----------------------------
(***************************************************************************)
(* Theorems about RequestRouting, for every set of paths.                  *)
(*                                                                         *)
(* The filters decide by a path that was rewritten before them, the        *)
(* properties speak of the one that was asked for: the invariant keeps     *)
(* what the one has to do with the other from BuildRequestInfo on.  Where  *)
(* a request is sent then follows from the lemmas about joined paths.      *)
(***************************************************************************)
EXTENDS PathLemmas

-----------------------------------------------------------------------------
(* Paths that are asked for, and joined ones.                              *)

LEMMA PathFacts ==
    /\ \A q \in Paths : q \in Seq(STRING) /\ Len(q) \in Nat /\ Len(q) >= 1
    /\ \A q \in PluginPrefixes : q \in Seq(STRING)
BY PathsAssumption, EmptySeq, LenProperties

\* What is left of a path is one, and names a cluster by one of its parts.
LEMMA RestFacts ==
    ASSUME NEW q \in Seq(STRING)
    PROVE  /\ KubeRest(q) \in Seq(STRING)
           /\ namesCluster(q) => splitPath(q)[2] \in STRING
<1>1. splitPath(q) \in Seq(STRING)
  BY SplitFacts
<1>2. Drop(splitPath(q), 2) \in Seq(STRING)
  BY <1>1, DropType
<1>3. SubSeq(splitPath(q), 3, Len(splitPath(q))) = Drop(splitPath(q), 2)
  BY DEF Drop
<1>4. InCluster(q) \in Seq(STRING)
  <2>1. <<Blank>> \in Seq(STRING)
    BY Words
  <2>2. <<Blank>> \o Drop(splitPath(q), 2) \in Seq(STRING)
    BY <1>2, <2>1, ConcatProperties
  <2>. QED BY <1>3, <2>2 DEF InCluster
<1>5. Len(kubePrefix) = 3
  BY DEF kubePrefix
<1>6. KubeRest(q) \in Seq(STRING)
  <2>1. Len(kubePrefix) \in Nat /\ Len(kubePrefix) >= 1
    BY <1>5
  <2>2. TrimPrefix(InCluster(q), kubePrefix) \in Seq(STRING)
    BY Zenon, <1>4, <2>1, TrimType
  <2>. QED BY <2>2 DEF KubeRest
<1>7. namesCluster(q) => splitPath(q)[2] \in STRING
  <2>1. namesCluster(q) => 2 \in 1..Len(splitPath(q))
    BY <1>1, LenProperties DEF namesCluster
  <2>. QED BY <1>1, <2>1, ElementOfSeq
<1>. QED BY <1>6, <1>7

\* A request for an icon is rewritten by nothing and is no other request.
LEMMA FaviconIsNoOther ==
    ASSUME NEW q \in Paths, isFavicon(q)
    PROVE  /\ KubeRest(q) = q
           /\ ~asksKube(q)
           /\ ~isServiceRequest(q) /\ ~isOAuthRequest(q)
           /\ ~isPluginMjs(q) /\ ~isPluginBackend(q)
<1>1. q \in Seq(STRING)
  BY PathFacts
<1>2. Len(q) >= 2 /\ q[1] = Blank /\ Begins(q[2], "favicon")
  BY DEF isFavicon, HasPrefix
<1>3. {"favicon", "rest", "ws", "password", "proxy"} \subseteq Names
  BY DEF Names
<1>4. /\ q[2] \notin {"api", "apis", "clusters", Blank}
      /\ \A name \in Names : Begins(q[2], name) => name = "favicon"
  BY <1>2, <1>3, OneName
<1>5. splitPath(q) # <<>> /\ splitPath(q)[1] = q[2]
  BY <1>1, <1>2, <1>4, FirstPart
<1>6. ~namesCluster(q) /\ ~hasK8sPrefix(q)
  BY <1>4, <1>5 DEF namesCluster, hasK8sPrefix
<1>7. InCluster(q) = q /\ ~HasPrefix(q, kubePrefix)
  BY <1>4, <1>6 DEF InCluster, HasPrefix, kubePrefix
<1>8. KubeRest(q) = q /\ ~asksKube(q)
  BY <1>6, <1>7 DEF KubeRest, TrimPrefix, asksKube
<1>9. ASSUME NEW s \in Services, HasPrefix(q, ServicePrefix(s))
      PROVE  FALSE
  <2>1. q[2] = "rest"
    BY <1>9 DEF HasPrefix, ServicePrefix
  <2>. QED BY <1>3, <1>4, <2>1 DEF Begins
<1>10. ~isOAuthRequest(q) /\ ~isPluginMjs(q) /\ ~isPluginBackend(q)
  BY <1>3, <1>4
     DEF isOAuthRequest, isPluginMjs, isPluginBackend, HasPrefix
<1>. QED BY <1>8, <1>9, <1>10 DEF isServiceRequest

\* A joined path is clean, and rooted as it is.
LEMMA JoinFacts ==
    ASSUME NEW S, Blank \in S, NEW p \in Seq(S), NEW q \in Seq(S)
    PROVE  /\ Join(p, q) \in Seq(S) /\ Len(Join(p, q)) >= 2
           /\ Join(p, q)[1] = Blank
           /\ \A i \in 1..Len(Join(p, q)) : Join(p, q)[i] \notin Dots
           /\ Rooted(Join(p, q)) = Join(p, q)
<1>1. PICK r : r = p \o q
  OBVIOUS
<1>2. r \in Seq(S)
  BY <1>1, ConcatProperties
<1>3. PICK c : c = Clean(r)
  OBVIOUS
<1>4. /\ c \in Seq(S) /\ c[1] = Blank
      /\ Len(c) = 1 + (IF Kept(r) = {} THEN 1 ELSE Cardinality(Kept(r)))
      /\ \A n \in DOMAIN c : c[n] \notin Dots
  BY <1>2, <1>3, CleanFacts
<1>5. DOMAIN c = 1..Len(c) /\ Len(c) \in Nat
  BY <1>4, LenProperties
<1>6. Len(c) >= 2
  BY <1>2, <1>4, KeptFacts
<1>7. Rooted(c) = c
  BY <1>4, <1>5, <1>6 DEF Rooted
<1>. QED BY <1>1, <1>3, <1>4, <1>5, <1>6, <1>7 DEF Join

\* What begins with /rest still does when it is joined to a slash.
LEMMA JoinedToSlash ==
    ASSUME NEW S, Blank \in S, NEW q \in Seq(S), Len(q) >= 2,
           q[1] = Blank, q[2] # Blank, \A i \in 1..Len(q) : q[i] \notin Dots
    PROVE  Join(<<Blank>>, q)[2] = q[2]
<1>1. <<Blank>> \in Seq(S) /\ Len(<<Blank>>) = 1 /\ <<Blank>>[1] = Blank
  OBVIOUS
<1>2. PICK r : r = <<Blank>> \o q
  OBVIOUS
<1>3. Len(q) \in Nat
  BY LenProperties
<1>4. /\ r \in Seq(S) /\ Len(r) = 1 + Len(q)
      /\ \A i \in 1..(1 + Len(q)) : r[i] = IF i <= 1 THEN <<Blank>>[i] ELSE q[i - 1]
  BY <1>1, <1>2, ConcatProperties
<1>5. r[1] = Blank /\ r[2] = q[1] /\ r[3] = q[2] /\ 3 \in 1..Len(r)
  BY <1>1, <1>3, <1>4
<1>6. \A i \in 1..Len(r) : r[i] \notin Dots
  <2>1. \A i \in 1..Len(r) : i = 1 \/ (r[i] = q[i - 1] /\ i - 1 \in 1..Len(q))
    BY <1>3, <1>4
  <2>. QED BY <1>5, <2>1, Words
<1>7. Kept(r) = {i \in 1..Len(r) : r[i] # Blank}
  BY <1>4, <1>6, PlainKept
<1>8. 3 \in Kept(r) /\ 1 \notin Kept(r) /\ 2 \notin Kept(r)
  BY <1>5, <1>7
<1>9. {k \in Kept(r) : k <= 3} = {3}
  <2>1. \A k \in Kept(r) : k \in 1..Len(r)
    BY <1>7
  <2>2. \A k \in Kept(r) : k <= 3 <=> k = 3
    BY <1>3, <1>4, <1>8, <2>1
  <2>. QED BY <1>8, <2>2
<1>10. Rank(Kept(r), 3) = 1
  BY <1>9, FS_Singleton DEF Rank
<1>11. Clean(r)[1 + 1] = r[3]
  BY <1>4, <1>8, <1>10, CleanFacts
<1>. QED BY <1>2, <1>5, <1>11 DEF Join

\* The parts that paths are joined of.
Word == Clusters \union Services \union ProxyWords
           \union {"api", "v1", "namespaces", "ns", "services"}

LEMMA WordFacts ==
    /\ Blank \in Word /\ ProxyWords \subseteq Word /\ Clusters \subseteq Word
    /\ Seq(STRING) \subseteq Seq(Word)
    /\ \A s \in Services : ServiceProxyURL(s) \in Seq(Word)
    /\ <<Blank>> \in Seq(Word)
<1>1. Blank \in Word /\ ProxyWords \subseteq Word /\ Clusters \subseteq Word
      /\ STRING \subseteq Word
  BY Words DEF Word, Clusters
<1>2. Seq(STRING) \subseteq Seq(Word)
  <2>. SUFFICES ASSUME NEW q \in Seq(STRING) PROVE q \in Seq(Word)
    OBVIOUS
  <2>1. Len(q) \in Nat /\ DOMAIN q = 1..Len(q) /\ \A i \in 1..Len(q) : q[i] \in STRING
    BY LenProperties, ElementOfSeq
  <2>2. q \in [1..Len(q) -> Word]
    BY <1>1, <2>1, LenProperties
  <2>. QED BY <2>1, <2>2, SeqDef
<1>3. ASSUME NEW s \in Services
      PROVE  ServiceProxyURL(s) \in Seq(Word)
  <2>1. s \in Word /\ {"api", "v1", "namespaces", "ns", "services", "proxy"} \subseteq Word
    BY DEF Word, ProxyWords
  <2>. QED BY <1>1, <2>1 DEF ServiceProxyURL
<1>. QED BY <1>1, <1>2, <1>3

-----------------------------------------------------------------------------
(* The inductive invariant.                                                *)

\* The stages before BuildRequestInfo and those behind it.
Unread == {"idle", "auth", "console", "info"}
ReadBy == {"apiserver", "component", "plugin", "descriptor"}

Answered == dest.to \in Backends

\* Until BuildRequestInfo the path is the one that was asked for, and the
\* request names no cluster.
Untouched ==
    /\ at # "idle" => asked \in Paths
    /\ at \in Unread \ {"idle"} => path = asked
    /\ at \in Unread => ~proxied /\ ~isK8s

\* From then on, path, kind and cluster are what it took from that path.
Read ==
    at \in ReadBy \/ Answered
        => /\ path = KubeRest(asked)
           /\ isK8s <=> asksKube(asked)
           /\ proxied => namesCluster(asked) /\ cluster = splitPath(asked)[2]

\* Kubernetes requests go no further than ProxyAPIServer.
NotKubernetes == at \in ReadBy \ {"apiserver"} => ~isK8s

\* A request without a token that CheckRequestAuth let pass is for an icon.
Guarded ==
    /\ token = "none" /\ at \in {"console", "info"} \union ReadBy
          => isFavicon(asked)
    /\ at = "descriptor" => token # "none"

\* A request has its answer last, and the descriptor is of the target cluster.
Described ==
    /\ at # "done" => dest = Nowhere
    /\ at = "descriptor" => descriptor = Target

Delivered ==
    /\ NoTokenNoBackend
    /\ ApiServerGetsTheRest
    /\ StaysInCluster
    /\ OnlyAlertsStray
    /\ PluginServedWhereDescribed

RouteInv ==
    /\ TypeOK /\ Untouched /\ Read /\ NotKubernetes
    /\ Guarded /\ Described /\ Delivered

-----------------------------------------------------------------------------
(* Each way a filter ends keeps it.                                        *)

\* A request goes to the next filter.
LEMMA PassKeeps ==
    ASSUME RouteInv, NEW stage, Pass(stage),
           \/ at = "auth" /\ stage = "console" /\ isFavicon(path)
           \/ at = "console" /\ stage = "info"
           \/ at = "apiserver" /\ stage = "component" /\ ~isK8s
           \/ at = "component" /\ stage = "plugin"
    PROVE  RouteInv'
<1>. USE DEF Pass
<1>1. TypeOK'
  BY DEF RouteInv, TypeOK, Clusters, Stage, info
<1>2. dest = Nowhere /\ dest' = Nowhere /\ Described'
  BY DEF RouteInv, Described
<1>3. ~Answered /\ ~Answered'
  BY <1>2 DEF Answered, Nowhere, Backends, Services
<1>4. Untouched'
  BY DEF RouteInv, Untouched, Unread, info
<1>5. Read'
  BY <1>3 DEF RouteInv, Read, ReadBy, Unread, info
<1>6. NotKubernetes'
  BY DEF RouteInv, NotKubernetes, ReadBy, info
<1>7. Guarded'
  BY DEF RouteInv, Guarded, Untouched, Unread, ReadBy
<1>8. Delivered'
  <2>1. dest'.to \notin Backends /\ dest'.cluster = NoCluster
    BY <1>2, <1>3 DEF Answered, Nowhere
  <2>. QED BY <2>1 DEF Delivered, NoTokenNoBackend, ApiServerGetsTheRest,
                       StaysInCluster, OnlyAlertsStray,
                       PluginServedWhereDescribed, Backends
<1>. QED BY <1>1, <1>2, <1>4, <1>5, <1>6, <1>7, <1>8 DEF RouteInv

\* What a filter must know of where it sends a request.
PlainPath(c) == /\ \A i \in DOMAIN path : path[i] \notin Dots
                /\ c \notin Dots \union {Blank}
SentRight(to, c, q) ==
    /\ to \in Backends => at \in ReadBy
    /\ to \in Backends \ {"website"} => token # "none"
    /\ to = "apiserver" /\ isK8s => q = Rooted(Through(path)) /\ c = Target
    /\ c \notin {Local, NoCluster} /\ PlainPath(c)
          => SubSeq(q, 1, 7) = MultiClusterProxyURL(c)
    /\ to = "apiserver" /\ ~isK8s
          => \E s \in Services \ hosted :
                /\ HasPrefix(path, ServicePrefix(s))
                /\ s # "alert" /\ PlainPath(c)
                      => ~hasK8sPrefix(IF c = Local THEN q ELSE Drop(q, 7))
    /\ to = "plugin" => c = descriptor

\* A request is answered, by a backend only when BuildRequestInfo has read it.
LEMMA DeliverKeeps ==
    ASSUME RouteInv, at \notin {"idle", "done"},
           NEW to \in Backends \union Answers, NEW c \in Clusters, NEW q,
           Deliver(to, c, q), SentRight(to, c, q)
    PROVE  RouteInv'
<1>. USE DEF Deliver
<1>1. /\ at' = "done" /\ dest' = [to |-> to, cluster |-> c, path |-> q]
      /\ asked' = asked /\ path' = path /\ token' = token /\ isK8s' = isK8s
      /\ cluster' = cluster /\ proxied' = proxied
      /\ descriptor' = descriptor /\ karmada' = karmada /\ hosted' = hosted
  BY DEF info
<1>2. TypeOK'
  BY <1>1 DEF RouteInv, TypeOK, Clusters, Stage
<1>3. Untouched' /\ NotKubernetes' /\ Guarded' /\ Described'
  BY <1>1 DEF RouteInv, Untouched, NotKubernetes, Guarded, Described,
              Unread, ReadBy
<1>4. to \in Backends => at \in ReadBy
  BY DEF SentRight
<1>5. Read'
  BY <1>1, <1>4 DEF RouteInv, Read, Answered, ReadBy
<1>6. NoTokenNoBackend' /\ PluginServedWhereDescribed'
  BY <1>1 DEF NoTokenNoBackend, PluginServedWhereDescribed, SentRight
<1>7. dest'.to = to /\ dest'.cluster = c /\ dest'.path = q
  BY <1>1
<1>8. "apiserver" \in Backends
  BY DEF Backends
<1>9. ApiServerGetsTheRest'
  <2>1. to \in Backends
           => /\ asked \in Paths /\ path = KubeRest(asked)
              /\ isK8s <=> asksKube(asked)
              /\ proxied => namesCluster(asked) /\ cluster = splitPath(asked)[2]
    BY <1>4 DEF RouteInv, Untouched, Read, ReadBy
  <2>2. to \in Backends /\ proxied => cluster # Local
    BY <2>1, PathFacts, RestFacts, StringAssumption
  <2>3. ASSUME to = "apiserver", isK8s
        PROVE  /\ asksKube(asked)
               /\ c = Local => q = Rooted(KubeRest(asked))
               /\ c # Local =>
                     /\ namesCluster(asked) /\ c = splitPath(asked)[2]
                     /\ q = Rooted(Join(MultiClusterProxyURL(c), KubeRest(asked)))
    <3>1. q = Rooted(Through(path)) /\ c = Target
      BY <2>3 DEF SentRight
    <3>2. CASE proxied
      BY <1>8, <2>1, <2>2, <2>3, <3>1, <3>2 DEF Target, Through
    <3>3. CASE ~proxied
      BY <1>8, <2>1, <2>3, <3>1, <3>3 DEF Target, Through
    <3>. QED BY <3>2, <3>3
  <2>. QED BY <1>1, <1>7, <2>1, <2>3 DEF ApiServerGetsTheRest
<1>10. Plain' <=> PlainPath(c)
  BY <1>1, <1>7 DEF Plain, PlainPath
<1>11. StaysInCluster'
  BY <1>7, <1>10 DEF StaysInCluster, SentRight
<1>12. OnlyAlertsStray'
  <2>1. atServer' = IF c = Local THEN q ELSE Drop(q, 7)
    BY <1>7 DEF atServer
  <2>. QED BY <1>1, <1>7, <1>10, <2>1 DEF OnlyAlertsStray, SentRight
<1>. QED BY <1>2, <1>3, <1>5, <1>6, <1>9, <1>11, <1>12 DEF RouteInv, Delivered

\* The service itself answers.
LEMMA ReplyKeeps ==
    ASSUME RouteInv, at \notin {"idle", "done"}, NEW to \in Answers, Reply(to)
    PROVE  RouteInv'
<1>1. to \notin Backends
  BY DEF Answers, Backends, Services
<1>2. to # "apiserver" /\ to # "plugin"
  BY <1>1 DEF Backends
<1>3. SentRight(to, NoCluster, <<>>)
  BY <1>1, <1>2 DEF SentRight
<1>. QED BY <1>3, DeliverKeeps DEF Reply, Clusters

-----------------------------------------------------------------------------
(* Each action keeps it.                                                   *)

LEMMA ArriveKeeps ==
    ASSUME RouteInv, NEW q \in Paths, Arrive(q)
    PROVE  RouteInv'
<1>. USE DEF Arrive
<1>1. dest = Nowhere /\ dest' = Nowhere /\ Described'
  BY DEF RouteInv, Described
<1>2. ~Answered'
  BY <1>1 DEF Answered, Nowhere, Backends, Services
<1>3. q \in Seq(STRING)
  BY PathFacts
<1>4. TypeOK'
  BY <1>3 DEF RouteInv, TypeOK, Clusters, Stage, info
<1>5. Untouched' /\ Read' /\ NotKubernetes' /\ Guarded'
  BY <1>2 DEF RouteInv, Untouched, Read, NotKubernetes, Guarded,
              Unread, ReadBy, info
<1>6. Delivered'
  <2>1. dest'.to \notin Backends /\ dest'.cluster = NoCluster
    BY <1>1, <1>2 DEF Answered, Nowhere
  <2>. QED BY <2>1 DEF Delivered, NoTokenNoBackend, ApiServerGetsTheRest,
                       StaysInCluster, OnlyAlertsStray,
                       PluginServedWhereDescribed, Backends
<1>. QED BY <1>1, <1>4, <1>5, <1>6 DEF RouteInv

LEMMA UnauthenticatedKeep ==
    ASSUME RouteInv, PassUnauthenticated \/ Refused
    PROVE  RouteInv'
<1>1. at = "auth" /\ {"console", "wsLogout", "login", "error"} \subseteq Answers
  BY DEF PassUnauthenticated, Refused, Answers
<1>. QED BY <1>1, PassKeeps, ReplyKeeps DEF PassUnauthenticated, Refused

\* A request with a token goes on, unless it is for the WebSocket.
LEMMA AuthenticatedKeeps ==
    ASSUME RouteInv, NEW from \in {"header", "cookie"}, Authenticated(from)
    PROVE  RouteInv'
<1>. USE DEF Authenticated
<1>1. dest = Nowhere /\ dest'.to \in {"none", "console"}
      /\ dest'.cluster = NoCluster
  BY DEF RouteInv, Described, Nowhere
<1>2. dest'.to \notin Backends
  BY <1>1 DEF Backends, Services
<1>3. TypeOK'
  BY <1>1 DEF RouteInv, TypeOK, Clusters, Stage, Answers, info
<1>4. Untouched' /\ Read' /\ NotKubernetes' /\ Guarded' /\ Described'
  BY <1>2 DEF RouteInv, Untouched, Read, NotKubernetes, Guarded, Described,
              Unread, ReadBy, Answered, info
<1>5. Delivered'
  BY <1>1, <1>2 DEF Delivered, NoTokenNoBackend, ApiServerGetsTheRest,
                    StaysInCluster, OnlyAlertsStray,
                    PluginServedWhereDescribed, Backends
<1>. QED BY <1>3, <1>4, <1>5 DEF RouteInv

LEMMA ConsoleKeeps ==
    ASSUME RouteInv, HandleConsoleRequests
    PROVE  RouteInv'
<1>1. at = "console" /\ "console" \in Answers
  BY DEF HandleConsoleRequests, Answers
<1>. QED BY <1>1, PassKeeps, ReplyKeeps DEF HandleConsoleRequests

\* What the path is, and which cluster it names, is read once.
LEMMA BuildRequestInfoKeeps ==
    ASSUME RouteInv, BuildRequestInfo
    PROVE  RouteInv'
<1>1. /\ at = "info" /\ path = asked /\ asked \in Paths
      /\ ~proxied /\ dest = Nowhere
  BY DEF BuildRequestInfo, RouteInv, Untouched, Unread, Described
<1>2. /\ asked' = asked /\ token' = token /\ descriptor' = descriptor
      /\ karmada' = karmada /\ hosted' = hosted
  BY DEF BuildRequestInfo
<1>3. asked \in Seq(STRING)
  BY <1>1, PathFacts
<1>4. PICK q : q = IF namesCluster(asked) THEN extractCluster(asked) ELSE asked
  OBVIOUS
<1>5. q = InCluster(asked)
  BY <1>4 DEF InCluster, extractCluster, Drop
<1>6. /\ path' = TrimPrefix(q, kubePrefix)
      /\ isK8s' = hasK8sPrefix(IF HasPrefix(q, kubePrefix) THEN path' ELSE asked)
      /\ \/ at' = "done" /\ dest' = [Nowhere EXCEPT !.to = "error"]
         \/ at' = "apiserver" /\ dest' = dest
  BY <1>1, <1>4 DEF BuildRequestInfo
<1>7. path' = KubeRest(asked) /\ isK8s' = asksKube(asked)
  BY <1>5, <1>6 DEF KubeRest, asksKube
<1>8. /\ cluster' \in Clusters /\ proxied' \in BOOLEAN
      /\ proxied' => namesCluster(asked) /\ cluster' = splitPath(asked)[2]
  <2>1. CASE namesCluster(asked)
    <3>1. cluster' = splitPath(asked)[2] /\ (proxied' = karmada \/ proxied' = FALSE)
      BY <1>1, <2>1 DEF BuildRequestInfo
    <3>2. splitPath(asked)[2] \in STRING
      BY <1>3, <2>1, RestFacts
    <3>. QED BY <2>1, <3>1, <3>2 DEF Clusters, RouteInv, TypeOK
  <2>2. CASE ~namesCluster(asked)
    BY <1>1, <2>2 DEF BuildRequestInfo, RouteInv, TypeOK
  <2>. QED BY <2>1, <2>2
<1>9. path' \in Seq(STRING) /\ isK8s' \in BOOLEAN
  BY <1>3, <1>7, RestFacts DEF asksKube, hasK8sPrefix
<1>10. /\ at' \in {"done", "apiserver"}
       /\ at' # "done" => dest' = Nowhere
       /\ dest'.to \in {"none", "error"} /\ dest'.cluster = NoCluster
  BY <1>1, <1>6 DEF Nowhere
<1>11. TypeOK'
  BY <1>1, <1>2, <1>8, <1>9, <1>10 DEF RouteInv, TypeOK, Clusters, Stage, Answers
<1>12. dest'.to \notin Backends
  BY <1>10 DEF Backends, Services
<1>13. Untouched' /\ NotKubernetes' /\ Guarded' /\ Described'
  BY <1>1, <1>2, <1>10 DEF RouteInv, Untouched, NotKubernetes, Guarded,
                           Described, Unread, ReadBy
<1>14. Read'
  BY <1>2, <1>7, <1>8 DEF Read
<1>15. Delivered'
  BY <1>10, <1>12 DEF Delivered, NoTokenNoBackend, ApiServerGetsTheRest,
                      StaysInCluster, OnlyAlertsStray,
                      PluginServedWhereDescribed, Backends
<1>. QED BY <1>11, <1>13, <1>14, <1>15 DEF RouteInv

\* A proxied request names its cluster, which is not the service's own.
LEMMA TargetFacts ==
    ASSUME RouteInv, at \in ReadBy
    PROVE  /\ Target \in Clusters
           /\ proxied => cluster \in STRING /\ Target = cluster /\ cluster # Local
           /\ ~proxied => Target = Local
           /\ asked \in Paths /\ path \in Seq(STRING) /\ path \in Seq(Word)
<1>1. asked \in Paths /\ path \in Seq(STRING)
  BY DEF RouteInv, Untouched, TypeOK, ReadBy
<1>2. proxied => cluster \in STRING
  BY <1>1, PathFacts, RestFacts DEF RouteInv, Read
<1>. QED BY <1>1, <1>2, StringAssumption, WordFacts DEF Target, Clusters

\* A request that goes through Karmada stays in its cluster.
LEMMA ThroughStays ==
    ASSUME RouteInv, at \in ReadBy, NEW x \in Seq(Word),
           Target \notin {Local, NoCluster}, Target \notin Dots \union {Blank},
           \A i \in 1..Len(x) : x[i] \notin Dots
    PROVE  /\ SubSeq(Through(x), 1, 7) = MultiClusterProxyURL(Target)
           /\ Len(x) >= 2 /\ x[1] = Blank /\ x[2] # Blank =>
                 LET q == Drop(Through(x), 7)
                 IN  q \in Seq(Word) /\ Len(q) >= 1 /\ q[1] = x[2]
<1>1. proxied /\ Target = cluster /\ cluster \in Word
  BY TargetFacts, WordFacts
<1>2. Through(x) = Join(MultiClusterProxyURL(cluster), x)
  BY <1>1 DEF Through
<1>. QED BY <1>1, <1>2, JoinedToProxy, WordFacts

LEMMA ApiServerKeeps ==
    ASSUME RouteInv, ProxyAPIServer
    PROVE  RouteInv'
<1>. USE DEF ProxyAPIServer
<1>1. CASE isK8s
  <2>1. at = "apiserver" /\ Deliver("apiserver", Target, Rooted(Through(path)))
        /\ at \in ReadBy
    BY <1>1 DEF ReadBy
  <2>2. token # "none"
    <3>. SUFFICES ASSUME token = "none" PROVE FALSE
      OBVIOUS
    <3>1. isFavicon(asked) /\ asked \in Paths
      BY <2>1 DEF RouteInv, Guarded, Untouched
    <3>2. asksKube(asked)
      BY <1>1, <2>1 DEF RouteInv, Read
    <3>. QED BY <3>1, <3>2, FaviconIsNoOther
  <2>3. "apiserver" \in Backends /\ "apiserver" # "plugin"
    BY DEF Backends
  <2>4. ASSUME Target \notin {Local, NoCluster}, PlainPath(Target)
        PROVE  SubSeq(Rooted(Through(path)), 1, 7) = MultiClusterProxyURL(Target)
    <3>1. path \in Seq(Word) /\ proxied /\ cluster \in Word
      BY <2>1, <2>4, TargetFacts, WordFacts
    <3>2. \A i \in 1..Len(path) : path[i] \notin Dots
      BY <2>4, <3>1, LenProperties DEF PlainPath
    <3>3. SubSeq(Through(path), 1, 7) = MultiClusterProxyURL(Target)
      BY <2>1, <2>4, <3>1, <3>2, ThroughStays DEF PlainPath
    <3>4. Rooted(Through(path)) = Through(path)
      <4>1. Through(path) = Join(MultiClusterProxyURL(cluster), path)
        BY <3>1 DEF Through
      <4>2. MultiClusterProxyURL(cluster) \in Seq(Word)
        BY <3>1, ProxyURL, WordFacts
      <4>. QED BY <3>1, <4>1, <4>2, JoinFacts, WordFacts
    <3>. QED BY <3>3, <3>4
  <2>5. SentRight("apiserver", Target, Rooted(Through(path)))
    BY <1>1, <2>1, <2>2, <2>3, <2>4 DEF SentRight
  <2>6. Target \in Clusters
    BY <2>1, TargetFacts
  <2>. QED BY <2>1, <2>3, <2>5, <2>6, DeliverKeeps
<1>2. CASE ~isK8s
  BY <1>2, PassKeeps
<1>. QED BY <1>1, <1>2

\* Without a token, the request at the components and plugins is for an icon.
LEMMA TokenOrIcon ==
    ASSUME RouteInv, at \in {"component", "plugin"}, token = "none"
    PROVE  /\ ~isServiceRequest(path) /\ ~isOAuthRequest(path)
           /\ ~isPluginMjs(path) /\ ~isPluginBackend(path)
<1>1. isFavicon(asked) /\ asked \in Paths /\ path = KubeRest(asked)
  BY DEF RouteInv, Guarded, ReadBy, Untouched, Read
<1>. QED BY <1>1, FaviconIsNoOther

\* The path of a component's request, joined to that of its Service.
LEMMA ServicePathFacts ==
    ASSUME RouteInv, at \in ReadBy, NEW s \in Services
    PROVE  LET q == Join(convertToServiceProxyPath(s), servicePath(s))
           IN  /\ q \in Seq(Word) /\ Len(q) >= 2 /\ q[1] = Blank
               /\ \A i \in 1..Len(q) : q[i] \notin Dots
<1>1. convertToServiceProxyPath(s) \in Seq(Word)
  BY WordFacts DEF convertToServiceProxyPath
<1>2. servicePath(s) \in Seq(Word)
  <2>1. path \in Seq(STRING)
    BY TargetFacts
  <2>2. Len(<<Blank, "rest", "alert">>) \in Nat /\ Len(<<Blank, "rest", "alert">>) >= 1
    OBVIOUS
  <2>3. TrimPrefix(path, <<Blank, "rest", "alert">>) \in Seq(STRING)
    BY Zenon, <2>1, <2>2, TrimType
  <2>. QED BY <2>1, <2>3, WordFacts DEF servicePath
<1>. QED BY <1>1, <1>2, JoinFacts, WordFacts

\* Under a component's prefix there is no API, if nothing leaves it.
LEMMA NoApiUnderRest ==
    ASSUME RouteInv, at \in ReadBy, NEW s \in Services \ hosted, s # "alert",
           HasPrefix(path, ServicePrefix(s)), PlainPath(Target)
    PROVE  LET q == Through(Join(convertToServiceProxyPath(s), servicePath(s)))
           IN  ~hasK8sPrefix(IF Target = Local THEN q ELSE Drop(q, 7))
<1>1. PICK x : x = Join(convertToServiceProxyPath(s), servicePath(s))
  OBVIOUS
<1>2. x = Join(<<Blank>>, path)
  BY <1>1 DEF convertToServiceProxyPath, servicePath
<1>3. x \in Seq(Word) /\ Len(x) >= 2 /\ x[1] = Blank /\ \A i \in 1..Len(x) : x[i] \notin Dots
  BY <1>1, ServicePathFacts
<1>4. "rest" \notin {"api", "apis", Blank}
  BY Words DEF Names
<1>5. x[2] = "rest"
  <2>1. path[1] = Blank /\ path[2] = "rest" /\ Len(path) >= 4
    BY DEF HasPrefix, ServicePrefix
  <2>2. path \in Seq(Word) /\ Len(path) \in Nat /\ \A i \in 1..Len(path) : path[i] \notin Dots
    BY TargetFacts, LenProperties DEF PlainPath
  <2>. QED BY <1>2, <1>4, <2>1, <2>2, JoinedToSlash, WordFacts
<1>6. CASE Target = Local
  <2>1. Through(x) = x
    BY <1>6, TargetFacts DEF Through
  <2>2. splitPath(x)[1] = "rest"
    BY <1>3, <1>4, <1>5, FirstPart
  <2>. QED BY <1>1, <1>4, <1>6, <2>1, <2>2 DEF hasK8sPrefix
<1>7. CASE Target # Local
  <2>1. PICK q : q = Drop(Through(x), 7)
    OBVIOUS
  <2>2. Target # NoCluster
    BY <1>7, TargetFacts, StringAssumption
  <2>3. q \in Seq(Word) /\ Len(q) >= 1 /\ q[1] = "rest"
    BY <1>3, <1>4, <1>5, <1>7, <2>1, <2>2, ThroughStays DEF PlainPath
  <2>4. splitPath(q)[1] = "rest"
    BY <1>4, <2>3, FirstPart
  <2>. QED BY <1>1, <1>4, <1>7, <2>1, <2>4 DEF hasK8sPrefix
<1>. QED BY <1>6, <1>7

LEMMA ServiceKeeps ==
    ASSUME RouteInv, NEW s \in Services, ProxyByCluster(s)
    PROVE  RouteInv'
<1>1. at = "component" /\ HasPrefix(path, ServicePrefix(s)) /\ ~isK8s
      /\ at \in ReadBy
  BY DEF ProxyByCluster, RouteInv, NotKubernetes, ReadBy
<1>2. CASE Reply("badRequest")
  BY <1>1, <1>2, ReplyKeeps DEF Answers
<1>3. CASE Deliver(serviceProxied(s), Target,
                   Through(Join(convertToServiceProxyPath(s), servicePath(s))))
  <2>1. PICK q : q = Through(Join(convertToServiceProxyPath(s), servicePath(s)))
    OBVIOUS
  <2>2. /\ serviceProxied(s) \in Backends /\ serviceProxied(s) # "plugin"
        /\ serviceProxied(s) = "apiserver" => s \in Services \ hosted
    BY DEF serviceProxied, Backends, Services
  <2>3. token # "none"
    BY <1>1, TokenOrIcon DEF isServiceRequest
  <2>4. Target \in Clusters
    BY <1>1, TargetFacts
  <2>5. Target \notin {Local, NoCluster} /\ PlainPath(Target)
           => SubSeq(q, 1, 7) = MultiClusterProxyURL(Target)
    BY <1>1, <2>1, ServicePathFacts, ThroughStays DEF PlainPath
  <2>6. s \in Services \ hosted /\ s # "alert" /\ PlainPath(Target)
           => ~hasK8sPrefix(IF Target = Local THEN q ELSE Drop(q, 7))
    BY <1>1, <2>1, NoApiUnderRest
  <2>7. SentRight(serviceProxied(s), Target, q)
    BY <1>1, <2>2, <2>3, <2>5, <2>6 DEF SentRight
  <2>. QED BY <1>1, <1>3, <2>1, <2>2, <2>4, <2>7, DeliverKeeps
<1>. QED BY <1>2, <1>3 DEF ProxyByCluster

LEMMA OAuthKeeps ==
    ASSUME RouteInv, ProxyOAuth
    PROVE  RouteInv'
<1>. USE DEF ProxyOAuth
<1>1. at = "component" /\ isOAuthRequest(path)
  OBVIOUS
<1>2. CASE Reply("dropped")
  BY <1>1, <1>2, ReplyKeeps DEF Answers
<1>3. CASE ~Reply("dropped")
  <2>1. PICK q : Deliver("oauth", Local, q)
    BY <1>3
  <2>2. token # "none"
    BY <1>1, TokenOrIcon
  <2>3. Local \in Clusters /\ "oauth" \in Backends
        /\ "oauth" # "apiserver" /\ "oauth" # "plugin"
    BY DEF Clusters, Backends
  <2>4. SentRight("oauth", Local, q)
    BY <1>1, <2>2, <2>3 DEF SentRight, ReadBy
  <2>. QED BY <1>1, <2>1, <2>3, <2>4, DeliverKeeps
<1>. QED BY <1>2, <1>3

LEMMA PluginKeeps ==
    ASSUME RouteInv,
           \/ NoComponent \/ ProxyStatic \/ PluginNotNamed
           \/ ProxyPlugin \/ NoDescriptor
    PROVE  RouteInv'
<1>1. CASE NoComponent
  BY <1>1, PassKeeps DEF NoComponent
<1>2. CASE ProxyStatic
  <2>1. at = "plugin" /\ Deliver("website", Local, Rooted(path))
    BY <1>2 DEF ProxyStatic
  <2>2. Local \in Clusters /\ "website" \in Backends
        /\ "website" # "apiserver" /\ "website" # "plugin"
    BY DEF Clusters, Backends
  <2>3. SentRight("website", Local, Rooted(path))
    BY <2>1, <2>2 DEF SentRight, ReadBy
  <2>. QED BY <2>1, <2>2, <2>3, DeliverKeeps
<1>3. CASE PluginNotNamed
  BY <1>3, ReplyKeeps DEF PluginNotNamed, Answers
<1>4. CASE ProxyPlugin
  <2>1. PICK prefix \in PluginPrefixes :
           at = "descriptor" /\ Deliver("plugin", Target,
                                        Through(Join(prefix, pluginPath)))
    BY <1>4 DEF ProxyPlugin
  <2>2. token # "none" /\ descriptor = Target /\ at \in ReadBy
    BY <2>1 DEF RouteInv, Guarded, Described, ReadBy
  <2>3. "plugin" \in Backends /\ "plugin" # "apiserver"
    BY DEF Backends
  <2>4. pluginPath \in Seq(STRING)
    <3>1. Len(<<Blank, "proxy", pluginName(path)>>) \in Nat
          /\ Len(<<Blank, "proxy", pluginName(path)>>) >= 1
      OBVIOUS
    <3>2. path \in Seq(STRING)
      BY <2>2, TargetFacts
    <3>3. TrimPrefix(path, <<Blank, "proxy", pluginName(path)>>) \in Seq(STRING)
      BY Zenon, <3>1, <3>2, TrimType
    <3>. QED BY <3>2, <3>3 DEF pluginPath
  <2>5. PICK x : x = Join(prefix, pluginPath)
    OBVIOUS
  <2>6. x \in Seq(Word) /\ \A i \in 1..Len(x) : x[i] \notin Dots
    BY <2>4, <2>5, PathFacts, JoinFacts, WordFacts
  <2>7. Target \notin {Local, NoCluster} /\ PlainPath(Target)
           => SubSeq(Through(x), 1, 7) = MultiClusterProxyURL(Target)
    BY <2>2, <2>6, ThroughStays DEF PlainPath
  <2>8. SentRight("plugin", Target, Through(x))
    BY <2>2, <2>3, <2>7 DEF SentRight
  <2>9. Target \in Clusters
    BY <2>2, TargetFacts
  <2>. QED BY <2>1, <2>3, <2>5, <2>8, <2>9, DeliverKeeps
<1>5. CASE NoDescriptor
  BY <1>5, ReplyKeeps DEF NoDescriptor, Answers
<1>. QED BY <1>1, <1>2, <1>3, <1>4, <1>5

\* The cluster that is asked for the descriptor is the one the request is for
\* by then: multicluster is turned back to the host cluster first.
LEMMA AskDescriptorKeeps ==
    ASSUME RouteInv, AskDescriptor
    PROVE  RouteInv'
<1>. USE DEF AskDescriptor
<1>1. /\ at = "plugin" /\ at' = "descriptor" /\ asked' = asked /\ path' = path
      /\ token' = token /\ isK8s' = isK8s /\ dest' = dest
      /\ karmada' = karmada /\ hosted' = hosted /\ dest = Nowhere
  BY DEF RouteInv, Described
<1>2. token # "none"
  BY <1>1, TokenOrIcon
<1>3. /\ cluster' \in Clusters /\ proxied' \in BOOLEAN
      /\ descriptor' \in Clusters /\ descriptor' = Target'
      /\ proxied' => proxied /\ cluster' = cluster
  <2>1. CASE pluginName(path) = "multicluster"
    BY <2>1 DEF SetSingleCluster, describedBy, Target, Clusters
  <2>2. CASE pluginName(path) # "multicluster"
    BY <2>2 DEF describedBy, Target, Clusters, RouteInv, TypeOK
  <2>. QED BY <2>1, <2>2
<1>4. ~Answered /\ ~Answered'
  BY <1>1 DEF Answered, Nowhere, Backends, Services
<1>5. TypeOK'
  BY <1>1, <1>3 DEF RouteInv, TypeOK, Clusters, Stage
<1>6. Untouched' /\ NotKubernetes' /\ Guarded' /\ Described'
  BY <1>1, <1>2, <1>3 DEF RouteInv, Untouched, NotKubernetes, Guarded,
                          Described, Unread, ReadBy
<1>7. Read'
  BY <1>1, <1>3 DEF RouteInv, Read, ReadBy
<1>8. Delivered'
  <2>1. dest'.to \notin Backends /\ dest'.cluster = NoCluster
    BY <1>1, <1>4 DEF Answered, Nowhere
  <2>. QED BY <2>1 DEF Delivered, NoTokenNoBackend, ApiServerGetsTheRest,
                       StaysInCluster, OnlyAlertsStray,
                       PluginServedWhereDescribed, Backends
<1>. QED BY <1>5, <1>6, <1>7, <1>8 DEF RouteInv

LEMMA FinishKeeps ==
    ASSUME RouteInv, Finish
    PROVE  RouteInv'
<1>. USE DEF Finish
<1>1. ~Answered' /\ dest' = Nowhere
  BY DEF Answered, Nowhere, Backends, Services
<1>2. <<>> \in Seq(STRING) /\ "none" \in Answers
  BY DEF Answers
<1>3. TypeOK'
  BY <1>2 DEF RouteInv, TypeOK, Clusters, Stage, Nowhere
<1>4. Untouched' /\ Read' /\ NotKubernetes' /\ Guarded' /\ Described'
  BY <1>1 DEF RouteInv, Untouched, Read, NotKubernetes, Guarded, Described,
              Unread, ReadBy
<1>5. Delivered'
  <2>1. dest'.to \notin Backends /\ dest'.cluster = NoCluster
    BY <1>1 DEF Answered, Nowhere
  <2>. QED BY <2>1 DEF Delivered, NoTokenNoBackend, ApiServerGetsTheRest,
                       StaysInCluster, OnlyAlertsStray,
                       PluginServedWhereDescribed, Backends
<1>. QED BY <1>1, <1>3, <1>4, <1>5 DEF RouteInv

\* Karmada may come and go: no request that was read is read again.
LEMMA KarmadaKeeps ==
    ASSUME RouteInv, InstallKarmada \/ UNCHANGED vars
    PROVE  RouteInv'
<1>1. /\ at' = at /\ asked' = asked /\ path' = path /\ token' = token
      /\ cluster' = cluster /\ proxied' = proxied /\ isK8s' = isK8s
      /\ descriptor' = descriptor /\ dest' = dest /\ hosted' = hosted
  BY DEF InstallKarmada, vars, info
<1>2. karmada' \in BOOLEAN
  BY DEF InstallKarmada, vars, RouteInv, TypeOK
<1>3. TypeOK'
  BY <1>1, <1>2 DEF RouteInv, TypeOK, Clusters
<1>4. Untouched' /\ Read' /\ NotKubernetes' /\ Guarded' /\ Described'
  BY <1>1 DEF RouteInv, Untouched, Read, NotKubernetes, Guarded, Described,
              Answered, Target
<1>5. Delivered'
  BY <1>1 DEF RouteInv, Delivered, NoTokenNoBackend, ApiServerGetsTheRest,
              StaysInCluster, Plain, OnlyAlertsStray, atServer,
              PluginServedWhereDescribed
<1>. QED BY <1>3, <1>4, <1>5 DEF RouteInv

-----------------------------------------------------------------------------
(* The theorems.                                                           *)

LEMMA InitRouteInv == Init => RouteInv
<1>. SUFFICES ASSUME Init PROVE RouteInv
  OBVIOUS
<1>. USE DEF Init
<1>1. ~Answered /\ dest = Nowhere /\ <<>> \in Seq(STRING) /\ "none" \in Answers
  BY DEF Answered, Answers, Nowhere, Backends, Services
<1>2. TypeOK
  <2>1. hosted \subseteq Components /\ karmada \in BOOLEAN
    BY HostsAssumption
  <2>2. /\ at = "idle" /\ asked = <<>> /\ path = <<>> /\ token = "none"
        /\ cluster = NoCluster /\ proxied = FALSE /\ isK8s = FALSE
        /\ descriptor = NoCluster
        /\ dest.to = "none" /\ dest.cluster = NoCluster
    BY DEF Nowhere
  <2>. QED BY <1>1, <2>1, <2>2 DEF TypeOK, Clusters, Stage
<1>3. Untouched /\ Read /\ NotKubernetes /\ Guarded /\ Described
  BY <1>1 DEF Untouched, Read, NotKubernetes, Guarded, Described,
              Unread, ReadBy
<1>4. Delivered
  BY <1>1 DEF Delivered, NoTokenNoBackend, ApiServerGetsTheRest,
              StaysInCluster, OnlyAlertsStray,
              PluginServedWhereDescribed, Backends, Answered, Nowhere
<1>. QED BY <1>2, <1>3, <1>4 DEF RouteInv

LEMMA StepRouteInv == RouteInv /\ [Next]_vars => RouteInv'
<1>. SUFFICES ASSUME RouteInv, [Next]_vars PROVE RouteInv'
  OBVIOUS
<1>1. ASSUME NEW q \in Paths, Arrive(q) PROVE RouteInv'
  BY <1>1, ArriveKeeps
<1>2. ASSUME NEW from \in {"header", "cookie"}, Authenticated(from)
      PROVE RouteInv'
  BY <1>2, AuthenticatedKeeps
<1>3. ASSUME NEW s \in Services, ProxyByCluster(s) PROVE RouteInv'
  BY <1>3, ServiceKeeps
<1>4. CASE PassUnauthenticated \/ Refused
  BY <1>4, UnauthenticatedKeep
<1>5. CASE HandleConsoleRequests
  BY <1>5, ConsoleKeeps
<1>6. CASE BuildRequestInfo
  BY <1>6, BuildRequestInfoKeeps
<1>7. CASE ProxyAPIServer
  BY <1>7, ApiServerKeeps
<1>8. CASE ProxyOAuth
  BY <1>8, OAuthKeeps
<1>9. CASE NoComponent \/ ProxyStatic \/ PluginNotNamed \/ ProxyPlugin
           \/ NoDescriptor
  BY <1>9, PluginKeeps
<1>10. CASE AskDescriptor
  BY <1>10, AskDescriptorKeeps
<1>11. CASE Finish
  BY <1>11, FinishKeeps
<1>12. CASE InstallKarmada \/ UNCHANGED vars
  BY <1>12, KarmadaKeeps
<1>. QED BY <1>1, <1>2, <1>3, <1>4, <1>5, <1>6, <1>7, <1>8, <1>9, <1>10,
            <1>11, <1>12 DEF Next

LEMMA SpecRouteInv == Spec => []RouteInv
<1>. QED BY InitRouteInv, StepRouteInv, PTL DEF Spec

\* Whatever path is asked for, the filters only make paths of it, and only
\* answer in the ways and for the clusters there are.
THEOREM RequestTypes == Spec => []TypeOK
<1>1. RouteInv => TypeOK
  BY DEF RouteInv
<1>. QED BY <1>1, SpecRouteInv, PTL

\* A request that CheckRequestAuth let pass without a token reaches no backend
\* but the website, whatever its path: the path it was let pass for is that of
\* no other backend, and BuildRequestInfo makes no other path of it.
THEOREM Unauthenticated == Spec => []NoTokenNoBackend
<1>1. RouteInv => NoTokenNoBackend
  BY DEF RouteInv, Delivered
<1>. QED BY <1>1, SpecRouteInv, PTL

\* The Kubernetes API gets exactly what is behind the prefixes of a request, as
\* path.Join leaves it, from the cluster the request names, and gets every
\* request that has it behind them.
THEOREM Rewrites == Spec => []ApiServerGetsTheRest
<1>1. RouteInv => ApiServerGetsTheRest
  BY DEF RouteInv, Delivered
<1>. QED BY <1>1, SpecRouteInv, PTL

\* What is sent through Karmada is sent to the proxy of its cluster, if no part
\* of the path is "." or "..": of the plugins and components, whose paths were
\* joined before, path.Join leaves no such part in any case.
THEOREM KeptInCluster == Spec => []StaysInCluster
<1>1. RouteInv => StaysInCluster
  BY DEF RouteInv, Delivered
<1>. QED BY <1>1, SpecRouteInv, PTL

\* A component without a host is asked for at the API server: of plain paths,
\* only an alert's arrives there as a request of the API.
THEOREM Strays == Spec => []OnlyAlertsStray
<1>1. RouteInv => OnlyAlertsStray
  BY DEF RouteInv, Delivered
<1>. QED BY <1>1, SpecRouteInv, PTL

\* A plugin is asked for in the cluster its descriptor was read from.
THEOREM ServedWhereDescribed == Spec => []PluginServedWhereDescribed
<1>1. RouteInv => PluginServedWhereDescribed
  BY DEF RouteInv, Delivered
<1>. QED BY <1>1, SpecRouteInv, PTL

=============================================================================
