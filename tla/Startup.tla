------------------------------- MODULE Startup -------------------------------
(***************************************************************************)
(* The start of console-service, from the logger to the listening server,  *)
(* and its restarts.                                                       *)
(*                                                                         *)
(* The process looks at its surroundings once, in many places: the         *)
(* certificate files, the access to Kubernetes, and the configuration,     *)
(* which four parts of the service read for themselves, each with its own  *)
(* fallback.  What a part finds it keeps until the process ends.  When the *)
(* process exits the kubelet starts it again.                              *)
(***************************************************************************)
EXTENDS LogReload

CONSTANTS
    NoPart,          \* a part that is not made
    Fallback,        \* a part replaced by what comes after it
    Failed           \* no configuration can be read

\* A console-service configuration, told by its insecure-skip-verify: "skip"
\* for "true", "verify" for anything else.
Config == {"skip", "verify"}

\* The certificate files are not there; not to be looked at; there but not
\* all, or not to be loaded; there.
Cert == {"absent", "denied", "incomplete", "complete"}

\* No configuration to reach Kubernetes with; one no client can be made of;
\* one with an address for a server, which client-go completes to a URL (as
\* 10.0.0.1:6443); one with a URL.
Kube == {"none", "unusable", "address", "usable"}

Stage == {"log", "server", "kube", "load", "clients", "handler", "static",
          "plugin", "component", "apiserver", "info", "checker", "listen",
          "listening", "exited"}

VARIABLES
    cert, kube,          \* the surroundings of the container
    credentials,         \* OAUTH_CLIENT_ID and OAUTH_CLIENT_SECRET are set
    configMap,           \* the config map in the cluster
    mounted,             \* its mounted copy, or Failed
    stage,               \* what the process does next
    listener,            \* "tls" or "plain"
    handler,             \* handlerInstance, made in NewHandler
    static, component,   \* the proxies to the website and to the components
    plugin, apiserver,   \* the filters of the console plugins, of Kubernetes
    info,                \* and of the request information
    checker,             \* the authentication filter
    calm                 \* the environment is good from now on

environment == <<cert, kube, credentials, configMap, mounted>>
parts       == <<handler, static, plugin, component, apiserver, info, checker>>
process     == <<stage, listener, parts>>
vars        == <<logVars, environment, process, calm>>

\* A proxy: its host is configured, or built in, or missing.
Proxy == [host : {"configured", "default", "none"},
          transport : {"verify", "skip", "nil"}]

ASSUME PartAssumption ==
    /\ {NoPart, Fallback} \cap {"made", "hostless", "tls", "plain"} = {}
    /\ \A p \in Proxy : p # NoPart /\ p # Fallback
    /\ Failed \notin Config

\* Type invariant.
TypeOK ==
    /\ LogTypeOK
    /\ cert \in Cert
    /\ kube \in Kube
    /\ credentials \in BOOLEAN
    /\ configMap \in Config
    /\ mounted \in Config \union {Failed}
    /\ stage \in Stage
    /\ listener \in {"tls", "plain", NoPart}
    /\ handler \in {"made", "hostless", NoPart}
    /\ static \in Proxy \union {Fallback, NoPart}
    /\ component \in Proxy \union {Fallback, NoPart}
    /\ apiserver \in {"made", "hostless", Fallback, NoPart}
    /\ {plugin, info, checker} \subseteq {"made", Fallback, NoPart}
    /\ calm \in BOOLEAN

NoProcess ==
    /\ listener = NoPart
    /\ handler = NoPart
    /\ static = NoPart
    /\ plugin = NoPart
    /\ component = NoPart
    /\ apiserver = NoPart
    /\ info = NoPart
    /\ checker = NoPart

Init ==
    /\ LogInit
    /\ cert \in Cert
    /\ kube \in Kube
    /\ credentials \in BOOLEAN
    /\ configMap \in Config
    /\ mounted \in {configMap, Failed}
    /\ stage = "log"
    /\ NoProcess
    /\ calm = FALSE

-----------------------------------------------------------------------------
(* What the parts have in common.                                          *)

Goto(s) == stage' = s

\* os.Exit, or a panic in the main goroutine.
Exit ==
    /\ stage' = "exited"
    /\ listener' = NoPart
    /\ handler' = NoPart
    /\ static' = NoPart
    /\ plugin' = NoPart
    /\ component' = NoPart
    /\ apiserver' = NoPart
    /\ info' = NoPart
    /\ checker' = NoPart

\* GetConsoleServiceConfig: the config map; if it cannot be read, its mounted
\* copy, which may be an older one or not be there.
ConfigRead == {configMap, mounted}

\* GetHttpTransport.  The error of a transport that verifies without the
\* certificate files is logged; the nil pointer it comes with is used.
Transport(c) == IF c = "verify" /\ cert # "complete" THEN "nil" ELSE c

\* A proxy made from configuration c, or without one.
MakeProxy(c, default) ==
    IF c = Failed THEN [host |-> default, transport |-> Transport("skip")]
                  ELSE [host |-> "configured", transport |-> Transport(c)]

\* NewForConfig of client-go: whether there is a client depends on the
\* configuration alone.
ClientMade == kube \in {"address", "usable"}

\* A filter whose client alone can fail.
MakeFilter == IF ClientMade THEN "made" ELSE Fallback

-----------------------------------------------------------------------------
(* The stages of the start.                                                *)

\* The initialisation of the logger comes before main.
InitLog ==
    /\ stage = "log"
    /\ \/ LogSteps /\ UNCHANGED stage
       \/ LogReady /\ Goto("server") /\ UNCHANGED logVars
    /\ UNCHANGED <<environment, listener, parts, calm>>

\* Mutant of NewServerConfig: a certificate that is denied counts as absent.
NewServerConfigLax ==
    /\ stage = "server"
    /\ listener' = IF cert \in {"absent", "denied"} THEN "plain" ELSE "tls"
    /\ Goto("kube")
    /\ UNCHANGED <<logVars, environment, parts, calm>>

\* NewServerConfig: without a certificate the server is a plain one.  With
\* one it may not look at, it returns nil, and Validate dereferences it.
NewServerConfig ==
    /\ stage = "server"
    /\ \/ /\ cert = "denied"
          /\ Exit
       \/ /\ cert # "denied"
          /\ listener' = IF cert = "absent" THEN "plain" ELSE "tls"
          /\ Goto("kube")
          /\ UNCHANGED parts
    /\ UNCHANGED <<logVars, environment, calm>>

\* NewKubernetesCfg: the configuration of the pod, or that of the home
\* directory, or none.
NewKubernetesCfg ==
    /\ stage = "kube"
    /\ \/ kube = "none" /\ Exit
       \/ kube # "none" /\ Goto("load") /\ UNCHANGED <<listener, parts>>
    /\ UNCHANGED <<logVars, environment, calm>>

\* Validate and initServer: the key pair and the CA are loaded.
LoadCertificate ==
    /\ stage = "load"
    /\ \/ cert = "incomplete" /\ Exit
       \/ /\ cert # "incomplete"
          /\ Goto("clients")
          /\ UNCHANGED <<listener, parts>>
    /\ UNCHANGED <<logVars, environment, calm>>

\* Mutant of NewKubernetesClient: the errors of NewForConfig are dropped.
NewKubernetesClientLax ==
    /\ stage = "clients"
    /\ Goto("handler")
    /\ UNCHANGED <<logVars, environment, listener, parts, calm>>

\* NewKubernetesClient: the process ends if a client cannot be made.
NewKubernetesClient ==
    /\ stage = "clients"
    /\ \/ ~ClientMade /\ Exit
       \/ ClientMade /\ Goto("handler") /\ UNCHANGED <<listener, parts>>
    /\ UNCHANGED <<logVars, environment, calm>>

\* Mutants of RegisterAPI: a configuration that cannot be read ends the only
\* attempt to make the handler, or the process.
RegisterAPIStrict ==
    /\ stage = "handler"
    /\ \E c \in ConfigRead :
         handler' = IF ClientMade /\ credentials /\ c # Failed
                    THEN "made" ELSE NoPart
    /\ Goto("static")
    /\ UNCHANGED <<logVars, environment, listener, static, plugin, component,
                   apiserver, info, checker, calm>>

RegisterAPIMust ==
    /\ stage = "handler"
    /\ \E c \in ConfigRead :
         \/ c = Failed /\ Exit
         \/ /\ c # Failed
            /\ handler' = "made"
            /\ Goto("static")
            /\ UNCHANGED <<listener, static, plugin, component, apiserver, info,
                           checker>>
    /\ UNCHANGED <<logVars, environment, calm>>

\* registerAPI, and NewHandler the first and only time: without credentials
\* there is no handler, and no error either, so the start goes on.  Without
\* a configuration the handler has no OAuth server to redeem codes at.
RegisterAPI ==
    /\ stage = "handler"
    /\ \/ /\ ClientMade /\ credentials
          /\ \E c \in ConfigRead :
               handler' = IF c = Failed THEN "hostless" ELSE "made"
       \/ ~(ClientMade /\ credentials) /\ handler' = NoPart
    /\ Goto("static")
    /\ UNCHANGED <<logVars, environment, listener, static, plugin, component,
                   apiserver, info, checker, calm>>

\* ProxyStatic: a proxy to the website, whose host has a default only for
\* the case that no configuration can be read.
ProxyStatic ==
    /\ stage = "static"
    /\ \/ ~ClientMade /\ static' = Fallback
       \/ ClientMade /\ \E c \in ConfigRead : static' = MakeProxy(c, "default")
    /\ Goto("plugin")
    /\ UNCHANGED <<logVars, environment, listener, handler, plugin, component,
                   apiserver, info, checker, calm>>

\* ProxyConsolePlugin: its proxies have fixed hosts.
ProxyConsolePlugin ==
    /\ stage = "plugin"
    /\ plugin' = MakeFilter
    /\ Goto("component")
    /\ UNCHANGED <<logVars, environment, listener, handler, static, component,
                   apiserver, info, checker, calm>>

\* ProxyComponentRequest: here nothing has a default.
ProxyComponentRequest ==
    /\ stage = "component"
    /\ \/ ~ClientMade /\ component' = Fallback
       \/ ClientMade /\ \E c \in ConfigRead : component' = MakeProxy(c, "none")
    /\ Goto("apiserver")
    /\ UNCHANGED <<logVars, environment, listener, handler, static, plugin,
                   apiserver, info, checker, calm>>

\* ProxyAPIServer: it parses the address of the server by itself, without
\* completing it.  If that fails the filter is left out; if it succeeds the
\* result may have no host.
ProxyAPIServer ==
    /\ stage = "apiserver"
    /\ apiserver' \in {"made", "hostless", Fallback}
    /\ kube = "usable" => apiserver' = "made"
    /\ kube = "address" => apiserver' # "made"
    /\ Goto("info")
    /\ UNCHANGED <<logVars, environment, listener, handler, static, plugin,
                   component, info, checker, calm>>

\* BuildRequestInfo: its fallback would look up clusters without a client.
BuildRequestInfo ==
    /\ stage = "info"
    /\ info' = MakeFilter
    /\ Goto("checker")
    /\ UNCHANGED <<logVars, environment, listener, handler, static, plugin,
                   component, apiserver, checker, calm>>

\* CheckRequestAuth: NewHandler gives what it gave before.  The fallback would
\* pass the requests of the login past the handlers of the login.
CheckRequestAuth ==
    /\ stage = "checker"
    /\ checker' = MakeFilter
    /\ Goto("listen")
    /\ UNCHANGED <<logVars, environment, listener, handler, static, plugin,
                   component, apiserver, info, calm>>

\* ListenAndServe, with TLS if the certificate is loaded.
Listen ==
    /\ stage = "listen"
    /\ Goto("listening")
    /\ UNCHANGED <<logVars, environment, listener, parts, calm>>

\* The watcher of the log configuration, beside all this.
WatchLog ==
    /\ stage # "exited"
    /\ WatcherSteps
    /\ UNCHANGED <<environment, process, calm>>

WatchLogPanics ==
    /\ stage # "exited"
    /\ HookPanics
    /\ Exit
    /\ UNCHANGED <<logVars, environment, calm>>

-----------------------------------------------------------------------------
(* The environment.                                                        *)

\* The process is killed, or cannot listen.
Kill ==
    /\ ~calm
    /\ stage # "exited"
    /\ Exit
    /\ UNCHANGED <<logVars, environment, calm>>

\* The kubelet starts the container again.  A certificate is mounted by
\* subPath: the container keeps the files it began with.
Restart ==
    /\ stage = "exited"
    /\ Goto("log")
    /\ LogReset
    /\ UNCHANGED <<environment, listener, parts, calm>>

\* What a container finds is changed while there is none.
Redeploy ==
    /\ ~calm
    /\ stage = "exited"
    /\ cert' \in Cert
    /\ kube' \in Kube
    /\ credentials' \in BOOLEAN
    /\ UNCHANGED <<logVars, configMap, mounted, process, calm>>

\* The config map is edited, and later its mounted copy follows.
EditConfigMap ==
    /\ ~calm
    /\ configMap' \in Config \ {configMap}
    /\ UNCHANGED <<logVars, cert, kube, credentials, mounted, process, calm>>

SyncMounted ==
    /\ mounted \notin {Failed, configMap}
    /\ mounted' = configMap
    /\ UNCHANGED <<logVars, cert, kube, credentials, configMap, process, calm>>

EditLog ==
    /\ ~calm
    /\ EditLogFile \/ RemoveLogFile
    /\ UNCHANGED <<environment, process, calm>>

\* From now on nobody edits or kills, and a container finds what it needs.
\* (The config map may still not be readable.)
Calm ==
    /\ ~calm
    /\ cert \in {"absent", "complete"}
    /\ ClientMade
    /\ calm' = TRUE
    /\ UNCHANGED <<logVars, environment, process>>

StartSteps ==
    \/ InitLog \/ NewServerConfig \/ NewKubernetesCfg \/ LoadCertificate
    \/ NewKubernetesClient \/ RegisterAPI \/ ProxyStatic
    \/ ProxyConsolePlugin \/ ProxyComponentRequest \/ ProxyAPIServer
    \/ BuildRequestInfo \/ CheckRequestAuth \/ Listen \/ Restart

Next ==
    \/ StartSteps \/ WatchLog \/ WatchLogPanics
    \/ Kill \/ Redeploy \/ EditConfigMap \/ SyncMounted \/ EditLog \/ Calm

Spec == Init /\ [][Next]_vars

\* The main goroutine runs, calls return, and the kubelet restarts.
FairSpec == Spec /\ WF_vars(StartSteps)

-----------------------------------------------------------------------------
(* Properties.                                                             *)

Listening == stage = "listening"

\* A service that listens has its whole chain of filters, provided that the
\* server of Kubernetes is given as a URL: NewServer has made sure that the
\* clients can be made which each filter makes for itself, so that their
\* fallbacks, which leave out a filter or its client, are not taken.  Where it
\* is given as an address, the filter of Kubernetes, and it alone, may be left
\* out or lead nowhere.
ChainComplete ==
    Listening => /\ {static, component} \cap {Fallback, NoPart} = {}
                 /\ {plugin, info, checker} = {"made"}
                 /\ apiserver = "made" \/ kube = "address"

\* Where there is a certificate, also one that is denied or damaged, nothing
\* is served without TLS.
SecureWithCertificate == Listening /\ cert # "absent" => listener = "tls"

\* NewHandler is called once and for all: whatever could be read of the
\* configuration at that moment, with credentials there is a handler.
LoginReady == Listening /\ credentials => handler # NoPart

\* Once the surroundings are good the service comes up, whatever it and its
\* watcher of the log configuration were at, and read of the configuration
\* or not.
ComesUp == calm ~> Listening

\* proxystatic.go and proxycomponentrequest.go, when a transport for https
\* cannot be made: "use http".
HttpFallback ==
    Listening => \A p \in {static, component} : p.transport # "nil"
=============================================================================
