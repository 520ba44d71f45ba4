---------------------------- MODULE StartupProofs ----------------------------
(***************************************************************************)
(* Theorems about Startup, for every set of log configurations.            *)
(*                                                                         *)
(* What a stage of the start found out still holds when the service        *)
(* listens: certificates, credentials and the access to Kubernetes change  *)
(* only while there is no process, and a panic or a kill takes all back.   *)
(***************************************************************************)
EXTENDS Startup, TLAPS

AfterServer    == Stage \ {"log", "server", "exited"}
AfterClients   == {"handler", "static", "plugin", "component", "apiserver",
                   "info", "checker", "listen", "listening"}
AfterHandler   == AfterClients \ {"handler"}
AfterStatic    == AfterHandler \ {"static"}
AfterPlugin    == AfterStatic \ {"plugin"}
AfterComponent == AfterPlugin \ {"component"}
AfterAPIServer == AfterComponent \ {"apiserver"}
AfterInfo      == AfterAPIServer \ {"info"}
AfterChecker   == {"listen", "listening"}

\* What is made, at each stage.
MadeSoFar ==
    /\ stage \in AfterServer /\ cert # "absent" => listener = "tls"
    /\ stage \in AfterClients => ClientMade
    /\ stage \in AfterHandler /\ credentials => handler # NoPart
    /\ stage \in AfterStatic => static \in Proxy
    /\ stage \in AfterPlugin => plugin = "made"
    /\ stage \in AfterComponent => component \in Proxy
    /\ stage \in AfterAPIServer => apiserver = "made" \/ kube = "address"
    /\ stage \in AfterInfo => info = "made"
    /\ stage \in AfterChecker => checker = "made"

\* The logger, its configuration and its watcher.
LogInv ==
    /\ logger # NoLog => LogReady
    /\ changed => watcher \in {"on", "removed"}
    /\ watcher # "off" => logStage \in {"watched", "hooked", "done"}
    /\ hookConf # NoLog => logStage = "done"
    /\ edited => LogReady
    /\ logStage = "done" /\ edited /\ watcher = "on" /\ ~changed
          => \/ hookConf = logFile
             \/ /\ hookConf = NoLog
                /\ logger = logFile \/ logFile \notin LogConfig

\* The types these two need.
LogTypes ==
    /\ logFile \in LogFile
    /\ confRead \in LogConfig \union {NoLog}

StartInv == LogTypes /\ MadeSoFar /\ LogInv

-----------------------------------------------------------------------------
(* The logger.                                                             *)

\* The steps of the initialisation of the logger keep its invariant.
LEMMA LogStepsKeep ==
    ASSUME LogTypes, LogInv, LogSteps
    PROVE  LogTypes' /\ LogInv'
<1>. USE LogAssumption DEF LogTypes, LogInv, LogReady, LogFile
<1>1. CASE LoadLogConfig
  BY <1>1 DEF LoadLogConfig
<1>2. CASE WatchLogConfig
  BY <1>2 DEF WatchLogConfig
<1>3. CASE SetLogger
  BY <1>3 DEF SetLogger
<1>. QED BY <1>1, <1>2, <1>3 DEF LogSteps

\* So do those of the watcher.
LEMMA WatcherStepsKeep ==
    ASSUME LogTypes, LogInv, WatcherSteps
    PROVE  LogTypes' /\ LogInv'
<1>. USE LogAssumption DEF LogTypes, LogInv, LogReady, LogFile
<1>1. CASE HookReads
  BY <1>1 DEF HookReads
<1>2. CASE HookSets
  BY <1>2 DEF HookSets
<1>3. CASE HandleRemoval
  BY <1>3 DEF HandleRemoval
<1>. QED BY <1>1, <1>2, <1>3 DEF WatcherSteps

\* So do an edit or a removal of the file and the end of the process.
LEMMA LogEnvironmentKeeps ==
    ASSUME LogTypes, LogInv, EditLogFile \/ RemoveLogFile \/ LogReset
    PROVE  LogTypes' /\ LogInv'
<1>. USE LogAssumption DEF LogTypes, LogInv, LogReady, LogFile
<1>1. CASE EditLogFile
  BY <1>1 DEF EditLogFile, logProcess
<1>2. CASE LogReset
  BY <1>2 DEF LogReset
<1>3. CASE RemoveLogFile
  BY <1>3 DEF RemoveLogFile, logProcess
<1>. QED BY <1>1, <1>2, <1>3

\* And whatever does not touch the logger.
LEMMA LogStutters ==
    ASSUME LogTypes, LogInv, UNCHANGED logVars
    PROVE  LogTypes' /\ LogInv'
BY DEF LogTypes, LogInv, LogReady, logVars

-----------------------------------------------------------------------------
(* The stages.                                                             *)

LEMMA ProxyMade ==
    ASSUME NEW c \in Config \union {Failed}, NEW d \in {"default", "none"}
    PROVE  MakeProxy(c, d) \in Proxy
BY DEF MakeProxy, Transport, Proxy, Config

\* Each step of the start keeps what the steps before it made.
LEMMA StartStepsKeep ==
    ASSUME TypeOK, MadeSoFar, StartSteps
    PROVE  MadeSoFar'
<1>. USE PartAssumption
     DEF MadeSoFar, AfterServer, AfterClients, AfterHandler, AfterStatic,
         AfterPlugin, AfterComponent, AfterAPIServer, AfterInfo, AfterChecker, Stage, Goto,
         ClientMade, environment, parts
<1>1. CASE InitLog
  BY <1>1 DEF InitLog
<1>2. CASE NewServerConfig
  BY <1>2 DEF NewServerConfig, Exit
<1>3. CASE NewKubernetesCfg
  BY <1>3 DEF NewKubernetesCfg, Exit
<1>4. CASE LoadCertificate
  BY <1>4 DEF LoadCertificate, Exit
<1>5. CASE NewKubernetesClient
  BY <1>5 DEF NewKubernetesClient, Exit
<1>6. CASE RegisterAPI
  BY <1>6 DEF RegisterAPI
<1>7. CASE ProxyStatic
  <2>1. PICK c \in ConfigRead : static' = MakeProxy(c, "default")
    BY <1>7 DEF ProxyStatic
  <2>2. c \in Config \union {Failed}
    BY <2>1 DEF ConfigRead, TypeOK
  <2>. QED BY <1>7, <2>1, <2>2, ProxyMade DEF ProxyStatic
<1>8. CASE ProxyComponentRequest
  <2>1. PICK c \in ConfigRead : component' = MakeProxy(c, "none")
    BY <1>8 DEF ProxyComponentRequest
  <2>2. c \in Config \union {Failed}
    BY <2>1 DEF ConfigRead, TypeOK
  <2>. QED BY <1>8, <2>1, <2>2, ProxyMade DEF ProxyComponentRequest
<1>9. CASE ProxyConsolePlugin \/ ProxyAPIServer \/ BuildRequestInfo \/ CheckRequestAuth
  BY <1>9 DEF ProxyConsolePlugin, ProxyAPIServer, BuildRequestInfo, CheckRequestAuth, MakeFilter
<1>10. CASE Listen
  BY <1>10 DEF Listen
<1>11. CASE Restart
  BY <1>11 DEF Restart
<1>. QED
  BY <1>1, <1>2, <1>3, <1>4, <1>5, <1>6, <1>7, <1>8, <1>9, <1>10, <1>11
  DEF StartSteps

\* So does what is not the start: nothing of it but an end of the process
\* touches the parts, and what they were made from changes while there is none.
LEMMA OthersKeep ==
    ASSUME MadeSoFar,
           \/ WatchLog \/ WatchLogPanics \/ Kill \/ Redeploy \/ EditConfigMap
           \/ SyncMounted \/ EditLog \/ Calm \/ UNCHANGED vars
    PROVE  MadeSoFar'
<1>. USE DEF MadeSoFar, AfterServer, AfterClients, AfterHandler, AfterStatic,
             AfterPlugin, AfterComponent, AfterAPIServer, AfterInfo, AfterChecker, Stage,
             ClientMade, environment, parts, process
<1>1. CASE WatchLog
  BY <1>1 DEF WatchLog
<1>2. CASE WatchLogPanics \/ Kill
  BY <1>2 DEF WatchLogPanics, Kill, Exit
<1>3. CASE Redeploy
  BY <1>3 DEF Redeploy
<1>4. CASE EditConfigMap \/ SyncMounted \/ EditLog \/ Calm
  BY <1>4 DEF EditConfigMap, SyncMounted, EditLog, Calm
<1>5. CASE UNCHANGED vars
  BY <1>5 DEF vars
<1>. QED BY <1>1, <1>2, <1>3, <1>4, <1>5

-----------------------------------------------------------------------------
(* The invariants.                                                         *)

\* Every step changes the logger in one of five ways.
LEMMA LogPart ==
    ASSUME [Next]_vars
    PROVE  \/ LogSteps \/ WatcherSteps \/ EditLogFile \/ RemoveLogFile
           \/ LogReset \/ UNCHANGED logVars
BY DEF Next, vars, StartSteps, InitLog, NewServerConfig, NewKubernetesCfg,
       LoadCertificate, NewKubernetesClient, RegisterAPI, ProxyStatic,
       ProxyConsolePlugin, ProxyComponentRequest, ProxyAPIServer,
       BuildRequestInfo, CheckRequestAuth, Listen, Restart, WatchLog, WatchLogPanics, Kill,
       Redeploy, EditConfigMap, SyncMounted, EditLog, Calm

\* The type invariant of the logger is kept by each of them.
LEMMA LogTypesKept ==
    ASSUME LogTypeOK,
           \/ LogSteps \/ WatcherSteps \/ EditLogFile \/ RemoveLogFile
           \/ LogReset \/ UNCHANGED logVars
    PROVE  LogTypeOK'
<1>. USE DEF LogTypeOK, LogReady, LogFile
<1>1. CASE LogSteps
  BY <1>1 DEF LogSteps, LoadLogConfig, WatchLogConfig, SetLogger
<1>2. CASE WatcherSteps
  BY <1>2 DEF WatcherSteps, HookReads, HookSets, HandleRemoval
<1>3. CASE EditLogFile
  <2>1. changed' \in BOOLEAN
    <3>1. changed' = (watcher \in {"on", "removed"})
      BY <1>3 DEF EditLogFile
    <3>. QED BY <3>1
  <2>2. edited' \in BOOLEAN
    <3>1. edited' = (logStage \in {"done", "unwatched"})
      BY <1>3 DEF EditLogFile
    <3>. QED BY <3>1
  <2>. QED BY <1>3, <2>1, <2>2 DEF EditLogFile, logProcess
<1>4. CASE LogReset
  BY <1>4 DEF LogReset
<1>5. CASE UNCHANGED logVars
  BY <1>5 DEF logVars
<1>6. CASE RemoveLogFile
  <2>1. edited' \in BOOLEAN
    <3>1. edited' = (logStage \in {"done", "unwatched"})
      BY <1>6 DEF RemoveLogFile
    <3>. QED BY <3>1
  <2>. QED BY <1>6, <2>1 DEF RemoveLogFile, logProcess
<1>. QED BY <1>1, <1>2, <1>3, <1>4, <1>5, <1>6

\* The type invariant of the start is kept by every step.
LEMMA TypesKept ==
    ASSUME TypeOK, [Next]_vars
    PROVE  TypeOK'
<1>1. LogTypeOK'
  BY LogPart, LogTypesKept DEF TypeOK
<1>2. ASSUME NEW c \in ConfigRead PROVE c \in Config \union {Failed}
  BY <1>2 DEF ConfigRead, TypeOK
<1>. USE <1>1 DEF TypeOK, Goto, Exit, environment, parts, process, Stage
<1>3. CASE InitLog \/ NewServerConfig \/ NewKubernetesCfg \/ LoadCertificate
  BY <1>3 DEF InitLog, NewServerConfig, NewKubernetesCfg, LoadCertificate
<1>4. CASE NewKubernetesClient \/ RegisterAPI
  BY <1>4 DEF NewKubernetesClient, RegisterAPI
<1>5. CASE ProxyStatic
  BY <1>2, <1>5, ProxyMade DEF ProxyStatic
<1>6. CASE ProxyComponentRequest
  BY <1>2, <1>6, ProxyMade DEF ProxyComponentRequest
<1>7. CASE \/ ProxyConsolePlugin \/ ProxyAPIServer \/ BuildRequestInfo
           \/ CheckRequestAuth \/ Listen \/ Restart
  BY <1>7 DEF ProxyConsolePlugin, ProxyAPIServer, BuildRequestInfo,
              CheckRequestAuth, MakeFilter, Listen, Restart
<1>8. CASE WatchLog \/ WatchLogPanics \/ Kill
  BY <1>8 DEF WatchLog, WatchLogPanics, Kill
<1>11. CASE EditLog
  <2>1. UNCHANGED <<environment, process, calm>>
    BY <1>11 DEF EditLog
  <2>. QED BY <2>1
<1>12. CASE Calm
  <2>1. calm' \in BOOLEAN
    BY <1>12 DEF Calm
  <2>2. UNCHANGED <<environment, process>>
    BY <1>12 DEF Calm
  <2>. QED BY <2>1, <2>2
<1>9. CASE Redeploy \/ EditConfigMap \/ SyncMounted
  BY <1>9 DEF Redeploy, EditConfigMap, SyncMounted
<1>10. CASE UNCHANGED vars
  BY <1>10 DEF vars
<1>. QED
  BY <1>3, <1>4, <1>5, <1>6, <1>7, <1>8, <1>9, <1>10, <1>11,
     <1>12
  DEF Next, StartSteps

\* What holds when the container begins.
LEMMA AtTheBeginning ==
    ASSUME Init
    PROVE  TypeOK /\ StartInv
<1>1. TypeOK
  BY DEF Init, LogInit, NoProcess, TypeOK, LogTypeOK, Stage, Config
<1>2. MadeSoFar
  BY DEF Init, MadeSoFar, AfterServer, AfterClients, AfterHandler, AfterStatic,
         AfterPlugin, AfterComponent, AfterAPIServer, AfterInfo, AfterChecker
<1>3. LogTypes /\ LogInv
  BY DEF Init, LogInit, LogTypes, LogInv, LogReady
<1>. QED BY <1>1, <1>2, <1>3 DEF StartInv

\* TypeOK /\ StartInv is inductive.
LEMMA Inductive ==
    ASSUME TypeOK, StartInv, [Next]_vars
    PROVE  TypeOK' /\ StartInv'
<1>1. TypeOK'
  BY TypesKept
<1>2. LogTypes' /\ LogInv'
  BY LogPart, LogStepsKeep, WatcherStepsKeep, LogEnvironmentKeeps, LogStutters
  DEF StartInv
<1>3. MadeSoFar'
  BY StartStepsKeep, OthersKeep DEF StartInv, Next
<1>. QED BY <1>1, <1>2, <1>3 DEF StartInv

LEMMA Invariance == Spec => [](TypeOK /\ StartInv)
BY AtTheBeginning, Inductive, PTL DEF Spec

-----------------------------------------------------------------------------
(* Theorems.                                                               *)

\* Type correctness of the start, for every set of log configurations.
THEOREM StartTypes == Spec => []TypeOK
BY Invariance, PTL

\* A service that listens leaves no filter out (server.go, NewServer before
\* buildHandlerChain): the stage of the clients comes before every filter
\* that has a fallback.
THEOREM NoFilterLeftOut == Spec => []ChainComplete
<1>1. StartInv => ChainComplete
  BY PartAssumption
  DEF StartInv, MadeSoFar, ChainComplete, Listening, AfterStatic,
      AfterPlugin, AfterComponent, AfterAPIServer, AfterInfo, AfterChecker, AfterHandler,
      AfterClients
<1>. QED BY <1>1, Invariance, PTL

\* With any trace of a certificate nothing is served without TLS
\* (serverconfig.go, NewServerConfig and Validate).
THEOREM NoPlainListener == Spec => []SecureWithCertificate
<1>1. StartInv => SecureWithCertificate
  BY DEF StartInv, MadeSoFar, SecureWithCertificate, Listening, AfterServer,
         Stage
<1>. QED BY <1>1, Invariance, PTL

\* The once-only initialisation of the OAuth handler succeeds whenever the
\* credentials are there, whatever the configuration (handler.go, NewHandler).
THEOREM HandlerReady == Spec => []LoginReady
<1>1. StartInv => LoginReady
  BY DEF StartInv, MadeSoFar, LoginReady, Listening, AfterHandler, AfterClients
<1>. QED BY <1>1, Invariance, PTL

\* An edit of the log configuration of a running service is not lost,
\* whatever edits come while the watcher handles it (log.go, watchConfig).
THEOREM EditsTakeEffect == Spec => []LogFollowsFile
<1>1. StartInv => LogFollowsFile
  BY LogAssumption DEF StartInv, LogTypes, LogInv, LogFollowsFile
<1>. QED BY <1>1, Invariance, PTL

=============================================================================
