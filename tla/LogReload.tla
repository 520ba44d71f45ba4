------------------------------ MODULE LogReload ------------------------------
(***************************************************************************)
(* The logger of console-service: made from a configuration file when the  *)
(* process begins, and made anew when the file changes.                    *)
(*                                                                         *)
(* The initialisation reads the file, starts to watch it, says what is to  *)
(* be done on a change, and only then sets the logger.  The goroutine that *)
(* watches runs beside all of it: a change of the file can come between    *)
(* any two of these steps.                                                 *)
(***************************************************************************)
CONSTANTS
    LogConfig,       \* the contents of the file that can be parsed
    Broken,          \* any other content
    Absent,          \* no file
    Default,         \* the built-in configuration
    NoLog            \* no configuration, no logger

ASSUME LogAssumption ==
    /\ NoLog \notin LogConfig \union {Broken, Absent, Default}
    /\ {Broken, Absent} \cap LogConfig = {}
    /\ Broken # Absent

VARIABLES
    logFile,         \* the content of the file
    logStage,        \* how far the initialisation is
    confRead,        \* the configuration the initialisation has read
    logger,          \* the configuration the logger was made from
    watcher,         \* not there, on, told that the file is removed, or ended
    changed,         \* the watcher has events of a change it has not handled
    hookConf,        \* the configuration the watcher has read
    edited           \* history: the file was edited since the initialisation

logVars == <<logFile, logStage, confRead, logger, watcher, changed, hookConf,
             edited>>

\* What there may be in place of the file.
LogFile == LogConfig \union {Broken, Absent}

\* What the process holds; an edit of the file is the environment's.
logProcess == <<logStage, confRead, logger, hookConf>>

LogTypeOK ==
    /\ logFile \in LogFile
    /\ logStage \in {"off", "read", "watched", "hooked", "done", "unwatched"}
    /\ confRead \in LogConfig \union {NoLog}
    /\ logger \in LogConfig \union {Default, NoLog}
    /\ watcher \in {"off", "on", "removed", "ended"}
    /\ changed \in BOOLEAN
    /\ hookConf \in LogFile \union {NoLog}
    /\ edited \in BOOLEAN

LogInit ==
    /\ logFile \in LogFile
    /\ logStage = "off"
    /\ confRead = NoLog
    /\ logger = NoLog
    /\ watcher = "off"
    /\ changed = FALSE
    /\ hookConf = NoLog
    /\ edited = FALSE

LogReady == logStage \in {"done", "unwatched"}

\* Mutant of LoadLogConfig: the error of the parser is dropped.
LoadLogConfigUnchecked ==
    /\ logStage = "off"
    /\ logStage' = "read"
    /\ confRead' = logFile
    /\ UNCHANGED <<logFile, logger, watcher, changed, hookConf, edited>>

\* loadConfig: the file is read.  If it cannot be, the logger is made from
\* the built-in configuration, and the file is not watched.
LoadLogConfig ==
    /\ logStage = "off"
    /\ \/ /\ logFile \notin LogConfig
          /\ logStage' = "unwatched"
          /\ logger' = Default
          /\ UNCHANGED confRead
       \/ /\ logFile \in LogConfig
          /\ logStage' = "read"
          /\ confRead' = logFile
          /\ UNCHANGED logger
    /\ UNCHANGED <<logFile, watcher, changed, hookConf, edited>>

\* watchConfig: the watcher starts, and then gets its function.
WatchLogConfig ==
    /\ \/ logStage = "read" /\ logStage' = "watched" /\ watcher' = "on"
       \/ logStage = "watched" /\ logStage' = "hooked" /\ UNCHANGED watcher
    /\ UNCHANGED <<logFile, confRead, logger, changed, hookConf, edited>>

\* init: the logger is made from what was read, whatever it is by now.
SetLogger ==
    /\ logStage = "hooked"
    /\ logStage' = "done"
    /\ logger' = confRead
    /\ UNCHANGED <<logFile, confRead, watcher, changed, hookConf, edited>>

\* Somebody edits the file, or puts one there again; a watcher hears of it.
EditLogFile ==
    /\ \E c \in (LogConfig \union {Broken}) \ {logFile} : logFile' = c
    /\ changed' = (watcher \in {"on", "removed"})
    /\ edited' = LogReady
    /\ UNCHANGED <<logProcess, watcher>>

\* Somebody removes the file.  It is another event for a watcher.
RemoveLogFile ==
    /\ logFile # Absent
    /\ logFile' = Absent
    /\ watcher' = IF watcher = "on" THEN "removed" ELSE watcher
    /\ edited' = LogReady
    /\ UNCHANGED <<logProcess, changed>>

\* WatchConfig of viper: at the event of a removal its goroutine returns and
\* nobody watches any more, whatever events there are behind it; unless the
\* file is there again and elsewhere, which makes the event one of a change.
HandleRemoval ==
    /\ watcher = "removed"
    /\ hookConf = NoLog
    /\ \/ watcher' = "ended" /\ changed' = FALSE
       \/ logFile # Absent /\ watcher' = "on" /\ changed' = TRUE
    /\ UNCHANGED <<logFile, logStage, confRead, logger, hookConf, edited>>

\* The function of watchConfig: a first message to the logger, and the file
\* is read again.  An event that comes before the function is set is lost.
HookReads ==
    /\ changed
    /\ hookConf = NoLog
    /\ changed' = FALSE
    /\ \/ /\ logStage = "watched"
          /\ UNCHANGED hookConf
       \/ /\ logger # NoLog
          /\ hookConf' = logFile
    /\ UNCHANGED <<logFile, logStage, confRead, logger, watcher, edited>>

\* There is no logger yet: the message dereferences nil.
HookPanics ==
    /\ changed
    /\ logStage = "hooked"
    /\ logger = NoLog

\* Mutant of HookSets: events that came meanwhile count as handled.
HookSetsAll ==
    /\ hookConf # NoLog
    /\ logger' = IF hookConf \in LogConfig THEN hookConf ELSE logger
    /\ hookConf' = NoLog
    /\ changed' = FALSE
    /\ UNCHANGED <<logFile, logStage, confRead, watcher, edited>>

\* The rest of it: the logger is made anew, unless the file was not readable.
HookSets ==
    /\ hookConf # NoLog
    /\ logger' = IF hookConf \in LogConfig THEN hookConf ELSE logger
    /\ hookConf' = NoLog
    /\ UNCHANGED <<logFile, logStage, confRead, watcher, changed, edited>>

\* The process is gone; the file stays.
LogReset ==
    /\ logStage' = "off"
    /\ confRead' = NoLog
    /\ logger' = NoLog
    /\ watcher' = "off"
    /\ changed' = FALSE
    /\ hookConf' = NoLog
    /\ edited' = FALSE
    /\ UNCHANGED logFile

LogSteps == LoadLogConfig \/ WatchLogConfig \/ SetLogger
WatcherSteps == HookReads \/ HookSets \/ HandleRemoval

\* An edit of the log configuration of a running service takes effect: as
\* long as the watcher has not been told of a removal of the file, and when it
\* has nothing left to do, the logger is that of the file, unless the file
\* cannot be parsed.  (Edits during the initialisation may be lost; the next
\* edit makes up for them.  A file that is removed and comes back may never be
\* read again.)
LogFollowsFile ==
    logStage = "done" /\ edited /\ watcher = "on" /\ ~changed /\ hookConf = NoLog
        => logger = logFile \/ logFile \notin LogConfig
=============================================================================
