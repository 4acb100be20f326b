--------------------------- MODULE ServerProcess ---------------------------
(***************************************************************************)
(* The life of server processes: main (src/main.cpp) up to the event loop  *)
(* with the Config and the Logger it sets up, daemon mode                  *)
(* (src/common/daemon.cpp), the SignalHandler                              *)
(* (src/common/signal_handler.cpp), and the scripts start.sh, stop.sh,     *)
(* status.sh and restart.sh (scripts/), which find a server through its    *)
(* PID file.                                                               *)
(*                                                                         *)
(* A signal handler runs on top of main, which stands still meanwhile.     *)
(* Handlers log, as main does before it serves, and log_mutex_ is not      *)
(* recursive.  Nothing reads the flag that handlers set.                   *)
(***************************************************************************)
EXTENDS Logger, Config

CONSTANTS NoPid,
          ConfigFiles,  \* the configurations that server.conf may hold
          Operators,    \* who runs scripts, one at a time each
          MaxScripts,   \* bound: scripts run
          MaxDaemons,   \* bound: daemons started by hand
          MaxSignals,   \* bound: signals sent by hand
          MaxCrashes,   \* bound: servers that die by themselves
          MaxFills,     \* bound: log files that reach their size by themselves
          MaxEvents,    \* bound: all of these together
          DaemonWeight  \* what a daemon counts for in MaxEvents

ASSUME PidAssumption == NoPid \notin Pids

ASSUME BackupsAssumption ==
  \A f \in ConfigFiles : GetInt(Parse(f), "log", "backup_count", 5) \in Int
                           /\ GetInt(Parse(f), "log", "backup_count", 5) <= MaxBackups

(* What main does; between its parts it logs, under log_mutex_.  A part    *)
(* that fails goes to the line that says so, and main returns.             *)
Program == <<"load", "open", "lock", "unlock", "daemon", "pid", "lock", "unlock",
             "arm", "lock", "unlock", "pool", "lock", "unlock",
             "bind", "listen", "lock", "unlock", "serve",
             "lock", "unlock", "return">>

DaemonStep == 5

ArmStep == 9

FailStep == 20

Gone == Len(Program) + 1

VARIABLES
  step,       \* step[p]: where main is in Program, 0 before the process
              \* exists and Gone after it has
  byHand,     \* the processes started by hand with --daemon
  configFile, \* what server.conf holds
  pending,    \* pending[p]: signals sent and not handled yet
  handlers,   \* handlers[p]: the signal handlers that run, the last on top
  flag,       \* flag[p]: shutdown_flag_
  port,       \* the process that listens
  pidFile,    \* what EasyChatServer.pid says, NoPid if there is none
  rootPid,    \* what /EasyChatServer.pid says, which a daemon writes
  script,     \* script[o]: the script of an operator, and where it is
  bounds      \* [scripts, daemons, signals, crashes, fills]: what has happened so far

signals == <<pending, handlers, flag>>
server == <<step, byHand, loggerVars, signals, port, rootPid>>
vars == <<server, configFile, pidFile, script, bounds>>

NoScript == [then |-> "done", at |-> "done", pid |-> NoPid]

Init == /\ step = [p \in Pids |-> 0]
        /\ LoggerInit
        /\ byHand = {}
        /\ configFile \in ConfigFiles
        /\ pending = [p \in Pids |-> {}]
        /\ handlers = [p \in Pids |-> << >>]
        /\ flag = [p \in Pids |-> FALSE]
        /\ port = NoPid
        /\ pidFile = NoPid
        /\ rootPid = NoPid
        /\ script = [o \in Operators |-> NoScript]
        /\ bounds = [scripts |-> 0, daemons |-> 0, signals |-> 0, crashes |-> 0, fills |-> 0]

-----------------------------------------------------------------------------
(* What main takes from the configuration for the log                      *)

Settings == [f \in ConfigFiles |-> Parse(f)]

(* With a number below one the log is renamed to the first backup still,   *)
(* as with one.                                                            *)
Backups == LET count == GetInt(Settings[configFile], "log", "backup_count", 5)
           IN  IF count > 0 THEN count ELSE 1

(* max_size is multiplied by 1024 * 1024 in 32 bits, and the size of the   *)
(* file compared with what is left of it, as a signed number.              *)
Megabytes == GetInt(Settings[configFile], "log", "max_size", 100) % 4096

Negative == Megabytes \in 2048 .. 4095

AlwaysFull == Megabytes = 0 \/ Negative

(* Something happens that nobody has to do: a script, a daemon, a fault.   *)
Happens(e, max) ==
  /\ bounds[e] < max
  /\ bounds' = [bounds EXCEPT ![e] = @ + 1]
  /\ LET b == bounds'
     IN  b.scripts + DaemonWeight * b.daemons + b.signals + b.crashes + b.fills <= MaxEvents

-----------------------------------------------------------------------------
(* main                                                                    *)

Alive(p) == p \in Pids /\ step[p] \notin {0, Gone}

(* The identity a new process gets: one that was never used.               *)
Fresh == {p \in Pids : step[p] = 0}

NewPid == IF Fresh = {} THEN NoPid ELSE CHOOSE p \in Fresh : TRUE

At(p, s) == Alive(p) /\ handlers[p] = << >> /\ Program[step[p]] = s

(* Without --daemon main skips what is for daemons, and the lines before   *)
(* and after it are one part.                                              *)
NextStep(p) == IF step[p] + 1 = DaemonStep /\ p \notin byHand THEN ArmStep
                                                           ELSE step[p] + 1

GotoStep(p, n) == step' = [step EXCEPT ![p] = n]

Advance(p) == GotoStep(p, NextStep(p))

Fail(p) == GotoStep(p, FailStep)

(* The process is gone, and with it its memory and its port.               *)
Die(p) == /\ GotoStep(p, Gone)
          /\ port' = IF port = p THEN NoPid ELSE port
          /\ LoggerGone(p)
          /\ pending' = [pending EXCEPT ![p] = {}]
          /\ handlers' = [handlers EXCEPT ![p] = << >>]
          /\ flag' = [flag EXCEPT ![p] = FALSE]
          /\ UNCHANGED <<byHand, rootPid>>

(* The configuration: a file that cannot be read ends main.                *)
Load(p) == /\ At(p, "load")
           /\ \/ Die(p)
              \/ Advance(p) /\ UNCHANGED <<byHand, loggerVars, signals, port, rootPid>>

(* Logger::init.                                                           *)
Open(p) == /\ At(p, "open")
           /\ \/ Die(p)
              \/ /\ OpenLog(p) /\ Advance(p)
                 /\ UNCHANGED <<mutex, rotating, byHand, signals, port, rootPid>>

(* To a file that was closed the line does not get, and its position is    *)
(* -1.  Next to a negative size it is full: rename throws, for / has no    *)
(* logs (see RenameThrows).                                                *)
WriteThrows(p) == stream[p] = NoFile /\ ~mutex[p] /\ Negative

Write(p, fills) == ~WriteThrows(p) /\ WriteLine(p, fills \/ AlwaysFull, Backups)

Lock(p, fills) == /\ At(p, "lock") /\ Write(p, fills)
                  /\ Advance(p)
                  /\ UNCHANGED <<byHand, signals, port, rootPid>>

(* Mutant of Unlock: under the lock another line is logged, which the      *)
(* comments of Logger::init and close warn of.                             *)
LogAgain(p) == /\ At(p, "unlock") /\ ~mutex[p] /\ Unlocked(p)
               /\ Advance(p)
               /\ UNCHANGED <<byHand, signals, port, rootPid>>

Unlock(p) == /\ At(p, "unlock") /\ Unlocked(p)
             /\ Advance(p)
             /\ UNCHANGED <<byHand, signals, port, rootPid>>

(* Daemon::start: the process forks and ends, and what goes on has another *)
(* identity, none of the signals, and no log file, for it closes all its   *)
(* descriptors.  The one that forks in between is left out.                *)
Daemonize(p) ==
  /\ At(p, "daemon")
  /\ \/ Fail(p) /\ UNCHANGED <<byHand, loggerVars, signals, port, rootPid>>
     \/ /\ NewPid \in Pids
        /\ step' = [step EXCEPT ![p] = Gone, ![NewPid] = step[p] + 1]
        /\ byHand' = byHand \cup {NewPid}
        /\ LoggerGone(p)
        /\ UNCHANGED <<signals, port, rootPid>>

(* Its working directory is / by now.                                      *)
DaemonPid(p) ==
  /\ At(p, "pid")
  /\ \/ Fail(p) /\ UNCHANGED <<byHand, loggerVars, signals, port, rootPid>>
     \/ /\ rootPid' = p
        /\ Advance(p)
        /\ UNCHANGED <<byHand, loggerVars, signals, port>>

Arm(p) == /\ At(p, "arm")
          /\ Advance(p)
          /\ UNCHANGED <<byHand, loggerVars, signals, port, rootPid>>

Pool(p) == /\ At(p, "pool")
           /\ Fail(p) \/ Advance(p)
           /\ UNCHANGED <<byHand, loggerVars, signals, port, rootPid>>

(* SO_REUSEADDR lets a socket bind to a port until another one listens.    *)
Bind(p) == /\ At(p, "bind")
           /\ Fail(p) \/ (port = NoPid /\ Advance(p))
           /\ UNCHANGED <<byHand, loggerVars, signals, port, rootPid>>

Listen(p) == /\ At(p, "listen")
             /\ \/ Fail(p) /\ UNCHANGED port
                \/ port = NoPid /\ port' = p /\ Advance(p)
             /\ UNCHANGED <<byHand, loggerVars, signals, rootPid>>

Return(p) == At(p, "return") /\ Die(p)

Main(p) == \/ Load(p) \/ Open(p) \/ Lock(p, FALSE) \/ Unlock(p) \/ Daemonize(p)
           \/ DaemonPid(p) \/ Arm(p) \/ Pool(p) \/ Bind(p) \/ Listen(p) \/ Return(p)

-----------------------------------------------------------------------------
(* Signals                                                                 *)

Signals == {"TERM", "INT"}

Armed(p) == step[p] > ArmStep

(* Before init of the SignalHandler TERM has its default effect; INT is    *)
(* ignored by what a script has started in the background.                 *)
Send(p, s) ==
  IF Alive(p) /\ ~Armed(p) /\ s = "TERM" THEN Die(p)
  ELSE /\ pending' = IF Alive(p) /\ Armed(p)
                     THEN [pending EXCEPT ![p] = @ \cup {s}] ELSE pending
       /\ UNCHANGED <<step, byHand, loggerVars, handlers, flag, port, rootPid>>

Top(p) == handlers[p][Len(handlers[p])]

(* Mutant of Handle: a signal may interrupt its own handler.               *)
HandleUnblocked(p, s) ==
  /\ Alive(p) /\ s \in pending[p]
  /\ pending' = [pending EXCEPT ![p] = @ \ {s}]
  /\ handlers' = [handlers EXCEPT ![p] = Append(@, [signal |-> s, at |-> "lock"])]
  /\ UNCHANGED <<step, byHand, loggerVars, flag, port, rootPid>>

(* A handler interrupts main, or the handler of the other signal.          *)
Handle(p, s) ==
  /\ Alive(p) /\ s \in pending[p]
  /\ \A i \in DOMAIN handlers[p] : handlers[p][i].signal # s
  /\ pending' = [pending EXCEPT ![p] = @ \ {s}]
  /\ handlers' = [handlers EXCEPT ![p] = Append(@, [signal |-> s, at |-> "lock"])]
  /\ UNCHANGED <<step, byHand, loggerVars, flag, port, rootPid>>

(* The handler main registered logs a line.                                *)
HandlerLock(p, fills) ==
  /\ handlers[p] # << >> /\ Top(p).at = "lock" /\ Write(p, fills)
  /\ handlers' = [handlers EXCEPT ![p][Len(handlers[p])].at = "unlock"]
  /\ UNCHANGED <<step, byHand, pending, flag, port, rootPid>>

HandlerReturn(p) ==
  /\ handlers[p] # << >> /\ Top(p).at = "unlock" /\ Unlocked(p)
  /\ flag' = [flag EXCEPT ![p] = TRUE]
  /\ handlers' = [handlers EXCEPT ![p] = SubSeq(@, 1, Len(@) - 1)]
  /\ UNCHANGED <<step, byHand, pending, port, rootPid>>

(* Where main stands, or the handler that runs on top of it.               *)
Stands(p, s) == IF handlers[p] = << >> THEN At(p, s) ELSE Top(p).at = s

RotateLog(p) == /\ Stands(p, "unlock") /\ Rotate(p, Backups)
                /\ UNCHANGED <<step, byHand, signals, port, rootPid>>

Terminate(p) == /\ \/ Stands(p, "lock") /\ WriteThrows(p)
                   \/ Stands(p, "unlock") /\ RenameThrows(p, Backups)
                /\ Die(p)

Server(p) == /\ \/ Main(p) \/ HandlerLock(p, FALSE) \/ HandlerReturn(p)
                \/ RotateLog(p) \/ Terminate(p)
                \/ \E s \in Signals : Handle(p, s)
             /\ UNCHANGED <<configFile, pidFile, script, bounds>>

(* A line that fills the file.                                             *)
Fill(p) == /\ Happens("fills", MaxFills) /\ stream[p] \notin full \cup {NoFile}
           /\ Lock(p, TRUE) \/ HandlerLock(p, TRUE)
           /\ UNCHANGED <<configFile, pidFile, script>>

(* A signal sent by hand, and a server that dies by itself.                *)
Signal(p, s) == /\ Alive(p) /\ Happens("signals", MaxSignals)
                /\ Send(p, s)
                /\ UNCHANGED <<configFile, pidFile, script>>

Crash(p) == /\ Alive(p) /\ Happens("crashes", MaxCrashes)
            /\ Die(p)
            /\ UNCHANGED <<configFile, pidFile, script>>

-----------------------------------------------------------------------------
(* The scripts                                                             *)

Goto(o, at) == script' = [script EXCEPT ![o].at = at]

GotoWith(o, at, pid) == script' = [script EXCEPT ![o].at = at, ![o].pid = pid]

(* A script ends; restart.sh runs start.sh after stop.sh.                  *)
Done(o) == script' = [script EXCEPT ![o] = [then |-> "done", at |-> @.then,
                                            pid |-> NoPid]]

Run(o) == /\ script[o] = NoScript /\ Happens("scripts", MaxScripts)
          /\ \/ \E at \in {"start", "stop", "status"} : Goto(o, at)
             \/ script' = [script EXCEPT ![o] = [NoScript EXCEPT !.then = "start",
                                                                 !.at = "stop"]]
          /\ UNCHANGED <<server, configFile, pidFile>>

RemovePid(o, at) == /\ script[o].at = at
                 /\ pidFile' = NoPid
                 /\ UNCHANGED <<server, configFile, bounds>>

(* The program started by hand in daemon mode, which no script knows of.   *)
RunDaemon == /\ Happens("daemons", MaxDaemons)
             /\ NewPid \in Pids
             /\ GotoStep(NewPid, 1)
             /\ byHand' = byHand \cup {NewPid}
             /\ UNCHANGED <<loggerVars, signals, port, rootPid, configFile, pidFile, script>>

(* start.sh                                                                *)

StartRead(o) == /\ script[o].at = "start"
                /\ IF pidFile = NoPid THEN Goto(o, "spawn")
                                      ELSE GotoWith(o, "startCheck", pidFile)
                /\ UNCHANGED <<server, configFile, pidFile, bounds>>

(* Mutant of StartCheck: a PID file is taken for stale.                    *)
StartUnchecked(o) == /\ script[o].at = "startCheck"
                     /\ Goto(o, "startRemove")
                     /\ UNCHANGED <<server, configFile, pidFile, bounds>>

StartCheck(o) == /\ script[o].at = "startCheck"
                 /\ IF Alive(script[o].pid) THEN Done(o) ELSE Goto(o, "startRemove")
                 /\ UNCHANGED <<server, configFile, pidFile, bounds>>

StartRemove(o) == RemovePid(o, "startRemove") /\ Goto(o, "spawn")

Spawn(o) == /\ script[o].at = "spawn"
            /\ NewPid \in Pids
            /\ GotoStep(NewPid, 1)
            /\ GotoWith(o, "write", NewPid)
            /\ UNCHANGED <<byHand, loggerVars, signals, port, rootPid, configFile, pidFile, bounds>>

WritePid(o) == /\ script[o].at = "write"
               /\ pidFile' = script[o].pid
               /\ Goto(o, "verify")
               /\ UNCHANGED <<server, configFile, bounds>>

(* Two seconds later; the server may still fail after that.                *)
Verify(o) == /\ script[o].at = "verify"
             /\ IF Alive(script[o].pid) THEN Done(o) ELSE Goto(o, "failed")
             /\ UNCHANGED <<server, configFile, pidFile, bounds>>

StartFailed(o) == RemovePid(o, "failed") /\ Done(o)

(* stop.sh                                                                 *)

StopRead(o) == /\ script[o].at = "stop"
               /\ IF pidFile = NoPid THEN Done(o) ELSE GotoWith(o, "stopCheck", pidFile)
               /\ UNCHANGED <<server, configFile, pidFile, bounds>>

StopCheck(o) == /\ script[o].at = "stopCheck"
                /\ Goto(o, IF Alive(script[o].pid) THEN "term" ELSE "stopped")
                /\ UNCHANGED <<server, configFile, pidFile, bounds>>

StopTerm(o) == /\ script[o].at = "term"
               /\ Send(script[o].pid, "TERM")
               /\ Goto(o, "wait")
               /\ UNCHANGED <<configFile, pidFile, bounds>>

(* Mutant of StopWait: it waits as long as it takes.                       *)
StopWaitGracefully(o) == /\ script[o].at = "wait" /\ ~Alive(script[o].pid)
                         /\ Goto(o, "stopped")
                         /\ UNCHANGED <<server, configFile, pidFile, bounds>>

(* It waits until the server is gone, or for TIMEOUT seconds.              *)
StopWait(o) == /\ script[o].at = "wait"
               /\ Goto(o, IF Alive(script[o].pid) THEN "kill" ELSE "stopped")
               /\ UNCHANGED <<server, configFile, pidFile, bounds>>

(* Mutant of StopKill: TERM is sent again.                                 *)
StopTermAgain(o) == /\ script[o].at = "kill"
                    /\ Send(script[o].pid, "TERM")
                    /\ Goto(o, "stopped")
                    /\ UNCHANGED <<configFile, pidFile, bounds>>

StopKill(o) == /\ script[o].at = "kill"
               /\ Die(script[o].pid)
               /\ Goto(o, "stopped")
               /\ UNCHANGED <<configFile, pidFile, bounds>>

Stopped(o) == RemovePid(o, "stopped") /\ Done(o)

(* status.sh                                                               *)

StatusRead(o) == /\ script[o].at = "status"
                 /\ IF pidFile = NoPid THEN Done(o)
                                       ELSE GotoWith(o, "statusCheck", pidFile)
                 /\ UNCHANGED <<server, configFile, pidFile, bounds>>

StatusCheck(o) == /\ script[o].at = "statusCheck"
                  /\ IF Alive(script[o].pid) THEN Done(o) ELSE Goto(o, "stale")
                  /\ UNCHANGED <<server, configFile, pidFile, bounds>>

StatusRemove(o) == RemovePid(o, "stale") /\ Done(o)

Script(o) == \/ StartRead(o) \/ StartCheck(o) \/ StartRemove(o) \/ Spawn(o)
             \/ WritePid(o) \/ Verify(o) \/ StartFailed(o)
             \/ StopRead(o) \/ StopCheck(o) \/ StopTerm(o) \/ StopWait(o)
             \/ StopKill(o) \/ Stopped(o)
             \/ StatusRead(o) \/ StatusCheck(o) \/ StatusRemove(o)

-----------------------------------------------------------------------------
Next == \/ \E p \in Pids : \/ Server(p) \/ Fill(p) \/ Crash(p)
                           \/ \E s \in Signals : Signal(p, s)
        \/ \E o \in Operators : Run(o) \/ Script(o)
        \/ RunDaemon

(* Processes and scripts run; nobody has to start a script.                *)
Fairness == /\ \A p \in Pids : WF_vars(Server(p))
            /\ \A o \in Operators : WF_vars(Script(o))

Spec == Init /\ [][Next]_vars /\ Fairness

-----------------------------------------------------------------------------
(* Properties                                                              *)

Removing == {"startRemove", "failed", "stopped", "stale"}

(* Every variable has its type; only a process that lives has the port,    *)
(* signals and handlers, and no signal has two handlers at once.           *)
TypeOK ==
  /\ step \in [Pids -> 0 .. Gone]
  /\ mutex \in [Pids -> BOOLEAN]
  /\ names \in [0 .. MaxBackups -> Files \cup {NoFile}] /\ full \subseteq Files
  /\ stream \in [Pids -> Files \cup {NoFile}]
  /\ rotating \in [Pids -> Idle .. MaxBackups]
  /\ byHand \subseteq Pids /\ rootPid \in byHand \cup {NoPid}
  /\ flag \in [Pids -> BOOLEAN]
  /\ pending \in [Pids -> SUBSET Signals]
  /\ \A p \in Pids :
       /\ ~Alive(p) => pending[p] = {} /\ handlers[p] = << >> /\ port # p
       /\ Len(handlers[p]) <= 2
       /\ \A i \in DOMAIN handlers[p] : handlers[p][i].signal \in Signals
       /\ Len(handlers[p]) = 2 => handlers[p][1].signal # handlers[p][2].signal
  /\ port \in Pids \cup {NoPid}
  /\ pidFile \in Pids \cup {NoPid}
  /\ \A o \in Operators : script[o].pid \in Pids \cup {NoPid}

(* When no script runs, a server that lives is the one the PID file names: *)
(* there is at most one, and stop.sh will find it.                         *)
PidFileNamesServer ==
  (\A o \in Operators : script[o] = NoScript) => \A p \in Pids \ byHand : Alive(p) => pidFile = p

(* A script removes the PID file only when it names no server that lives;  *)
(* so stop.sh reports success only after the server has gone.              *)
RemovesOnlyStale ==
  \A o \in Operators : script[o].at \in Removing => ~Alive(pidFile)

(* A script ends, whatever the server does with TERM.                      *)
ScriptsReturn ==
  \A o \in Operators : (script[o].at \notin {"done", "spawn"}) ~>
                       (script[o].at \in {"done", "spawn"})

(* A process that was started serves or is gone, in the end, unless a      *)
(* signal came: a handler that logs hangs if main was logging.             *)
Signalled(p) == pending[p] # {} \/ handlers[p] # << >> \/ flag[p]

StartCompletes ==
  \A p \in Pids : Alive(p) ~> (port = p \/ ~Alive(p) \/ Signalled(p))

(* Rotation drops the oldest backup from the directory and nothing else:   *)
(* the files are renamed in an order in which none is overwritten, even    *)
(* where a server died half way and another goes on.                       *)
RotationKeepsLogs ==
  [][\A i \in DOMAIN names : (names[i] # NoFile /\ \A j \in DOMAIN names : names'[j] # names[i])
                               => i = Backups]_names

=============================================================================
