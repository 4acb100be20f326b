------------------------ MODULE ServerProcessProofs ------------------------
(***************************************************************************)
(* Theorems of ServerProcess, for any number of processes, scripts,        *)
(* signals and faults, and any configuration: what the PID file says, if   *)
(* one operator works at a time, and what the logs keep, if many do.       *)
(***************************************************************************)
EXTENDS ServerProcess, FiniteSetTheorems, SequenceTheorems, TLAPS

(* Two operators at a time can leave a server without a PID file.          *)
OneOperator == \A o, u \in Operators : o = u

-----------------------------------------------------------------------------
(* What any step does to the processes.                                    *)

ProcessesTyped == step \in [Pids -> 0 .. Gone] /\ byHand \subseteq Pids

(* A process that lived goes on or ends for good, and one that begins is a *)
(* daemon.                                                                 *)
Ages == /\ \A q \in Pids :
             /\ step[q] # 0 => step'[q] # 0
             /\ Alive(q)' => Alive(q) \/ (step[q] = 0 /\ q \in byHand')
        /\ byHand \subseteq byHand'
        /\ ProcessesTyped'

LEMMA ProgramLength == Gone = 23 /\ ArmStep = 9 /\ FailStep = 20 /\ DaemonStep = 5
BY DEF Gone, Program, ArmStep, FailStep, DaemonStep

LEMMA NewPidIsFresh == NewPid \in Pids => step[NewPid] = 0
<1> SUFFICES ASSUME NewPid \in Pids
             PROVE  step[NewPid] = 0
    OBVIOUS
<1>1. Fresh # {}
  BY PidAssumption DEF NewPid
<1>2. NewPid \in Fresh
  BY <1>1 DEF NewPid
<1> QED
  BY <1>2 DEF Fresh

LEMMA StayingAges ==
  ASSUME ProcessesTyped, UNCHANGED <<step, byHand>>
  PROVE  Ages
BY DEF ProcessesTyped, Ages, Alive

LEMMA DyingAges ==
  ASSUME ProcessesTyped, NEW p \in Pids, Die(p)
  PROVE  Ages
<1>1. step' = [step EXCEPT ![p] = 23] /\ byHand' = byHand
  BY ProgramLength DEF Die, GotoStep
<1>2. step' \in [Pids -> 0 .. 23]
  BY <1>1, ProgramLength DEF ProcessesTyped
<1>3. \A q \in Pids : step'[q] = step[q] \/ step'[q] = 23
  BY <1>1, ProgramLength DEF ProcessesTyped
<1> QED
  BY <1>1, <1>2, <1>3, ProgramLength DEF ProcessesTyped, Ages, Alive

LEMMA GoingOnAges ==
  ASSUME ProcessesTyped, NEW p, Alive(p), Advance(p) \/ Fail(p), UNCHANGED byHand
  PROVE  Ages
<1>1. p \in Pids /\ step[p] \in 1 .. 22
  BY ProgramLength DEF ProcessesTyped, Alive
<1>2. PICK n \in 1 .. 23 : step' = [step EXCEPT ![p] = n]
  BY <1>1, ProgramLength DEF Advance, Fail, GotoStep, NextStep
<1> QED
  BY <1>1, <1>2, ProgramLength DEF ProcessesTyped, Ages, Alive

LEMMA DaemonizeAges ==
  ASSUME ProcessesTyped, NEW p, Daemonize(p)
  PROVE  Ages
<1>1. CASE Fail(p) /\ UNCHANGED <<byHand, loggerVars, signals, port, rootPid>>
  BY <1>1, GoingOnAges DEF Daemonize, At
<1>2. CASE /\ NewPid \in Pids
           /\ step' = [step EXCEPT ![p] = Gone, ![NewPid] = step[p] + 1]
           /\ byHand' = byHand \cup {NewPid}
  <2>1. p \in Pids /\ step[p] \in 1 .. 22 /\ step[NewPid] = 0
    BY <1>2, ProgramLength, NewPidIsFresh DEF Daemonize, At, ProcessesTyped, Alive
  <2>2. PICK q \in Pids : q = NewPid
    BY <1>2
  <2>3. /\ step' = [step EXCEPT ![p] = 23, ![q] = step[p] + 1]
        /\ byHand' = byHand \cup {q} /\ step[q] = 0
    BY <1>2, <2>1, <2>2, ProgramLength
  <2> QED
    BY <2>1, <2>3, ProgramLength DEF ProcessesTyped, Ages, Alive
<1> QED
  BY <1>1, <1>2 DEF Daemonize

LEMMA SendAges ==
  ASSUME ProcessesTyped, NEW p, NEW s, Send(p, s)
  PROVE  Ages
BY DyingAges, StayingAges DEF Send, Alive

LEMMA ProcessesAge ==
  ASSUME ProcessesTyped, NEW p \in Pids,
         \/ Server(p) \/ Fill(p) \/ Crash(p) \/ \E s \in Signals : Signal(p, s)
  PROVE  Ages
<1>1. CASE Load(p)
  BY <1>1, DyingAges, GoingOnAges DEF Load, At
<1>2. CASE Open(p)
  BY <1>2, DyingAges, GoingOnAges DEF Open, At
<1>3. ASSUME NEW fills, Lock(p, fills)
      PROVE  Ages
  BY <1>3, GoingOnAges DEF Lock, At
<1>4. CASE Unlock(p) \/ DaemonPid(p) \/ Arm(p)
  BY <1>4, GoingOnAges DEF Unlock, DaemonPid, Arm, At
<1>5. CASE Pool(p) \/ Bind(p) \/ Listen(p)
  BY <1>5, GoingOnAges DEF Pool, Bind, Listen, At
<1>6. CASE Return(p) \/ Terminate(p) \/ Crash(p)
  BY <1>6, DyingAges DEF Return, Terminate, Crash
<1>7. ASSUME NEW fills, HandlerLock(p, fills)
      PROVE  Ages
  BY <1>7, StayingAges DEF HandlerLock
<1>8. ASSUME NEW s \in Signals, Handle(p, s)
      PROVE  Ages
  BY <1>8, StayingAges DEF Handle
<1>9. CASE HandlerReturn(p) \/ RotateLog(p)
  BY <1>9, StayingAges DEF HandlerReturn, RotateLog
<1>10. ASSUME NEW s \in Signals, Signal(p, s)
       PROVE  Ages
  BY <1>10, SendAges DEF Signal
<1> QED
  BY <1>1, <1>2, <1>3, <1>4, <1>5, <1>6, <1>7, <1>8, <1>9, <1>10, DaemonizeAges
     DEF Server, Main, Fill

-----------------------------------------------------------------------------
(* The scripts and the PID file.                                           *)

(* Where a script has read the PID file, or written it.                    *)
Knows == {"startCheck", "startRemove", "verify", "failed", "stopCheck", "term", "wait",
          "kill", "stopped", "statusCheck", "stale"}

ScriptType ==
  [then : {"done", "start"}, pid : Pids \cup {NoPid},
   at : Knows \cup {"done", "start", "stop", "status", "spawn", "write"}]

ScriptsTyped ==
  /\ ProcessesTyped
  /\ script \in [Operators -> ScriptType]
  /\ pidFile \in Pids \cup {NoPid}

(* The identities in use were given to a process.                          *)
UsedInv ==
  /\ pidFile # NoPid => step[pidFile] # 0
  /\ \A o \in Operators :
       script[o].at = "write" => script[o].pid \in Pids /\ step[script[o].pid] # 0

(* What the script at work knows of the PID file.                          *)
KnowsInv ==
  \A o \in Operators :
    /\ script[o].at \in Knows => script[o].pid = pidFile /\ pidFile # NoPid
    /\ script[o].at \in {"spawn", "write"} => pidFile = NoPid
    /\ script[o].at \in Removing => ~Alive(pidFile)

(* A server that lives is the one of the PID file, or is about to be.      *)
OwnerInv ==
  \A p \in Pids \ byHand :
    Alive(p) => \/ pidFile = p
                \/ \E o \in Operators : script[o].at = "write" /\ script[o].pid = p

PidInv == ScriptsTyped /\ UsedInv /\ KnowsInv /\ OwnerInv

(* Processes by themselves do not disturb it.                              *)
LEMMA AgingKeepsPidInv ==
  ASSUME PidInv, Ages, UNCHANGED <<pidFile, script>>
  PROVE  PidInv'
<1>0. ScriptsTyped /\ UsedInv /\ KnowsInv /\ OwnerInv /\ ProcessesTyped
  BY DEF PidInv, ScriptsTyped
<1>1. ScriptsTyped'
  BY <1>0 DEF ScriptsTyped, Ages
<1>2. UsedInv'
  BY <1>0 DEF UsedInv, Ages, ScriptsTyped
<1>3. Alive(pidFile)' => Alive(pidFile)
  <2>1. CASE pidFile = NoPid
    BY <2>1, PidAssumption DEF Alive
  <2>2. CASE pidFile \in Pids /\ step[pidFile] # 0
    BY <2>2 DEF Ages
  <2> QED
    BY <1>0, <2>1, <2>2 DEF ScriptsTyped, UsedInv
<1>4. KnowsInv'
  BY <1>0, <1>3 DEF KnowsInv
<1>5. OwnerInv'
  <2> SUFFICES ASSUME NEW p \in Pids, p \notin byHand', Alive(p)'
               PROVE  \/ pidFile = p
                      \/ \E o \in Operators : script[o].at = "write" /\ script[o].pid = p
      BY DEF OwnerInv
  <2>1. Alive(p) /\ p \notin byHand
    BY DEF Ages
  <2> QED
    BY <1>0, <2>1 DEF OwnerInv
<1> QED
  BY <1>1, <1>2, <1>4, <1>5 DEF PidInv

(* A script goes on at s, which says what it has to of the PID file.       *)
LEMMA ScriptKeepsPidInv ==
  ASSUME OneOperator, PidInv, Ages,
         NEW o \in Operators, NEW s \in ScriptType, script' = [script EXCEPT ![o] = s],
         pidFile' \in Pids \cup {NoPid}, pidFile' # NoPid => step'[pidFile'] # 0,
         s.at = "write" => s.pid \in Pids /\ step'[s.pid] # 0,
         s.at \in Knows => s.pid = pidFile' /\ pidFile' # NoPid,
         s.at \in {"spawn", "write"} => pidFile' = NoPid,
         s.at \in Removing => ~Alive(pidFile)',
         \A p \in Pids \ byHand' :
           Alive(p)' => pidFile' = p \/ (s.at = "write" /\ s.pid = p)
  PROVE  PidInv'
<1>1. script' \in [Operators -> ScriptType] /\ script'[o] = s
  BY DEF PidInv, ScriptsTyped
<1>2. \A u \in Operators : u = o
  BY DEF OneOperator
<1>3. ScriptsTyped'
  BY <1>1 DEF ScriptsTyped, Ages
<1>4. UsedInv'
  BY <1>1, <1>2 DEF UsedInv
<1>5. KnowsInv'
  BY <1>1, <1>2 DEF KnowsInv
<1>6. OwnerInv'
  BY <1>1 DEF OwnerInv
<1> QED
  BY <1>3, <1>4, <1>5, <1>6 DEF PidInv

(* It leaves the PID file alone.                                           *)
LEMMA ReadingKeepsPidInv ==
  ASSUME OneOperator, PidInv, Ages,
         NEW o \in Operators, NEW s \in ScriptType, script' = [script EXCEPT ![o] = s],
         UNCHANGED pidFile, script[o].at # "write", s.at # "write",
         s.at \in Knows => s.pid = pidFile /\ pidFile # NoPid,
         s.at = "spawn" => pidFile = NoPid,
         s.at \in Removing => ~Alive(pidFile)'
  PROVE  PidInv'
<1>1. pidFile \in Pids \cup {NoPid} /\ (pidFile # NoPid => step'[pidFile] # 0)
  BY DEF PidInv, ScriptsTyped, UsedInv, Ages
<1>2. ASSUME NEW p \in Pids, p \notin byHand', Alive(p)'
      PROVE  pidFile' = p
  <2>1. Alive(p) /\ p \notin byHand
    BY <1>2 DEF Ages
  <2> QED
    BY <2>1 DEF PidInv, OwnerInv, OneOperator
<1> QED
  BY <1>1, <1>2, ScriptKeepsPidInv

(* It removes a PID file that names no server that lives.                  *)
LEMMA RemovingKeepsPidInv ==
  ASSUME OneOperator, PidInv, Ages,
         NEW o \in Operators, NEW s \in ScriptType, script' = [script EXCEPT ![o] = s],
         pidFile' = NoPid, script[o].at \in Removing, UNCHANGED <<step, byHand>>,
         s.at \in {"done", "start", "spawn"}
  PROVE  PidInv'
<1>1. ~Alive(pidFile) /\ ~Alive(NoPid)
  BY PidAssumption DEF PidInv, KnowsInv, Alive
<1>2. script[o].at # "write" /\ s.at \notin Knows
  BY DEF Removing, Knows
<1>3. ASSUME NEW p \in Pids, p \notin byHand', Alive(p)'
      PROVE  FALSE
  <2>1. Alive(p) /\ p \notin byHand
    BY <1>3 DEF Alive
  <2> QED
    BY <1>1, <1>2, <2>1 DEF PidInv, OwnerInv, OneOperator
<1> QED
  BY <1>1, <1>2, <1>3, ScriptKeepsPidInv DEF Removing

LEMMA ScriptStepKeepsPidInv ==
  ASSUME OneOperator, PidInv, NEW o \in Operators, Script(o)
  PROVE  PidInv'
<1>0. /\ ScriptsTyped /\ UsedInv /\ KnowsInv /\ OwnerInv /\ ProcessesTyped
      /\ script \in [Operators -> ScriptType] /\ script[o] \in ScriptType
      /\ pidFile \in Pids \cup {NoPid}
  BY DEF PidInv, ScriptsTyped
<1> DEFINE at(s) == [script[o] EXCEPT !.at = s]
           atWith(s, p) == [script[o] EXCEPT !.at = s, !.pid = p]
           ended == [then |-> "done", at |-> script[o].then, pid |-> NoPid]
<1>1. /\ ended \in ScriptType /\ ended.at \in {"done", "start"}
      /\ Done(o) => script' = [script EXCEPT ![o] = ended]
  BY <1>0 DEF ScriptType, Done
<1>2. ASSUME NEW s \in Knows \cup {"spawn"}
      PROVE  /\ at(s) \in ScriptType /\ at(s).at = s /\ at(s).pid = script[o].pid
             /\ Goto(o, s) => script' = [script EXCEPT ![o] = at(s)]
  BY <1>0, <1>2 DEF ScriptType, Goto
<1>3. ASSUME NEW s \in Knows \cup {"write"}, NEW p \in Pids
      PROVE  /\ atWith(s, p) \in ScriptType /\ atWith(s, p).at = s /\ atWith(s, p).pid = p
             /\ GotoWith(o, s, p) => script' = [script EXCEPT ![o] = atWith(s, p)]
  BY <1>0, <1>3 DEF ScriptType, GotoWith
<1> HIDE DEF at, atWith, ended
<1>4. UNCHANGED server => Ages /\ UNCHANGED <<step, byHand>> /\ (Alive(pidFile)' => Alive(pidFile'))
  BY <1>0, StayingAges DEF server, Alive
<1>5. script[o].at \in Knows => script[o].pid = pidFile /\ pidFile \in Pids
  BY <1>0 DEF KnowsInv
<1>6. CASE StartRead(o) \/ StopRead(o) \/ StatusRead(o)
  <2>1. Ages /\ UNCHANGED pidFile /\ script[o].at \in {"start", "stop", "status"}
    BY <1>4, <1>6 DEF StartRead, StopRead, StatusRead
  <2>2. CASE pidFile = NoPid
    <3>1. \/ script' = [script EXCEPT ![o] = ended]
          \/ script' = [script EXCEPT ![o] = at("spawn")]
      BY <1>1, <1>2, <1>6, <2>2 DEF StartRead, StopRead, StatusRead
    <3> QED
      BY <1>1, <1>2, <2>1, <2>2, <3>1, ReadingKeepsPidInv DEF Knows, Removing
  <2>3. CASE pidFile # NoPid
    <3>1. pidFile \in Pids
      BY <1>0, <2>3
    <3>2. PICK s \in {"startCheck", "stopCheck", "statusCheck"} :
            script' = [script EXCEPT ![o] = atWith(s, pidFile)]
      BY <1>3, <1>6, <2>3, <3>1 DEF StartRead, StopRead, StatusRead, Knows
    <3>3. /\ atWith(s, pidFile) \in ScriptType /\ atWith(s, pidFile).at = s
          /\ atWith(s, pidFile).pid = pidFile
      BY <1>3, <3>1, <3>2 DEF Knows
    <3> QED
      BY <2>1, <2>3, <3>2, <3>3, ReadingKeepsPidInv DEF Knows, Removing
  <2> QED
    BY <2>2, <2>3
<1>7. CASE StartCheck(o) \/ Verify(o) \/ StopCheck(o) \/ StopWait(o) \/ StatusCheck(o)
  <2>1. /\ Ages /\ UNCHANGED <<pidFile, step>>
        /\ script[o].at \in {"startCheck", "verify", "stopCheck", "wait", "statusCheck"}
    BY <1>4, <1>7 DEF StartCheck, Verify, StopCheck, StopWait, StatusCheck
  <2>2. script[o].pid = pidFile /\ pidFile \in Pids /\ pidFile # NoPid
    BY <1>5, <2>1, PidAssumption DEF Knows
  <2>3. \/ script' = [script EXCEPT ![o] = ended]
        \/ \E s \in {"term", "kill"} : script' = [script EXCEPT ![o] = at(s)]
        \/ /\ ~Alive(pidFile)
           /\ \E s \in Removing : script' = [script EXCEPT ![o] = at(s)]
    BY <1>1, <1>2, <1>7, <2>2
       DEF StartCheck, Verify, StopCheck, StopWait, StatusCheck, Knows, Removing
  <2>4. CASE script' = [script EXCEPT ![o] = ended]
    BY <1>1, <2>1, <2>4, ReadingKeepsPidInv DEF Knows, Removing
  <2>5. ASSUME NEW s \in {"term", "kill"}, script' = [script EXCEPT ![o] = at(s)]
        PROVE  PidInv'
    <3>1. at(s) \in ScriptType /\ at(s).at = s /\ at(s).pid = pidFile
      BY <1>2, <2>2, <2>5 DEF Knows
    <3> QED
      BY <2>1, <2>2, <2>5, <3>1, ReadingKeepsPidInv DEF Removing
  <2>6. ASSUME NEW s \in Removing, script' = [script EXCEPT ![o] = at(s)], ~Alive(pidFile)
        PROVE  PidInv'
    <3>1. at(s) \in ScriptType /\ at(s).at = s /\ at(s).pid = pidFile
      BY <1>2, <2>2, <2>6 DEF Knows, Removing
    <3>2. ~Alive(pidFile)'
      BY <2>1, <2>6 DEF Alive
    <3> QED
      BY <2>1, <2>2, <2>6, <3>1, <3>2, ReadingKeepsPidInv DEF Removing
  <2> QED
    BY <2>3, <2>4, <2>5, <2>6
<1>8. CASE StartRemove(o) \/ StartFailed(o) \/ Stopped(o) \/ StatusRemove(o)
  <2>1. /\ Ages /\ UNCHANGED <<step, byHand>> /\ pidFile' = NoPid
        /\ script[o].at \in Removing
    BY <1>4, <1>8 DEF StartRemove, StartFailed, Stopped, StatusRemove, RemovePid, Removing
  <2>2. \/ script' = [script EXCEPT ![o] = ended]
        \/ script' = [script EXCEPT ![o] = at("spawn")]
    BY <1>1, <1>2, <1>8 DEF StartRemove, StartFailed, Stopped, StatusRemove
  <2> QED
    BY <1>1, <1>2, <2>1, <2>2, RemovingKeepsPidInv
<1>9. CASE Spawn(o)
  <2>1. PICK n \in Pids : n = NewPid /\ step[n] = 0
    BY <1>9, NewPidIsFresh DEF Spawn
  <2>2. /\ step' = [step EXCEPT ![n] = 1] /\ UNCHANGED <<byHand, pidFile>>
        /\ script' = [script EXCEPT ![o] = atWith("write", n)]
        /\ script[o].at = "spawn"
    BY <1>3, <1>9, <2>1 DEF Spawn, GotoStep
  <2>3. /\ atWith("write", n) \in ScriptType /\ atWith("write", n).at = "write"
        /\ atWith("write", n).pid = n
    BY <1>3, <2>1
  <2>4. pidFile = NoPid /\ \A p \in Pids \ byHand : ~Alive(p)
    BY <1>0, <2>2, PidAssumption DEF KnowsInv, OwnerInv, OneOperator
  <2>5. /\ step' \in [Pids -> 0 .. Gone] /\ step'[n] # 0
        /\ \A p \in Pids : p # n => step'[p] = step[p]
    BY <1>0, <2>2, ProgramLength DEF ProcessesTyped
  <2>6. ScriptsTyped' /\ UsedInv' /\ KnowsInv'
    <3>1. script' \in [Operators -> ScriptType] /\ script'[o] = atWith("write", n)
      BY <1>0, <2>2, <2>3
    <3>2. \A u \in Operators : u = o
      BY DEF OneOperator
    <3> QED
      BY <1>0, <2>2, <2>3, <2>4, <2>5, <3>1, <3>2
         DEF ScriptsTyped, UsedInv, KnowsInv, ProcessesTyped, Knows, Removing
  <2>7. OwnerInv'
    <3>1. script'[o] = atWith("write", n)
      BY <1>0, <2>2
    <3>2. \A p \in Pids \ byHand : p # n => ~Alive(p)'
      BY <2>4, <2>5 DEF Alive
    <3> QED
      BY <2>2, <2>3, <3>1, <3>2 DEF OwnerInv
  <2> QED
    BY <2>6, <2>7 DEF PidInv
<1>10. CASE WritePid(o)
  <2>1. /\ Ages /\ UNCHANGED <<step, byHand>> /\ script[o].at = "write"
        /\ pidFile' = script[o].pid /\ script' = [script EXCEPT ![o] = at("verify")]
    BY <1>2, <1>4, <1>10 DEF WritePid, Knows
  <2>2. script[o].pid \in Pids /\ step[script[o].pid] # 0 /\ pidFile = NoPid
    BY <1>0, <2>1 DEF UsedInv, KnowsInv
  <2>3. /\ at("verify") \in ScriptType /\ at("verify").at = "verify"
        /\ at("verify").pid = pidFile'
    BY <1>2, <2>1 DEF Knows
  <2>4. \A p \in Pids \ byHand' : Alive(p)' => pidFile' = p
    <3>1. ASSUME NEW p \in Pids, p \notin byHand, Alive(p)
          PROVE  script[o].pid = p
      BY <1>0, <2>2, <3>1, PidAssumption DEF OwnerInv, OneOperator
    <3> QED
      BY <2>1, <3>1 DEF Alive
  <2> QED
    BY <2>1, <2>2, <2>3, <2>4, PidAssumption, ScriptKeepsPidInv DEF Removing
<1>11. CASE StopTerm(o)
  <2>1. /\ Ages /\ UNCHANGED pidFile /\ script[o].at = "term"
        /\ script' = [script EXCEPT ![o] = at("wait")]
    BY <1>0, <1>2, <1>11, SendAges DEF StopTerm, Knows
  <2>2. at("wait") \in ScriptType /\ at("wait").at = "wait" /\ at("wait").pid = pidFile
    BY <1>2, <1>5, <2>1 DEF Knows
  <2> QED
    BY <1>5, <2>1, <2>2, PidAssumption, ReadingKeepsPidInv DEF Removing, Knows
<1>12. CASE StopKill(o)
  <2>1. /\ UNCHANGED pidFile /\ script[o].at = "kill" /\ Die(script[o].pid)
        /\ script' = [script EXCEPT ![o] = at("stopped")]
    BY <1>2, <1>12 DEF StopKill, Knows
  <2>2. script[o].pid = pidFile /\ pidFile \in Pids /\ pidFile # NoPid
    BY <1>5, <2>1, PidAssumption DEF Knows
  <2>3. Ages
    BY <1>0, <2>1, <2>2, DyingAges
  <2>4. ~Alive(pidFile)'
    BY <1>0, <2>1, <2>2 DEF Die, GotoStep, Alive, ProcessesTyped
  <2>5. /\ at("stopped") \in ScriptType /\ at("stopped").at = "stopped"
        /\ at("stopped").pid = pidFile
    BY <1>2, <2>2 DEF Knows
  <2> QED
    BY <2>1, <2>2, <2>3, <2>4, <2>5, ReadingKeepsPidInv
<1> QED
  BY <1>6, <1>7, <1>8, <1>9, <1>10, <1>11, <1>12 DEF Script

LEMMA InitPidInv == Init => PidInv
<1> SUFFICES ASSUME Init
             PROVE  PidInv
    OBVIOUS
<1>1. ScriptsTyped
  BY ProgramLength DEF Init, ScriptsTyped, ProcessesTyped, ScriptType, NoScript
<1>2. \A p \in Pids : ~Alive(p)
  BY DEF Init, Alive
<1>3. \A o \in Operators : script[o].at = "done"
  BY DEF Init, NoScript
<1> QED
  BY <1>1, <1>2, <1>3
     DEF Init, PidInv, UsedInv, KnowsInv, OwnerInv, Knows, Removing

LEMMA NextPidInv == OneOperator /\ PidInv /\ [Next]_vars => PidInv'
<1> SUFFICES ASSUME OneOperator, PidInv, [Next]_vars
             PROVE  PidInv'
    OBVIOUS
<1>0. /\ ProcessesTyped /\ script \in [Operators -> ScriptType]
      /\ pidFile \in Pids \cup {NoPid}
  BY DEF PidInv, ScriptsTyped
<1>1. ASSUME NEW p \in Pids,
             \/ Server(p) \/ Fill(p) \/ Crash(p) \/ \E s \in Signals : Signal(p, s)
      PROVE  PidInv'
  <2>1. UNCHANGED <<pidFile, script>>
    BY <1>1 DEF Server, Fill, Crash, Signal
  <2> QED
    BY <1>0, <1>1, <2>1, ProcessesAge, AgingKeepsPidInv
<1>2. ASSUME NEW o \in Operators, Run(o)
      PROVE  PidInv'
  <2>1. Ages /\ UNCHANGED pidFile /\ script[o].at = "done"
    BY <1>0, <1>2, StayingAges DEF Run, server, NoScript
  <2>2. script[o] \in ScriptType
    BY <1>0
  <2>3. \/ \E at \in {"start", "stop", "status"} :
             script' = [script EXCEPT ![o] = [script[o] EXCEPT !.at = at]]
        \/ script' = [script EXCEPT ![o] = [NoScript EXCEPT !.then = "start", !.at = "stop"]]
    BY <1>0, <1>2 DEF Run, Goto
  <2>4. PICK s \in ScriptType : /\ script' = [script EXCEPT ![o] = s]
                                /\ s.at \in {"start", "stop", "status"}
    <3>1. ASSUME NEW at \in {"start", "stop", "status"}
          PROVE  [script[o] EXCEPT !.at = at] \in ScriptType
      BY <2>2 DEF ScriptType
    <3>2. ASSUME NEW at \in {"start", "stop", "status"}
          PROVE  [script[o] EXCEPT !.at = at].at = at
      BY <2>2 DEF ScriptType
    <3>3. /\ [NoScript EXCEPT !.then = "start", !.at = "stop"] \in ScriptType
          /\ [NoScript EXCEPT !.then = "start", !.at = "stop"].at = "stop"
      BY DEF ScriptType, NoScript
    <3> QED
      BY <2>3, <3>1, <3>2, <3>3
  <2> QED
    BY <2>1, <2>4, ReadingKeepsPidInv DEF Knows, Removing
<1>3. ASSUME NEW o \in Operators, Script(o)
      PROVE  PidInv'
  BY <1>3, ScriptStepKeepsPidInv
<1>4. CASE RunDaemon
  <2>1. PICK n \in Pids : n = NewPid /\ step[n] = 0
    BY <1>4, NewPidIsFresh DEF RunDaemon
  <2>2. /\ step' = [step EXCEPT ![n] = 1] /\ byHand' = byHand \cup {n}
        /\ UNCHANGED <<pidFile, script>>
    BY <1>4, <2>1 DEF RunDaemon, GotoStep
  <2>3. Ages
    BY <1>0, <2>1, <2>2, ProgramLength DEF Ages, ProcessesTyped, Alive
  <2> QED
    BY <2>2, <2>3, AgingKeepsPidInv
<1>5. CASE UNCHANGED vars
  <2>1. Ages /\ UNCHANGED <<pidFile, script>>
    BY <1>0, <1>5, StayingAges DEF vars, server
  <2> QED
    BY <2>1, AgingKeepsPidInv
<1> QED
  BY <1>1, <1>2, <1>3, <1>4, <1>5 DEF Next

(* With one operator at a time, whenever no script runs a server started   *)
(* by the scripts that lives is the one the PID file names, whatever       *)
(* crashed, was killed or failed to start before.                          *)
THEOREM PidFileIsRight ==
  ASSUME OneOperator
  PROVE  Spec => []PidFileNamesServer
<1>1. PidInv /\ [Next]_vars => PidInv'
  BY NextPidInv
<1>2. PidInv => PidFileNamesServer
  BY DEF PidInv, OwnerInv, PidFileNamesServer, NoScript
<1> QED
  BY <1>1, <1>2, InitPidInv, PTL DEF Spec

(* Nor does a script remove the PID file of a server that lives.           *)
THEOREM ScriptsRemoveOnlyStale ==
  ASSUME OneOperator
  PROVE  Spec => []RemovesOnlyStale
<1>1. PidInv /\ [Next]_vars => PidInv'
  BY NextPidInv
<1>2. PidInv => RemovesOnlyStale
  BY DEF PidInv, KnowsInv, RemovesOnlyStale
<1> QED
  BY <1>1, <1>2, InitPidInv, PTL DEF Spec

-----------------------------------------------------------------------------
(* The log files, whoever writes them and with any number of operators.    *)

LoggerTyped ==
  /\ mutex \in [Pids -> BOOLEAN]
  /\ names \in [0 .. MaxBackups -> Files \cup {NoFile}] /\ full \subseteq Files
  /\ stream \in [Pids -> Files \cup {NoFile}]
  /\ rotating \in [Pids -> Idle .. MaxBackups]

(* What a process does to them while it lives.                             *)
LoggerStep(p) ==
  \/ OpenLog(p) /\ UNCHANGED <<mutex, rotating>>
  \/ \E fills \in BOOLEAN : WriteLine(p, fills, Backups)
  \/ Unlocked(p)
  \/ Rotate(p, Backups)

LEMMA WriteIsLine ==
  ASSUME NEW p \in Pids, NEW fills \in BOOLEAN, Write(p, fills)
  PROVE  LoggerStep(p)
<1>1. CASE fills \/ AlwaysFull
  <2>1. WriteLine(p, TRUE, Backups)
    BY <1>1 DEF Write, WriteLine
  <2> QED
    BY <2>1 DEF LoggerStep
<1>2. CASE ~ (fills \/ AlwaysFull)
  <2>1. WriteLine(p, FALSE, Backups)
    BY <1>2 DEF Write, WriteLine
  <2> QED
    BY <2>1 DEF LoggerStep
<1> QED
  BY <1>1, <1>2

LEMMA ServerLogs ==
  ASSUME NEW p \in Pids, Server(p)
  PROVE  UNCHANGED loggerVars \/ LoggerStep(p) \/ LoggerGone(p)
<1>1. CASE Load(p) \/ DaemonPid(p) \/ Arm(p) \/ Pool(p) \/ Bind(p) \/ Listen(p)
  BY <1>1 DEF Load, DaemonPid, Arm, Pool, Bind, Listen, Die
<1>2. CASE Open(p)
  BY <1>2 DEF Open, Die, LoggerStep
<1>3. CASE Lock(p, FALSE) \/ HandlerLock(p, FALSE)
  BY <1>3, WriteIsLine DEF Lock, HandlerLock
<1>4. CASE Unlock(p) \/ HandlerReturn(p)
  BY <1>4 DEF Unlock, HandlerReturn, LoggerStep
<1>5. CASE Daemonize(p)
  BY <1>5 DEF Daemonize
<1>6. CASE Return(p) \/ Terminate(p)
  BY <1>6 DEF Return, Terminate, Die
<1>7. CASE RotateLog(p)
  BY <1>7 DEF RotateLog, LoggerStep
<1>8. CASE \E s \in Signals : Handle(p, s)
  BY <1>8 DEF Handle
<1> QED
  BY <1>1, <1>2, <1>3, <1>4, <1>5, <1>6, <1>7, <1>8 DEF Server, Main

LEMMA ScriptLogs ==
  ASSUME NEW o \in Operators, Run(o) \/ Script(o)
  PROVE  UNCHANGED loggerVars \/ \E p : LoggerGone(p)
<1>1. CASE Run(o) \/ StartRead(o) \/ StartCheck(o) \/ StartRemove(o) \/ WritePid(o)
           \/ Verify(o) \/ StartFailed(o)
  BY <1>1 DEF Run, StartRead, StartCheck, StartRemove, WritePid, Verify, StartFailed,
     RemovePid, server
<1>2. CASE StopRead(o) \/ StopCheck(o) \/ StopWait(o) \/ Stopped(o)
           \/ StatusRead(o) \/ StatusCheck(o) \/ StatusRemove(o)
  BY <1>2 DEF StopRead, StopCheck, StopWait, Stopped, StatusRead, StatusCheck, StatusRemove,
     RemovePid, server
<1>3. CASE Spawn(o)
  BY <1>3 DEF Spawn
<1>4. CASE StopTerm(o) \/ StopKill(o)
  BY <1>4 DEF StopTerm, StopKill, Send, Die
<1> QED
  BY <1>1, <1>2, <1>3, <1>4 DEF Script

LEMMA LogSteps ==
  ASSUME [Next]_vars
  PROVE  /\ configFile' = configFile
         /\ \/ UNCHANGED loggerVars
            \/ \E p \in Pids : LoggerStep(p)
            \/ \E p : LoggerGone(p)
<1>1. ASSUME NEW p \in Pids, Server(p)
      PROVE  configFile' = configFile /\ (UNCHANGED loggerVars \/ LoggerStep(p) \/ LoggerGone(p))
  BY <1>1, ServerLogs DEF Server
<1>2. ASSUME NEW p \in Pids, Fill(p)
      PROVE  configFile' = configFile /\ LoggerStep(p)
  BY <1>2, WriteIsLine DEF Fill, Lock, HandlerLock
<1>3. ASSUME NEW p \in Pids, Crash(p) \/ \E s \in Signals : Signal(p, s)
      PROVE  configFile' = configFile /\ (UNCHANGED loggerVars \/ LoggerGone(p))
  BY <1>3 DEF Crash, Signal, Send, Die
<1>4. ASSUME NEW o \in Operators, Run(o) \/ Script(o)
      PROVE  configFile' = configFile
  BY <1>4 DEF Run, Script, StartRead, StartCheck, StartRemove, WritePid, Verify, StartFailed,
     RemovePid, Spawn, StopRead, StopCheck, StopTerm, StopWait, StopKill, Stopped, StatusRead,
     StatusCheck, StatusRemove
<1>5. CASE RunDaemon
  BY <1>5 DEF RunDaemon
<1>6. CASE UNCHANGED vars
  BY <1>6 DEF vars, server
<1> QED
  BY <1>1, <1>2, <1>3, <1>4, <1>5, <1>6, ScriptLogs DEF Next

(* The number of backups is fixed, and there is always a file to be made.  *)
LEMMA BackupsType ==
  ASSUME configFile \in ConfigFiles
  PROVE  Backups \in 1 .. MaxBackups
<1>1. Settings[configFile] = Parse(configFile)
  BY DEF Settings
<1> QED
  BY <1>1, BackupsAssumption, FileAssumption DEF Backups

LEMMA FileToMake ==
  ASSUME LoggerTyped
  PROVE  Unused # {}
<1> DEFINE Named == {names[i] : i \in 0 .. MaxBackups}
           Opened == {stream[p] : p \in Pids}
<1>1. IsFiniteSet(Named) /\ Cardinality(Named) <= MaxBackups + 1
  <2>1. IsFiniteSet(0 .. MaxBackups) /\ Cardinality(0 .. MaxBackups) = MaxBackups + 1
    BY FileAssumption, FS_Interval
  <2> HIDE DEF Named
  <2>2. IsFiniteSet(Named) /\ Cardinality(Named) <= Cardinality(0 .. MaxBackups)
    <3>1. names \in Surjection(0 .. MaxBackups, Named)
      BY DEF LoggerTyped, Surjection, Named
    <3> QED
      BY <2>1, <3>1, FS_Surjection
  <2> QED
    BY <2>1, <2>2
<1>2. IsFiniteSet(Opened) /\ Cardinality(Opened) <= Cardinality(Pids)
  <2>1. stream \in Surjection(Pids, Opened)
    BY DEF LoggerTyped, Surjection
  <2> HIDE DEF Opened
  <2> QED
    BY <2>1, FileAssumption, FS_Surjection
<1>3. IsFiniteSet(Named \cup Opened)
      /\ Cardinality(Named \cup Opened) <= MaxBackups + 1 + Cardinality(Pids)
  <2> HIDE DEF Named, Opened
  <2>1. IsFiniteSet(Named \cup Opened)
    BY <1>1, <1>2, FS_Union
  <2>2. Cardinality(Named \cup Opened)
          = Cardinality(Named) + Cardinality(Opened) - Cardinality(Named \cap Opened)
    BY <1>1, <1>2, FS_Union
  <2>3. IsFiniteSet(Named \cap Opened)
    BY <1>1, FS_Intersection
  <2> QED
    BY <1>1, <1>2, <2>1, <2>2, <2>3, FileAssumption, FS_CardinalityType
<1>4. ASSUME Files \subseteq Named \cup Opened
      PROVE  FALSE
  <2>1. Cardinality(Files) <= Cardinality(Named \cup Opened)
    BY <1>3, <1>4, FS_Subset
  <2> HIDE DEF Named, Opened
  <2> QED
    BY <1>3, <2>1, FileAssumption, FS_CardinalityType
<1>5. PICK f \in Files : f \notin Named \cup Opened
  BY <1>4
<1>6. f \in Unused
  BY <1>5 DEF Unused, LoggerTyped
<1> QED
  BY <1>6

LEMMA NextLoggerTyped ==
  ASSUME LoggerTyped, configFile \in ConfigFiles, [Next]_vars
  PROVE  LoggerTyped'
<1>0. Backups \in 1 .. MaxBackups /\ MaxBackups \in Nat /\ Idle = -2 /\ Reopening = -1
  BY BackupsType, FileAssumption DEF Idle, Reopening
<1>1. ASSUME NEW p \in Pids, OpenLog(p)
      PROVE  /\ names' \in [0 .. MaxBackups -> Files \cup {NoFile}] /\ full' \subseteq Files
             /\ stream' \in [Pids -> Files \cup {NoFile}]
  <2> DEFINE new == CHOOSE f \in Unused : TRUE
             file == IF names[0] = NoFile THEN new ELSE names[0]
  <2>1. new \in Files
    BY FileToMake DEF Unused
  <2>2. file \in Files
    BY <1>0, <2>1 DEF LoggerTyped
  <2>3. /\ names' = [names EXCEPT ![0] = file] /\ stream' = [stream EXCEPT ![p] = file]
        /\ full' \subseteq full
    BY <1>1 DEF OpenLog
  <2> HIDE DEF file
  <2> QED
    BY <2>2, <2>3 DEF LoggerTyped
<1>2. ASSUME NEW p \in Pids, NEW fills \in BOOLEAN, WriteLine(p, fills, Backups)
      PROVE  LoggerTyped'
  BY <1>0, <1>2 DEF WriteLine, LoggerTyped
<1>3. ASSUME NEW p \in Pids, Unlocked(p) \/ Rotate(p, Backups)
      PROVE  LoggerTyped'
  <2>1. CASE Unlocked(p)
    BY <2>1 DEF Unlocked, LoggerTyped
  <2>2. CASE RemoveOldest(p, Backups)
    BY <1>0, <2>2 DEF RemoveOldest, LoggerTyped
  <2>3. CASE Rename(p, Backups)
    BY <1>0, <2>3 DEF Rename, LoggerTyped
  <2>4. CASE Reopen(p)
    BY <1>0, <1>1, <2>4 DEF Reopen, LoggerTyped
  <2> QED
    BY <1>3, <2>1, <2>2, <2>3, <2>4 DEF Rotate
<1>4. ASSUME NEW p, LoggerGone(p)
      PROVE  LoggerTyped'
  <2>1. CASE p \in Pids
    BY <1>0, <1>4, <2>1 DEF LoggerGone, LoggerTyped
  <2>2. CASE p \notin Pids
    <3>1. UNCHANGED loggerVars
      BY <1>4, <2>2 DEF LoggerGone, LoggerTyped, loggerVars
    <3> QED
      BY <3>1 DEF loggerVars, LoggerTyped
  <2> QED
    BY <2>1, <2>2
<1>5. CASE UNCHANGED loggerVars
  BY <1>5 DEF loggerVars, LoggerTyped
<1> QED
  BY <1>1, <1>2, <1>3, <1>4, <1>5, LogSteps DEF LoggerStep, LoggerTyped

LoggerInv == LoggerTyped /\ configFile \in ConfigFiles

LEMMA InitLoggerInv == Init => LoggerInv
BY FileAssumption DEF Init, LoggerInit, LoggerInv, LoggerTyped, Idle

LEMMA NextLoggerInv == LoggerInv /\ [Next]_vars => LoggerInv'
BY NextLoggerTyped, LogSteps DEF LoggerInv

(* The backups below the oldest are moved by one process each: where one   *)
(* is to be moved to, there is nothing, and no other is about to move it.  *)
(* A process that follows cannot overtake, for it finds nothing to rename. *)
Moving(p) == rotating[p] \in 0 .. Backups - 2

RotationInv ==
  \A p \in Pids : Moving(p) => /\ names[rotating[p] + 1] = NoFile
                               /\ \A q \in Pids : rotating[q] = rotating[p] => q = p

LEMMA RotateKeepsRotationInv ==
  ASSUME LoggerInv, RotationInv, NEW p \in Pids, LoggerStep(p), UNCHANGED configFile
  PROVE  RotationInv'
<1>0. /\ Backups \in 1 .. MaxBackups /\ Backups' = Backups /\ MaxBackups \in Nat
      /\ Idle = -2 /\ Reopening = -1 /\ LoggerTyped
  BY BackupsType, FileAssumption DEF LoggerInv, Backups, Idle, Reopening
<1>1. CASE OpenLog(p) /\ UNCHANGED rotating
  <2>1. \A i \in 1 .. MaxBackups : names'[i] = names[i]
    BY <1>0, <1>1 DEF OpenLog, LoggerTyped
  <2> QED
    BY <1>0, <1>1, <2>1 DEF RotationInv, Moving, LoggerTyped
<1>2. CASE \E fills \in BOOLEAN : WriteLine(p, fills, Backups)
  <2>1. UNCHANGED names
        /\ (UNCHANGED rotating \/ rotating' = [rotating EXCEPT ![p] = Backups])
    BY <1>2 DEF WriteLine
  <2> QED
    BY <1>0, <2>1 DEF RotationInv, Moving, LoggerTyped
<1>3. CASE Unlocked(p)
  BY <1>0, <1>3 DEF Unlocked, RotationInv, Moving
<1>4. CASE RemoveOldest(p, Backups)
  BY <1>0, <1>4 DEF RemoveOldest, RotationInv, Moving, LoggerTyped
<1>5. CASE Rename(p, Backups)
  <2> DEFINE i == rotating[p]
  <2>1. /\ i \in 0 .. Backups - 1 /\ names[i] # NoFile
        /\ names' = [names EXCEPT ![i + 1] = names[i], ![i] = NoFile]
        /\ rotating' = [rotating EXCEPT ![p] = i - 1]
    BY <1>5 DEF Rename
  <2> SUFFICES ASSUME NEW q \in Pids, rotating'[q] \in 0 .. Backups - 2
               PROVE  /\ names'[rotating'[q] + 1] = NoFile
                      /\ \A r \in Pids : rotating'[r] = rotating'[q] => r = q
      BY <1>0 DEF RotationInv, Moving
  <2>2. \A r \in Pids : rotating[r] = i - 1 => ~Moving(r)
    BY <1>0, <2>1 DEF RotationInv, LoggerTyped
  <2>3. CASE q = p
    BY <1>0, <2>1, <2>2, <2>3 DEF Moving, LoggerTyped
  <2>4. CASE q # p
    <3>1. rotating'[q] = rotating[q] /\ Moving(q)
      BY <1>0, <2>1, <2>4 DEF Moving, LoggerTyped
    <3>2. /\ names[rotating[q] + 1] = NoFile
          /\ \A r \in Pids : rotating[r] = rotating[q] => r = q
      BY <3>1 DEF RotationInv
    <3>3. rotating[q] # i /\ rotating[q] # i - 1
      BY <2>2, <2>4, <3>1, <3>2
    <3> QED
      BY <1>0, <2>1, <3>1, <3>2, <3>3 DEF Moving, LoggerTyped
  <2> QED
    BY <2>3, <2>4
<1>6. CASE Reopen(p)
  <2>1. /\ \A i \in 1 .. MaxBackups : names'[i] = names[i]
        /\ rotating' = [rotating EXCEPT ![p] = Idle]
    BY <1>0, <1>6 DEF Reopen, OpenLog, LoggerTyped
  <2> QED
    BY <1>0, <2>1 DEF RotationInv, Moving, LoggerTyped
<1> QED
  BY <1>1, <1>2, <1>3, <1>4, <1>5, <1>6 DEF LoggerStep, Rotate

LEMMA InitRotationInv == Init => RotationInv
BY DEF Init, LoggerInit, RotationInv, Moving, Idle

LEMMA NextRotationInv == LoggerInv /\ RotationInv /\ [Next]_vars => RotationInv'
<1> SUFFICES ASSUME LoggerInv, RotationInv, [Next]_vars
             PROVE  RotationInv'
    OBVIOUS
<1>0. /\ configFile' = configFile /\ Backups' = Backups /\ Idle = -2
      /\ rotating \in [Pids -> Idle .. MaxBackups]
  BY LogSteps DEF Backups, Idle, LoggerInv, LoggerTyped
<1>1. CASE UNCHANGED loggerVars
  BY <1>0, <1>1 DEF loggerVars, RotationInv, Moving
<1>2. ASSUME NEW p, LoggerGone(p)
      PROVE  RotationInv'
  <2>1. \A q \in Pids : rotating'[q] \in {rotating[q], Idle}
    BY <1>0, <1>2 DEF LoggerGone
  <2> QED
    BY <1>0, <1>2, <2>1 DEF LoggerGone, RotationInv, Moving
<1> QED
  BY <1>0, <1>1, <1>2, LogSteps, RotateKeepsRotationInv

(* Of a step that changes the directory: what has a name keeps one, unless *)
(* it was the oldest backup.                                               *)
LEMMA StepKeepsLogs ==
  ASSUME LoggerInv, RotationInv, [Next]_vars, names' # names
  PROVE  \A i \in DOMAIN names :
           (names[i] # NoFile /\ \A j \in DOMAIN names : names'[j] # names[i]) => i = Backups
<1>0. /\ Backups \in 1 .. MaxBackups /\ MaxBackups \in Nat /\ LoggerTyped
      /\ DOMAIN names = 0 .. MaxBackups
  BY BackupsType, FileAssumption DEF LoggerInv, LoggerTyped
<1>1. PICK p \in Pids : LoggerStep(p)
  BY LogSteps DEF loggerVars, LoggerGone
<1> SUFFICES ASSUME NEW i \in 0 .. MaxBackups, names[i] # NoFile, i # Backups
             PROVE  \E j \in 0 .. MaxBackups : names'[j] = names[i]
    BY <1>0
<1>2. CASE OpenLog(p)
  <2>1. names'[i] = names[i]
    BY <1>0, <1>2 DEF OpenLog, LoggerTyped
  <2> QED
    BY <2>1
<1>3. CASE RemoveOldest(p, Backups)
  <2>1. names'[i] = names[i]
    BY <1>0, <1>3 DEF RemoveOldest, LoggerTyped
  <2> QED
    BY <2>1
<1>4. CASE Rename(p, Backups)
  <2> DEFINE k == rotating[p]
  <2>1. /\ k \in 0 .. Backups - 1
        /\ names' = [names EXCEPT ![k + 1] = names[k], ![k] = NoFile]
    BY <1>4 DEF Rename
  <2>2. k = Backups - 1 \/ k \in 0 .. Backups - 2
    BY <1>0, <2>1
  <2>3. i # k + 1
    <3>1. CASE k = Backups - 1
      BY <1>0, <3>1
    <3>2. CASE k \in 0 .. Backups - 2
      BY <3>2 DEF RotationInv, Moving
    <3> QED
      BY <2>2, <3>1, <3>2
  <2>4. CASE i = k
    <3>1. names'[k + 1] = names[i] /\ k + 1 \in 0 .. MaxBackups
      BY <1>0, <2>1, <2>4 DEF LoggerTyped
    <3> QED
      BY <3>1
  <2>5. CASE i # k
    <3>1. names'[i] = names[i]
      BY <1>0, <2>1, <2>3, <2>5 DEF LoggerTyped
    <3> QED
      BY <3>1
  <2> QED
    BY <2>4, <2>5
<1> QED
  BY <1>1, <1>2, <1>3, <1>4
     DEF LoggerStep, Rotate, Reopen, WriteLine, Unlocked

(* For any number of processes and operators and any configuration, the    *)
(* rotation of the log loses no file but the oldest backup: not where two  *)
(* servers rotate at once, nor where one died half way.                    *)
THEOREM RotationLosesNoLog == Spec => RotationKeepsLogs
<1>1. LoggerInv /\ RotationInv /\ [Next]_vars
        => [\A i \in DOMAIN names :
              (names[i] # NoFile /\ \A j \in DOMAIN names : names'[j] # names[i])
                => i = Backups]_names
  BY StepKeepsLogs
<1>2. LoggerInv /\ RotationInv /\ [Next]_vars => LoggerInv' /\ RotationInv'
  BY NextLoggerInv, NextRotationInv
<1>3. Init => LoggerInv /\ RotationInv
  BY InitLoggerInv, InitRotationInv
<1> QED
  BY <1>1, <1>2, <1>3, PTL DEF Spec, RotationKeepsLogs

-----------------------------------------------------------------------------
(* The type invariant, with any number of operators.                       *)

Running == [signal : Signals, at : {"lock", "unlock"}]

SignalsTyped ==
  /\ pending \in [Pids -> SUBSET Signals]
  /\ handlers \in [Pids -> Seq(Running)]
  /\ flag \in [Pids -> BOOLEAN]

(* Only a process that has set its handlers up has signals to handle, and  *)
(* no handler is interrupted by its own signal.                            *)
SignalsInv ==
  \A p \in Pids :
    /\ (Alive(p) /\ Armed(p)) \/ (pending[p] = {} /\ handlers[p] = << >>)
    /\ \A i, j \in DOMAIN handlers[p] :
         handlers[p][i].signal = handlers[p][j].signal => i = j

(* Who listens has come so far, and only a daemon does what daemons do.    *)
PlacesInv ==
  /\ port \in Pids \cup {NoPid} /\ rootPid \in byHand \cup {NoPid}
  /\ \A p \in Pids : /\ port = p => step[p] \in 17 .. 22
                     /\ step[p] \in 5 .. 8 => p \in byHand

ProcessInv == ProcessesTyped /\ SignalsTyped /\ SignalsInv /\ PlacesInv

LEMMA StayingKeepsProcessInv ==
  ASSUME ProcessInv, UNCHANGED <<step, byHand, signals, port, rootPid>>
  PROVE  ProcessInv'
BY DEF ProcessInv, ProcessesTyped, SignalsTyped, SignalsInv, PlacesInv, Alive, Armed, signals

LEMMA GoingOnKeepsProcessInv ==
  ASSUME ProcessInv, NEW p \in Pids, NEW n \in 1 .. 22,
         step[p] \in 1 .. n - 1, step' = [step EXCEPT ![p] = n],
         n \in 5 .. 8 => p \in byHand,
         port' = port \/ (port' = p /\ n = 17),
         rootPid' = rootPid \/ (rootPid' = p /\ p \in byHand),
         UNCHANGED <<byHand, signals>>
  PROVE  ProcessInv'
<1>0. ProcessesTyped /\ SignalsTyped /\ SignalsInv /\ PlacesInv /\ step \in [Pids -> 0 .. 23]
  BY ProgramLength DEF ProcessInv, ProcessesTyped
<1>1. step'[p] = n /\ \A q \in Pids : q # p => step'[q] = step[q]
  BY <1>0
<1>2. ProcessesTyped' /\ SignalsTyped'
  BY <1>0, ProgramLength DEF ProcessesTyped, SignalsTyped, signals
<1>3. \A q \in Pids : Alive(q) /\ Armed(q) => Alive(q)' /\ Armed(q)'
  BY <1>0, <1>1, ProgramLength DEF Alive, Armed
<1>4. SignalsInv'
  BY <1>0, <1>3 DEF SignalsInv, signals
<1>5. PlacesInv'
  BY <1>0, <1>1, PidAssumption DEF PlacesInv
<1> QED
  BY <1>2, <1>4, <1>5 DEF ProcessInv

LEMMA DyingKeepsProcessInv ==
  ASSUME ProcessInv, NEW p, Die(p)
  PROVE  ProcessInv'
<1>0. ProcessesTyped /\ SignalsTyped /\ SignalsInv /\ PlacesInv /\ step \in [Pids -> 0 .. 23]
  BY ProgramLength DEF ProcessInv, ProcessesTyped
<1>1. /\ step' = [step EXCEPT ![p] = 23] /\ UNCHANGED <<byHand, rootPid>>
      /\ port' = (IF port = p THEN NoPid ELSE port)
      /\ pending' = [pending EXCEPT ![p] = {}]
      /\ handlers' = [handlers EXCEPT ![p] = << >>]
      /\ flag' = [flag EXCEPT ![p] = FALSE]
  BY ProgramLength DEF Die, GotoStep
<1>2. \A q \in Pids : IF q = p THEN /\ step'[q] = 23 /\ pending'[q] = {}
                                    /\ handlers'[q] = << >>
                               ELSE /\ step'[q] = step[q] /\ pending'[q] = pending[q]
                                    /\ handlers'[q] = handlers[q]
  BY <1>0, <1>1 DEF SignalsTyped
<1>3. ProcessesTyped'
  <2>1. step' \in [Pids -> 0 .. 23]
    <3>1. CASE p \in Pids
      BY <1>0, <1>1, <3>1
    <3>2. CASE p \notin Pids
      <4>1. step' = step
        BY <1>0, <1>1, <3>2
      <4> QED
        BY <1>0, <4>1
    <3> QED
      BY <3>1, <3>2
  <2> QED
    BY <1>0, <1>1, <2>1, ProgramLength DEF ProcessesTyped
<1>4. SignalsTyped'
  <2>1. pending' \in [Pids -> SUBSET Signals] /\ flag' \in [Pids -> BOOLEAN]
    BY <1>0, <1>1 DEF SignalsTyped
  <2>2. << >> \in Seq(Running)
    OBVIOUS
  <2>3. handlers' \in [Pids -> Seq(Running)]
    BY <1>0, <1>1, <2>2 DEF SignalsTyped
  <2> QED
    BY <2>1, <2>3 DEF SignalsTyped
<1>5. SignalsInv'
  <2> SUFFICES ASSUME NEW q \in Pids
               PROVE  /\ \/ Alive(q)' /\ Armed(q)'
                         \/ pending'[q] = {} /\ handlers'[q] = << >>
                      /\ \A i, j \in DOMAIN handlers'[q] :
                           handlers'[q][i].signal = handlers'[q][j].signal => i = j
      BY DEF SignalsInv
  <2>1. CASE q = p
    BY <1>2, <2>1
  <2>2. CASE q # p
    BY <1>0, <1>2, <2>2 DEF SignalsInv, Alive, Armed
  <2> QED
    BY <2>1, <2>2
<1>6. PlacesInv'
  BY <1>0, <1>1, <1>2, PidAssumption DEF PlacesInv
<1> QED
  BY <1>3, <1>4, <1>5, <1>6 DEF ProcessInv

LEMMA BeginningKeepsProcessInv ==
  ASSUME ProcessInv, NEW n \in Pids, step[n] = 0, step' = [step EXCEPT ![n] = 1],
         byHand' \in {byHand, byHand \cup {n}}, UNCHANGED <<signals, port, rootPid>>
  PROVE  ProcessInv'
<1>0. ProcessesTyped /\ SignalsTyped /\ SignalsInv /\ PlacesInv /\ step \in [Pids -> 0 .. 23]
  BY ProgramLength DEF ProcessInv, ProcessesTyped
<1>1. step'[n] = 1 /\ \A q \in Pids : q # n => step'[q] = step[q]
  BY <1>0
<1>2. ProcessesTyped' /\ SignalsTyped'
  BY <1>0, ProgramLength DEF ProcessesTyped, SignalsTyped, signals
<1>3. \A q \in Pids : Alive(q) /\ Armed(q) => Alive(q)' /\ Armed(q)'
  BY <1>0, <1>1, ProgramLength DEF Alive, Armed
<1>4. SignalsInv'
  BY <1>0, <1>3 DEF SignalsInv, signals
<1>5. PlacesInv'
  BY <1>0, <1>1, PidAssumption DEF PlacesInv
<1> QED
  BY <1>2, <1>4, <1>5 DEF ProcessInv

(* The handlers of a process that lives change.                            *)
LEMMA HandlingKeepsProcessInv ==
  ASSUME ProcessInv, NEW p \in Pids, Alive(p), Armed(p),
         NEW S \in SUBSET Signals, pending' = [pending EXCEPT ![p] = S],
         NEW h \in Seq(Running), handlers' = [handlers EXCEPT ![p] = h],
         \A i, j \in DOMAIN h : h[i].signal = h[j].signal => i = j,
         flag' \in [Pids -> BOOLEAN], UNCHANGED <<step, byHand, port, rootPid>>
  PROVE  ProcessInv'
<1>0. ProcessesTyped /\ SignalsTyped /\ SignalsInv /\ PlacesInv
  BY DEF ProcessInv
<1>1. \A q \in Pids : IF q = p THEN pending'[q] = S /\ handlers'[q] = h
                               ELSE pending'[q] = pending[q] /\ handlers'[q] = handlers[q]
  BY <1>0 DEF SignalsTyped
<1>2. ProcessesTyped' /\ SignalsTyped' /\ PlacesInv'
  BY <1>0 DEF ProcessesTyped, SignalsTyped, PlacesInv
<1>3. \A q \in Pids : Alive(q)' = Alive(q) /\ Armed(q)' = Armed(q)
  BY DEF Alive, Armed
<1>4. SignalsInv'
  <2> SUFFICES ASSUME NEW q \in Pids
               PROVE  /\ \/ Alive(q)' /\ Armed(q)'
                         \/ pending'[q] = {} /\ handlers'[q] = << >>
                      /\ \A i, j \in DOMAIN handlers'[q] :
                           handlers'[q][i].signal = handlers'[q][j].signal => i = j
      BY DEF SignalsInv
  <2>1. CASE q = p
    BY <1>1, <1>3, <2>1
  <2>2. CASE q # p
    BY <1>0, <1>1, <1>3, <2>2 DEF SignalsInv
  <2> QED
    BY <2>1, <2>2
<1> QED
  BY <1>2, <1>4 DEF ProcessInv

(* Where main is when it does what.                                        *)
LEMMA Parts ==
  \A n \in 1 .. 22 :
    /\ Program[n] = "load" => n = 1
    /\ Program[n] = "open" => n = 2
    /\ Program[n] = "daemon" => n = 5
    /\ Program[n] = "pid" => n = 6
    /\ Program[n] = "arm" => n = 9
    /\ Program[n] = "pool" => n = 12
    /\ Program[n] = "bind" => n = 15
    /\ Program[n] = "listen" => n = 16
    /\ Program[n] = "return" => n = 22
    /\ Program[n] \in {"lock", "unlock"} => n \in {3, 4, 7, 8, 10, 11, 13, 14, 17, 18, 20, 21}
BY DEF Program

LEMMA MainKeepsProcessInv ==
  ASSUME ProcessInv, NEW p \in Pids, Main(p) \/ (\E fills : Lock(p, fills))
  PROVE  ProcessInv'
<1>0. /\ ProcessesTyped /\ step \in [Pids -> 0 .. 23]
      /\ PlacesInv /\ (step[p] = 4 => NextStep(p) \in {5, 9}) /\ byHand \subseteq Pids
  BY ProgramLength DEF ProcessInv, ProcessesTyped, NextStep
<1>1. ASSUME Alive(p), step[p] # 22, Advance(p)
      PROVE  \E n \in 1 .. 22 : /\ step[p] \in 1 .. n - 1 /\ step' = [step EXCEPT ![p] = n]
                                /\ n \in 5 .. 8 => p \in byHand
                                /\ step[p] # 4 => n = step[p] + 1
  <2>1. step[p] \in 1 .. 21 /\ step' = [step EXCEPT ![p] = NextStep(p)]
    BY <1>0, <1>1, ProgramLength DEF Advance, GotoStep, Alive
  <2>2. step[p] # 4 => NextStep(p) = step[p] + 1
    BY <2>1, ProgramLength DEF NextStep
  <2>3. NextStep(p) = 5 => p \in byHand
    BY <1>0, <2>1, ProgramLength DEF NextStep, PlacesInv
  <2>4. NextStep(p) \in 6 .. 8 => p \in byHand
    <3>1. NextStep(p) \in 6 .. 8 => step[p] \in 5 .. 8
      BY <1>0, <2>1, <2>2
    <3> QED
      BY <1>0, <3>1 DEF PlacesInv
  <2>5. NextStep(p) \in 1 .. 22 /\ step[p] \in 1 .. NextStep(p) - 1
    BY <1>0, <2>1, <2>2
  <2>6. PICK n \in 1 .. 22 : n = NextStep(p)
    BY <2>5
  <2>7. step[p] \in 1 .. n - 1 /\ (n \in 5 .. 8 => p \in byHand)
    BY <2>3, <2>4, <2>5, <2>6
  <2> QED
    BY <2>1, <2>2, <2>6, <2>7
<1>2. ASSUME step[p] \in 1 .. 16, Fail(p)
      PROVE  \E n \in 1 .. 22 : /\ step[p] \in 1 .. n - 1 /\ step' = [step EXCEPT ![p] = n]
                                /\ n \in 5 .. 8 => p \in byHand
  BY <1>2, ProgramLength DEF Fail, GotoStep
<1>3. ASSUME NEW s, At(p, s)
      PROVE  step[p] \in 1 .. 22 /\ Program[step[p]] = s /\ Alive(p)
  BY <1>0, <1>3, ProgramLength DEF At, Alive
<1>4. CASE Load(p)
  <2>1. step[p] = 1 /\ Alive(p)
    BY <1>3, <1>4, Parts DEF Load
  <2> QED
    BY <1>1, <1>4, <2>1, GoingOnKeepsProcessInv, DyingKeepsProcessInv DEF Load
<1>5. CASE Open(p)
  <2>1. step[p] = 2 /\ Alive(p)
    BY <1>3, <1>5, Parts DEF Open
  <2> QED
    BY <1>1, <1>5, <2>1, GoingOnKeepsProcessInv, DyingKeepsProcessInv DEF Open
<1>6. CASE Unlock(p) \/ \E fills : Lock(p, fills)
  <2>1. /\ step[p] # 22 /\ Alive(p) /\ Advance(p)
        /\ UNCHANGED <<byHand, signals, port, rootPid>>
    BY <1>3, <1>6, Parts DEF Lock, Unlock
  <2> QED
    BY <1>1, <2>1, GoingOnKeepsProcessInv
<1>7. CASE Daemonize(p)
  <2>1. step[p] = 5 /\ Alive(p) /\ handlers[p] = << >>
    BY <1>3, <1>7, Parts DEF Daemonize, At
  <2>2. CASE Fail(p) /\ UNCHANGED <<byHand, loggerVars, signals, port, rootPid>>
    BY <1>2, <2>1, <2>2, GoingOnKeepsProcessInv
  <2>3. CASE /\ NewPid \in Pids
             /\ step' = [step EXCEPT ![p] = Gone, ![NewPid] = step[p] + 1]
             /\ byHand' = byHand \cup {NewPid}
             /\ UNCHANGED <<signals, port, rootPid>>
    <3>1. PICK n \in Pids : n = NewPid /\ step[n] = 0
      BY <2>3, NewPidIsFresh
    <3>2. step' = [step EXCEPT ![p] = 23, ![n] = 6] /\ byHand' = byHand \cup {n} /\ p # n
      BY <2>1, <2>3, <3>1, ProgramLength
    <3>3. \A q \in Pids : step'[q] = IF q = n THEN 6 ELSE IF q = p THEN 23 ELSE step[q]
      BY <1>0, <3>2
    <3>4. ProcessesTyped'
      BY <1>0, <3>2, <3>3, ProgramLength DEF ProcessesTyped
    <3>5. SignalsTyped' /\ SignalsInv'
      <4>1. \A q \in {p, n} : pending[q] = {} /\ handlers[q] = << >>
        BY <2>1, <3>1, ProgramLength DEF ProcessInv, SignalsInv, Armed, Alive
      <4>2. \A q \in Pids \ {p, n} : Alive(q)' = Alive(q) /\ Armed(q)' = Armed(q)
        BY <3>3 DEF Alive, Armed
      <4>3. UNCHANGED <<pending, handlers, flag>>
        BY <2>3 DEF signals
      <4> QED
        BY <4>1, <4>2, <4>3 DEF ProcessInv, SignalsTyped, SignalsInv
    <3>6. PlacesInv'
      BY <1>0, <2>1, <2>3, <3>1, <3>2, <3>3 DEF PlacesInv
    <3> QED
      BY <3>4, <3>5, <3>6 DEF ProcessInv
  <2> QED
    BY <1>7, <2>2, <2>3 DEF Daemonize
<1>8. CASE DaemonPid(p)
  <2>1. step[p] = 6 /\ Alive(p) /\ p \in byHand
    BY <1>0, <1>3, <1>8, Parts DEF DaemonPid, PlacesInv
  <2> QED
    BY <1>1, <1>2, <1>8, <2>1, GoingOnKeepsProcessInv DEF DaemonPid
<1>9. CASE Arm(p) \/ Pool(p) \/ Bind(p)
  <2>1. step[p] \in {9, 12, 15} /\ Alive(p)
    BY <1>3, <1>9, Parts DEF Arm, Pool, Bind
  <2> QED
    BY <1>1, <1>2, <1>9, <2>1, GoingOnKeepsProcessInv DEF Arm, Pool, Bind
<1>10. CASE Listen(p)
  <2>1. step[p] = 16 /\ Alive(p)
    BY <1>3, <1>10, Parts DEF Listen
  <2> QED
    BY <1>1, <1>2, <1>10, <2>1, GoingOnKeepsProcessInv DEF Listen
<1>11. CASE Return(p)
  BY <1>11, DyingKeepsProcessInv DEF Return
<1>12. (\E fills : Lock(p, fills)) \/ Main(p)
  OBVIOUS
<1>13. Lock(p, FALSE) => \E fills : Lock(p, fills)
  OBVIOUS
<1> QED
  BY <1>4, <1>5, <1>6, <1>7, <1>8, <1>9, <1>10, <1>11, <1>12, <1>13 DEF Main

LEMMA HandlersKeepProcessInv ==
  ASSUME ProcessInv, NEW p \in Pids,
         \/ \E fills : HandlerLock(p, fills)
         \/ HandlerReturn(p)
         \/ \E s \in Signals : Handle(p, s)
  PROVE  ProcessInv'
<1> DEFINE h == handlers[p]
<1>0. /\ h \in Seq(Running) /\ pending[p] \in SUBSET Signals /\ handlers \in [Pids -> Seq(Running)]
      /\ pending = [pending EXCEPT ![p] = pending[p]]
      /\ flag \in [Pids -> BOOLEAN]
      /\ \A i, j \in DOMAIN h : h[i].signal = h[j].signal => i = j
      /\ (Alive(p) /\ Armed(p)) \/ (pending[p] = {} /\ h = << >>)
  BY DEF ProcessInv, SignalsTyped, SignalsInv
<1>1. ASSUME NEW fills, HandlerLock(p, fills)
      PROVE  ProcessInv'
  <2> DEFINE n == Len(h)
             top == [h[n] EXCEPT !.at = "unlock"]
             new == [h EXCEPT ![n] = top]
  <2>1. /\ h # << >> /\ handlers' = [handlers EXCEPT ![p] = new]
        /\ UNCHANGED <<step, byHand, pending, flag, port, rootPid>>
    BY <1>1 DEF HandlerLock
  <2>2. n \in 1 .. Len(h) /\ h[n] \in Running /\ DOMAIN h = 1 .. Len(h)
    BY <1>0, <2>1
  <2>3. top \in Running /\ top.signal = h[n].signal
    BY <2>2 DEF Running
  <2> HIDE DEF top
  <2>4. /\ new \in Seq(Running) /\ Len(new) = Len(h)
        /\ \A i \in 1 .. Len(h) : new[i] = IF i = n THEN top ELSE h[i]
    BY <1>0, <2>2, <2>3, ExceptSeq
  <2>5. \A i, j \in DOMAIN new : new[i].signal = new[j].signal => i = j
    <3>1. DOMAIN new = DOMAIN h
      OBVIOUS
    <3>2. \A i \in DOMAIN h : new[i].signal = h[i].signal
      BY <2>2, <2>3, <2>4
    <3> QED
      BY <1>0, <3>1, <3>2
  <2> HIDE DEF new
  <2> QED
    BY <1>0, <2>1, <2>4, <2>5, HandlingKeepsProcessInv
<1>2. CASE HandlerReturn(p)
  <2> DEFINE new == SubSeq(h, 1, Len(h) - 1)
  <2>1. /\ h # << >> /\ handlers' = [handlers EXCEPT ![p] = new]
        /\ flag' \in [Pids -> BOOLEAN]
        /\ UNCHANGED <<step, byHand, pending, port, rootPid>>
    BY <1>0, <1>2 DEF HandlerReturn
  <2>2. Len(h) \in Nat \ {0} /\ DOMAIN h = 1 .. Len(h) /\ \A i \in 1 .. Len(h) - 1 : h[i] \in Running
    BY <1>0, <2>1
  <2>3. /\ new \in Seq(Running) /\ Len(new) = Len(h) - 1
        /\ \A i \in 1 .. Len(h) - 1 : new[i] = h[i]
    BY <2>2, SubSeqProperties
  <2> HIDE DEF new
  <2>4. DOMAIN new = 1 .. Len(h) - 1
    BY <2>3
  <2>5. \A i, j \in DOMAIN new : new[i].signal = new[j].signal => i = j
    BY <1>0, <2>2, <2>3, <2>4
  <2> QED
    BY <1>0, <2>1, <2>3, <2>5, HandlingKeepsProcessInv
<1>3. ASSUME NEW s \in Signals, Handle(p, s)
      PROVE  ProcessInv'
  <2> DEFINE top == [signal |-> s, at |-> "lock"]
             new == Append(h, top)
  <2>1. /\ s \in pending[p] /\ handlers' = [handlers EXCEPT ![p] = new]
        /\ \A i \in DOMAIN h : h[i].signal # s
        /\ pending' = [pending EXCEPT ![p] = pending[p] \ {s}]
        /\ UNCHANGED <<step, byHand, flag, port, rootPid>>
    BY <1>3 DEF Handle
  <2>2. top \in Running /\ top.signal = s
    BY DEF Running
  <2> HIDE DEF top
  <2>3. /\ new \in Seq(Running) /\ Len(new) = Len(h) + 1
        /\ \A i \in 1 .. Len(h) : new[i] = h[i]
        /\ new[Len(h) + 1] = top
    BY <1>0, <2>2, AppendProperties
  <2> HIDE DEF new
  <2>4. \A i, j \in DOMAIN new : new[i].signal = new[j].signal => i = j
    <3>1. DOMAIN new = 1 .. Len(h) + 1 /\ DOMAIN h = 1 .. Len(h) /\ Len(h) \in Nat
      BY <1>0, <2>3
    <3>2. \A i \in 1 .. Len(h) + 1 :
            new[i].signal = IF i = Len(h) + 1 THEN s ELSE h[i].signal
      BY <2>2, <2>3, <3>1
    <3> QED
      BY <1>0, <2>1, <3>1, <3>2
  <2>5. Alive(p) /\ Armed(p) /\ pending[p] \ {s} \in SUBSET Signals
    BY <1>0, <2>1
  <2>6. flag' \in [Pids -> BOOLEAN]
    BY <1>0, <2>1
  <2> QED
    BY <2>1, <2>3, <2>4, <2>5, <2>6, HandlingKeepsProcessInv
<1> QED
  BY <1>1, <1>2, <1>3

LEMMA SendKeepsProcessInv ==
  ASSUME ProcessInv, NEW p, NEW s \in Signals, Send(p, s)
  PROVE  ProcessInv'
<1>1. CASE Die(p)
  BY <1>1, DyingKeepsProcessInv
<1>2. CASE UNCHANGED <<step, byHand, signals, port, rootPid>>
  BY <1>2, StayingKeepsProcessInv
<1>3. CASE /\ Alive(p) /\ Armed(p)
           /\ pending' = [pending EXCEPT ![p] = pending[p] \cup {s}]
           /\ UNCHANGED <<step, byHand, handlers, flag, port, rootPid>>
  <2>1. /\ p \in Pids /\ handlers[p] \in Seq(Running)
        /\ handlers' = [handlers EXCEPT ![p] = handlers[p]]
        /\ pending[p] \cup {s} \in SUBSET Signals /\ flag' \in [Pids -> BOOLEAN]
        /\ \A i, j \in DOMAIN handlers[p] :
             handlers[p][i].signal = handlers[p][j].signal => i = j
    BY <1>3 DEF Alive, ProcessInv, SignalsTyped, SignalsInv
  <2> QED
    BY <1>3, <2>1, HandlingKeepsProcessInv
<1> QED
  BY <1>1, <1>2, <1>3 DEF Send, signals

LEMMA NextProcessInv == ProcessInv /\ [Next]_vars => ProcessInv'
<1> SUFFICES ASSUME ProcessInv, [Next]_vars
             PROVE  ProcessInv'
    OBVIOUS
<1>1. ASSUME NEW p \in Pids, Server(p)
      PROVE  ProcessInv'
  <2>1. CASE Main(p)
    BY <2>1, MainKeepsProcessInv
  <2>2. CASE HandlerLock(p, FALSE) \/ HandlerReturn(p) \/ \E s \in Signals : Handle(p, s)
    BY <2>2, HandlersKeepProcessInv
  <2>3. CASE RotateLog(p)
    BY <2>3, StayingKeepsProcessInv DEF RotateLog
  <2>4. CASE Terminate(p)
    BY <2>4, DyingKeepsProcessInv DEF Terminate
  <2> QED
    BY <1>1, <2>1, <2>2, <2>3, <2>4 DEF Server
<1>2. ASSUME NEW p \in Pids, Fill(p)
      PROVE  ProcessInv'
  BY <1>2, MainKeepsProcessInv, HandlersKeepProcessInv DEF Fill
<1>3. ASSUME NEW p \in Pids, Crash(p) \/ \E s \in Signals : Signal(p, s)
      PROVE  ProcessInv'
  BY <1>3, DyingKeepsProcessInv, SendKeepsProcessInv DEF Crash, Signal
<1>4. ASSUME NEW o \in Operators, Run(o)
      PROVE  ProcessInv'
  BY <1>4, StayingKeepsProcessInv DEF Run, server
<1>5. ASSUME NEW o \in Operators, Script(o)
      PROVE  ProcessInv'
  <2>1. CASE UNCHANGED server
    BY <2>1, StayingKeepsProcessInv DEF server
  <2>2. CASE Spawn(o)
    <3>1. PICK n \in Pids : n = NewPid /\ step[n] = 0
      BY <2>2, NewPidIsFresh DEF Spawn
    <3> QED
      BY <2>2, <3>1, BeginningKeepsProcessInv DEF Spawn, GotoStep
  <2>3. CASE StopTerm(o)
    BY <2>3, SendKeepsProcessInv DEF StopTerm, Signals
  <2>4. CASE StopKill(o)
    BY <2>4, DyingKeepsProcessInv DEF StopKill
  <2> QED
    BY <1>5, <2>1, <2>2, <2>3, <2>4
       DEF Script, StartRead, StartCheck, StartRemove, WritePid, Verify, StartFailed, RemovePid,
       StopRead, StopCheck, StopWait, Stopped, StatusRead, StatusCheck, StatusRemove
<1>6. CASE RunDaemon
  <2>1. PICK n \in Pids : n = NewPid /\ step[n] = 0
    BY <1>6, NewPidIsFresh DEF RunDaemon
  <2> QED
    BY <1>6, <2>1, BeginningKeepsProcessInv DEF RunDaemon, GotoStep
<1>7. CASE UNCHANGED vars
  BY <1>7, StayingKeepsProcessInv DEF vars, server
<1> QED
  BY <1>1, <1>2, <1>3, <1>4, <1>5, <1>6, <1>7 DEF Next

LEMMA InitProcessInv == Init => ProcessInv
<1> SUFFICES ASSUME Init
             PROVE  ProcessInv
    OBVIOUS
<1>1. ProcessesTyped
  BY ProgramLength DEF Init, ProcessesTyped
<1>2. << >> \in Seq(Running)
  OBVIOUS
<1>3. SignalsTyped /\ SignalsInv /\ PlacesInv
  BY <1>2, PidAssumption DEF Init, SignalsTyped, SignalsInv, PlacesInv
<1> QED
  BY <1>1, <1>3 DEF ProcessInv

(* Of the scripts only that they are typed, for any number of operators.   *)
ScriptTyped ==
  /\ script \in [Operators -> ScriptType]
  /\ pidFile \in Pids \cup {NoPid}

LEMMA NextScriptTyped == ScriptTyped /\ [Next]_vars => ScriptTyped'
<1> SUFFICES ASSUME ScriptTyped, [Next]_vars
             PROVE  ScriptTyped'
    OBVIOUS
<1>0. script \in [Operators -> ScriptType] /\ pidFile \in Pids \cup {NoPid}
  BY DEF ScriptTyped
<1>1. ASSUME NEW p \in Pids,
             \/ Server(p) \/ Fill(p) \/ Crash(p) \/ \E s \in Signals : Signal(p, s)
      PROVE  ScriptTyped'
  BY <1>0, <1>1 DEF Server, Fill, Crash, Signal, ScriptTyped
<1>2. CASE RunDaemon \/ UNCHANGED vars
  BY <1>0, <1>2 DEF RunDaemon, vars, ScriptTyped
<1>3. ASSUME NEW o \in Operators, NEW at \in Knows \cup {"start", "stop", "status", "spawn"},
             Goto(o, at)
      PROVE  script' \in [Operators -> ScriptType]
  <2>1. [script[o] EXCEPT !.at = at] \in ScriptType
    BY <1>0 DEF ScriptType
  <2> QED
    BY <1>0, <1>3, <2>1 DEF Goto
<1>4. ASSUME NEW o \in Operators, NEW at \in Knows \cup {"write"}, NEW p \in Pids,
             GotoWith(o, at, p)
      PROVE  script' \in [Operators -> ScriptType]
  <2>1. [script[o] EXCEPT !.at = at, !.pid = p] \in ScriptType
    BY <1>0 DEF ScriptType
  <2> QED
    BY <1>0, <1>4, <2>1 DEF GotoWith
<1>5. ASSUME NEW o \in Operators, Done(o)
      PROVE  script' \in [Operators -> ScriptType]
  <2>1. [then |-> "done", at |-> script[o].then, pid |-> NoPid] \in ScriptType
    BY <1>0 DEF ScriptType
  <2> QED
    BY <1>0, <1>5, <2>1 DEF Done
<1>6. ASSUME NEW o \in Operators, Run(o)
      PROVE  ScriptTyped'
  <2>1. [NoScript EXCEPT !.then = "start", !.at = "stop"] \in ScriptType
    BY DEF NoScript, ScriptType
  <2> QED
    BY <1>0, <1>3, <1>6, <2>1 DEF Run, ScriptTyped
<1>7. ASSUME NEW o \in Operators, Script(o)
      PROVE  ScriptTyped'
  <2>1. CASE StartRead(o) \/ StopRead(o) \/ StatusRead(o)
    BY <1>0, <1>3, <1>4, <1>5, <2>1
       DEF StartRead, StopRead, StatusRead, ScriptTyped, Knows
  <2>2. CASE StartCheck(o) \/ Verify(o) \/ StopCheck(o) \/ StopWait(o) \/ StatusCheck(o)
    BY <1>0, <1>3, <1>5, <2>2
       DEF StartCheck, Verify, StopCheck, StopWait, StatusCheck, ScriptTyped, Knows
  <2>3. CASE StartRemove(o) \/ StartFailed(o) \/ Stopped(o) \/ StatusRemove(o)
    BY <1>0, <1>3, <1>5, <2>3
       DEF StartRemove, StartFailed, Stopped, StatusRemove, RemovePid, ScriptTyped, Knows
  <2>4. CASE Spawn(o)
    BY <1>0, <1>4, <2>4 DEF Spawn, ScriptTyped
  <2>5. CASE WritePid(o)
    <3>1. script[o].pid \in Pids \cup {NoPid}
      BY <1>0 DEF ScriptType
    <3> QED
      BY <1>3, <2>5, <3>1 DEF WritePid, ScriptTyped, Knows
  <2>6. CASE StopTerm(o) \/ StopKill(o)
    BY <1>0, <1>3, <2>6 DEF StopTerm, StopKill, ScriptTyped, Knows
  <2> QED
    BY <1>7, <2>1, <2>2, <2>3, <2>4, <2>5, <2>6 DEF Script
<1> QED
  BY <1>1, <1>2, <1>6, <1>7 DEF Next

LEMMA InitScriptTyped == Init => ScriptTyped
BY DEF Init, ScriptTyped, ScriptType, NoScript

LEMMA PartsAreTyped == LoggerInv /\ ProcessInv /\ ScriptTyped => TypeOK
<1> SUFFICES ASSUME LoggerInv, ProcessInv, ScriptTyped
             PROVE  TypeOK
    OBVIOUS
<1>1. ASSUME NEW p \in Pids
      PROVE  /\ ~Alive(p) => pending[p] = {} /\ handlers[p] = << >> /\ port # p
             /\ Len(handlers[p]) <= 2
             /\ \A i \in DOMAIN handlers[p] : handlers[p][i].signal \in Signals
             /\ Len(handlers[p]) = 2 => handlers[p][1].signal # handlers[p][2].signal
  <2> DEFINE h == handlers[p]
  <2>1. /\ Len(h) \in Nat /\ DOMAIN h = 1 .. Len(h)
        /\ \A i \in 1 .. Len(h) : h[i].signal \in Signals
    <3>1. h \in Seq(Running)
      BY DEF ProcessInv, SignalsTyped
    <3>2. \A i \in 1 .. Len(h) : h[i] \in Running
      BY <3>1
    <3> QED
      BY <3>1, <3>2 DEF Running
  <2>2. \A i, j \in DOMAIN h : h[i].signal = h[j].signal => i = j
    BY DEF ProcessInv, SignalsInv
  <2>3. ASSUME Len(h) > 2
        PROVE  FALSE
    <3>1. {1, 2, 3} \subseteq DOMAIN h
      BY <2>1, <2>3
    <3>2. \A i \in {1, 2, 3} : h[i].signal \in {"TERM", "INT"}
      BY <2>1, <3>1 DEF Signals
    <3> QED
      BY <2>2, <3>1, <3>2
  <2>4. Len(h) = 2 => h[1].signal # h[2].signal
    BY <2>1, <2>2
  <2>5. ~Alive(p) => pending[p] = {} /\ h = << >> /\ port # p
    BY ProgramLength DEF ProcessInv, SignalsInv, PlacesInv, Alive
  <2> QED
    BY <2>1, <2>3, <2>4, <2>5
<1>2. \A o \in Operators : script[o].pid \in Pids \cup {NoPid}
  BY DEF ScriptTyped, ScriptType
<1> QED
  BY <1>1, <1>2
     DEF TypeOK, LoggerInv, LoggerTyped, ProcessInv, ProcessesTyped, SignalsTyped, PlacesInv,
     ScriptTyped

(* For any number of processes and operators: no signal interrupts its own *)
(* handler and so there are two at most, a process that has gone leaves    *)
(* neither signals nor its port behind, and every open finds a file.       *)
THEOREM PidScriptsTypeInvariant == Spec => []TypeOK
<1>1. Init => LoggerInv /\ ProcessInv /\ ScriptTyped
  BY InitLoggerInv, InitProcessInv, InitScriptTyped
<1>2. LoggerInv /\ ProcessInv /\ ScriptTyped /\ [Next]_vars
        => LoggerInv' /\ ProcessInv' /\ ScriptTyped'
  BY NextLoggerInv, NextProcessInv, NextScriptTyped
<1> QED
  BY <1>1, <1>2, PartsAreTyped, PTL DEF Spec

=============================================================================
