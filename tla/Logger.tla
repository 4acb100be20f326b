------------------------------- MODULE Logger -------------------------------
(***************************************************************************)
(* The Logger (src/common/logger.cpp) of every server process, and the     *)
(* directory of log files they share.                                      *)
(*                                                                         *)
(* names[0] is the file server.log stands for and names[i] that of backup  *)
(* server.log.i: a file that a process has open keeps its identity when    *)
(* it is renamed or removed.  What the lines say is left out; a file is    *)
(* full once it has max_size bytes.                                        *)
(***************************************************************************)
EXTENDS Integers, FiniteSets

CONSTANTS Pids,         \* process identifiers, each used once
          Files,        \* identities of files, integers
          NoFile,
          MaxBackups,   \* bound: the largest backup_count
          OldBackups    \* the backups of earlier servers, files themselves

(* There is always a file to be made: the directory has MaxBackups + 1     *)
(* names, and each process has one file open.                              *)
ASSUME FileAssumption ==
  /\ NoFile \notin Files /\ OldBackups \subseteq Files \cap 1 .. MaxBackups
  /\ MaxBackups \in Nat \ {0}
  /\ IsFiniteSet(Files) /\ IsFiniteSet(Pids)
  /\ Cardinality(Files) > MaxBackups + 1 + Cardinality(Pids)

VARIABLES
  mutex,      \* mutex[p]: whether log_mutex_ is held
  names,      \* the directory
  full,       \* the files that have reached max_size
  stream,     \* stream[p]: the file that log_file_ writes to, if any
  rotating    \* rotating[p]: the step of checkRotation p is at

loggerVars == <<mutex, names, full, stream, rotating>>

Idle == -2
Reopening == -1

LoggerInit ==
  /\ mutex = [p \in Pids |-> FALSE]
  /\ names = [i \in 0 .. MaxBackups |-> IF i \in OldBackups THEN i ELSE NoFile]
  /\ full = {}
  /\ stream = [p \in Pids |-> NoFile]
  /\ rotating = [p \in Pids |-> Idle]

Unused == {f \in Files : (\A i \in DOMAIN names : names[i] # f)
                         /\ (\A p \in Pids : stream[p] # f)}

(* Opening for appending creates the file that is not there.               *)
OpenLog(p) ==
  LET file == IF names[0] = NoFile THEN CHOOSE f \in Unused : TRUE ELSE names[0]
  IN  /\ names' = [names EXCEPT ![0] = file]
      /\ stream' = [stream EXCEPT ![p] = file]
      /\ full' = full \ (IF names[0] = NoFile THEN {file} ELSE {})

(* A line: it takes log_mutex_, writes, which may fill the file, and looks *)
(* whether to rotate, for which it closes the file.  At least one backup   *)
(* is kept.                                                                *)
WriteLine(p, fills, backups) ==
  /\ ~mutex[p]
  /\ mutex' = [mutex EXCEPT ![p] = TRUE]
  /\ full' = IF fills /\ stream[p] # NoFile THEN full \cup {stream[p]} ELSE full
  /\ IF stream[p] \in full'
     THEN /\ stream' = [stream EXCEPT ![p] = NoFile]
          /\ rotating' = [rotating EXCEPT ![p] = backups]
     ELSE UNCHANGED <<stream, rotating>>
  /\ UNCHANGED names

Unlocked(p) == /\ rotating[p] = Idle
               /\ mutex' = [mutex EXCEPT ![p] = FALSE]
               /\ UNCHANGED <<names, full, stream, rotating>>

(* rename throws when there is nothing to rename, and the exception leaves *)
(* the destructor of LogStream, which ends the process.                    *)
RenameThrows(p, backups) ==
  rotating[p] \in 0 .. backups - 1 /\ names[rotating[p]] = NoFile

(* Mutant of RemoveOldest: the loop stops before the first backup.         *)
RemoveAndSkip(p, backups) ==
  /\ rotating[p] = backups
  /\ names' = [names EXCEPT ![backups] = NoFile]
  /\ rotating' = [rotating EXCEPT ![p] = 0]
  /\ UNCHANGED <<mutex, full, stream>>

RemoveOldest(p, backups) ==
  /\ rotating[p] = backups
  /\ names' = [names EXCEPT ![backups] = NoFile]
  /\ rotating' = [rotating EXCEPT ![p] = @ - 1]
  /\ UNCHANGED <<mutex, full, stream>>

(* From the oldest backup to server.log itself.                            *)
Rename(p, backups) ==
  /\ rotating[p] \in 0 .. backups - 1 /\ names[rotating[p]] # NoFile
  /\ names' = [names EXCEPT ![rotating[p] + 1] = names[rotating[p]],
                            ![rotating[p]] = NoFile]
  /\ rotating' = [rotating EXCEPT ![p] = @ - 1]
  /\ UNCHANGED <<mutex, full, stream>>

Reopen(p) == /\ rotating[p] = Reopening
             /\ OpenLog(p)
             /\ rotating' = [rotating EXCEPT ![p] = Idle]
             /\ UNCHANGED mutex

Rotate(p, backups) == RemoveOldest(p, backups) \/ Rename(p, backups) \/ Reopen(p)

(* The process has gone, and with it its memory and its open file.         *)
LoggerGone(p) == /\ mutex' = [mutex EXCEPT ![p] = FALSE]
                 /\ stream' = [stream EXCEPT ![p] = NoFile]
                 /\ rotating' = [rotating EXCEPT ![p] = Idle]
                 /\ UNCHANGED <<names, full>>

=============================================================================
