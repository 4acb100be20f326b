-------------------------- MODULE MCServerProcess --------------------------
(* Instances of ServerProcess: contents of server.conf.                  *)
EXTENDS ServerProcess

(* Two backups are kept: the last line counts.                             *)
Two == <<Section("log"), Pair("backup_count", 5), Silent, Pair("backup_count", 2)>>

(* The first number has no section yet and the other cannot be read: five  *)
(* are.  A size of four gigabytes is none in 32 bits.                      *)
Wrapped == <<Pair("backup_count", 2), Section("log"), Pair("backup_count", NoNumber),
             Pair("max_size", 4096)>>

(* Two gigabytes are negative; not in the run, for every line rotates.     *)
Huge == <<Section("log"), Pair("backup_count", 2), Pair("max_size", 2048)>>

HugeOnly == {Huge}

MCConfigFiles == {Two, Wrapped}

(* Parse and GetInt agree with what they stand for, on all short files.    *)
Lines == {Silent} \cup {Section(s) : s \in {"log", "server"}}
         \cup {Pair("backup_count", v) : v \in {1, 2, NoNumber}}

ASSUME ParsesRightly ==
  \A n \in 0 .. 3 : \A file \in [1 .. n -> Lines] : \A s \in {"", "log", "server"} :
    GetInt(Parse(file), s, "backup_count", 5) = LastAssigned(file, s, "backup_count", 5)
=============================================================================
