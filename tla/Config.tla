------------------------------- MODULE Config -------------------------------
(***************************************************************************)
(* The configuration (src/common/config.cpp): load reads a file line by    *)
(* line, and the getters look a key up and convert its value.              *)
(*                                                                         *)
(* A file is a sequence of lines, as they are once trimmed and unquoted: a *)
(* section, a key with its value, or a line that says nothing (a blank     *)
(* one, a comment, one without "=").  A value is the integer std::stoi     *)
(* reads at its front, or NoNumber when it reads none.                     *)
(***************************************************************************)
EXTENDS Integers, Sequences, SequencesExt

CONSTANT NoNumber

Section(s) == [kind |-> "section", name |-> s]
Pair(k, v) == [kind |-> "pair", key |-> k, value |-> v]
Silent == [kind |-> "silent"]

(* What has been read so far: the section in force and the values.         *)
NothingRead == [section |-> "", data |-> << >>]

ParseLine(read, line) ==
  CASE line.kind = "section" -> [read EXCEPT !.section = line.name]
    [] line.kind = "pair" ->
         [read EXCEPT !.data = (<<read.section, line.key>> :> line.value) @@ @]
    [] OTHER -> read

Parse(file) == FoldLeft(ParseLine, NothingRead, file).data

GetInt(data, section, key, default) ==
  IF <<section, key>> \in DOMAIN data /\ data[<<section, key>>] # NoNumber
  THEN data[<<section, key>>] ELSE default

(* The reference for Parse and GetInt: the last line that assigns the key  *)
(* in its section counts, if it is a number.                               *)
SectionAt(file, i) ==
  LET heads == {j \in 1 .. i : file[j].kind = "section"}
  IN  IF heads = {} THEN "" ELSE file[CHOOSE j \in heads : \A k \in heads : k <= j].name

LastAssigned(file, section, key, default) ==
  LET sets == {i \in DOMAIN file : /\ file[i].kind = "pair" /\ file[i].key = key
                                   /\ SectionAt(file, i) = section}
      last == CHOOSE i \in sets : \A j \in sets : j <= i
  IN  IF sets = {} \/ file[last].value = NoNumber THEN default ELSE file[last].value
=============================================================================
