----------------------------- MODULE StoredFile -----------------------------
(***************************************************************************)
(* A file as save_template (src/src/template.rs) and create_new_file       *)
(* (src/src/bundle.rs) make it, by OpenOptions::create_new, write_all and  *)
(* sync_all, and as read_bounded_regular_file (src/src/io_util.rs) reads   *)
(* it back.                                                                *)
(*                                                                         *)
(* A file is what it is a file of and how much of that has been written:   *)
(* its writer appends in steps and may stop at any of them.  A strict      *)
(* prefix never decodes: the JSON object is unclosed, the PGM has too few  *)
(* pixels for its dimensions.                                              *)
(***************************************************************************)
EXTENDS Integers

CONSTANTS
  Values,  \* what may be stored
  Full     \* steps in which a file is written

\* What is held where nothing is stored, and read where nothing was.
NoValue == [value |-> "none"]

ASSUME FullAssumption == Full \in Nat \ {0}
ASSUME ValuesAssumption == NoValue \notin Values

NoFile == [length |-> -1]

NewFile(value) == [of |-> value, length |-> 0, synced |-> FALSE]

StoredFiles ==
  {NoFile} \cup [of : Values, length : 0..Full, synced : BOOLEAN]

\* The file decodes: all of it is there.
Whole(file) == file.length = Full

Longer(file) == [file EXCEPT !.length = @ + 1]

\* Faulty: nothing is synced.
SyncedNot(file) == file

Synced(file) == [file EXCEPT !.synced = TRUE]

\* What a power loss may leave of a file: a synced file stays, of another any
\* prefix or nothing.
Remains(file) ==
  IF file = NoFile \/ file.synced
    THEN {file}
    ELSE {NoFile} \cup {[file EXCEPT !.length = n] : n \in 0..file.length}
=============================================================================
