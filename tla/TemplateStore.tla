---------------------------- MODULE TemplateStore ----------------------------
(***************************************************************************)
(* A template at one path: save_template and load_template of              *)
(* src/src/template.rs, called by any number of processes at once, each of *)
(* which may fail or die between any two steps, and a power loss.          *)
(*                                                                         *)
(* Both ends apply validate_template and a size limit, each in its own     *)
(* code; a template is what they need to know of one.                      *)
(***************************************************************************)
EXTENDS StoredFile

CONSTANTS
  Savers,     \* calls of save_template
  Loaders,    \* calls of load_template
  Offers,     \* Offers[s]: the template s saves
  Invalid,    \* templates validate_template refuses
  Bytes,      \* Bytes[t]: size of template t as JSON
  MaxBytes,   \* MAX_TEMPLATE_BYTES
  MaxLosses   \* bound: power losses

ASSUME OffersAssumption ==
  /\ Offers \in [Savers -> Values]
  /\ Invalid \subseteq Values
  /\ Bytes \in [Values -> Nat] /\ MaxBytes \in Nat
ASSUME LossesAssumption == MaxLosses \in Nat

VARIABLES
  file,    \* the file at the path
  saver,   \* saver[s]: how far call s is
  loader,  \* loader[l]: how far call l is, and what it read
  losses   \* power losses so far

vars == <<file, saver, loader, losses>>

Stopped == {"refused", "failed", "dead"}

Init ==
  /\ file = NoFile
  /\ saver = [s \in Savers |-> "start"]
  /\ loader = [l \in Loaders |-> [at |-> "start", template |-> NoValue, saved |-> FALSE]]
  /\ losses = 0
-----------------------------------------------------------------------------
(* save_template *)

Goes(s, stage) == saver' = [saver EXCEPT ![s] = stage]

MaySave(template) == template \notin Invalid /\ Bytes[template] <= MaxBytes

Refuse(s) ==
  /\ saver[s] = "start"
  /\ ~MaySave(Offers[s])
  /\ Goes(s, "refused")
  /\ UNCHANGED <<file, loader, losses>>

\* Faulty: the file is created anew whether it is there or not.
CreateOver(s) ==
  /\ saver[s] = "start"
  /\ MaySave(Offers[s])
  /\ file' = NewFile(Offers[s])
  /\ Goes(s, "write")
  /\ UNCHANGED <<loader, losses>>

\* create_new decides between savers.
Create(s) ==
  /\ saver[s] = "start"
  /\ MaySave(Offers[s])
  /\ IF file = NoFile
       THEN file' = NewFile(Offers[s]) /\ Goes(s, "write")
       ELSE Goes(s, "refused") /\ UNCHANGED file
  /\ UNCHANGED <<loader, losses>>

\* write_all, step by step
Write(s) ==
  /\ saver[s] = "write" /\ ~Whole(file)
  /\ file' = Longer(file)
  /\ UNCHANGED <<saver, loader, losses>>

\* Faulty: the save returns before the file is on disk.
SyncNot(s) ==
  /\ saver[s] = "write" /\ Whole(file)
  /\ Goes(s, "saved")
  /\ UNCHANGED <<file, loader, losses>>

\* sync_all
Sync(s) ==
  /\ saver[s] = "write" /\ Whole(file)
  /\ file' = Synced(file)
  /\ Goes(s, "saved")
  /\ UNCHANGED <<loader, losses>>

\* An operation of the file system fails, or the process dies: nothing is
\* cleaned up.
Stop(s) ==
  /\ saver[s] \in {"start", "write"}
  /\ \E how \in {"failed", "dead"} : Goes(s, how)
  /\ UNCHANGED <<file, loader, losses>>
-----------------------------------------------------------------------------
(* load_template *)

\* The open of read_bounded_regular_file.  The loader's `saved' is history: a
\* save had returned when the load began.
Open(l) ==
  /\ loader[l].at = "start"
  /\ loader' = [loader EXCEPT
       ![l].saved = \E s \in Savers : saver[s] = "saved",
       ![l].at = IF file = NoFile THEN "failed" ELSE "read"]
  /\ UNCHANGED <<file, saver, losses>>

\* Faulty: the size limit is exclusive.
MayLoadBelow(template) == Bytes[template] < MaxBytes /\ template \notin Invalid

MayLoad(template) == Bytes[template] <= MaxBytes /\ template \notin Invalid

\* The read, the decoding and validate_template.
Read(l) ==
  /\ loader[l].at = "read"
  /\ loader' = [loader EXCEPT ![l] =
       IF Whole(file) /\ MayLoad(file.of)
         THEN [@ EXCEPT !.at = "loaded", !.template = file.of]
         ELSE [@ EXCEPT !.at = "failed"]]
  /\ UNCHANGED <<file, saver, losses>>

\* The loading process dies, or a read fails.
StopLoading(l) ==
  /\ loader[l].at \in {"start", "read"}
  /\ loader' = [loader EXCEPT ![l].at = "cut"]
  /\ UNCHANGED <<file, saver, losses>>
-----------------------------------------------------------------------------
(* The surroundings *)

PowerLoss ==
  /\ losses < MaxLosses
  /\ losses' = losses + 1
  /\ saver' = [s \in Savers |-> IF saver[s] = "write" THEN "dead" ELSE saver[s]]
  /\ loader' = [l \in Loaders |->
       IF loader[l].at = "read" THEN [loader[l] EXCEPT !.at = "cut"] ELSE loader[l]]
  /\ file' \in Remains(file)

Next ==
  \/ \E s \in Savers : Refuse(s) \/ Create(s) \/ Write(s) \/ Sync(s) \/ Stop(s)
  \/ \E l \in Loaders : Open(l) \/ Read(l) \/ StopLoading(l)
  \/ PowerLoss

Spec == Init /\ [][Next]_vars
-----------------------------------------------------------------------------
(* Properties *)

TypeOK ==
  /\ file \in StoredFiles
  /\ saver \in [Savers -> {"start", "write", "saved"} \cup Stopped]
  /\ loader \in [Loaders ->
       [at : {"start", "read", "loaded", "failed", "cut"},
        template : Values \cup {NoValue}, saved : BOOLEAN]]
  /\ losses \in 0..MaxLosses

Register == INSTANCE WriteOnce WITH
  held <- IF Whole(file) THEN file.of ELSE NoValue,
  saves <- [s \in Savers |->
    CASE saver[s] = "saved" -> "saved"
      [] saver[s] \in Stopped -> "failed"
      [] OTHER -> "pending"],
  loads <- [l \in Loaders |->
    CASE loader[l].at = "loaded" -> loader[l].template
      [] loader[l].at \in {"failed", "cut"} -> [call |-> "failed"]
      [] OTHER -> [call |-> "pending"]]

\* Whatever savers and loaders do at once, and wherever they die, the path is
\* a write-once register ("refusing to overwrite").
WritesOnce == Register!Spec

\* A template whose save returned is there for good, through later saves,
\* failures and power losses.
SavedStays ==
  \A s \in Savers : saver[s] = "saved" => Whole(file) /\ file.of = Offers[s]

\* What save_template accepts, load_template accepts: a load that begins after
\* a save has returned is never refused.
SavedLoads ==
  \A l \in Loaders : loader[l].saved => loader[l].at # "failed"
-----------------------------------------------------------------------------
(* Why: the inductive invariant *)

\* The one saver that writes is the one whose template the file is of.
OneWriter ==
  \A s \in Savers : saver[s] \in {"write", "saved"} =>
    /\ file # NoFile /\ file.of = Offers[s] /\ MaySave(Offers[s])
    /\ \A r \in Savers \ {s} : saver[r] \notin {"write", "saved"}
    /\ saver[s] = "saved" => Whole(file) /\ file.synced
    /\ saver[s] = "write" => ~file.synced

\* A loader that has opened the file after a save returned still has it.
OpenedAfterSave ==
  \A l \in Loaders : loader[l].saved => \E s \in Savers : saver[s] = "saved"

Stored == TypeOK /\ OneWriter /\ OpenedAfterSave /\ SavedLoads
=============================================================================
