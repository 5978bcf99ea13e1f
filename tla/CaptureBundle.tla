---------------------------- MODULE CaptureBundle ----------------------------
(***************************************************************************)
(* A capture bundle at one path: save_capture_bundle and                   *)
(* load_capture_bundle of src/src/bundle.rs, called by any number of       *)
(* processes at once, each of which may fail or die between any two steps, *)
(* and a power loss that ends them all.                                    *)
(***************************************************************************)
EXTENDS StoredFile

CONSTANTS
  Savers,     \* calls of save_capture_bundle
  Loaders,    \* calls of load_capture_bundle
  Offers,     \* Offers[s]: the capture s saves
  Invalid,    \* captures whose metadata does not validate
  Discordant, \* captures whose metadata has another resolution than the image
  Sizes,      \* Sizes[c]: the dimensions of capture c
  MaxLosses   \* bound: power losses

ASSUME OffersAssumption ==
  /\ Offers \in [Savers -> Values]
  /\ Invalid \subseteq Values /\ Discordant \subseteq Values
  /\ DOMAIN Sizes = Values
ASSUME LossesAssumption == MaxLosses \in Nat

VARIABLES
  directory,  \* the bundle's directory exists
  files,      \* capture.json and image.pgm in it
  stranger,   \* there is something else in it
  saver,      \* saver[s]: how far call s is
  loader,     \* loader[l]: how far call l is, and what it read
  losses      \* power losses so far

disk == <<directory, files, stranger>>
vars == <<disk, saver, loader, losses>>

Names == {"manifest", "image"}

Stopped == {"refused", "failed", "dead"}

SaverStages ==
  {"start", "create_manifest", "write_manifest", "create_image", "write_image", "saved"}
    \cup Stopped

\* The file a saver creates or writes.
FileAt(stage) == IF stage \in {"create_manifest", "write_manifest"} THEN "manifest" ELSE "image"

StageAfter(stage) ==
  CASE stage = "create_manifest" -> "write_manifest"
    [] stage = "write_manifest" -> "create_image"
    [] stage = "create_image" -> "write_image"
    [] stage = "write_image" -> "saved"

NewLoader == [at |-> "start", manifest |-> NoValue, image |-> NoValue, saved |-> FALSE]

Init ==
  /\ directory = FALSE
  /\ files = [n \in Names |-> NoFile]
  /\ stranger = FALSE
  /\ saver = [s \in Savers |-> "start"]
  /\ loader = [l \in Loaders |-> NewLoader]
  /\ losses = 0
-----------------------------------------------------------------------------
(* save_capture_bundle *)

Fit(capture) == capture \notin Invalid \cup Discordant

Goes(s, stage) == saver' = [saver EXCEPT ![s] = stage]

\* Faulty: a capture is not compared with its metadata.
MakeDirectoryUnchecked(s) ==
  /\ saver[s] = "start"
  /\ IF Offers[s] \in Invalid \/ directory
       THEN Goes(s, "refused") /\ UNCHANGED directory
       ELSE Goes(s, "create_manifest") /\ directory' = TRUE
  /\ UNCHANGED <<files, stranger, loader, losses>>

\* create_dir decides between savers; an unfit capture is refused before it.
MakeDirectory(s) ==
  /\ saver[s] = "start"
  /\ IF ~Fit(Offers[s]) \/ directory
       THEN Goes(s, "refused") /\ UNCHANGED directory
       ELSE Goes(s, "create_manifest") /\ directory' = TRUE
  /\ UNCHANGED <<files, stranger, loader, losses>>

\* create_new_file, up to the open.  Savers alone never find the file there:
\* create_dir has let one of them through.
Create(s) ==
  LET name == FileAt(saver[s]) IN
  /\ saver[s] \in {"create_manifest", "create_image"}
  /\ IF files[name] = NoFile
       THEN /\ files' = [files EXCEPT ![name] = NewFile(Offers[s])]
            /\ Goes(s, StageAfter(saver[s]))
       ELSE Goes(s, "failed") /\ UNCHANGED files
  /\ UNCHANGED <<directory, stranger, loader, losses>>

\* write_all, step by step
Write(s) ==
  LET name == FileAt(saver[s]) IN
  /\ saver[s] \in {"write_manifest", "write_image"}
  /\ ~Whole(files[name])
  /\ files' = [files EXCEPT ![name] = Longer(@)]
  /\ UNCHANGED <<directory, stranger, saver, loader, losses>>

\* sync_all
Sync(s) ==
  LET name == FileAt(saver[s]) IN
  /\ saver[s] \in {"write_manifest", "write_image"}
  /\ Whole(files[name])
  /\ files' = [files EXCEPT ![name] = Synced(@)]
  /\ Goes(s, StageAfter(saver[s]))
  /\ UNCHANGED <<directory, stranger, loader, losses>>

\* An operation of the file system fails, or the process dies: nothing is
\* cleaned up.
Stop(s) ==
  /\ saver[s] \notin Stopped \cup {"saved"}
  /\ \E how \in {"failed", "dead"} : Goes(s, how)
  /\ UNCHANGED <<disk, loader, losses>>
-----------------------------------------------------------------------------
(* load_capture_bundle *)

Becomes(l, value) ==
  /\ loader' = [loader EXCEPT ![l] = value]
  /\ UNCHANGED <<disk, saver, losses>>

Fails(l) == Becomes(l, [loader[l] EXCEPT !.at = "failed"])

\* validate_bundle_entries.  The loader's `saved' is history: a save had
\* returned when the load began.
ListEntries(l) ==
  LET saved == \E s \in Savers : saver[s] = "saved" IN
  /\ loader[l].at = "start"
  /\ Becomes(l, [loader[l] EXCEPT
       !.saved = saved,
       !.at = IF directory /\ ~stranger /\ \A n \in Names : files[n] # NoFile
                THEN "read_manifest" ELSE "failed"])

ReadManifest(l) ==
  /\ loader[l].at = "read_manifest"
  /\ IF Whole(files["manifest"]) /\ files["manifest"].of \notin Invalid
       THEN Becomes(l, [loader[l] EXCEPT !.at = "read_image",
                                         !.manifest = files["manifest"].of])
       ELSE Fails(l)

\* Faulty: an image may have fewer pixels than its dimensions call for.
ReadImageShort(l) ==
  /\ loader[l].at = "read_image"
  /\ IF Sizes[files["image"].of] = Sizes[loader[l].manifest]
       THEN Becomes(l, [loader[l] EXCEPT !.at = "loaded", !.image = files["image"].of])
       ELSE Fails(l)

\* decode_pgm, then the dimensions of the manifest
ReadImage(l) ==
  /\ loader[l].at = "read_image"
  /\ IF Whole(files["image"]) /\ Sizes[files["image"].of] = Sizes[loader[l].manifest]
       THEN Becomes(l, [loader[l] EXCEPT !.at = "loaded", !.image = files["image"].of])
       ELSE Fails(l)

\* The loading process dies, or a read fails.
StopLoading(l) ==
  /\ loader[l].at \notin {"loaded", "failed", "cut"}
  /\ Becomes(l, [loader[l] EXCEPT !.at = "cut"])
-----------------------------------------------------------------------------
(* The surroundings *)

\* Someone puts another file into the directory.
Intrude ==
  /\ directory /\ ~stranger
  /\ stranger' = TRUE
  /\ UNCHANGED <<directory, files, saver, loader, losses>>

\* Calls under way die, and what was not synced may be lost; the entry of a
\* synced file is kept with it.
PowerLoss ==
  /\ losses < MaxLosses
  /\ losses' = losses + 1
  /\ saver' = [s \in Savers |->
       IF saver[s] \in Stopped \cup {"start", "saved"} THEN saver[s] ELSE "dead"]
  /\ loader' = [l \in Loaders |->
       IF loader[l].at \in {"read_manifest", "read_image"}
         THEN [loader[l] EXCEPT !.at = "cut"] ELSE loader[l]]
  /\ \E manifest \in Remains(files["manifest"]), image \in Remains(files["image"]) :
       /\ files' = [n \in Names |-> IF n = "manifest" THEN manifest ELSE image]
       /\ \/ UNCHANGED <<directory, stranger>>
          \/ /\ manifest = NoFile /\ image = NoFile
             /\ directory' = FALSE /\ stranger' = FALSE

Next ==
  \/ \E s \in Savers : MakeDirectory(s) \/ Create(s) \/ Write(s) \/ Sync(s) \/ Stop(s)
  \/ \E l \in Loaders : ListEntries(l) \/ ReadManifest(l) \/ ReadImage(l) \/ StopLoading(l)
  \/ Intrude
  \/ PowerLoss

Spec == Init /\ [][Next]_vars
-----------------------------------------------------------------------------
(* Properties *)

TypeOK ==
  /\ directory \in BOOLEAN /\ stranger \in BOOLEAN
  /\ files \in [Names -> StoredFiles]
  /\ saver \in [Savers -> SaverStages]
  /\ loader \in [Loaders ->
       [at : {"start", "read_manifest", "read_image", "loaded", "failed", "cut"},
        manifest : Values \cup {NoValue}, image : Values \cup {NoValue}, saved : BOOLEAN]]
  /\ losses \in 0..MaxLosses
  /\ ~directory => ~stranger /\ \A n \in Names : files[n] = NoFile

\* The bundle, as a register that is written once.
Complete == \A n \in Names : Whole(files[n])

Register == INSTANCE WriteOnce WITH
  held <- IF Complete THEN files["image"].of ELSE NoValue,
  saves <- [s \in Savers |->
    CASE saver[s] = "saved" -> "saved"
      [] saver[s] \in Stopped -> "failed"
      [] OTHER -> "pending"],
  loads <- [l \in Loaders |->
    CASE loader[l].at = "loaded" -> loader[l].image
      [] loader[l].at \in {"failed", "cut"} -> [call |-> "failed"]
      [] OTHER -> [call |-> "pending"]]

\* Whatever savers and loaders do at once, and wherever they die, the path is
\* a write-once register: create_dir and create_new let one save take effect,
\* and the loader's checks hide every unfinished one.
WritesOnce == Register!Spec

\* A capture that loads is one that a caller gave to save_capture_bundle: its
\* metadata and its pixels belong together, and it was fit to be saved.
LoadsAreWhole ==
  \A l \in Loaders : loader[l].at = "loaded" =>
    /\ loader[l].manifest = loader[l].image
    /\ \E s \in Savers : Offers[s] = loader[l].image /\ Fit(Offers[s])

\* A save that returned is there for good, through later saves, failures and
\* power losses.
SavedStays ==
  \A s \in Savers : saver[s] = "saved" =>
    directory /\ \A n \in Names : Whole(files[n]) /\ files[n].of = Offers[s]

\* A load that begins after a save has returned finds the capture, unless the
\* load itself is cut short or someone put another file into the directory.
SavedLoads ==
  \A l \in Loaders : loader[l].saved /\ loader[l].at = "failed" => stranger
-----------------------------------------------------------------------------
(* Why: the inductive invariant *)

\* A saver that create_dir let through, and that nothing has stopped
Inside(s) ==
  saver[s] \in {"create_manifest", "write_manifest", "create_image", "write_image", "saved"}

WrittenBy(name, s) == files[name] # NoFile /\ files[name].of = Offers[s]

KeptOf(name, s) == WrittenBy(name, s) /\ Whole(files[name]) /\ files[name].synced

\* One saver at most is inside, and the files are as far as it is.
OneInside ==
  \A s \in Savers : Inside(s) =>
    /\ directory /\ Fit(Offers[s])
    /\ \A r \in Savers \ {s} : ~Inside(r)
    /\ saver[s] = "create_manifest" => files["manifest"] = NoFile
    /\ saver[s] = "write_manifest" =>
         WrittenBy("manifest", s) /\ ~files["manifest"].synced
    /\ saver[s] \in {"create_manifest", "write_manifest", "create_image"} =>
         files["image"] = NoFile
    /\ saver[s] \in {"create_image", "write_image", "saved"} => KeptOf("manifest", s)
    /\ saver[s] = "write_image" => WrittenBy("image", s) /\ ~files["image"].synced
    /\ saver[s] = "saved" => KeptOf("image", s)

\* Whatever is left of a save, the manifest was fit and was there to stay before
\* there was an image, and they are of one capture.
FilesAgree ==
  /\ files["manifest"] # NoFile =>
       \E s \in Savers : Offers[s] = files["manifest"].of /\ Fit(Offers[s])
  /\ files["image"] # NoFile =>
       /\ files["manifest"] # NoFile /\ files["manifest"].of = files["image"].of
       /\ Whole(files["manifest"]) /\ files["manifest"].synced

\* A loader between the two files has read the manifest that is there.
ReadsWhatIsThere ==
  \A l \in Loaders :
    /\ loader[l].at = "read_image" =>
         files["manifest"] # NoFile /\ loader[l].manifest = files["manifest"].of
    /\ loader[l].saved => \E s \in Savers : saver[s] = "saved"

Kept ==
  TypeOK /\ OneInside /\ FilesAgree /\ ReadsWhatIsThere /\ LoadsAreWhole /\ SavedLoads
=============================================================================
