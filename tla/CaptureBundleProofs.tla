------------------------- MODULE CaptureBundleProofs -------------------------
(***************************************************************************)
(* CaptureBundle keeps its promises for any savers, loaders, captures and  *)
(* number of power losses.                                                 *)
(***************************************************************************)
EXTENDS CaptureBundle, TLAPS
-----------------------------------------------------------------------------
(* What happens to files *)

\* A power loss leaves a synced file as it was, and of any other a file of the
\* same template or none.
LEMMA RemainsOf ==
  ASSUME NEW f \in StoredFiles, NEW g \in Remains(f)
  PROVE  /\ g \in StoredFiles
         /\ f # NoFile /\ f.synced => g = f
         /\ g # NoFile => f # NoFile /\ g.of = f.of /\ g.synced = f.synced
         /\ g # NoFile => g.length <= f.length
<1>1. CASE f = NoFile \/ f.synced
  BY <1>1, FullAssumption DEF Remains, StoredFiles, NoFile
<1>2. CASE ~(f = NoFile \/ f.synced)
  <2>1. f \in [of : Values, length : 0..Full, synced : BOOLEAN]
    BY <1>2 DEF StoredFiles
  <2>2. g = NoFile \/ \E n \in 0..f.length : g = [f EXCEPT !.length = n]
    BY <1>2 DEF Remains
  <2>3. CASE g = NoFile
    BY <2>3, <1>2 DEF StoredFiles
  <2>4. ASSUME NEW n \in 0..f.length, g = [f EXCEPT !.length = n]
        PROVE  /\ g \in [of : Values, length : 0..Full, synced : BOOLEAN]
               /\ g.of = f.of /\ g.synced = f.synced /\ g.length <= f.length
    BY <2>1, <2>4, FullAssumption
  <2>. QED BY <1>2, <2>2, <2>3, <2>4 DEF StoredFiles
<1>. QED BY <1>1, <1>2

\* There is nothing of a file that is not there.
LEMMA NoFileFacts == ~Whole(NoFile) /\ \A v : NewFile(v) # NoFile /\ ~Whole(NewFile(v))
  <1>1. ~Whole(NoFile)
    BY FullAssumption DEF Whole, NoFile
  <1>2. ASSUME NEW v PROVE NewFile(v).length = 0
    BY DEF NewFile
  <1>3. NoFile.length = -1
    BY DEF NoFile
  <1>. QED BY <1>1, <1>2, <1>3, FullAssumption DEF Whole

\* A step of a write makes a file longer, a sync leaves it as it is; it stays a
\* file of the same value.
LEMMA GrowingFile ==
  ASSUME NEW f \in StoredFiles, f # NoFile
  PROVE  /\ ~Whole(f) => /\ Longer(f) \in StoredFiles /\ Longer(f) # NoFile
                         /\ Longer(f).of = f.of /\ Longer(f).synced = f.synced
         /\ Synced(f) \in StoredFiles /\ Synced(f) # NoFile
         /\ Synced(f).of = f.of /\ Synced(f).synced /\ Synced(f).length = f.length
<1>1. f \in [of : Values, length : 0..Full, synced : BOOLEAN] /\ NoFile.length = -1
  BY DEF StoredFiles, NoFile
<1>2. /\ Synced(f) \in [of : Values, length : 0..Full, synced : BOOLEAN]
      /\ Synced(f).of = f.of /\ Synced(f).synced /\ Synced(f).length = f.length
  BY <1>1 DEF Synced
<1>3. ASSUME ~Whole(f)
      PROVE  /\ Longer(f) \in [of : Values, length : 0..Full, synced : BOOLEAN]
             /\ Longer(f).of = f.of /\ Longer(f).synced = f.synced
             /\ Longer(f).length = f.length + 1
  <2>1. f.length + 1 \in 0..Full
    BY <1>1, <1>3, FullAssumption DEF Whole
  <2>. QED BY <1>1, <2>1 DEF Longer
<1>4. Synced(f) # NoFile
  BY <1>1, <1>2
<1>5. ~Whole(f) => Longer(f) # NoFile
  BY <1>1, <1>3
<1>. QED BY <1>2, <1>3, <1>4, <1>5 DEF StoredFiles

\* A file that is created is a file.
LEMMA CreatedFile ==
  ASSUME NEW v \in Values
  PROVE  /\ NewFile(v) \in StoredFiles /\ NewFile(v) # NoFile
         /\ NewFile(v).of = v /\ ~NewFile(v).synced
BY NoFileFacts, FullAssumption DEF NewFile, StoredFiles
-----------------------------------------------------------------------------

LoaderRecords ==
  [at : {"start", "read_manifest", "read_image", "loaded", "failed", "cut"},
   manifest : Values \cup {NoValue}, image : Values \cup {NoValue}, saved : BOOLEAN]

\* The types and the writer's place, taken from the invariant.
LEMMA Types ==
  ASSUME TypeOK
  PROVE  /\ directory \in BOOLEAN /\ stranger \in BOOLEAN
         /\ files \in [Names -> StoredFiles]
         /\ files["manifest"] \in StoredFiles /\ files["image"] \in StoredFiles
         /\ saver \in [Savers -> SaverStages] /\ loader \in [Loaders -> LoaderRecords]
         /\ losses \in 0..MaxLosses
         /\ ~directory => ~stranger /\ \A n \in Names : files[n] = NoFile
  BY DEF TypeOK, LoaderRecords, Names

\* Who is inside is in one of five stages; nobody else is, and nobody leaves by
\* starting anew.
LEMMA InsideOrNot ==
  ASSUME TypeOK, NEW s \in Savers
  PROVE  /\ Inside(s) <=> saver[s] \notin Stopped \cup {"start"}
         /\ saver[s] = "saved" => Inside(s)
  BY Types DEF Inside, SaverStages, Stopped

\* A directory in which nothing was saved.
LEMMA KeptInit == Init => Kept
<1>. SUFFICES ASSUME Init PROVE Kept
  OBVIOUS
<1>1. \A n \in Names : files[n] = NoFile
  BY DEF Init
<1>2. TypeOK
  <2>1. files \in [Names -> StoredFiles]
    BY DEF Init, StoredFiles
  <2>2. saver \in [Savers -> SaverStages]
    BY DEF Init, SaverStages
  <2>3. loader \in [Loaders -> LoaderRecords]
    <3>1. NewLoader \in LoaderRecords
      BY DEF NewLoader, LoaderRecords
    <3>. QED BY <3>1 DEF Init
  <2>4. losses \in 0..MaxLosses
    BY LossesAssumption DEF Init
  <2>. QED BY <1>1, <2>1, <2>2, <2>3, <2>4 DEF Init, TypeOK, LoaderRecords
<1>3. \A s \in Savers : ~Inside(s)
  BY DEF Init, Inside
<1>4. \A l \in Loaders : loader[l].at = "start" /\ loader[l].saved = FALSE
  BY DEF Init, NewLoader
<1>. QED BY <1>1, <1>2, <1>3, <1>4
  DEF Kept, OneInside, FilesAgree, ReadsWhatIsThere, LoadsAreWhole, SavedLoads, Names
-----------------------------------------------------------------------------
(* Steps of savers *)

\* What a saver's step leaves alone: the loaders.  Files may have been added or
\* become longer, and a save that had returned is still one.
LEMMA LoadersKeep ==
  ASSUME Kept, loader' = loader, stranger' = stranger, FilesAgree',
         \A s \in Savers : saver[s] = "saved" => saver'[s] = "saved",
         files["manifest"] # NoFile =>
           files'["manifest"] # NoFile /\ files'["manifest"].of = files["manifest"].of
  PROVE  ReadsWhatIsThere' /\ LoadsAreWhole' /\ SavedLoads'
  BY DEF Kept, ReadsWhatIsThere, LoadsAreWhole, SavedLoads

\* create_dir: the one saver that makes the directory is the one inside.
LEMMA MakeDirectoryStep == ASSUME Kept, NEW s \in Savers, MakeDirectory(s) PROVE Kept'
<1>1. /\ TypeOK /\ saver[s] = "start" /\ files' = files /\ stranger' = stranger
      /\ loader' = loader /\ losses' = losses
  BY DEF Kept, MakeDirectory
<1>2. CASE ~Fit(Offers[s]) \/ directory
  <2>1. saver' = [saver EXCEPT ![s] = "refused"] /\ directory' = directory
    BY <1>2 DEF MakeDirectory, Goes
  <2>2. saver'[s] = "refused" /\ \A r \in Savers \ {s} : saver'[r] = saver[r]
    BY <1>1, <2>1, Types
  <2>3. TypeOK'
    BY <1>1, <2>1, Types DEF TypeOK, SaverStages, Stopped
  <2>4. \A r \in Savers : Inside(r)' => r # s /\ Inside(r)
    BY <2>2 DEF Inside
  <2>5. OneInside'
    BY <1>1, <2>1, <2>2, <2>4 DEF Kept, OneInside, WrittenBy, KeptOf, Inside, Fit
  <2>6. FilesAgree'
    BY <1>1 DEF Kept, FilesAgree, Fit
  <2>7. ReadsWhatIsThere' /\ LoadsAreWhole' /\ SavedLoads'
    BY <1>1, <2>2, <2>6, LoadersKeep
  <2>. QED BY <2>3, <2>5, <2>6, <2>7 DEF Kept
<1>3. CASE Fit(Offers[s]) /\ ~directory
  <2>1. saver' = [saver EXCEPT ![s] = "create_manifest"] /\ directory' = TRUE
    BY <1>3 DEF MakeDirectory, Goes
  <2>2. saver'[s] = "create_manifest" /\ \A r \in Savers \ {s} : saver'[r] = saver[r]
    BY <1>1, <2>1, Types
  <2>3. \A n \in Names : files[n] = NoFile
    BY <1>1, <1>3, Types
  <2>4. TypeOK'
    BY <1>1, <2>1, Types DEF TypeOK, SaverStages
  <2>5. \A r \in Savers \ {s} : ~Inside(r) /\ ~Inside(r)'
    BY <1>3, <2>2 DEF Kept, OneInside, Inside
  <2>6. OneInside'
    BY <1>1, <1>3, <2>1, <2>2, <2>3, <2>5 DEF OneInside, Fit, Names
  <2>7. FilesAgree'
    BY <1>1 DEF Kept, FilesAgree, Fit
  <2>8. ReadsWhatIsThere' /\ LoadsAreWhole' /\ SavedLoads'
    BY <1>1, <2>2, <2>7, LoadersKeep
  <2>. QED BY <2>4, <2>6, <2>7, <2>8 DEF Kept
<1>. QED BY <1>2, <1>3

\* A saver inside, of whom everything else is known to be outside.
LEMMA OnlyOne ==
  ASSUME Kept, NEW s \in Savers, Inside(s), \A r \in Savers \ {s} : saver'[r] = saver[r]
  PROVE  \A r \in Savers \ {s} : ~Inside(r) /\ ~Inside(r)'
  BY DEF Kept, OneInside, Inside

\* A saver that is refused, fails or dies leaves what is written.
LEMMA StopStep == ASSUME Kept, NEW s \in Savers, NEW how \in Stopped,
                         saver[s] # "saved", saver' = [saver EXCEPT ![s] = how],
                         UNCHANGED <<disk, loader, losses>>
                  PROVE  Kept'
<1>1. /\ TypeOK /\ directory' = directory /\ files' = files /\ stranger' = stranger
      /\ loader' = loader /\ losses' = losses
  BY DEF Kept, disk
<1>2. saver'[s] = how /\ \A r \in Savers \ {s} : saver'[r] = saver[r]
  BY <1>1, Types
<1>3. TypeOK'
  BY <1>1, Types DEF TypeOK, SaverStages
<1>4. \A r \in Savers : Inside(r)' => r # s /\ Inside(r)
  BY <1>2 DEF Inside, Stopped
<1>5. OneInside'
  BY <1>1, <1>2, <1>4 DEF Kept, OneInside, WrittenBy, KeptOf, Inside, Fit
<1>6. FilesAgree'
  BY <1>1 DEF Kept, FilesAgree, Fit
<1>7. ReadsWhatIsThere' /\ LoadsAreWhole' /\ SavedLoads'
  BY <1>1, <1>2, <1>6, LoadersKeep
<1>. QED BY <1>3, <1>5, <1>6, <1>7 DEF Kept

\* create_new finds no file: create_dir has let one saver through.
LEMMA CreateStep == ASSUME Kept, NEW s \in Savers, Create(s) PROVE Kept'
<1>1. /\ TypeOK /\ directory' = directory /\ stranger' = stranger
      /\ loader' = loader /\ losses' = losses /\ Inside(s)
      /\ saver[s] \in {"create_manifest", "create_image"}
  BY DEF Kept, Create, Inside
<1>2. directory /\ Fit(Offers[s]) /\ Offers[s] \in Values
  BY <1>1, OffersAssumption DEF Kept, OneInside
<1>3. CASE saver[s] = "create_manifest"
  <2>1. files["manifest"] = NoFile /\ files["image"] = NoFile
    BY <1>1, <1>3 DEF Kept, OneInside
  <2>2. /\ files' = [files EXCEPT !["manifest"] = NewFile(Offers[s])]
        /\ saver' = [saver EXCEPT ![s] = "write_manifest"]
    BY <1>3, <2>1 DEF Create, FileAt, StageAfter, Goes
  <2>3. saver'[s] = "write_manifest" /\ \A r \in Savers \ {s} : saver'[r] = saver[r]
    BY <1>1, <2>2, Types
  <2>4. /\ files'["manifest"] = NewFile(Offers[s]) /\ files'["image"] = NoFile
        /\ NewFile(Offers[s]) \in StoredFiles /\ NewFile(Offers[s]) # NoFile
        /\ NewFile(Offers[s]).of = Offers[s] /\ ~NewFile(Offers[s]).synced
    BY <1>1, <1>2, <2>1, <2>2, Types, CreatedFile DEF Names
  <2>5. TypeOK'
    BY <1>1, <1>2, <2>2, <2>4, Types DEF TypeOK, SaverStages
  <2>6. OneInside'
    BY <1>1, <1>2, <2>3, <2>4, OnlyOne DEF OneInside, WrittenBy, KeptOf, Fit
  <2>7. FilesAgree'
    BY <1>2, <2>4 DEF FilesAgree, Fit
  <2>8. ReadsWhatIsThere' /\ LoadsAreWhole' /\ SavedLoads'
    BY <1>1, <1>3, <2>1, <2>3, <2>7, LoadersKeep
  <2>. QED BY <2>5, <2>6, <2>7, <2>8 DEF Kept
<1>4. CASE saver[s] = "create_image"
  <2>1. files["image"] = NoFile /\ KeptOf("manifest", s)
    BY <1>1, <1>4 DEF Kept, OneInside
  <2>2. /\ files' = [files EXCEPT !["image"] = NewFile(Offers[s])]
        /\ saver' = [saver EXCEPT ![s] = "write_image"]
    BY <1>4, <2>1 DEF Create, FileAt, StageAfter, Goes
  <2>3. saver'[s] = "write_image" /\ \A r \in Savers \ {s} : saver'[r] = saver[r]
    BY <1>1, <2>2, Types
  <2>4. /\ files'["image"] = NewFile(Offers[s]) /\ files'["manifest"] = files["manifest"]
        /\ NewFile(Offers[s]) \in StoredFiles /\ NewFile(Offers[s]) # NoFile
        /\ NewFile(Offers[s]).of = Offers[s] /\ ~NewFile(Offers[s]).synced
    BY <1>1, <1>2, <2>1, <2>2, Types, CreatedFile DEF Names
  <2>5. TypeOK'
    BY <1>1, <1>2, <2>2, <2>4, Types DEF TypeOK, SaverStages
  <2>6. OneInside'
    BY <1>1, <1>2, <2>1, <2>3, <2>4, OnlyOne DEF OneInside, WrittenBy, KeptOf, Fit
  <2>7. FilesAgree'
    BY <1>2, <2>1, <2>4 DEF FilesAgree, Fit, KeptOf, WrittenBy
  <2>8. ReadsWhatIsThere' /\ LoadsAreWhole' /\ SavedLoads'
    BY <1>1, <1>4, <2>3, <2>4, <2>7, LoadersKeep
  <2>. QED BY <2>5, <2>6, <2>7, <2>8 DEF Kept
<1>. QED BY <1>1, <1>3, <1>4

\* A step of a write that makes a file longer.
LEMMA WriteStep == ASSUME Kept, NEW s \in Savers, Write(s) PROVE Kept'
<1>1. /\ TypeOK /\ directory' = directory /\ stranger' = stranger /\ saver' = saver
      /\ loader' = loader /\ losses' = losses /\ Inside(s)
      /\ saver[s] \in {"write_manifest", "write_image"}
  BY DEF Kept, Write, Inside
<1>2. directory /\ Fit(Offers[s]) /\ \A r \in Savers \ {s} : ~Inside(r) /\ ~Inside(r)'
  BY <1>1, OnlyOne DEF Kept, OneInside
<1>3. CASE saver[s] = "write_manifest"
  <2>1. /\ WrittenBy("manifest", s) /\ ~files["manifest"].synced /\ files["image"] = NoFile
        /\ files' = [files EXCEPT !["manifest"] = Longer(files["manifest"])]
        /\ ~Whole(files["manifest"])
    BY <1>1, <1>3 DEF Kept, OneInside, Write, FileAt
  <2>2. /\ files'["manifest"] = Longer(files["manifest"]) /\ files'["image"] = NoFile
        /\ Longer(files["manifest"]) \in StoredFiles /\ Longer(files["manifest"]) # NoFile
        /\ Longer(files["manifest"]).of = Offers[s] /\ ~Longer(files["manifest"]).synced
    BY <1>1, <2>1, Types, GrowingFile DEF Names, WrittenBy
  <2>3. TypeOK'
    BY <1>1, <1>2, <2>1, <2>2, Types DEF TypeOK
  <2>4. OneInside'
    BY <1>1, <1>2, <1>3, <2>2 DEF OneInside, WrittenBy, KeptOf, Fit
  <2>5. FilesAgree'
    BY <1>2, <2>2 DEF FilesAgree, Fit
  <2>6. ReadsWhatIsThere' /\ LoadsAreWhole' /\ SavedLoads'
    BY <1>1, <2>1, <2>2, <2>5, LoadersKeep DEF WrittenBy
  <2>. QED BY <2>3, <2>4, <2>5, <2>6 DEF Kept
<1>4. CASE saver[s] = "write_image"
  <2>1. /\ WrittenBy("image", s) /\ ~files["image"].synced /\ KeptOf("manifest", s)
        /\ files' = [files EXCEPT !["image"] = Longer(files["image"])]
        /\ ~Whole(files["image"])
    BY <1>1, <1>4 DEF Kept, OneInside, Write, FileAt
  <2>2. /\ files'["image"] = Longer(files["image"]) /\ files'["manifest"] = files["manifest"]
        /\ Longer(files["image"]) \in StoredFiles /\ Longer(files["image"]) # NoFile
        /\ Longer(files["image"]).of = Offers[s] /\ ~Longer(files["image"]).synced
    BY <1>1, <2>1, Types, GrowingFile DEF Names, WrittenBy
  <2>3. TypeOK'
    BY <1>1, <1>2, <2>1, <2>2, Types DEF TypeOK
  <2>4. OneInside'
    BY <1>1, <1>2, <1>4, <2>1, <2>2 DEF OneInside, WrittenBy, KeptOf, Fit
  <2>5. FilesAgree'
    BY <1>2, <2>1, <2>2 DEF FilesAgree, Fit, KeptOf, WrittenBy
  <2>6. ReadsWhatIsThere' /\ LoadsAreWhole' /\ SavedLoads'
    BY <1>1, <2>2, <2>5, LoadersKeep
  <2>. QED BY <2>3, <2>4, <2>5, <2>6 DEF Kept
<1>. QED BY <1>1, <1>3, <1>4

\* A file is on disk: the saver goes on to the other file, or returns.
LEMMA SyncStep == ASSUME Kept, NEW s \in Savers, Sync(s) PROVE Kept'
<1>1. /\ TypeOK /\ directory' = directory /\ stranger' = stranger
      /\ loader' = loader /\ losses' = losses /\ Inside(s)
      /\ saver[s] \in {"write_manifest", "write_image"}
  BY DEF Kept, Sync, Inside
<1>2. directory /\ Fit(Offers[s])
  BY <1>1 DEF Kept, OneInside
<1>3. CASE saver[s] = "write_manifest"
  <2>1. /\ WrittenBy("manifest", s) /\ files["image"] = NoFile /\ Whole(files["manifest"])
        /\ files' = [files EXCEPT !["manifest"] = Synced(files["manifest"])]
        /\ saver' = [saver EXCEPT ![s] = "create_image"]
    BY <1>1, <1>3 DEF Kept, OneInside, Sync, FileAt, StageAfter, Goes
  <2>2. saver'[s] = "create_image" /\ \A r \in Savers \ {s} : saver'[r] = saver[r]
    BY <1>1, <2>1, Types
  <2>3. /\ files'["manifest"] = Synced(files["manifest"]) /\ files'["image"] = NoFile
        /\ Synced(files["manifest"]) \in StoredFiles /\ Synced(files["manifest"]) # NoFile
        /\ Synced(files["manifest"]).of = Offers[s] /\ Synced(files["manifest"]).synced
        /\ Whole(Synced(files["manifest"]))
    BY <1>1, <2>1, Types, GrowingFile DEF Names, WrittenBy, Whole
  <2>4. TypeOK'
    BY <1>1, <1>2, <2>1, <2>3, Types DEF TypeOK, SaverStages
  <2>5. OneInside'
    BY <1>1, <1>2, <2>2, <2>3, OnlyOne DEF OneInside, WrittenBy, KeptOf, Fit
  <2>6. FilesAgree'
    BY <1>2, <2>3 DEF FilesAgree, Fit
  <2>7. ReadsWhatIsThere' /\ LoadsAreWhole' /\ SavedLoads'
    BY <1>1, <1>3, <2>1, <2>2, <2>3, <2>6, LoadersKeep DEF WrittenBy
  <2>. QED BY <2>4, <2>5, <2>6, <2>7 DEF Kept
<1>4. CASE saver[s] = "write_image"
  <2>1. /\ WrittenBy("image", s) /\ KeptOf("manifest", s) /\ Whole(files["image"])
        /\ files' = [files EXCEPT !["image"] = Synced(files["image"])]
        /\ saver' = [saver EXCEPT ![s] = "saved"]
    BY <1>1, <1>4 DEF Kept, OneInside, Sync, FileAt, StageAfter, Goes
  <2>2. saver'[s] = "saved" /\ \A r \in Savers \ {s} : saver'[r] = saver[r]
    BY <1>1, <2>1, Types
  <2>3. /\ files'["image"] = Synced(files["image"]) /\ files'["manifest"] = files["manifest"]
        /\ Synced(files["image"]) \in StoredFiles /\ Synced(files["image"]) # NoFile
        /\ Synced(files["image"]).of = Offers[s] /\ Synced(files["image"]).synced
        /\ Whole(Synced(files["image"]))
    BY <1>1, <2>1, Types, GrowingFile DEF Names, WrittenBy, Whole
  <2>4. TypeOK'
    BY <1>1, <1>2, <2>1, <2>3, Types DEF TypeOK, SaverStages
  <2>5. OneInside'
    BY <1>1, <1>2, <2>1, <2>2, <2>3, OnlyOne DEF OneInside, WrittenBy, KeptOf, Fit
  <2>6. FilesAgree'
    BY <1>2, <2>1, <2>3 DEF FilesAgree, Fit, KeptOf, WrittenBy
  <2>7. ReadsWhatIsThere' /\ LoadsAreWhole' /\ SavedLoads'
    BY <1>1, <1>4, <2>2, <2>3, <2>6, LoadersKeep
  <2>. QED BY <2>4, <2>5, <2>6, <2>7 DEF Kept
<1>. QED BY <1>1, <1>3, <1>4
-----------------------------------------------------------------------------
(* Steps of loaders *)

\* A loader's step changes its own record alone.
LEMMA LoaderStep ==
  ASSUME Kept, NEW l \in Loaders, NEW new \in LoaderRecords,
         loader' = [loader EXCEPT ![l] = new], UNCHANGED <<disk, saver, losses>>,
         new.at = "read_image" =>
           files["manifest"] # NoFile /\ new.manifest = files["manifest"].of,
         new.saved => \E s \in Savers : saver[s] = "saved",
         new.at = "loaded" =>
           /\ new.manifest = new.image
           /\ \E s \in Savers : Offers[s] = new.image /\ Fit(Offers[s]),
         new.saved /\ new.at = "failed" => stranger
  PROVE  Kept'
<1>1. /\ TypeOK /\ directory' = directory /\ files' = files /\ stranger' = stranger
      /\ saver' = saver /\ losses' = losses
  BY DEF Kept, disk
<1>2. \A k \in Loaders : loader'[k] = IF k = l THEN new ELSE loader[k]
  BY <1>1, Types
<1>3. TypeOK'
  <2>1. loader' \in [Loaders -> LoaderRecords]
    BY <1>1, Types
  <2>. QED BY <1>1, <2>1 DEF TypeOK, LoaderRecords
<1>4. OneInside' /\ FilesAgree'
  BY <1>1 DEF Kept, OneInside, FilesAgree, Inside, WrittenBy, KeptOf, Fit
<1>5. ReadsWhatIsThere'
  BY <1>1, <1>2 DEF Kept, ReadsWhatIsThere
<1>6. LoadsAreWhole'
  BY <1>1, <1>2 DEF Kept, LoadsAreWhole, Fit
<1>7. SavedLoads'
  BY <1>1, <1>2 DEF Kept, SavedLoads
<1>. QED BY <1>3, <1>4, <1>5, <1>6, <1>7 DEF Kept

\* With a save that has returned, the bundle is there, whole and fit.
LEMMA SavedIsThere ==
  ASSUME Kept, NEW s \in Savers, saver[s] = "saved"
  PROVE  /\ directory /\ Fit(Offers[s])
         /\ files["manifest"] # NoFile /\ files["image"] # NoFile
         /\ files["manifest"].of = Offers[s] /\ files["image"].of = Offers[s]
         /\ Whole(files["manifest"]) /\ Whole(files["image"])
         /\ files["manifest"].synced /\ files["image"].synced
<1>1. Inside(s)
  BY DEF Inside
<1>. QED BY <1>1 DEF Kept, OneInside, KeptOf, WrittenBy

\* A load that starts after a save has returned sees two files, and what was put
\* there beside them.
LEMMA ListEntriesStep == ASSUME Kept, NEW l \in Loaders, ListEntries(l) PROVE Kept'
<1> DEFINE saved == \E s \in Savers : saver[s] = "saved"
           stage == IF directory /\ ~stranger /\ \A n \in Names : files[n] # NoFile
                      THEN "read_manifest" ELSE "failed"
           new == [loader[l] EXCEPT !.saved = saved, !.at = stage]
<1>1. loader[l] \in LoaderRecords
  BY Types DEF Kept
<1>2. loader' = [loader EXCEPT ![l] = new] /\ UNCHANGED <<disk, saver, losses>>
  BY DEF ListEntries, Becomes
<1>3. stage \in {"read_manifest", "failed"} /\ saved \in BOOLEAN
  OBVIOUS
<1>4. saved /\ stage = "failed" => stranger
  BY SavedIsThere DEF Names
<1>5. saved => \E s \in Savers : saver[s] = "saved"
  OBVIOUS
<1> HIDE DEF saved, stage
<1>6. new \in LoaderRecords
  BY <1>1, <1>3 DEF LoaderRecords
<1>7. new.at = stage
  BY <1>1, <1>3 DEF LoaderRecords
<1>8. new.saved = saved
  BY <1>1, <1>3, Zenon DEF LoaderRecords
<1> HIDE DEF new
<1>. QED BY <1>2, <1>3, <1>4, <1>5, <1>6, <1>7, <1>8, LoaderStep

\* A load that fails leaves all else in its record as it was.
LEMMA FailStep ==
  ASSUME Kept, NEW l \in Loaders, Fails(l),
         loader[l].saved => stranger
  PROVE  Kept'
<1> DEFINE new == [loader[l] EXCEPT !.at = "failed"]
<1>1. loader[l] \in LoaderRecords
  BY Types DEF Kept
<1>2. loader' = [loader EXCEPT ![l] = new] /\ UNCHANGED <<disk, saver, losses>>
  BY DEF Fails, Becomes
<1>3. new \in LoaderRecords /\ new.at = "failed"
  BY <1>1 DEF LoaderRecords
<1>4. new.saved = loader[l].saved
  BY <1>1, Zenon DEF LoaderRecords
<1>5. loader[l].saved => \E s \in Savers : saver[s] = "saved"
  BY DEF Kept, ReadsWhatIsThere
<1> HIDE DEF new
<1>. QED BY <1>2, <1>3, <1>4, <1>5, LoaderStep

\* The metadata is read first.
LEMMA ReadManifestStep == ASSUME Kept, NEW l \in Loaders, ReadManifest(l) PROVE Kept'
<1>1. loader[l] \in LoaderRecords /\ TypeOK
  BY Types DEF Kept
<1>2. loader[l].saved => \E s \in Savers : saver[s] = "saved"
  BY DEF Kept, ReadsWhatIsThere
<1>3. CASE Whole(files["manifest"]) /\ files["manifest"].of \notin Invalid
  <2> DEFINE manifest == files["manifest"].of
             new == [loader[l] EXCEPT !.at = "read_image", !.manifest = manifest]
  <2>1. loader' = [loader EXCEPT ![l] = new] /\ UNCHANGED <<disk, saver, losses>>
    BY <1>3 DEF ReadManifest, Becomes
  <2>2. files["manifest"] # NoFile
    BY <1>3, NoFileFacts
  <2>3. manifest \in Values
    BY <1>1, <2>2, Types DEF StoredFiles
  <2> HIDE DEF manifest
  <2>4. new \in LoaderRecords /\ new.at = "read_image" /\ new.manifest = manifest
    BY <1>1, <2>3 DEF LoaderRecords
  <2>5. new.saved = loader[l].saved
    BY <1>1, Zenon DEF LoaderRecords
  <2>6. manifest = files["manifest"].of
    BY DEF manifest
  <2> HIDE DEF new
  <2>. QED BY <1>2, <2>1, <2>2, <2>4, <2>5, <2>6, LoaderStep
<1>4. CASE ~(Whole(files["manifest"]) /\ files["manifest"].of \notin Invalid)
  <2>1. Fails(l)
    BY <1>4 DEF ReadManifest
  <2>2. ~loader[l].saved
    BY <1>2, <1>4, SavedIsThere DEF Fit
  <2>. QED BY <2>1, <2>2, FailStep
<1>. QED BY <1>3, <1>4

\* The image is of the capture that the manifest is of.
LEMMA ReadImageStep == ASSUME Kept, NEW l \in Loaders, ReadImage(l) PROVE Kept'
<1>1. /\ loader[l] \in LoaderRecords /\ TypeOK
      /\ files["manifest"] # NoFile /\ loader[l].manifest = files["manifest"].of
  BY Types DEF Kept, ReadImage, ReadsWhatIsThere
<1>2. loader[l].saved => \E s \in Savers : saver[s] = "saved"
  BY DEF Kept, ReadsWhatIsThere
<1>3. CASE Whole(files["image"]) /\ Sizes[files["image"].of] = Sizes[loader[l].manifest]
  <2> DEFINE image == files["image"].of
             new == [loader[l] EXCEPT !.at = "loaded", !.image = image]
  <2>1. loader' = [loader EXCEPT ![l] = new] /\ UNCHANGED <<disk, saver, losses>>
    BY <1>3 DEF ReadImage, Becomes
  <2>2. files["image"] # NoFile
    BY <1>3, NoFileFacts
  <2>3. image \in Values
    BY <1>1, <2>2, Types DEF StoredFiles
  <2>4. /\ loader[l].manifest = image
        /\ \E s \in Savers : Offers[s] = image /\ Fit(Offers[s])
    BY <1>1, <2>2 DEF Kept, FilesAgree
  <2> HIDE DEF image
  <2>5. /\ new \in LoaderRecords /\ new.at = "loaded" /\ new.image = image
        /\ new.manifest = loader[l].manifest
    BY <1>1, <2>3 DEF LoaderRecords
  <2>6. new.saved = loader[l].saved
    BY <1>1, Zenon DEF LoaderRecords
  <2> HIDE DEF new
  <2>. QED BY <1>2, <2>1, <2>4, <2>5, <2>6, LoaderStep
<1>4. CASE ~(Whole(files["image"]) /\ Sizes[files["image"].of] = Sizes[loader[l].manifest])
  <2>1. Fails(l)
    BY <1>4 DEF ReadImage
  <2>2. ~loader[l].saved
    BY <1>1, <1>2, <1>4, SavedIsThere
  <2>. QED BY <2>1, <2>2, FailStep
<1>. QED BY <1>3, <1>4

\* A load that is refused or dies.
LEMMA StopLoadingStep == ASSUME Kept, NEW l \in Loaders, StopLoading(l) PROVE Kept'
<1> DEFINE new == [loader[l] EXCEPT !.at = "cut"]
<1>1. loader[l] \in LoaderRecords
  BY Types DEF Kept
<1>2. loader' = [loader EXCEPT ![l] = new] /\ UNCHANGED <<disk, saver, losses>>
  BY DEF StopLoading, Becomes
<1>3. new \in LoaderRecords /\ new.at = "cut"
  BY <1>1 DEF LoaderRecords
<1>4. new.saved = loader[l].saved
  BY <1>1, Zenon DEF LoaderRecords
<1>5. loader[l].saved => \E s \in Savers : saver[s] = "saved"
  BY DEF Kept, ReadsWhatIsThere
<1> HIDE DEF new
<1>. QED BY <1>2, <1>3, <1>4, <1>5, LoaderStep
-----------------------------------------------------------------------------
(* The surroundings *)

\* A file of somebody else appears in the directory.
LEMMA IntrudeStep == ASSUME Kept, Intrude PROVE Kept'
<1>1. /\ TypeOK /\ directory /\ directory' = directory /\ files' = files /\ stranger' = TRUE
      /\ saver' = saver /\ loader' = loader /\ losses' = losses
  BY DEF Kept, Intrude
<1>2. TypeOK'
  BY <1>1 DEF TypeOK
<1>3. OneInside' /\ FilesAgree'
  BY <1>1 DEF Kept, OneInside, FilesAgree, Inside, WrittenBy, KeptOf, Fit
<1>4. ReadsWhatIsThere' /\ LoadsAreWhole' /\ SavedLoads'
  BY <1>1 DEF Kept, ReadsWhatIsThere, LoadsAreWhole, SavedLoads, Fit
<1>. QED BY <1>2, <1>3, <1>4 DEF Kept

\* A power loss takes nothing of what was synced, and the directory only with
\* both files.
LEMMA PowerLossStep == ASSUME Kept, PowerLoss PROVE Kept'
<1>types. /\ TypeOK
          /\ files["manifest"] \in StoredFiles /\ files["image"] \in StoredFiles
          /\ saver \in [Savers -> SaverStages] /\ loader \in [Loaders -> LoaderRecords]
  BY Types DEF Kept
<1>1. PICK manifest \in Remains(files["manifest"]), image \in Remains(files["image"]) :
        /\ files' = [n \in Names |-> IF n = "manifest" THEN manifest ELSE image]
        /\ \/ UNCHANGED <<directory, stranger>>
           \/ /\ manifest = NoFile /\ image = NoFile
              /\ directory' = FALSE /\ stranger' = FALSE
  BY DEF PowerLoss
<1>2. files'["manifest"] = manifest /\ files'["image"] = image
  BY <1>1 DEF Names
<1>3. /\ manifest \in StoredFiles
      /\ files["manifest"] # NoFile /\ files["manifest"].synced => manifest = files["manifest"]
      /\ manifest # NoFile => files["manifest"] # NoFile /\ manifest.of = files["manifest"].of
  BY <1>types, RemainsOf
<1>4. /\ image \in StoredFiles
      /\ files["image"] # NoFile /\ files["image"].synced => image = files["image"]
      /\ image # NoFile => files["image"] # NoFile /\ image.of = files["image"].of
  BY <1>types, RemainsOf
<1>5. /\ losses' = losses + 1 /\ losses < MaxLosses
      /\ saver' = [s \in Savers |->
           IF saver[s] \in Stopped \cup {"start", "saved"} THEN saver[s] ELSE "dead"]
      /\ loader' = [l \in Loaders |->
           IF loader[l].at \in {"read_manifest", "read_image"}
             THEN [loader[l] EXCEPT !.at = "cut"] ELSE loader[l]]
  BY DEF PowerLoss
<1>6. \A l \in Loaders :
        /\ loader'[l] \in LoaderRecords
        /\ loader'[l].manifest = loader[l].manifest /\ loader'[l].image = loader[l].image
        /\ loader'[l].at \notin {"read_manifest", "read_image"}
        /\ loader'[l].at \in {"loaded", "failed"} => loader'[l].at = loader[l].at
  BY <1>5, <1>types DEF LoaderRecords
<1>7. \A l \in Loaders : loader'[l].saved = loader[l].saved
  BY <1>5, <1>types, Zenon DEF LoaderRecords
<1>8. TypeOK'
  <2>1. files' \in [Names -> StoredFiles]
    BY <1>1, <1>3, <1>4
  <2>2. saver' \in [Savers -> SaverStages]
    BY <1>5, <1>types DEF SaverStages, Stopped
  <2>3. loader' \in [Loaders -> LoaderRecords]
    BY <1>5, <1>6
  <2>4. losses' \in 0..MaxLosses
    BY <1>5, <1>types, LossesAssumption DEF TypeOK
  <2>5. /\ directory' \in BOOLEAN /\ stranger' \in BOOLEAN
        /\ ~directory' => ~stranger' /\ \A n \in Names : files'[n] = NoFile
    <3>1. ~directory => manifest = NoFile /\ image = NoFile
      BY <1>3, <1>4, <1>types, Types DEF Names
    <3>2. manifest = NoFile /\ image = NoFile => \A n \in Names : files'[n] = NoFile
      BY <1>2 DEF Names
    <3>3. directory \in BOOLEAN /\ stranger \in BOOLEAN /\ (~directory => ~stranger)
      BY <1>types, Types
    <3>4. CASE UNCHANGED <<directory, stranger>>
      BY <3>1, <3>2, <3>3, <3>4
    <3>5. CASE manifest = NoFile /\ image = NoFile /\ directory' = FALSE /\ stranger' = FALSE
      BY <3>2, <3>5
    <3>. QED BY <1>1, <3>4, <3>5
  <2>. QED BY <2>1, <2>2, <2>3, <2>4, <2>5 DEF TypeOK, LoaderRecords
<1>9. \A s \in Savers :
        /\ Inside(s)' => saver'[s] = "saved" /\ saver[s] = "saved"
        /\ saver[s] = "saved" => saver'[s] = "saved"
  BY <1>5, <1>types DEF Inside, Stopped
<1>10. \A s \in Savers : saver[s] = "saved" =>
         /\ directory' = directory /\ stranger' = stranger
         /\ manifest = files["manifest"] /\ image = files["image"]
  BY <1>1, <1>3, <1>4, SavedIsThere
<1>11. OneInside'
  <2>1. \A s \in Savers : saver[s] = "saved" => Inside(s)
    BY DEF Inside
  <2>2. \A s \in Savers : saver[s] = "saved" =>
          \A r \in Savers \ {s} : ~Inside(r) /\ ~Inside(r)'
    BY <1>9, <2>1 DEF Kept, OneInside
  <2>3. SUFFICES ASSUME NEW s \in Savers, saver'[s] = "saved", saver[s] = "saved"
                 PROVE  /\ directory' /\ Fit(Offers[s])
                        /\ KeptOf("manifest", s)' /\ KeptOf("image", s)'
    BY <1>9, <2>2 DEF OneInside, Fit
  <2>. QED BY <1>2, <1>10, <2>3, SavedIsThere DEF KeptOf, WrittenBy
<1>12. FilesAgree'
  <2>1. manifest # NoFile => \E s \in Savers : Offers[s] = manifest.of /\ Fit(Offers[s])
    BY <1>3 DEF Kept, FilesAgree
  <2>2. image # NoFile =>
          /\ manifest # NoFile /\ manifest.of = image.of /\ Whole(manifest) /\ manifest.synced
    BY <1>3, <1>4 DEF Kept, FilesAgree
  <2>. QED BY <1>2, <2>1, <2>2 DEF FilesAgree, Fit
<1>13. ReadsWhatIsThere' /\ LoadsAreWhole'
  BY <1>6, <1>7, <1>9 DEF Kept, ReadsWhatIsThere, LoadsAreWhole, Fit
<1>14. SavedLoads'
  BY <1>6, <1>7, <1>10 DEF Kept, ReadsWhatIsThere, SavedLoads
<1>. QED BY <1>8, <1>11, <1>12, <1>13, <1>14 DEF Kept

\* Every step keeps the invariant.
LEMMA KeptNext == Kept /\ [Next]_vars => Kept'
<1>. SUFFICES ASSUME Kept, [Next]_vars PROVE Kept'
  OBVIOUS
<1>1. ASSUME NEW s \in Savers, Stop(s) PROVE Kept'
  BY <1>1, StopStep DEF Stop, Goes, Stopped
<1>2. CASE UNCHANGED vars
  BY <1>2 DEF vars, disk, Kept, TypeOK, OneInside, FilesAgree, ReadsWhatIsThere, LoadsAreWhole,
              SavedLoads, Inside, WrittenBy, KeptOf, Fit
<1>. QED BY <1>1, <1>2, MakeDirectoryStep, CreateStep, WriteStep, SyncStep, ListEntriesStep,
            ReadManifestStep, ReadImageStep, StopLoadingStep, IntrudeStep, PowerLossStep
         DEF Next
-----------------------------------------------------------------------------
\* The inductive invariant: one saver at most is inside the directory, and what
\* is in it is as far as that saver is.
THEOREM KeptHolds == Spec => []Kept
  BY KeptInit, KeptNext, PTL DEF Spec

\* A bundle that loads is one capture that was fit to be saved, whatever was cut
\* short before.
THEOREM BundlesLoadWhole == Spec => []LoadsAreWhole
<1>1. Kept => LoadsAreWhole
  BY DEF Kept
<1>. QED BY <1>1, KeptHolds, PTL

\* No save, failure or power loss takes away a bundle whose save returned.
THEOREM BundlesStay == Spec => []SavedStays
<1>1. Kept => SavedStays
  BY SavedIsThere DEF SavedStays, Names
<1>. QED BY <1>1, KeptHolds, PTL

\* What save_capture_bundle accepted, load_capture_bundle refuses only for a
\* stranger's file.
THEOREM BundlesLoad == Spec => []SavedLoads
<1>1. Kept => SavedLoads
  BY DEF Kept
<1>. QED BY <1>1, KeptHolds, PTL
-----------------------------------------------------------------------------
(* The path as a write-once register *)

Held == IF Complete THEN files["image"].of ELSE NoValue

Saves == [s \in Savers |->
  CASE saver[s] = "saved" -> "saved"
    [] saver[s] \in Stopped -> "failed"
    [] OTHER -> "pending"]

Loads == [l \in Loaders |->
  CASE loader[l].at = "loaded" -> loader[l].image
    [] loader[l].at \in {"failed", "cut"} -> [call |-> "failed"]
    [] OTHER -> [call |-> "pending"]]

\* How far a call has come, for the register.
LEMMA SavesAre ==
  \A s \in Savers :
    /\ saver[s] = "saved" => Saves[s] = "saved"
    /\ saver[s] \in Stopped => Saves[s] = "failed"
    /\ saver[s] \notin Stopped \cup {"saved"} => Saves[s] = "pending"
  BY DEF Saves, Stopped

\* What is seen of a load.
LEMMA LoadsAre ==
  \A l \in Loaders :
    loader[l].at \in {"start", "read_manifest", "read_image"} => Loads[l] = [call |-> "pending"]
  BY DEF Loads

\* A step of one call is a step of that call for the register.
LEMMA OneSave ==
  ASSUME NEW s \in Savers, NEW stage, saver \in [Savers -> SaverStages],
         saver[s] \notin Stopped \cup {"saved"}, saver' = [saver EXCEPT ![s] = stage]
  PROVE  /\ stage = "saved" => Saves' = [Saves EXCEPT ![s] = "saved"]
         /\ stage \in Stopped => Saves' = [Saves EXCEPT ![s] = "failed"]
         /\ stage \notin Stopped \cup {"saved"} => Saves' = Saves
  BY DEF Saves, Stopped

\* A step of one load is seen of that loader only, and only when it ends.
LEMMA OneLoad ==
  ASSUME NEW l \in Loaders, NEW new, loader \in [Loaders -> LoaderRecords],
         loader' = [loader EXCEPT ![l] = new]
  PROVE  /\ new.at = "loaded" => Loads' = [Loads EXCEPT ![l] = new.image]
         /\ new.at \in {"failed", "cut"} => Loads' = [Loads EXCEPT ![l] = [call |-> "failed"]]
         /\ loader[l].at \in {"start", "read_manifest"}
              /\ new.at \in {"read_manifest", "read_image"} => Loads' = Loads
  BY DEF Loads

\* A saver that goes on to its next stage is pending to the register.
LEMMA NextStage ==
  ASSUME NEW s \in Savers, NEW stage, saver \in [Savers -> SaverStages],
         saver[s] \in {"start", "create_manifest", "write_manifest", "create_image"},
         stage \in {"create_manifest", "write_manifest", "create_image", "write_image"},
         Goes(s, stage)
  PROVE  UNCHANGED Saves
<1>1. saver' = [saver EXCEPT ![s] = stage]
  BY DEF Goes
<1>2. saver[s] \notin Stopped \cup {"saved"} /\ stage \notin Stopped \cup {"saved"}
  BY DEF Stopped
<1>. QED BY <1>1, <1>2, OneSave

\* A bundle is complete as soon as its image is: the manifest was there before.
LEMMA CompleteWithImage == Kept => (Complete <=> Whole(files["image"]))
  BY NoFileFacts DEF Kept, FilesAgree, Complete, Names

\* Before anything is saved the register is empty.
LEMMA RegisterInit == Init => Register!Init
<1>. SUFFICES ASSUME Init PROVE Register!Init
  OBVIOUS
<1>1. Held = NoValue
  BY NoFileFacts DEF Init, Held, Complete, Names
<1>2. Saves = [s \in Savers |-> "pending"]
  BY DEF Init, Saves, Stopped
<1>3. Loads = [l \in Loaders |-> [call |-> "pending"]]
  BY DEF Init, Loads, NewLoader
<1>. QED
  BY <1>1, <1>2, <1>3
  DEF Register!Init, Register!Empty, Register!Pending, Held, Saves, Loads, NoValue

\* Every step is one of the register, or is not seen.
LEMMA RegisterNext ==
  Kept /\ Kept' /\ [Next]_vars => [Register!Next]_(Register!vars)
<1>. SUFFICES ASSUME Kept, Kept', [Next]_vars PROVE [Register!Next]_(Register!vars)
  OBVIOUS
<1>types. /\ files \in [Names -> StoredFiles] /\ files["image"] \in StoredFiles
          /\ saver \in [Savers -> SaverStages] /\ loader \in [Loaders -> LoaderRecords]
  BY Types DEF Kept
<1>whole. /\ Complete <=> Whole(files["image"])
          /\ Complete' <=> Whole(files'["image"])
  <2>1. Complete <=> Whole(files["image"])
    BY CompleteWithImage
  <2>2. (Kept => (Complete <=> Whole(files["image"])))'
    BY CompleteWithImage, PTL
  <2>. QED BY <2>1, <2>2 DEF Whole
<1>held. files'["image"] = files["image"] => UNCHANGED Held
  BY <1>whole DEF Held
<1>saves. UNCHANGED saver => UNCHANGED Saves
  BY DEF Saves
<1>loads. UNCHANGED loader => UNCHANGED Loads
  BY DEF Loads
<1>stutter. UNCHANGED <<Held, Saves, Loads>> => UNCHANGED Register!vars
  BY DEF Register!vars, Held, Saves, Loads
<1>fail. ASSUME NEW s \in Savers, NEW how \in Stopped, saver[s] \notin Stopped \cup {"saved"},
                Goes(s, how), UNCHANGED <<files, loader>>
         PROVE  Register!NotSave(s)
  <2>1. Saves[s] = "pending" /\ Saves' = [Saves EXCEPT ![s] = "failed"]
    BY <1>fail, <1>types, SavesAre, OneSave DEF Goes
  <2>2. UNCHANGED <<Held, Loads>>
    BY <1>fail, <1>held, <1>loads
  <2>. QED BY <2>1, <2>2 DEF Register!NotSave, Held, Saves, Loads
<1>1. ASSUME NEW s \in Savers, MakeDirectory(s) PROVE Register!Next \/ UNCHANGED Register!vars
  <2>1. saver[s] = "start" /\ UNCHANGED <<files, loader>>
    BY <1>1 DEF MakeDirectory
  <2>2. CASE Goes(s, "refused")
    BY <2>1, <2>2, <1>fail DEF Stopped, Register!Next
  <2>3. CASE Goes(s, "create_manifest")
    <3>1. UNCHANGED Saves
      BY <2>1, <2>3, <1>types, NextStage
    <3>. QED BY <2>1, <3>1, <1>held, <1>loads, <1>stutter
  <2>. QED BY <1>1, <2>2, <2>3 DEF MakeDirectory
<1>2. ASSUME NEW s \in Savers, Create(s) PROVE Register!Next \/ UNCHANGED Register!vars
  <2>1. /\ saver[s] \in {"create_manifest", "create_image"} /\ UNCHANGED loader
        /\ files["image"] = NoFile
        /\ saver[s] = "create_manifest" => files["manifest"] = NoFile
    BY <1>2 DEF Create, Kept, OneInside, Inside
  <2>2. /\ files' = [files EXCEPT ![FileAt(saver[s])] = NewFile(Offers[s])]
        /\ Goes(s, StageAfter(saver[s]))
    BY <1>2, <2>1 DEF Create, FileAt
  <2>3. ~Whole(files["image"]) /\ ~Whole(files'["image"])
    BY <2>1, <2>2, <1>types, NoFileFacts DEF FileAt, Names
  <2>4. UNCHANGED Held
    BY <2>3, <1>whole DEF Held
  <2>5. UNCHANGED Saves
    <3>1. StageAfter(saver[s]) \in {"write_manifest", "write_image"}
      BY <2>1 DEF StageAfter
    <3>. QED BY <2>1, <2>2, <3>1, <1>types, NextStage
  <2>. QED BY <2>1, <2>4, <2>5, <1>loads, <1>stutter
<1>3. ASSUME NEW s \in Savers, Write(s) PROVE Register!Next \/ UNCHANGED Register!vars
  <2>1. UNCHANGED <<Saves, Loads>>
    BY <1>3, <1>saves, <1>loads DEF Write
  <2>2. CASE saver[s] = "write_manifest"
    <3>1. files'["image"] = files["image"]
      BY <1>3, <2>2, <1>types DEF Write, FileAt, Names
    <3>. QED BY <2>1, <3>1, <1>held, <1>stutter
  <2>3. CASE saver[s] = "write_image"
    <3>1. /\ files["image"] # NoFile /\ files["image"].of = Offers[s] /\ ~Whole(files["image"])
          /\ files'["image"] = Longer(files["image"])
      BY <1>3, <2>3, <1>types DEF Write, FileAt, Names, Kept, OneInside, Inside, WrittenBy
    <3>2. files'["image"].of = Offers[s]
      BY <3>1, <1>types, GrowingFile
    <3>3. CASE Whole(files'["image"])
      <4>1. Held = NoValue /\ Held' = Offers[s]
        BY <3>1, <3>2, <3>3, <1>whole DEF Held
      <4>2. Saves[s] = "pending"
        BY <2>3, SavesAre DEF Stopped
      <4>3. Register!TakeEffect(s)
        BY <2>1, <4>1, <4>2
        DEF Register!TakeEffect, Register!Empty, Held, Saves, Loads, NoValue
      <4>. QED BY <4>3 DEF Register!Next
    <3>4. CASE ~Whole(files'["image"])
      BY <2>1, <3>1, <3>4, <1>whole, <1>stutter DEF Held
    <3>. QED BY <3>3, <3>4
  <2>. QED BY <1>3, <2>2, <2>3 DEF Write
<1>4. ASSUME NEW s \in Savers, Sync(s) PROVE Register!Next \/ UNCHANGED Register!vars
  <2>1. UNCHANGED Loads
    BY <1>4, <1>loads DEF Sync
  <2>2. CASE saver[s] = "write_manifest"
    <3>1. files'["image"] = files["image"]
      BY <1>4, <2>2, <1>types DEF Sync, FileAt, Names
    <3>2. UNCHANGED Saves
      <4>1. Goes(s, "create_image")
        BY <1>4, <2>2 DEF Sync, StageAfter
      <4>. QED BY <2>2, <4>1, <1>types, NextStage
    <3>. QED BY <2>1, <3>1, <3>2, <1>held, <1>stutter
  <2>3. CASE saver[s] = "write_image"
    <3>1. /\ files["image"] # NoFile /\ files["image"].of = Offers[s] /\ Whole(files["image"])
          /\ files'["image"] = Synced(files["image"])
      BY <1>4, <2>3, <1>types DEF Sync, FileAt, Names, Kept, OneInside, Inside, WrittenBy
    <3>2. files'["image"].of = Offers[s] /\ Whole(files'["image"])
      BY <3>1, <1>types, GrowingFile DEF Whole
    <3>3. Held = Offers[s] /\ UNCHANGED Held
      BY <3>1, <3>2, <1>whole DEF Held
    <3>4. Saves[s] = "pending" /\ Saves' = [Saves EXCEPT ![s] = "saved"]
      BY <1>4, <2>3, <1>types, SavesAre, OneSave DEF Sync, Goes, StageAfter, Stopped
    <3>5. Register!Save(s)
      BY <2>1, <3>3, <3>4 DEF Register!Save, Held, Saves, Loads
    <3>. QED BY <3>5 DEF Register!Next
  <2>. QED BY <1>4, <2>2, <2>3 DEF Sync
<1>5. ASSUME NEW s \in Savers, Stop(s) PROVE Register!Next
  BY <1>5, <1>fail DEF Stop, Stopped, disk, Register!Next
<1>cut. ASSUME NEW l \in Loaders, NEW new \in LoaderRecords, UNCHANGED <<files, saver>>,
               loader[l].at \in {"start", "read_manifest", "read_image"},
               loader' = [loader EXCEPT ![l] = new], new.at \in {"failed", "cut"}
        PROVE  Register!Next
  <2>1. UNCHANGED <<Held, Saves>>
    BY <1>cut, <1>held, <1>saves
  <2>2. Loads[l] = [call |-> "pending"] /\ Loads' = [Loads EXCEPT ![l] = [call |-> "failed"]]
    BY <1>cut, <1>types, LoadsAre, OneLoad
  <2>3. Register!NotLoad(l)
    BY <2>1, <2>2 DEF Register!NotLoad, Register!Pending, Register!Failed, Held, Saves, Loads
  <2>. QED BY <2>3 DEF Register!Next
<1>on. ASSUME NEW l \in Loaders, NEW new \in LoaderRecords, UNCHANGED <<files, saver>>,
              loader[l].at \in {"start", "read_manifest"},
              loader' = [loader EXCEPT ![l] = new],
              new.at \in {"read_manifest", "read_image"}
       PROVE  UNCHANGED Register!vars
  <2>1. UNCHANGED <<Held, Saves>>
    BY <1>on, <1>held, <1>saves
  <2>2. UNCHANGED Loads
    BY <1>on, <1>types, OneLoad
  <2>. QED BY <2>1, <2>2, <1>stutter
<1>fails. ASSUME NEW l \in Loaders, Fails(l),
                 loader[l].at \in {"start", "read_manifest", "read_image"}
          PROVE  Register!Next
  <2> DEFINE new == [loader[l] EXCEPT !.at = "failed"]
  <2>1. loader' = [loader EXCEPT ![l] = new] /\ UNCHANGED <<files, saver>>
    BY <1>fails DEF Fails, Becomes, disk
  <2>2. new \in LoaderRecords /\ new.at = "failed"
    BY <1>types DEF LoaderRecords
  <2> HIDE DEF new
  <2>. QED BY <1>fails, <2>1, <2>2, <1>cut
<1>6. ASSUME NEW l \in Loaders, ListEntries(l) PROVE Register!Next \/ UNCHANGED Register!vars
  <2> DEFINE saved == \E s \in Savers : saver[s] = "saved"
             stage == IF directory /\ ~stranger /\ \A n \in Names : files[n] # NoFile
                        THEN "read_manifest" ELSE "failed"
             new == [loader[l] EXCEPT !.saved = saved, !.at = stage]
  <2>1. loader[l].at = "start" /\ loader' = [loader EXCEPT ![l] = new] /\ UNCHANGED <<files, saver>>
    BY <1>6 DEF ListEntries, Becomes, disk
  <2>2. stage \in {"read_manifest", "failed"} /\ saved \in BOOLEAN
    OBVIOUS
  <2> HIDE DEF saved, stage
  <2>3. new \in LoaderRecords /\ new.at = stage
    BY <1>types, <2>2 DEF LoaderRecords
  <2> HIDE DEF new
  <2>4. CASE stage = "failed"
    BY <2>1, <2>3, <2>4, <1>cut
  <2>5. CASE stage = "read_manifest"
    BY <2>1, <2>3, <2>5, <1>on
  <2>. QED BY <2>2, <2>4, <2>5
<1>7. ASSUME NEW l \in Loaders, ReadManifest(l) PROVE Register!Next \/ UNCHANGED Register!vars
  <2>1. loader[l].at = "read_manifest"
    BY <1>7 DEF ReadManifest
  <2>2. CASE Whole(files["manifest"]) /\ files["manifest"].of \notin Invalid
    <3> DEFINE manifest == files["manifest"].of
               new == [loader[l] EXCEPT !.at = "read_image", !.manifest = manifest]
    <3>1. loader' = [loader EXCEPT ![l] = new] /\ UNCHANGED <<files, saver>>
      BY <1>7, <2>2 DEF ReadManifest, Becomes, disk
    <3>2. manifest \in Values
      BY <2>2, <1>types, NoFileFacts DEF StoredFiles, Names
    <3> HIDE DEF manifest
    <3>3. new \in LoaderRecords /\ new.at = "read_image"
      BY <1>types, <3>2 DEF LoaderRecords
    <3> HIDE DEF new
    <3>. QED BY <2>1, <3>1, <3>3, <1>on
  <2>3. CASE Fails(l)
    BY <2>1, <2>3, <1>fails
  <2>. QED BY <1>7, <2>2, <2>3 DEF ReadManifest
<1>8. ASSUME NEW l \in Loaders, ReadImage(l) PROVE Register!Next
  <2>1. loader[l].at = "read_image"
    BY <1>8 DEF ReadImage
  <2>2. CASE Whole(files["image"]) /\ Sizes[files["image"].of] = Sizes[loader[l].manifest]
    <3> DEFINE image == files["image"].of
               new == [loader[l] EXCEPT !.at = "loaded", !.image = image]
    <3>1. loader' = [loader EXCEPT ![l] = new] /\ UNCHANGED <<files, saver>>
      BY <1>8, <2>2 DEF ReadImage, Becomes, disk
    <3>2. image \in Values
      BY <2>2, <1>types, NoFileFacts DEF StoredFiles
    <3>3. Held = image /\ Held # NoValue
      BY <2>2, <3>2, <1>whole, ValuesAssumption DEF Held
    <3> HIDE DEF image
    <3>4. new \in LoaderRecords /\ new.at = "loaded" /\ new.image = image
      BY <1>types, <3>2 DEF LoaderRecords
    <3> HIDE DEF new
    <3>5. Loads[l] = [call |-> "pending"] /\ Loads' = [Loads EXCEPT ![l] = image]
      <4>1. Loads' = [Loads EXCEPT ![l] = new.image]
        BY <3>1, <3>4, <1>types, OneLoad, Zenon
      <4>. QED BY <2>1, <3>4, <4>1, LoadsAre
    <3>6. UNCHANGED <<Held, Saves>>
      BY <3>1, <1>held, <1>saves
    <3>7. Register!Load(l)
      BY <3>3, <3>5, <3>6
      DEF Register!Load, Register!Empty, Register!Pending, Held, Saves, Loads, NoValue
    <3>. QED BY <3>7 DEF Register!Next
  <2>3. CASE Fails(l)
    BY <2>1, <2>3, <1>fails
  <2>. QED BY <1>8, <2>2, <2>3 DEF ReadImage
<1>9. ASSUME NEW l \in Loaders, StopLoading(l) PROVE Register!Next
  <2> DEFINE new == [loader[l] EXCEPT !.at = "cut"]
  <2>1. loader' = [loader EXCEPT ![l] = new] /\ UNCHANGED <<files, saver>>
    BY <1>9 DEF StopLoading, Becomes, disk
  <2>2. loader[l].at \in {"start", "read_manifest", "read_image"}
    BY <1>9, <1>types DEF StopLoading, LoaderRecords
  <2>3. new \in LoaderRecords /\ new.at = "cut"
    BY <1>types DEF LoaderRecords
  <2> HIDE DEF new
  <2>. QED BY <2>1, <2>2, <2>3, <1>cut
<1>10. ASSUME Intrude PROVE UNCHANGED Register!vars
  BY <1>10, <1>held, <1>saves, <1>loads, <1>stutter DEF Intrude
<1>11. ASSUME PowerLoss PROVE Register!Next
  <2>1. /\ saver' = [s \in Savers |->
             IF saver[s] \in Stopped \cup {"start", "saved"} THEN saver[s] ELSE "dead"]
        /\ loader' = [l \in Loaders |->
             IF loader[l].at \in {"read_manifest", "read_image"}
               THEN [loader[l] EXCEPT !.at = "cut"] ELSE loader[l]]
    BY <1>11 DEF PowerLoss
  <2>2. files'["image"] \in Remains(files["image"])
    <3>1. PICK manifest \in Remains(files["manifest"]), image \in Remains(files["image"]) :
            files' = [n \in Names |-> IF n = "manifest" THEN manifest ELSE image]
      BY <1>11 DEF PowerLoss
    <3>. QED BY <3>1 DEF Names
  <2>3. UNCHANGED Held \/ (Held' = NoValue /\ \A s \in Savers : Saves[s] # "saved")
    <3>1. CASE \E s \in Savers : saver[s] = "saved"
      <4>1. files["image"] # NoFile /\ files["image"].synced
        BY <3>1, SavedIsThere
      <4>2. files'["image"] = files["image"]
        BY <4>1, <2>2, <1>types, RemainsOf
      <4>. QED BY <4>2, <1>held
    <3>2. CASE \A s \in Savers : saver[s] # "saved"
      <4>1. \A s \in Savers : Saves[s] # "saved"
        BY <3>2 DEF Saves
      <4>2. CASE Whole(files'["image"])
        <5>1. files'["image"] # NoFile
          BY <4>2, NoFileFacts
        <5>2. /\ files["image"] # NoFile /\ files'["image"].of = files["image"].of
              /\ files'["image"].length <= files["image"].length
          BY <5>1, <2>2, <1>types, RemainsOf
        <5>3. files["image"].length \in 0..Full
          BY <5>2, <1>types DEF StoredFiles
        <5>4. Whole(files["image"])
          BY <4>2, <5>2, <5>3, FullAssumption DEF Whole
        <5>. QED BY <4>2, <5>2, <5>4, <1>whole DEF Held
      <4>3. CASE ~Whole(files'["image"])
        BY <4>1, <4>3, <1>whole DEF Held
      <4>. QED BY <4>2, <4>3
    <3>. QED BY <3>1, <3>2
  <2>4. \A s \in Savers : Saves'[s] # Saves[s] => Saves[s] = "pending" /\ Saves'[s] = "failed"
    BY <2>1, <1>types DEF Saves, Stopped
  <2>5. \A l \in Loaders : Loads'[l] # Loads[l] =>
          Loads[l] = [call |-> "pending"] /\ Loads'[l] = [call |-> "failed"]
    <3> DEFINE Reading(l) == loader[l].at \in {"read_manifest", "read_image"}
    <3>1. \A l \in Loaders :
            loader'[l] = IF Reading(l) THEN [loader[l] EXCEPT !.at = "cut"] ELSE loader[l]
      BY <2>1
    <3>2. \A l \in Loaders : Reading(l) => loader'[l].at = "cut"
      BY <3>1, <1>types DEF LoaderRecords
    <3>3. \A l \in Loaders : Reading(l) =>
            Loads[l] = [call |-> "pending"] /\ Loads'[l] = [call |-> "failed"]
      BY <3>2 DEF Loads
    <3>4. \A l \in Loaders : ~Reading(l) => Loads'[l] = Loads[l]
      BY <3>1 DEF Loads
    <3>. QED BY <3>3, <3>4
  <2>6. Register!PowerLoss
    BY <2>3, <2>4, <2>5
    DEF Register!PowerLoss, Register!Empty, Register!Pending, Register!Failed,
        Held, Saves, Loads, NoValue
  <2>. QED BY <2>6 DEF Register!Next
<1>12. CASE UNCHANGED vars
  BY <1>12, <1>held, <1>saves, <1>loads, <1>stutter DEF vars, disk
<1>. QED BY <1>1, <1>2, <1>3, <1>4, <1>5, <1>6, <1>7, <1>8, <1>9, <1>10, <1>11, <1>12 DEF Next

\* The path is a write-once register: one save at most takes effect, all at
\* once, and a load yields what it saved or fails.
THEOREM BundleIsWriteOnce == Spec => WritesOnce
<1>1. Spec => Register!Init /\ [][Register!Next]_(Register!vars)
  BY RegisterInit, RegisterNext, KeptHolds, PTL DEF Spec
<1>. QED BY <1>1 DEF WritesOnce, Register!Spec
=============================================================================
