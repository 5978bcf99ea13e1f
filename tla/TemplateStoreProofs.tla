------------------------- MODULE TemplateStoreProofs -------------------------
(***************************************************************************)
(* TemplateStore keeps its promises for any savers, loaders, templates and *)
(* number of power losses.                                                 *)
(***************************************************************************)
EXTENDS TemplateStore, TLAPS
-----------------------------------------------------------------------------
(* What happens to files *)

\* A power loss leaves a synced file as it was, and of any other a file of the
\* same template or none.
LEMMA RemainsOf ==
  ASSUME NEW f \in StoredFiles, NEW g \in Remains(f)
  PROVE  /\ g \in StoredFiles
         /\ f # NoFile /\ f.synced => g = f
         /\ g # NoFile => f # NoFile /\ g.of = f.of /\ g.synced = f.synced
         /\ g # NoFile => g.length <= f.length
<1>1. CASE f = NoFile \/ f.synced
  BY <1>1, FullAssumption DEF Remains, StoredFiles, NoFile
<1>2. CASE ~(f = NoFile \/ f.synced)
  <2>1. f \in [of : Values, length : 0..Full, synced : BOOLEAN]
    BY <1>2 DEF StoredFiles
  <2>2. g = NoFile \/ \E n \in 0..f.length : g = [f EXCEPT !.length = n]
    BY <1>2 DEF Remains
  <2>3. CASE g = NoFile
    BY <2>3, <1>2 DEF StoredFiles
  <2>4. ASSUME NEW n \in 0..f.length, g = [f EXCEPT !.length = n]
        PROVE  /\ g \in [of : Values, length : 0..Full, synced : BOOLEAN]
               /\ g.of = f.of /\ g.synced = f.synced /\ g.length <= f.length
    BY <2>1, <2>4, FullAssumption
  <2>. QED BY <1>2, <2>2, <2>3, <2>4 DEF StoredFiles
<1>. QED BY <1>1, <1>2

\* There is nothing of a file that is not there.
LEMMA NoFileFacts == ~Whole(NoFile) /\ \A v : NewFile(v) # NoFile /\ ~Whole(NewFile(v))
  <1>1. ~Whole(NoFile)
    BY FullAssumption DEF Whole, NoFile
  <1>2. ASSUME NEW v PROVE NewFile(v).length = 0
    BY DEF NewFile
  <1>3. NoFile.length = -1
    BY DEF NoFile
  <1>. QED BY <1>1, <1>2, <1>3, FullAssumption DEF Whole
-----------------------------------------------------------------------------

\* The size limits of save_template and load_template agree, and so do their
\* validations.
LEMMA SameLimits == \A t : MaySave(t) <=> MayLoad(t)
  BY DEF MaySave, MayLoad
-----------------------------------------------------------------------------

\* A path on which nothing was saved.
LEMMA StoredInit == Init => Stored
<1>. SUFFICES ASSUME Init PROVE Stored
  OBVIOUS
<1>1. file = NoFile /\ NoFile \in StoredFiles
  BY DEF Init, StoredFiles
<1>2. \A s \in Savers : saver[s] = "start"
  BY DEF Init
<1>3. \A l \in Loaders : loader[l] = [at |-> "start", template |-> NoValue, saved |-> FALSE]
  BY DEF Init
<1>4. losses \in 0..MaxLosses
  BY LossesAssumption DEF Init
<1>5. TypeOK
  BY <1>1, <1>4 DEF Init, TypeOK
<1>6. OneWriter
  BY <1>2 DEF OneWriter
<1>7. OpenedAfterSave /\ SavedLoads
  BY <1>3 DEF OpenedAfterSave, SavedLoads
<1>. QED BY <1>5, <1>6, <1>7 DEF Stored

\* A step of a saver that stops or is refused frees no path and takes none.
LEMMA StopKeeps ==
  ASSUME Stored, NEW s \in Savers, NEW how \in Stopped,
         saver[s] \in {"start", "write"}, Goes(s, how), UNCHANGED <<file, loader, losses>>
  PROVE  Stored'
<1>1. saver' = [saver EXCEPT ![s] = how] /\ file' = file /\ loader' = loader /\ losses' = losses
  BY DEF Goes
<1>2. saver \in [Savers -> {"start", "write", "saved"} \cup Stopped]
  BY DEF Stored, TypeOK
<1>3. \A r \in Savers : saver'[r] = IF r = s THEN how ELSE saver[r]
  BY <1>1, <1>2
<1>4. TypeOK'
  BY <1>1, <1>2 DEF Stored, TypeOK
<1>5. how \notin {"write", "saved"}
  BY DEF Stopped
<1>6. OneWriter'
  BY <1>1, <1>3, <1>5 DEF Stored, OneWriter, MaySave
<1>7. OpenedAfterSave' /\ SavedLoads'
  BY <1>1, <1>3 DEF Stored, OpenedAfterSave, SavedLoads
<1>. QED BY <1>4, <1>6, <1>7 DEF Stored

\* Every step of savers, loaders and the power keeps the invariant.
LEMMA StoredNext == Stored /\ [Next]_vars => Stored'
<1>. SUFFICES ASSUME Stored, [Next]_vars PROVE Stored'
  OBVIOUS
<1>types. /\ file \in StoredFiles
          /\ saver \in [Savers -> {"start", "write", "saved"} \cup Stopped]
          /\ loader \in [Loaders -> [at : {"start", "read", "loaded", "failed", "cut"},
                                     template : Values \cup {NoValue}, saved : BOOLEAN]]
          /\ losses \in 0..MaxLosses
  BY DEF Stored, TypeOK
<1>1. ASSUME NEW s \in Savers, Refuse(s) PROVE Stored'
  BY <1>1, StopKeeps DEF Refuse, Stopped
<1>2. ASSUME NEW s \in Savers, Create(s) PROVE Stored'
  <2>1. CASE file # NoFile
    BY <1>2, <2>1, StopKeeps DEF Create, Stopped
  <2>2. CASE file = NoFile
    <3>1. /\ saver[s] = "start" /\ MaySave(Offers[s])
          /\ file' = NewFile(Offers[s])
          /\ saver' = [saver EXCEPT ![s] = "write"]
          /\ loader' = loader /\ losses' = losses
      BY <1>2, <2>2 DEF Create, Goes
    <3>2. \A r \in Savers : saver'[r] = IF r = s THEN "write" ELSE saver[r]
      BY <3>1, <1>types
    <3>3. \A r \in Savers : saver[r] \notin {"write", "saved"}
      BY <2>2 DEF Stored, OneWriter
    <3>4. file' = [of |-> Offers[s], length |-> 0, synced |-> FALSE] /\ file' # NoFile
      BY <3>1, NoFileFacts DEF NewFile
    <3>5. TypeOK'
      <4>1. Offers[s] \in Values
        BY OffersAssumption
      <4>2. file' \in StoredFiles
        BY <3>4, <4>1, FullAssumption DEF StoredFiles
      <4>. QED BY <4>2, <3>1, <1>types DEF TypeOK
    <3>6. OneWriter'
      BY <3>1, <3>2, <3>3, <3>4 DEF OneWriter, MaySave
    <3>7. OpenedAfterSave' /\ SavedLoads'
      BY <3>1, <3>2, <3>3 DEF Stored, OpenedAfterSave, SavedLoads
    <3>. QED BY <3>5, <3>6, <3>7 DEF Stored
  <2>. QED BY <2>1, <2>2
<1>3. ASSUME NEW s \in Savers, Write(s) PROVE Stored'
  <2>1. /\ saver[s] = "write" /\ ~Whole(file) /\ file' = Longer(file)
        /\ saver' = saver /\ loader' = loader /\ losses' = losses
    BY <1>3 DEF Write
  <2>2. file # NoFile /\ file.of = Offers[s] /\ ~file.synced
    BY <2>1 DEF Stored, OneWriter
  <2>3. file \in [of : Values, length : 0..Full, synced : BOOLEAN] /\ file.length # Full
    BY <1>types, <2>1, <2>2 DEF StoredFiles, Whole
  <2>4. file' = [of |-> file.of, length |-> file.length + 1, synced |-> file.synced]
    BY <2>1, <2>3 DEF Longer
  <2>5. file' \in [of : Values, length : 0..Full, synced : BOOLEAN]
    BY <2>3, <2>4, FullAssumption
  <2>6. file' # NoFile
    <3>1. file'.length \in Nat
      BY <2>5
    <3>2. NoFile.length = -1
      BY DEF NoFile
    <3>. QED BY <3>1, <3>2
  <2>7. TypeOK'
    BY <2>1, <2>5, <1>types DEF TypeOK, StoredFiles
  <2>8. \A r \in Savers : saver[r] # "saved"
    BY <2>1, <2>2 DEF Stored, OneWriter
  <2>9. OneWriter'
    BY <2>1, <2>2, <2>4, <2>6, <2>8 DEF Stored, OneWriter, MaySave
  <2>10. OpenedAfterSave' /\ SavedLoads'
    BY <2>1 DEF Stored, OpenedAfterSave, SavedLoads
  <2>. QED BY <2>7, <2>9, <2>10 DEF Stored
<1>4. ASSUME NEW s \in Savers, Sync(s) PROVE Stored'
  <2>1. /\ saver[s] = "write" /\ Whole(file) /\ file' = Synced(file)
        /\ saver' = [saver EXCEPT ![s] = "saved"] /\ loader' = loader /\ losses' = losses
    BY <1>4 DEF Sync, Goes
  <2>2. file # NoFile /\ file.of = Offers[s] /\ MaySave(Offers[s])
    BY <2>1 DEF Stored, OneWriter
  <2>3. file \in [of : Values, length : 0..Full, synced : BOOLEAN]
    BY <1>types, <2>2 DEF StoredFiles
  <2>4. file' = [of |-> file.of, length |-> file.length, synced |-> TRUE]
    BY <2>1, <2>3 DEF Synced
  <2>5. file' \in [of : Values, length : 0..Full, synced : BOOLEAN] /\ Whole(file')
    BY <2>1, <2>3, <2>4 DEF Whole
  <2>6. \A r \in Savers : saver'[r] = IF r = s THEN "saved" ELSE saver[r]
    BY <2>1, <1>types
  <2>7. file' # NoFile
    BY <2>5, NoFileFacts
  <2>8. TypeOK'
    BY <2>1, <2>5, <1>types DEF TypeOK, StoredFiles
  <2>9. OneWriter'
    BY <2>1, <2>2, <2>4, <2>5, <2>6, <2>7 DEF Stored, OneWriter, MaySave
  <2>10. OpenedAfterSave' /\ SavedLoads'
    BY <2>1, <2>6 DEF Stored, OpenedAfterSave, SavedLoads
  <2>. QED BY <2>8, <2>9, <2>10 DEF Stored
<1>5. ASSUME NEW s \in Savers, Stop(s) PROVE Stored'
  BY <1>5, StopKeeps DEF Stop, Stopped
<1>6. ASSUME NEW l \in Loaders, Open(l) PROVE Stored'
  <2>1. /\ loader[l].at = "start"
        /\ loader' = [loader EXCEPT ![l].saved = \E s \in Savers : saver[s] = "saved",
                                    ![l].at = IF file = NoFile THEN "failed" ELSE "read"]
        /\ file' = file /\ saver' = saver /\ losses' = losses
    BY <1>6 DEF Open
  <2>2. loader' = [loader EXCEPT ![l] =
          [at |-> IF file = NoFile THEN "failed" ELSE "read",
           template |-> loader[l].template,
           saved |-> \E s \in Savers : saver[s] = "saved"]]
    BY <2>1, <1>types
  <2>3. TypeOK'
    BY <2>1, <2>2, <1>types DEF TypeOK
  <2>4. OneWriter'
    BY <2>1 DEF Stored, OneWriter, MaySave
  <2>5. \A k \in Loaders : k # l => loader'[k] = loader[k]
    BY <2>2, <1>types
  <2>6. /\ loader'[l].saved = \E s \in Savers : saver[s] = "saved"
        /\ loader'[l].at = IF file = NoFile THEN "failed" ELSE "read"
    BY <2>2, <1>types
  <2>7. OpenedAfterSave'
    BY <2>1, <2>5, <2>6 DEF Stored, OpenedAfterSave
  <2>8. SavedLoads'
    <3>1. (\E s \in Savers : saver[s] = "saved") => file # NoFile
      BY DEF Stored, OneWriter
    <3>. QED BY <2>5, <2>6, <3>1 DEF Stored, SavedLoads
  <2>. QED BY <2>3, <2>4, <2>7, <2>8 DEF Stored
<1>7. ASSUME NEW l \in Loaders, Read(l) PROVE Stored'
  <2>1. /\ loader[l].at = "read"
        /\ file' = file /\ saver' = saver /\ losses' = losses
    BY <1>7 DEF Read
  <2>2. CASE Whole(file) /\ MayLoad(file.of)
    <3>1. loader' = [loader EXCEPT ![l] = [at |-> "loaded", template |-> file.of,
                                           saved |-> loader[l].saved]]
      <4>1. loader' = [loader EXCEPT ![l] =
                         [loader[l] EXCEPT !.at = "loaded", !.template = file.of]]
        BY <1>7, <2>2 DEF Read
      <4>2. [loader[l] EXCEPT !.at = "loaded", !.template = file.of]
              = [at |-> "loaded", template |-> file.of, saved |-> loader[l].saved]
        <5>. DEFINE read == loader[l]
        <5>1. read = [at |-> read.at, template |-> read.template, saved |-> read.saved]
          BY <1>types
        <5>. HIDE DEF read
        <5>2. [read EXCEPT !.at = "loaded"]
                = [at |-> "loaded", template |-> read.template, saved |-> read.saved]
          BY <5>1
        <5>. DEFINE opened == [at |-> "loaded", template |-> read.template, saved |-> read.saved]
        <5>3. [opened EXCEPT !.template = file.of]
                = [at |-> "loaded", template |-> file.of, saved |-> read.saved]
          OBVIOUS
        <5>. QED BY <5>2, <5>3, Zenon DEF read
      <4>. QED BY <4>1, <4>2
    <3>2. file.of \in Values
      BY <1>types, <2>2, NoFileFacts DEF StoredFiles
    <3>3. TypeOK'
      BY <2>1, <3>1, <3>2, <1>types DEF TypeOK
    <3>4. OneWriter'
      BY <2>1 DEF Stored, OneWriter, MaySave
    <3>5. \A k \in Loaders :
            /\ loader'[k].saved = loader[k].saved
            /\ loader'[k].at = IF k = l THEN "loaded" ELSE loader[k].at
      BY <3>1, <1>types
    <3>6. OpenedAfterSave' /\ SavedLoads'
      BY <2>1, <3>5 DEF Stored, OpenedAfterSave, SavedLoads
    <3>. QED BY <3>3, <3>4, <3>6 DEF Stored
  <2>3. CASE ~(Whole(file) /\ MayLoad(file.of))
    <3>1. loader' = [loader EXCEPT ![l] = [at |-> "failed", template |-> loader[l].template,
                                           saved |-> loader[l].saved]]
      <4>1. loader' = [loader EXCEPT ![l] = [loader[l] EXCEPT !.at = "failed"]]
        BY <1>7, <2>3 DEF Read
      <4>2. [loader[l] EXCEPT !.at = "failed"]
              = [at |-> "failed", template |-> loader[l].template, saved |-> loader[l].saved]
        BY <1>types
      <4>. QED BY <4>1, <4>2
    <3>2. ~loader[l].saved
      BY <2>3, SameLimits DEF Stored, OneWriter, OpenedAfterSave
    <3>3. TypeOK'
      BY <2>1, <3>1, <1>types DEF TypeOK
    <3>4. OneWriter'
      BY <2>1 DEF Stored, OneWriter, MaySave
    <3>5. \A k \in Loaders :
            /\ loader'[k].saved = loader[k].saved
            /\ k # l => loader'[k].at = loader[k].at
      BY <3>1, <1>types
    <3>6. OpenedAfterSave' /\ SavedLoads'
      BY <2>1, <3>2, <3>5 DEF Stored, OpenedAfterSave, SavedLoads
    <3>. QED BY <3>3, <3>4, <3>6 DEF Stored
  <2>. QED BY <2>2, <2>3
<1>8. ASSUME NEW l \in Loaders, StopLoading(l) PROVE Stored'
  <2>1. /\ loader' = [loader EXCEPT ![l].at = "cut"]
        /\ file' = file /\ saver' = saver /\ losses' = losses
    BY <1>8 DEF StopLoading
  <2>2. \A k \in Loaders :
          /\ loader'[k].saved = loader[k].saved
          /\ loader'[k].at = IF k = l THEN "cut" ELSE loader[k].at
    BY <2>1, <1>types
  <2>3. TypeOK'
    BY <2>1, <1>types DEF TypeOK
  <2>4. OneWriter'
    BY <2>1 DEF Stored, OneWriter, MaySave
  <2>5. OpenedAfterSave' /\ SavedLoads'
    BY <2>1, <2>2 DEF Stored, OpenedAfterSave, SavedLoads
  <2>. QED BY <2>3, <2>4, <2>5 DEF Stored
<1>9. ASSUME PowerLoss PROVE Stored'
  <2>1. /\ losses < MaxLosses /\ losses' = losses + 1
        /\ saver' = [s \in Savers |-> IF saver[s] = "write" THEN "dead" ELSE saver[s]]
        /\ loader' = [l \in Loaders |->
             IF loader[l].at = "read" THEN [loader[l] EXCEPT !.at = "cut"] ELSE loader[l]]
        /\ file' \in Remains(file)
    BY <1>9 DEF PowerLoss
  <2>2. /\ file' \in StoredFiles
        /\ file # NoFile /\ file.synced => file' = file
    BY <2>1, <1>types, RemainsOf
  <2>3. TypeOK'
    <3>1. saver' \in [Savers -> {"start", "write", "saved"} \cup Stopped]
      BY <2>1, <1>types DEF Stopped
    <3>2. loader' \in [Loaders -> [at : {"start", "read", "loaded", "failed", "cut"},
                                   template : Values \cup {NoValue}, saved : BOOLEAN]]
      BY <2>1, <1>types
    <3>3. losses' \in 0..MaxLosses
      BY <2>1, <1>types, LossesAssumption
    <3>. QED BY <2>2, <3>1, <3>2, <3>3 DEF TypeOK
  <2>4. \A s \in Savers : saver'[s] # "write" /\ (saver'[s] = "saved" <=> saver[s] = "saved")
    BY <2>1
  <2>5. OneWriter'
    BY <2>2, <2>4 DEF Stored, OneWriter, MaySave
  <2>6. \A l \in Loaders :
          /\ loader'[l].saved = loader[l].saved
          /\ loader'[l].at = "failed" => loader[l].at = "failed"
    BY <2>1, <1>types
  <2>7. OpenedAfterSave' /\ SavedLoads'
    BY <2>4, <2>6 DEF Stored, OpenedAfterSave, SavedLoads
  <2>. QED BY <2>3, <2>5, <2>7 DEF Stored
<1>10. CASE UNCHANGED vars
  BY <1>10 DEF vars, Stored, TypeOK, OneWriter, MaySave, OpenedAfterSave, SavedLoads
<1>. QED BY <1>1, <1>2, <1>3, <1>4, <1>5, <1>6, <1>7, <1>8, <1>9, <1>10 DEF Next
-----------------------------------------------------------------------------
\* The inductive invariant: the file is that of the one saver that writes or
\* has saved, and what a load that began after a save will find is there.
THEOREM StoredHolds == Spec => []Stored
  BY StoredInit, StoredNext, PTL DEF Spec

\* No save, failure or power loss takes away or changes a template whose
\* save_template returned.
THEOREM TemplatesStay == Spec => []SavedStays
<1>1. Stored => SavedStays
  BY DEF Stored, OneWriter, SavedStays
<1>. QED BY <1>1, StoredHolds, PTL

\* What save_template accepted, load_template never refuses.
THEOREM TemplatesLoad == Spec => []SavedLoads
<1>1. Stored => SavedLoads
  BY DEF Stored
<1>. QED BY <1>1, StoredHolds, PTL
-----------------------------------------------------------------------------
(* The path as a write-once register *)

Held == IF Whole(file) THEN file.of ELSE NoValue

Saves == [s \in Savers |->
  CASE saver[s] = "saved" -> "saved"
    [] saver[s] \in Stopped -> "failed"
    [] OTHER -> "pending"]

Loads == [l \in Loaders |->
  CASE loader[l].at = "loaded" -> loader[l].template
    [] loader[l].at \in {"failed", "cut"} -> [call |-> "failed"]
    [] OTHER -> [call |-> "pending"]]

\* How far a call has come, for the register.
LEMMA SavesAre ==
  \A s \in Savers :
    /\ saver[s] = "saved" => Saves[s] = "saved"
    /\ saver[s] \in Stopped => Saves[s] = "failed"
    /\ saver[s] \in {"start", "write"} => Saves[s] = "pending"
  BY DEF Saves, Stopped

\* What is seen of a load.
LEMMA LoadsAre ==
  \A l \in Loaders :
    /\ loader[l].at = "loaded" => Loads[l] = loader[l].template
    /\ loader[l].at \in {"failed", "cut"} => Loads[l] = [call |-> "failed"]
    /\ loader[l].at \in {"start", "read"} => Loads[l] = [call |-> "pending"]
  BY DEF Loads

\* A step of one call is a step of that call for the register.
LEMMA OneSave ==
  ASSUME NEW s \in Savers, NEW stage, saver \in [Savers -> {"start", "write", "saved"} \cup Stopped],
         saver' = [saver EXCEPT ![s] = stage]
  PROVE  /\ stage = "saved" => Saves' = [Saves EXCEPT ![s] = "saved"]
         /\ stage \in Stopped => Saves' = [Saves EXCEPT ![s] = "failed"]
         /\ saver[s] = "start" /\ stage = "write" => Saves' = Saves
  BY DEF Saves, Stopped

\* A step of one load is seen of that loader only, and only when it ends.
LEMMA OneLoad ==
  ASSUME NEW l \in Loaders, NEW new,
         loader \in [Loaders -> [at : {"start", "read", "loaded", "failed", "cut"},
                                 template : Values \cup {NoValue}, saved : BOOLEAN]],
         loader' = [loader EXCEPT ![l] = new]
  PROVE  /\ new.at = "loaded" => Loads' = [Loads EXCEPT ![l] = new.template]
         /\ new.at \in {"failed", "cut"} => Loads' = [Loads EXCEPT ![l] = [call |-> "failed"]]
         /\ loader[l].at = "start" /\ new.at = "read" => Loads' = Loads
  BY DEF Loads

\* Before anything is saved the register is empty.
LEMMA RegisterInit == Init => Register!Init
<1>. SUFFICES ASSUME Init PROVE Register!Init
  OBVIOUS
<1>1. Held = NoValue
  BY NoFileFacts DEF Init, Held
<1>2. Saves = [s \in Savers |-> "pending"]
  BY DEF Init, Saves, Stopped
<1>3. Loads = [l \in Loaders |-> [call |-> "pending"]]
  BY DEF Init, Loads
<1>. QED
  BY <1>1, <1>2, <1>3
  DEF Register!Init, Register!Empty, Register!Pending, Held, Saves, Loads, NoValue

\* Every step is one of the register's, or none.
LEMMA RegisterNext == Stored /\ [Next]_vars => [Register!Next]_(Register!vars)
<1>. SUFFICES ASSUME Stored, [Next]_vars PROVE [Register!Next]_(Register!vars)
  OBVIOUS
<1>types. /\ file \in StoredFiles
          /\ saver \in [Savers -> {"start", "write", "saved"} \cup Stopped]
          /\ loader \in [Loaders -> [at : {"start", "read", "loaded", "failed", "cut"},
                                     template : Values \cup {NoValue}, saved : BOOLEAN]]
  BY DEF Stored, TypeOK
<1>held. UNCHANGED file => UNCHANGED Held
  BY DEF Held
<1>saves. UNCHANGED saver => UNCHANGED Saves
  BY DEF Saves
<1>loads. UNCHANGED loader => UNCHANGED Loads
  BY DEF Loads
<1>stutter. UNCHANGED <<Held, Saves, Loads>> => UNCHANGED Register!vars
  BY DEF Register!vars, Held, Saves, Loads
<1>fail. ASSUME NEW s \in Savers, NEW how \in Stopped, saver[s] \in {"start", "write"},
                Goes(s, how), UNCHANGED <<file, loader>>
         PROVE  Register!NotSave(s)
  <2>1. Saves[s] = "pending" /\ Saves' = [Saves EXCEPT ![s] = "failed"]
    BY <1>fail, <1>types, SavesAre, OneSave DEF Goes
  <2>2. UNCHANGED <<Held, Loads>>
    BY <1>fail, <1>held, <1>loads
  <2>. QED BY <2>1, <2>2 DEF Register!NotSave, Held, Saves, Loads
<1>1. ASSUME NEW s \in Savers, Refuse(s) PROVE Register!Next
  BY <1>1, <1>fail DEF Refuse, Stopped, Register!Next
<1>2. ASSUME NEW s \in Savers, Create(s) PROVE Register!Next \/ UNCHANGED Register!vars
  <2>1. CASE file # NoFile
    BY <1>2, <2>1, <1>fail DEF Create, Stopped, Register!Next
  <2>2. CASE file = NoFile
    <3>1. UNCHANGED Held
      BY <1>2, <2>2, NoFileFacts DEF Create, Held
    <3>2. UNCHANGED Saves
      BY <1>2, <2>2, <1>types, OneSave DEF Create, Goes
    <3>3. UNCHANGED Loads
      BY <1>2, <1>loads DEF Create
    <3>. QED BY <3>1, <3>2, <3>3, <1>stutter
  <2>. QED BY <2>1, <2>2
<1>3. ASSUME NEW s \in Savers, Write(s) PROVE Register!Next \/ UNCHANGED Register!vars
  <2>1. saver[s] = "write" /\ ~Whole(file) /\ file' = Longer(file)
    BY <1>3 DEF Write
  <2>2. UNCHANGED <<Saves, Loads>>
    BY <1>3, <1>saves, <1>loads DEF Write
  <2>3. file # NoFile /\ file.of = Offers[s]
    BY <2>1 DEF Stored, OneWriter
  <2>4. file'.of = file.of
    BY <2>1, <2>3, <1>types DEF Longer, StoredFiles
  <2>5. CASE Whole(file')
    <3>1. Held = NoValue /\ Held' = Offers[s]
      BY <2>1, <2>3, <2>4, <2>5 DEF Held
    <3>2. Saves[s] = "pending"
      BY <2>1, SavesAre
    <3>3. Register!TakeEffect(s)
      BY <2>2, <3>1, <3>2
      DEF Register!TakeEffect, Register!Empty, Held, Saves, Loads, NoValue
    <3>. QED BY <3>3 DEF Register!Next
  <2>6. CASE ~Whole(file')
    BY <2>1, <2>2, <2>6, <1>stutter DEF Held
  <2>. QED BY <2>5, <2>6
<1>4. ASSUME NEW s \in Savers, Sync(s) PROVE Register!Next
  <2>1. saver[s] = "write" /\ Whole(file) /\ file' = Synced(file)
    BY <1>4 DEF Sync
  <2>2. file # NoFile /\ file.of = Offers[s]
    BY <2>1 DEF Stored, OneWriter
  <2>3. file'.of = file.of /\ file'.length = file.length
    BY <2>1, <2>2, <1>types DEF Synced, StoredFiles
  <2>4. Held = Offers[s] /\ UNCHANGED Held
    BY <2>1, <2>2, <2>3 DEF Held, Whole
  <2>5. Saves[s] = "pending" /\ Saves' = [Saves EXCEPT ![s] = "saved"]
    BY <1>4, <2>1, <1>types, SavesAre, OneSave DEF Sync, Goes
  <2>6. UNCHANGED Loads
    BY <1>4, <1>loads DEF Sync
  <2>7. Register!Save(s)
    BY <2>4, <2>5, <2>6 DEF Register!Save, Held, Saves, Loads
  <2>. QED BY <2>7 DEF Register!Next
<1>5. ASSUME NEW s \in Savers, Stop(s) PROVE Register!Next
  BY <1>5, <1>fail DEF Stop, Stopped, Register!Next
<1>cut. ASSUME NEW l \in Loaders, UNCHANGED <<file, saver>>,
               Loads[l] = [call |-> "pending"],
               Loads' = [Loads EXCEPT ![l] = [call |-> "failed"]]
        PROVE  Register!Next
  <2>1. UNCHANGED <<Held, Saves>>
    BY <1>cut, <1>held, <1>saves
  <2>2. Register!NotLoad(l)
    BY <1>cut, <2>1
    DEF Register!NotLoad, Register!Pending, Register!Failed, Held, Saves, Loads
  <2>. QED BY <2>2 DEF Register!Next
<1>6. ASSUME NEW l \in Loaders, Open(l) PROVE Register!Next \/ UNCHANGED Register!vars
  <2>. DEFINE new == [at |-> IF file = NoFile THEN "failed" ELSE "read",
                      template |-> loader[l].template,
                      saved |-> \E s \in Savers : saver[s] = "saved"]
  <2>1. loader[l].at = "start" /\ loader' = [loader EXCEPT ![l] = new]
    BY <1>6, <1>types DEF Open
  <2>2. UNCHANGED <<file, saver>>
    BY <1>6 DEF Open
  <2>3. CASE file = NoFile
    <3>1. new.at = "failed"
      BY <2>3
    <3>. HIDE DEF new
    <3>2. Loads' = [Loads EXCEPT ![l] = [call |-> "failed"]]
      BY <2>1, <3>1, <1>types, OneLoad, Zenon
    <3>3. Loads[l] = [call |-> "pending"]
      BY <2>1, LoadsAre
    <3>. QED BY <2>2, <3>2, <3>3, <1>cut
  <2>4. CASE file # NoFile
    <3>1. new.at = "read"
      BY <2>4
    <3>. HIDE DEF new
    <3>2. UNCHANGED Loads
      BY <2>1, <3>1, <1>types, OneLoad
    <3>. QED BY <2>2, <3>2, <1>held, <1>saves, <1>stutter
  <2>. QED BY <2>3, <2>4
<1>7. ASSUME NEW l \in Loaders, Read(l) PROVE Register!Next
  <2>1. loader[l].at = "read" /\ UNCHANGED <<file, saver>>
    BY <1>7 DEF Read
  <2>2. CASE Whole(file) /\ MayLoad(file.of)
    <3>. DEFINE new == [loader[l] EXCEPT !.at = "loaded", !.template = file.of]
    <3>1. loader' = [loader EXCEPT ![l] = new]
      BY <1>7, <2>2 DEF Read
    <3>2. new.at = "loaded" /\ new.template = file.of
      BY <1>types, Zenon
    <3>. HIDE DEF new
    <3>3. Loads[l] = [call |-> "pending"] /\ Loads' = [Loads EXCEPT ![l] = file.of]
      <4>1. Loads' = [Loads EXCEPT ![l] = new.template]
        BY <3>1, <3>2, <1>types, OneLoad, Zenon
      <4>. QED BY <2>1, <3>2, <4>1, LoadsAre
    <3>4. Held = file.of /\ Held # NoValue
      <4>1. file.of \in Values
        BY <1>types, <2>2, NoFileFacts DEF StoredFiles
      <4>. QED BY <4>1, <2>2, ValuesAssumption DEF Held
    <3>5. UNCHANGED <<Held, Saves>>
      BY <2>1, <1>held, <1>saves
    <3>6. Register!Load(l)
      BY <3>3, <3>4, <3>5
      DEF Register!Load, Register!Empty, Register!Pending, Held, Saves, Loads, NoValue
    <3>. QED BY <3>6 DEF Register!Next
  <2>3. CASE ~(Whole(file) /\ MayLoad(file.of))
    <3>. DEFINE new == [loader[l] EXCEPT !.at = "failed"]
    <3>1. loader' = [loader EXCEPT ![l] = new]
      BY <1>7, <2>3 DEF Read
    <3>2. new.at = "failed"
      BY <1>types
    <3>. HIDE DEF new
    <3>3. Loads' = [Loads EXCEPT ![l] = [call |-> "failed"]]
      BY <3>1, <3>2, <1>types, OneLoad, Zenon
    <3>4. Loads[l] = [call |-> "pending"]
      BY <2>1, LoadsAre
    <3>. QED BY <2>1, <3>3, <3>4, <1>cut
  <2>. QED BY <2>2, <2>3
<1>8. ASSUME NEW l \in Loaders, StopLoading(l) PROVE Register!Next
  <2>. DEFINE new == [loader[l] EXCEPT !.at = "cut"]
  <2>1. loader[l].at \in {"start", "read"} /\ UNCHANGED <<file, saver>>
        /\ loader' = [loader EXCEPT ![l] = new]
    BY <1>8 DEF StopLoading
  <2>2. new.at = "cut"
    BY <1>types
  <2>. HIDE DEF new
  <2>3. Loads' = [Loads EXCEPT ![l] = [call |-> "failed"]]
    BY <2>1, <2>2, <1>types, OneLoad, Zenon
  <2>4. Loads[l] = [call |-> "pending"]
    BY <2>1, LoadsAre
  <2>. QED BY <2>1, <2>3, <2>4, <1>cut
<1>9. ASSUME PowerLoss PROVE Register!Next
  <2>1. /\ saver' = [s \in Savers |-> IF saver[s] = "write" THEN "dead" ELSE saver[s]]
        /\ loader' = [l \in Loaders |->
             IF loader[l].at = "read" THEN [loader[l] EXCEPT !.at = "cut"] ELSE loader[l]]
        /\ file' \in Remains(file)
    BY <1>9 DEF PowerLoss
  <2>2. UNCHANGED Held \/ (Held' = NoValue /\ \A s \in Savers : Saves[s] # "saved")
    <3>1. CASE \E s \in Savers : saver[s] = "saved"
      <4>1. file # NoFile /\ file.synced
        BY <3>1 DEF Stored, OneWriter
      <4>2. file' = file
        BY <4>1, <2>1, <1>types, RemainsOf
      <4>. QED BY <4>2, <1>held
    <3>2. CASE \A s \in Savers : saver[s] # "saved"
      <4>1. \A s \in Savers : Saves[s] # "saved"
        BY <3>2, <1>types, SavesAre DEF Stopped
      <4>2. CASE Whole(file')
        <5>1. file' # NoFile
          BY <4>2, NoFileFacts
        <5>2. file # NoFile /\ file'.of = file.of /\ file'.length <= file.length
          BY <5>1, <2>1, <1>types, RemainsOf
        <5>3. file.length \in 0..Full
          BY <5>2, <1>types DEF StoredFiles
        <5>4. Whole(file)
          BY <4>2, <5>2, <5>3, FullAssumption DEF Whole
        <5>. QED BY <4>2, <5>2, <5>4 DEF Held
      <4>3. CASE ~Whole(file')
        BY <4>1, <4>3 DEF Held
      <4>. QED BY <4>2, <4>3
    <3>. QED BY <3>1, <3>2
  <2>3. \A s \in Savers : Saves'[s] # Saves[s] => Saves[s] = "pending" /\ Saves'[s] = "failed"
    BY <2>1, <1>types DEF Saves, Stopped
  <2>4. \A l \in Loaders : Loads'[l] # Loads[l] =>
          Loads[l] = [call |-> "pending"] /\ Loads'[l] = [call |-> "failed"]
    <3>1. \A l \in Loaders :
            loader'[l] = IF loader[l].at = "read" THEN [loader[l] EXCEPT !.at = "cut"] ELSE loader[l]
      BY <2>1
    <3>2. \A l \in Loaders : loader[l].at = "read" => loader'[l].at = "cut"
      BY <3>1, <1>types
    <3>3. \A l \in Loaders : loader[l].at = "read" =>
            Loads[l] = [call |-> "pending"] /\ Loads'[l] = [call |-> "failed"]
      BY <3>2 DEF Loads
    <3>4. \A l \in Loaders : loader[l].at # "read" => Loads'[l] = Loads[l]
      BY <3>1 DEF Loads
    <3>. QED BY <3>3, <3>4
  <2>5. Register!PowerLoss
    BY <2>2, <2>3, <2>4
    DEF Register!PowerLoss, Register!Empty, Register!Pending, Register!Failed,
        Held, Saves, Loads, NoValue
  <2>. QED BY <2>5 DEF Register!Next
<1>10. CASE UNCHANGED vars
  BY <1>10, <1>held, <1>saves, <1>loads, <1>stutter DEF vars
<1>. QED BY <1>1, <1>2, <1>3, <1>4, <1>5, <1>6, <1>7, <1>8, <1>9, <1>10 DEF Next

\* The path is a write-once register: one save at most takes effect, all at
\* once, and a load yields what it saved or fails.
THEOREM PathIsWriteOnce == Spec => WritesOnce
<1>1. Spec => Register!Init /\ [][Register!Next]_(Register!vars)
  BY RegisterInit, RegisterNext, StoredHolds, PTL DEF Spec
<1>. QED BY <1>1 DEF WritesOnce, Register!Spec
=============================================================================
