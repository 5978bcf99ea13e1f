------------------------------- MODULE Commands -------------------------------
(***************************************************************************)
(* Invocations of the command line (src/src/main.rs), each a process of    *)
(* its own, at work at once on the same files and the same sensors:        *)
(* the entry points (src/src/lib.rs), the match-on-chip seam               *)
(* (src/src/moc.rs) and the control of the engine (src/src/engine.rs).     *)
(*                                                                         *)
(* What has a module of its own is one step here.  A path is the           *)
(* write-once register that TemplateStore and CaptureBundle implement, and *)
(* a call of a worker device returns the device's own answer or an error,  *)
(* as WorkerSession does.  A worker lists the sensors when it is spawned   *)
(* and opens one, by its id alone, when an operation starts; in between    *)
(* sensors may be plugged and unplugged.                                   *)
(***************************************************************************)
EXTENDS MatchingPolicy, Sequences

CONSTANTS
  Invocations,  \* processes
  Orders,       \* Orders[i]: what i may be told to do: [run, path, reads, makes]
  Paths,        \* of template files and capture bundles
  FoundOnDisk,  \* FoundOnDisk[p]: what is at path p before the first invocation
  Sensors,      \* match-on-chip sensors
  Driver,       \* Driver[s]: the libfprint driver of sensor s
  Model,        \* Model[s]: its model
  Id,           \* Id[s]: the id its driver lists it under
  Rosters,      \* lists of sensors that may be plugged in at a time
  Captures,     \* captures, and the samples made of them
  Profile,      \* Profile[c]: the profile in the metadata of capture c
  Unfit,        \* captures that are partial or of another shape than NBIS takes
  Found,        \* Found[c]: the minutiae in capture c
  Score,        \* Score[c, d]: how well captures c and d match, by bozorth3
  Threshold,    \* ACCEPT_THRESHOLD
  SampleCount,  \* ENROLLMENT_SAMPLES
  DemoCaptures  \* the synthetic captures of run_demo: [enrolled, genuine, impostor]

VARIABLES
  disk,    \* disk[p]: what is at path p
  roster,  \* the sensors plugged in, as they are listed
  cli      \* cli[i]: how far invocation i is, and what it has in hand

vars == <<disk, roster, cli>>
-----------------------------------------------------------------------------
(* Files *)

Nothing == [kind |-> "nothing"]

\* What a save leaves that failed half way: neither loads nor is overwritten.
Remnant == [kind |-> "remnant"]

Bundle(c) == [kind |-> "capture", of |-> c]

HostTemplate(samples) ==
  [kind |-> "host_image", profile |-> Profile[samples[1]], samples |-> samples]

\* Faulty: the template is of the sensor's model.
DeviceTemplateOfModel(bound, maker) ==
  [kind |-> "match_on_chip", driver |-> Driver[bound], profile |-> Model[bound], blob |-> maker]

\* The template that enroll_device builds, bound to one sensor, of the blob
\* that another may have made.
DeviceTemplate(bound, maker) ==
  [kind |-> "match_on_chip", driver |-> Driver[bound], profile |-> Id[bound], blob |-> maker]

Contents ==
  {Nothing, Remnant}
    \cup [kind : {"capture"}, of : Captures]
    \cup [kind : {"host_image"}, profile : {Profile[c] : c \in Captures}, samples : Seq(Captures)]
    \cup [kind : {"match_on_chip"}, driver : {Driver[s] : s \in Sensors},
          profile : {Id[s] : s \in Sensors}, blob : Sensors]

\* validate_template
ValidTemplate(t) ==
  t.kind = "host_image" =>
    /\ Len(t.samples) = SampleCount
    /\ \A k \in 1..Len(t.samples) : ValidSample(SampleOf(Found[t.samples[k]]))

\* There may be a sensor in the place of which a template speaks that is not
\* its maker; a template that somebody put on the disk speaks the truth.
ASSUME DiskAssumption ==
  /\ FoundOnDisk \in [Paths -> Contents]
  /\ \A p \in Paths : FoundOnDisk[p].kind = "match_on_chip" =>
       \E s \in Sensors : FoundOnDisk[p] = DeviceTemplate(s, s)
ASSUME SensorAssumption == Rosters \subseteq Seq(Sensors)
ASSUME CaptureAssumption ==
  /\ Unfit \subseteq Captures
  /\ Found \in [Captures -> Minutiae]
  /\ \A c \in Captures : Found[c].percents => Found[c].sum <= 100 * Found[c].count
  /\ Score \in [Captures \X Captures -> Nat] /\ Threshold \in Nat
  /\ SampleCount \in Nat \ {0}
-----------------------------------------------------------------------------
(* Invocations *)

Runs ==
  {"synthetic", "inspect", "enroll", "verify", "enroll_device", "verify_device", "demo"}

Verifications == {"verify", "verify_device"}

ASSUME OrderAssumption ==
  \A i \in Invocations :
    /\ Orders[i] \subseteq [run : Runs, path : Paths, reads : Seq(Paths), makes : Captures]
    /\ \A order \in Orders[i] : order.run \in {"inspect", "verify"} => Len(order.reads) = 1

FirstStage ==
  [run \in Runs |->
    CASE run = "synthetic" -> "generate"
      [] run = "inspect" -> "inspect"
      [] run = "enroll" -> "sample"
      [] run = "verify" -> "load"
      [] run = "demo" -> "demo"
      [] OTHER -> "spawn"]

Busy ==
  {"generate", "inspect", "sample", "load", "demo", "spawn", "enroll", "compare", "save"}

NoOrder == [run |-> "none"]
NoComparison == [matched |-> FALSE]

Idle ==
  [at |-> "idle", order |-> NoOrder,
   bound |-> "none",          \* the sensor that spawn bound to
   samples |-> <<>>,          \* the captures analyzed so far
   content |-> Nothing,       \* what is to be saved, or the template loaded
   compared |-> NoComparison, \* by which sensor or capture, and the verdict
   why |-> "none",            \* the error, if there was one
   code |-> 0]                \* the exit code

Init ==
  /\ disk = FoundOnDisk
  /\ roster \in Rosters
  /\ cli = [i \in Invocations |-> Idle]

Becomes(i, record) == cli' = [cli EXCEPT ![i] = record]

\* Faulty: an error is told like a verdict that is not a match.
FailsAsNoMatch(i, why) == Becomes(i, [cli[i] EXCEPT !.at = "report", !.why = why, !.code = 1])

\* Every error is told on standard error and ends in exit code 2.
Fails(i, why) == Becomes(i, [cli[i] EXCEPT !.at = "report", !.why = why, !.code = 2])

Succeeds(i) == Becomes(i, [cli[i] EXCEPT !.at = "report", !.code = 0])

Keeps(i, content, stage) ==
  Becomes(i, [cli[i] EXCEPT !.content = content, !.at = stage])

Invoke(i) ==
  /\ cli[i].at = "idle"
  /\ \E order \in Orders[i] :
       Becomes(i, [Idle EXCEPT !.order = order, !.at = FirstStage[order.run]])
  /\ UNCHANGED <<disk, roster>>
-----------------------------------------------------------------------------
(* Captures *)

\* detect_capture
Detected(c) == c \notin Unfit /\ Detects(Found[c])

\* analyze
Analyzed(c) == c \notin Unfit /\ Analyzes(Found[c])

Generate(i) ==
  /\ cli[i].at = "generate"
  /\ Keeps(i, Bundle(cli[i].order.makes), "save")
  /\ UNCHANGED <<disk, roster>>

\* inspect_bundle
Inspect(i) ==
  LET bundle == disk[cli[i].order.reads[1]] IN
  /\ cli[i].at = "inspect"
  /\ IF bundle.kind = "capture" /\ Detected(bundle.of) THEN Succeeds(i) ELSE Fails(i, "input")
  /\ UNCHANGED <<disk, roster>>

\* Faulty: profiles are not compared.
FitsAny(c, samples) == Analyzed(c)

\* A sample is of the profile of those before it, and passes the policy.
Fits(c, samples) == (samples # <<>> => Profile[c] = Profile[samples[1]]) /\ Analyzed(c)

\* One turn of the loop of enroll_paths, whose first line counts the captures
TakeSample(i) ==
  LET reads == cli[i].order.reads
      samples == cli[i].samples
      bundle == disk[reads[Len(samples) + 1]]
      more == Append(samples, bundle.of)
  IN
  /\ cli[i].at = "sample"
  /\ IF Len(reads) # SampleCount \/ bundle.kind # "capture" \/ ~Fits(bundle.of, samples)
       THEN Fails(i, "input")
       ELSE Becomes(i, [cli[i] EXCEPT
              !.samples = more,
              !.content = IF Len(more) = SampleCount THEN HostTemplate(more) ELSE @,
              !.at = IF Len(more) = SampleCount THEN "save" ELSE @])
  /\ UNCHANGED <<disk, roster>>

\* The highest score over all samples decides: whether any one reaches the
\* threshold.
Matches(samples, c) == \E k \in 1..Len(samples) : Score[c, samples[k]] >= Threshold

\* Faulty: the probe may be of any profile.
ComparableAny(template, c) == template.kind = "host_image" /\ Analyzed(c)

\* What verify asks of template and probe before it scores them
Comparable(template, c) ==
  /\ template.kind = "host_image"
  /\ template.profile = Profile[c]
  /\ Analyzed(c)

\* verify_bundle, from the replay of the probe on
VerifyCapture(i) ==
  LET bundle == disk[cli[i].order.reads[1]]
      template == cli[i].content
      matched == Matches(template.samples, bundle.of)
  IN
  /\ cli[i].at = "compare" /\ cli[i].order.run = "verify"
  /\ IF bundle.kind # "capture" \/ ~Comparable(template, bundle.of)
       THEN Fails(i, "input")
       ELSE Becomes(i, [cli[i] EXCEPT
              !.compared = [by |-> bundle.of, matched |-> matched],
              !.at = "report", !.code = IF matched THEN 0 ELSE 1])
  /\ UNCHANGED <<disk, roster>>

\* run_demo, in a directory of its own that nobody else sees
Demo(i) ==
  LET demo == DemoCaptures
      template == HostTemplate(demo.enrolled)
  IN
  /\ cli[i].at = "demo"
  /\ IF /\ \A k \in 1..Len(demo.enrolled) : Comparable(template, demo.enrolled[k])
        /\ Comparable(template, demo.genuine) /\ Comparable(template, demo.impostor)
        /\ ValidTemplate(template)
        /\ Matches(demo.enrolled, demo.genuine) /\ ~Matches(demo.enrolled, demo.impostor)
       THEN Succeeds(i) ELSE Fails(i, "demo")
  /\ UNCHANGED <<disk, roster>>
-----------------------------------------------------------------------------
(* Sensors *)

\* spawn_driver: the first sensor listed is the one
Spawn(i) ==
  LET run == cli[i].order.run IN
  /\ cli[i].at = "spawn"
  /\ IF roster = <<>>
       THEN Fails(i, "device")
       ELSE Becomes(i, [cli[i] EXCEPT
              !.bound = Head(roster),
              !.at = IF run = "enroll_device" THEN "enroll" ELSE "load"])
  /\ UNCHANGED <<disk, roster>>

\* The sensor that the worker of invocation i opens now: one of the id it bound to
Opened(i) == {roster[k] : k \in {j \in 1..Len(roster) : Id[roster[j]] = Id[cli[i].bound]}}

\* moc::enroll_device.  The blob is within the limits: the worker device has
\* seen to that.
EnrollDevice(i) ==
  /\ cli[i].at = "enroll"
  /\ \E sensor \in Opened(i) : Keeps(i, DeviceTemplate(cli[i].bound, sensor), "save")
  /\ UNCHANGED <<disk, roster>>

\* Faulty: the driver alone is compared.
ProvenanceOfDriver(bound, template) ==
  IF template.driver # Driver[bound] THEN "driver" ELSE "none"

\* What is wrong with a template for the sensor bound to
Provenance(bound, template) ==
  CASE template.driver # Driver[bound] -> "driver"
    [] template.driver = Driver[bound] /\ template.profile # Id[bound] -> "profile"
    [] OTHER -> "none"

\* load_template; for a sensor then the kind and, in moc::verify_device, the
\* provenance
Load(i) ==
  LET template == disk[cli[i].order.path]
      device == cli[i].order.run = "verify_device"
      wrong == Provenance(cli[i].bound, template)
  IN
  /\ cli[i].at = "load"
  /\ IF \/ template.kind \notin {"host_image", "match_on_chip"} \/ ~ValidTemplate(template)
        \/ device /\ template.kind # "match_on_chip"
       THEN Fails(i, "input")
       ELSE IF device /\ wrong # "none"
         THEN Becomes(i, [cli[i] EXCEPT
                !.content = template, !.at = "report", !.why = wrong, !.code = 2])
         ELSE Keeps(i, template, "compare")
  /\ UNCHANGED <<disk, roster>>

\* The worker opens the sensor and gives it the blob, the sensor answers.
VerifyDevice(i) ==
  /\ cli[i].at = "compare" /\ cli[i].order.run = "verify_device"
  /\ \E sensor \in Opened(i), matched \in BOOLEAN :
       Becomes(i, [cli[i] EXCEPT
         !.compared = [by |-> sensor, matched |-> matched],
         !.at = "report", !.code = IF matched THEN 0 ELSE 1])
  /\ UNCHANGED <<disk, roster>>
-----------------------------------------------------------------------------
(* Saving, and the end *)

\* Faulty: what is there is overwritten.
SaveOver(i) ==
  LET path == cli[i].order.path IN
  /\ cli[i].at = "save"
  /\ IF ~ValidTemplate(cli[i].content)
       THEN Fails(i, "content") /\ UNCHANGED disk
       ELSE Succeeds(i) /\ disk' = [disk EXCEPT ![path] = cli[i].content]
  /\ UNCHANGED roster

\* save_template and save_capture_bundle
Save(i) ==
  LET path == cli[i].order.path IN
  /\ cli[i].at = "save"
  /\ CASE ~ValidTemplate(cli[i].content) ->
            Fails(i, "content") /\ UNCHANGED disk
       [] ValidTemplate(cli[i].content) /\ disk[path] # Nothing ->
            Fails(i, "taken") /\ UNCHANGED disk
       [] OTHER ->
            Succeeds(i) /\ disk' = [disk EXCEPT ![path] = cli[i].content]
  /\ UNCHANGED roster

\* Where a save is cut short something may be left at a path that was free.
Leaves(i) ==
  LET path == cli[i].order.path IN
  IF cli[i].at = "save" /\ ValidTemplate(cli[i].content) /\ disk[path] = Nothing
    THEN \E left \in {Nothing, Remnant, cli[i].content} : disk' = [disk EXCEPT ![path] = left]
    ELSE UNCHANGED disk

\* A file, a pipe, the worker or its sensor fails.
Break(i) ==
  /\ cli[i].at \in Busy
  /\ Fails(i, "failure")
  /\ Leaves(i)
  /\ UNCHANGED roster

\* A print panics, or the process is killed.
Die(i) ==
  /\ cli[i].at \in Busy \cup {"report"}
  /\ Becomes(i, [Idle EXCEPT !.at = "dead"])
  /\ Leaves(i)
  /\ UNCHANGED roster

\* main prints the outcome and returns the exit code.
Exit(i) ==
  /\ cli[i].at = "report"
  /\ Becomes(i, [cli[i] EXCEPT !.at = "exited"])
  /\ UNCHANGED <<disk, roster>>

Plug ==
  /\ roster' \in Rosters
  /\ UNCHANGED <<disk, cli>>

Execute(i) ==
  \/ Invoke(i) \/ Exit(i)
  \/ Generate(i) \/ Inspect(i) \/ Demo(i)
  \/ TakeSample(i) \/ VerifyCapture(i)
  \/ Spawn(i) \/ EnrollDevice(i) \/ Load(i) \/ VerifyDevice(i)
  \/ Save(i) \/ Break(i) \/ Die(i)

Next == Plug \/ \E i \in Invocations : Execute(i)

Spec == Init /\ [][Next]_vars
-----------------------------------------------------------------------------
(* Properties *)

Records ==
  [at : Busy \cup {"idle", "report", "exited", "dead"},
   order : (UNION {Orders[i] : i \in Invocations}) \cup {NoOrder},
   bound : Sensors \cup {"none"},
   samples : Seq(Captures),
   content : Contents,
   compared : {NoComparison} \cup [by : Sensors \cup Captures, matched : BOOLEAN],
   why : {"none", "input", "demo", "device", "content", "taken", "failure",
          "driver", "profile"},
   code : {0, 1, 2}]

TypeOK ==
  /\ disk \in [Paths -> Contents]
  /\ roster \in Rosters
  /\ cli \in [Invocations -> Records]
  /\ \A i \in Invocations :
       /\ cli[i].at \notin {"idle", "dead"} => cli[i].order \in Orders[i]
       /\ cli[i].at = "enroll" => cli[i].bound \in Sensors

Exited(i, code) == cli[i].at = "exited" /\ cli[i].code = code

\* docs/usage.md: a verification exits 0 for a match, 1 for a non-match and 2
\* otherwise.  0 and 1 tell of the template at the path and of a comparison that
\* took place; with a capture, of whether any one sample scores the threshold.
\* No other command ever exits 1.
ExitsTell ==
  \A i \in Invocations, code \in {0, 1} :
    Exited(i, code) /\ (cli[i].order.run \in Verifications \/ code = 1) =>
      /\ cli[i].order.run \in Verifications
      /\ disk[cli[i].order.path] = cli[i].content
      /\ cli[i].compared # NoComparison
      /\ code = 0 <=> cli[i].compared.matched
      /\ cli[i].order.run = "verify" =>
           LET samples == cli[i].content.samples IN
           cli[i].compared.matched <=>
             \E k \in 1..Len(samples) : Score[cli[i].compared.by, samples[k]] >= Threshold

\* A save that was reported is there for good, whatever other invocations save
\* to the path at the same time: the template of this very enrollment, of the
\* kind the command makes.
CreatedIsKept ==
  \A i \in Invocations :
    Exited(i, 0) /\ cli[i].order.run \in {"synthetic", "enroll", "enroll_device"} =>
      /\ disk[cli[i].order.path] = cli[i].content
      /\ cli[i].content.kind =
           CASE cli[i].order.run = "synthetic" -> "capture"
             [] cli[i].order.run = "enroll" -> "host_image"
             [] OTHER -> "match_on_chip"

\* "Each verification path rejects the other kind": a capture is scored only
\* against a host-image template of its profile, and passes the policy; a
\* sensor sees only a match-on-chip template recorded under its own id.
ComparisonsAreFit ==
  \A i \in Invocations :
    cli[i].compared # NoComparison =>
      LET template == cli[i].content
          by == cli[i].compared.by
      IN
      IF cli[i].order.run = "verify"
        THEN /\ template.kind = "host_image" /\ by \in Captures
             /\ Analyzed(by) /\ Profile[by] = template.profile
        ELSE /\ template.kind = "match_on_chip" /\ by \in Sensors
             /\ Id[by] = template.profile

\* An enrollment is of one profile, and of captures that verify would take as
\* probes too.
SamplesAreAlike ==
  \A i \in Invocations :
    LET template == cli[i].content IN
    cli[i].order.run = "enroll" /\ template # Nothing =>
      /\ Len(template.samples) = SampleCount
      /\ \A k \in 1..Len(template.samples) : Comparable(template, template.samples[k])

\* An enrollment from captures gets as far as the save and is then refused for
\* what it saves only if a capture has more minutiae than a template takes, or
\* one that is out of range.
RefusedForAMinutia ==
  \A i \in Invocations :
    cli[i].why = "content" =>
      \E k \in 1..SampleCount :
        LET found == Found[cli[i].content.samples[k]] IN
        found.count > MaxMinutiae \/ ~found.percents \/ ~found.inside

\* src/src/moc.rs: handing a blob to a different driver or model is refused
\* rather than attempted.  A worker opens a sensor by its id alone, and sensors
\* may have changed since it was spawned: ids that two drivers share break it.
SensorIsOfItsKind ==
  \A i \in Invocations :
    cli[i].compared # NoComparison /\ cli[i].order.run = "verify_device" =>
      LET maker == cli[i].content.blob
          by == cli[i].compared.by
      IN Driver[by] = Driver[maker] /\ Model[by] = Model[maker]

\* What the code has of that, whatever the ids: a blob reaches only a sensor
\* listed under the id of its maker; and one of another driver only if one of
\* the two workers, when it opened, got another sensor of that id than the one
\* that it had bound to.
OnlyASwapMisleads ==
  \A i \in Invocations :
    cli[i].compared # NoComparison /\ cli[i].order.run = "verify_device" =>
      LET maker == cli[i].content.blob
          by == cli[i].compared.by
      IN /\ Id[by] = Id[maker]
         /\ Driver[by] # Driver[maker] =>
              Driver[by] # Driver[cli[i].bound] \/ Driver[maker] # cli[i].content.driver

\* moc::verify_device refuses a template for its provenance on the very sensor
\* that made it only if a worker bound to one of another driver, listed under
\* the same id, had got that sensor when it enrolled.
OnlyASwapRefuses ==
  \A i \in Invocations :
    LET bound == cli[i].bound
        template == cli[i].content
    IN
    cli[i].why \in {"driver", "profile"} /\ bound = template.blob =>
      /\ cli[i].why = "driver"
      /\ \E s \in Sensors :
           Id[s] = Id[bound] /\ Driver[s] = template.driver /\ Driver[s] # Driver[bound]

-----------------------------------------------------------------------------
(* Why: the inductive invariant *)

Over(r) == r.at \in {"report", "exited"}

\* Captures that make up an enrollment, or the first few of one
Alike(samples) ==
  \A k \in 1..Len(samples) : Analyzed(samples[k]) /\ Profile[samples[k]] = Profile[samples[1]]

\* A match-on-chip template speaks of a sensor that has its maker's id.
Truthful(content) ==
  content.kind = "match_on_chip" =>
    /\ Id[content.blob] = content.profile
    /\ \E s \in Sensors : Driver[s] = content.driver /\ Id[s] = content.profile

\* What an invocation makes is of the command's kind.
Made(run, content) ==
  \/ run = "synthetic" /\ content.kind = "capture"
  \/ run = "enroll_device" /\ content.kind = "match_on_chip"
  \/ /\ run = "enroll" /\ content.kind = "host_image"
     /\ Len(content.samples) = SampleCount /\ Alike(content.samples)
     /\ content.profile = Profile[content.samples[1]]

\* Each stage is of a command that has it, with what that command needs there.
StageOf(d, i, r) ==
  /\ r.at \notin {"idle", "dead"} => r.order \in Orders[i]
  /\ ~Over(r) => r.why = "none"
  /\ r.at = "generate" => r.order.run = "synthetic"
  /\ r.at = "spawn" => r.order.run \in {"enroll_device", "verify_device"}
  /\ r.at = "inspect" => r.order.run = "inspect"
  /\ r.at = "demo" => r.order.run = "demo"
  /\ r.at = "sample" =>
       /\ r.order.run = "enroll" /\ r.content = Nothing
       /\ Len(r.samples) < SampleCount /\ Alike(r.samples)
  /\ r.at = "enroll" => r.order.run = "enroll_device" /\ r.bound \in Sensors
  /\ r.at = "save" => Made(r.order.run, r.content)
  /\ r.at \in {"load", "compare"} =>
       /\ r.order.run \in Verifications
       /\ r.order.run = "verify_device" => r.bound \in Sensors
  /\ r.at = "compare" =>
       /\ r.content.kind \in {"host_image", "match_on_chip"}
       /\ d[r.order.path] = r.content
       /\ r.order.run = "verify_device" =>
            r.content.kind = "match_on_chip" /\ Provenance(r.bound, r.content) = "none"

\* A verdict is of the template at the path, and only a verdict makes a code of 1.
VerdictOf(d, i, r) ==
  /\ r.compared # NoComparison =>
       /\ Over(r) /\ r.order.run \in Verifications
       /\ d[r.order.path] = r.content /\ r.content # Nothing
       /\ r.code = IF r.compared.matched THEN 0 ELSE 1
       /\ IF r.order.run = "verify"
            THEN /\ r.compared.by \in Captures /\ Comparable(r.content, r.compared.by)
                 /\ r.compared.matched = Matches(r.content.samples, r.compared.by)
            ELSE /\ r.compared.by \in Sensors /\ r.content.kind = "match_on_chip"
                 /\ Id[r.compared.by] = r.content.profile
                 /\ r.content.driver = Driver[r.bound]
  /\ Over(r) /\ r.compared = NoComparison =>
       r.code # 1 /\ (r.order.run \in Verifications => r.code = 2)

\* An invocation that made something, and a refusal, has its reasons.
OutcomeOf(d, i, r) ==
  /\ Over(r) /\ r.code = 0 /\ r.order.run \in {"synthetic", "enroll", "enroll_device"} =>
       /\ d[r.order.path] = r.content /\ r.content # Nothing
       /\ Made(r.order.run, r.content)
  /\ r.why = "content" =>
       r.content.kind = "host_image" /\ Made("enroll", r.content) /\ ~ValidTemplate(r.content)
  /\ r.order.run = "enroll" /\ r.content # Nothing => Made("enroll", r.content)
  /\ r.why \in {"driver", "profile"} =>
       /\ r.content.kind = "match_on_chip"
       /\ Provenance(r.bound, r.content) = r.why
  /\ Truthful(r.content)

Honest(d, i, r) == StageOf(d, i, r) /\ VerdictOf(d, i, r) /\ OutcomeOf(d, i, r)

AllHonest ==
  /\ TypeOK
  /\ \A p \in Paths : Truthful(disk[p])
  /\ \A i \in Invocations : Honest(disk, i, cli[i])
=============================================================================
