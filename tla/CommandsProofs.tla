---------------------------- MODULE CommandsProofs ----------------------------
(***************************************************************************)
(* The exit codes tell the truth, for any number of invocations, paths,    *)
(* captures and sensors.                                                   *)
(*                                                                         *)
(* An invocation writes only its own record and puts something only where  *)
(* nothing was.  So what a record owes to the disk (Honest) is shown for   *)
(* the invocation that takes a step, and holds on for all others because   *)
(* the disk has only grown.                                                *)
(***************************************************************************)
EXTENDS Commands, TLAPS

\* What is made of minutiae by analyze is a valid sample, unless there are too
\* many or one is out of range.
LEMMA AnalyzedIsValid ==
  ASSUME NEW m \in Minutiae, m.percents => m.sum <= 100 * m.count,
         Analyzes(m), m.count <= MaxMinutiae, m.percents, m.inside
  PROVE  ValidSample(SampleOf(m))
<1> DEFINE n == m.count
           s == m.sum
<1>1. n \in Nat /\ s \in Nat /\ n >= MinMinutiae /\ n > 0
  BY PolicyAssumption DEF Minutiae, Analyzes
<1>2. MinQuality * n <= s /\ s <= 100 * n /\ MinQuality \in 0..100
  BY PolicyAssumption DEF Analyzes
<1>3. n \div 2 \in Nat /\ n \div 2 < n
  BY <1>1
<1>4. Rounded(s, n) \in MinQuality..100
  <2> DEFINE t == s + n \div 2
             q == t \div n
  <2>1. t \in Nat /\ MinQuality * n <= t /\ t < 101 * n
    BY <1>1, <1>2, <1>3
  <2>2. q \in Int /\ q * n <= t /\ t < (q + 1) * n
    <3> HIDE DEF t
    <3>. QED BY <1>1, <2>1
  <2>3. q >= MinQuality
    <3>1. SUFFICES ASSUME q + 1 <= MinQuality PROVE FALSE
      BY <2>2, <1>2
    <3>2. (q + 1) * n <= MinQuality * n
      <4> HIDE DEF q
      <4>. QED BY <3>1, <2>2, <1>1, <1>2
    <3>. QED BY <3>2, <2>1, <2>2, <1>1, <1>2
  <2>4. q <= 100
    <3>1. SUFFICES ASSUME 101 <= q PROVE FALSE
      BY <2>2
    <3>2. 101 * n <= q * n
      <4> HIDE DEF q
      <4>. QED BY <3>1, <2>2, <1>1
    <3>. QED BY <3>2, <2>1, <2>2, <1>1
  <2>. QED BY <2>2, <2>3, <2>4, <1>2 DEF Rounded
<1>5. RoundedQuality(m) = Rounded(s, n)
  BY <1>1, <1>2, <1>4 DEF RoundedQuality, Byte
<1>6. SampleOf(m).mean = Rounded(s, n) /\ SampleOf(m).minutiae = m
  BY <1>5 DEF SampleOf
<1>. QED BY <1>1, <1>2, <1>4, <1>6 DEF ValidSample

\* A template that loads, whoever wrote it, holds no sample that an enrollment
\* by this build would have refused: save and load compute the mean in integers
\* and check it against the minimum (template.rs), analyze in floating point
\* (engine.rs), and the one never lets through what the other does not.
THEOREM LoadableIsEnrollable ==
  ASSUME NEW m \in Minutiae, m.percents => m.bytes, NEW mean,
         ValidSample([mean |-> mean, minutiae |-> m])
  PROVE  Analyzes(m) /\ mean = RoundedQuality(m)
<1>1. /\ m.count \in MinMinutiae..MaxMinutiae /\ mean \in MinQuality..100
      /\ m.percents /\ m.sum >= MinQuality * m.count
      /\ mean = Rounded(m.sum, m.count)
  BY DEF ValidSample
<1>2. m.count > 0 /\ Rounded(m.sum, m.count) \in Byte
  BY <1>1, PolicyAssumption DEF Minutiae, Byte
<1>3. mean = RoundedQuality(m)
  BY <1>1, <1>2 DEF RoundedQuality
<1>. QED BY <1>1, <1>3, PolicyAssumption DEF Analyzes, Detects
-----------------------------------------------------------------------------
(* Contents and orders *)

\* What a file of each kind holds.
LEMMA KindsOf ==
  ASSUME NEW c \in Contents
  PROVE  /\ c.kind = "capture" => c = [kind |-> "capture", of |-> c.of] /\ c.of \in Captures
         /\ c.kind = "host_image" => c.samples \in Seq(Captures)
         /\ c.kind = "match_on_chip" => c.blob \in Sensors
         /\ c.kind \in {"capture", "host_image", "match_on_chip"} => c # Nothing
  BY DEF Contents, Nothing, Remnant

\* What an invocation is asked to do.
LEMMA OrdersOf ==
  ASSUME NEW i \in Invocations, NEW order \in Orders[i]
  PROVE  /\ order.run \in Runs /\ order.path \in Paths /\ order.reads \in Seq(Paths)
         /\ order.makes \in Captures
         /\ order.run \in {"inspect", "verify"} => order.reads[1] \in Paths
<1>1. order \in [run : Runs, path : Paths, reads : Seq(Paths), makes : Captures]
  BY OrderAssumption
<1>2. order.run \in {"inspect", "verify"} => Len(order.reads) = 1
  BY OrderAssumption
<1>. QED BY <1>1, <1>2

\* A path with nothing on it, or a remnant, claims nothing.
LEMMA NothingIsFree == Nothing \in Contents /\ Truthful(Nothing) /\ Truthful(Remnant)
  BY DEF Contents, Nothing, Remnant, Truthful

\* What a record owes to the disk it goes on owing as the disk grows.
LEMMA HonestAsDiskGrows ==
  ASSUME NEW d, NEW e, NEW i \in Invocations, NEW r \in Records,
         \A p \in Paths : d[p] # Nothing => e[p] = d[p],
         Honest(d, i, r)
  PROVE  Honest(e, i, r)
<1>1. r.at \notin {"idle", "dead"} => r.order.path \in Paths
  BY OrdersOf DEF Honest, StageOf
<1>2. StageOf(e, i, r)
  <2>1. r.content.kind \in {"host_image", "match_on_chip"} => r.content # Nothing
    BY DEF Nothing
  <2>. QED BY <1>1, <2>1 DEF Honest, StageOf
<1>3. VerdictOf(e, i, r)
  BY <1>1 DEF Honest, VerdictOf, Over
<1>4. OutcomeOf(e, i, r)
  BY <1>1 DEF Honest, OutcomeOf, Over
<1>. QED BY <1>2, <1>3, <1>4 DEF Honest
-----------------------------------------------------------------------------
(* The steps *)

\* No invocation has begun.
LEMMA HonestInit == Init => AllHonest
<1>. SUFFICES ASSUME Init PROVE AllHonest
  OBVIOUS
<1>1. disk = FoundOnDisk /\ roster \in Rosters /\ cli = [i \in Invocations |-> Idle]
  BY DEF Init
<1>2. disk \in [Paths -> Contents]
  BY <1>1, DiskAssumption
<1>3. Idle \in Records
  BY NothingIsFree DEF Idle, Records
<1>4. TypeOK
  BY <1>1, <1>2, <1>3 DEF TypeOK, Idle
<1>5. \A p \in Paths : Truthful(disk[p])
  <2>1. ASSUME NEW s \in Sensors PROVE Truthful(DeviceTemplate(s, s))
    BY DEF Truthful, DeviceTemplate
  <2>. QED BY <1>1, <2>1, DiskAssumption DEF Truthful
<1>6. ASSUME NEW i \in Invocations PROVE Honest(disk, i, Idle)
  BY NothingIsFree DEF Idle, Honest, StageOf, VerdictOf, OutcomeOf, Over, NoOrder, Nothing
<1>. QED BY <1>1, <1>4, <1>5, <1>6 DEF AllHonest

\* A step of an invocation that leaves the disk alone.
LEMMA OwnStep ==
  ASSUME AllHonest, NEW i \in Invocations,
         cli' = [cli EXCEPT ![i] = cli'[i]], cli'[i] \in Records,
         disk' = disk, roster' = roster, Honest(disk, i, cli'[i])
  PROVE  AllHonest'
<1>1. cli \in [Invocations -> Records]
  BY DEF AllHonest, TypeOK
<1>2. \A j \in Invocations : cli'[j] \in Records /\ Honest(disk, j, cli'[j])
  BY <1>1 DEF AllHonest
<1>3. cli' \in [Invocations -> Records]
  BY <1>1
<1>4. TypeOK'
  BY <1>2, <1>3 DEF AllHonest, TypeOK, Honest, StageOf
<1>. QED BY <1>2, <1>4 DEF AllHonest

\* A step that puts something where nothing was.
LEMMA SavingStep ==
  ASSUME AllHonest, NEW i \in Invocations, NEW p \in Paths,
         cli' = [cli EXCEPT ![i] = cli'[i]], cli'[i] \in Records, roster' = roster,
         disk' = [disk EXCEPT ![p] = disk'[p]], disk[p] = Nothing,
         disk'[p] \in Contents, Truthful(disk'[p]), Honest(disk', i, cli'[i])
  PROVE  AllHonest'
<1>1. cli \in [Invocations -> Records] /\ disk \in [Paths -> Contents]
  BY DEF AllHonest, TypeOK
<1>2. \A q \in Paths : disk[q] # Nothing => disk'[q] = disk[q]
  BY <1>1
<1>3. \A j \in Invocations : cli'[j] \in Records /\ Honest(disk', j, cli'[j])
  <2>1. ASSUME NEW j \in Invocations, j # i PROVE cli'[j] \in Records /\ Honest(disk', j, cli'[j])
    <3>1. cli'[j] = cli[j] /\ cli[j] \in Records /\ Honest(disk, j, cli[j])
      BY <1>1, <2>1 DEF AllHonest
    <3>. QED BY <3>1, <1>2, HonestAsDiskGrows
  <2>. QED BY <2>1
<1>4. cli' \in [Invocations -> Records] /\ disk' \in [Paths -> Contents]
  BY <1>1
<1>5. TypeOK'
  BY <1>3, <1>4 DEF AllHonest, TypeOK, Honest, StageOf
<1>6. \A q \in Paths : Truthful(disk'[q])
  BY <1>1 DEF AllHonest
<1>. QED BY <1>3, <1>5, <1>6 DEF AllHonest

\* A busy invocation has no verdict yet, and an order.
LEMMA BusyFacts ==
  ASSUME NEW d, NEW i \in Invocations, NEW r \in Records, Honest(d, i, r), r.at \in Busy
  PROVE  /\ r.order \in Orders[i] /\ r.compared = NoComparison /\ r.why = "none"
         /\ ~Over(r) /\ r.at \notin {"idle", "dead"}
  BY DEF Honest, StageOf, VerdictOf, Over, Busy

\* An invocation that ends in an error claims nothing.
LEMMA ErrorsAreHonest ==
  ASSUME NEW d, NEW i \in Invocations, NEW r \in Records, Honest(d, i, r), r.at \in Busy,
         NEW why \in {"input", "demo", "device", "taken", "failure"}
  PROVE  /\ [r EXCEPT !.at = "report", !.why = why, !.code = 2] \in Records
         /\ Honest(d, i, [r EXCEPT !.at = "report", !.why = why, !.code = 2])
<1> DEFINE n == [r EXCEPT !.at = "report", !.why = why, !.code = 2]
<1>1. n \in Records
  BY DEF Records
<1>2. /\ n.at = "report" /\ n.why = why /\ n.code = 2 /\ n.order = r.order
      /\ n.content = r.content /\ n.compared = r.compared /\ n.bound = r.bound
  BY DEF Records
<1>3. r.order \in Orders[i] /\ r.compared = NoComparison
  BY BusyFacts
<1> HIDE DEF n
<1>4. StageOf(d, i, n)
  BY <1>2, <1>3 DEF StageOf, Over
<1>5. VerdictOf(d, i, n)
  BY <1>2, <1>3 DEF VerdictOf, Over
<1>6. OutcomeOf(d, i, n)
  BY <1>2, <1>3 DEF Honest, OutcomeOf, Over
<1>. QED BY <1>1, <1>4, <1>5, <1>6 DEF n, Honest

\* An invocation that ends well after its save.
LEMMA SuccessIsHonest ==
  ASSUME NEW d, NEW i \in Invocations, NEW r \in Records, Honest(d, i, r), r.at \in Busy,
         r.order.run \notin Verifications,
         r.order.run \in {"synthetic", "enroll", "enroll_device"} =>
           /\ d[r.order.path] = r.content /\ r.content # Nothing
           /\ Made(r.order.run, r.content)
  PROVE  /\ [r EXCEPT !.at = "report", !.code = 0] \in Records
         /\ Honest(d, i, [r EXCEPT !.at = "report", !.code = 0])
<1> DEFINE n == [r EXCEPT !.at = "report", !.code = 0]
<1>1. n \in Records
  BY DEF Records
<1>2. /\ n.at = "report" /\ n.why = r.why /\ n.code = 0 /\ n.order = r.order
      /\ n.content = r.content /\ n.compared = r.compared /\ n.bound = r.bound
  BY DEF Records
<1>3. r.order \in Orders[i] /\ r.compared = NoComparison /\ r.why = "none"
  BY BusyFacts
<1> HIDE DEF n
<1>4. StageOf(d, i, n)
  BY <1>2, <1>3 DEF StageOf, Over
<1>5. VerdictOf(d, i, n)
  BY <1>2, <1>3 DEF VerdictOf, Over
<1>6. OutcomeOf(d, i, n)
  BY <1>2, <1>3 DEF Honest, OutcomeOf, Over
<1>. QED BY <1>1, <1>4, <1>5, <1>6 DEF n, Honest

\* An invocation that is told what to do.
LEMMA InvokeStep == ASSUME AllHonest, NEW i \in Invocations, Invoke(i) PROVE AllHonest'
<1>1. PICK order \in Orders[i] :
        cli' = [cli EXCEPT ![i] = [Idle EXCEPT !.order = order, !.at = FirstStage[order.run]]]
  BY DEF Invoke, Becomes
<1>2. cli \in [Invocations -> Records] /\ disk' = disk /\ roster' = roster
  BY DEF AllHonest, TypeOK, Invoke
<1>3. cli'[i] = [Idle EXCEPT !.order = order, !.at = FirstStage[order.run]]
  BY <1>1, <1>2
<1>4. order.run \in Runs
  BY OrdersOf
<1>5. /\ cli'[i].order = order /\ cli'[i].at = FirstStage[order.run]
      /\ cli'[i].bound = "none" /\ cli'[i].samples = <<>> /\ cli'[i].content = Nothing
      /\ cli'[i].compared = NoComparison /\ cli'[i].why = "none" /\ cli'[i].code = 0
  BY <1>3 DEF Idle
<1>6. /\ FirstStage[order.run] \in {"generate", "inspect", "sample", "load", "demo", "spawn"}
      /\ FirstStage[order.run] = "generate" => order.run = "synthetic"
      /\ FirstStage[order.run] = "inspect" => order.run = "inspect"
      /\ FirstStage[order.run] = "sample" => order.run = "enroll"
      /\ FirstStage[order.run] = "load" => order.run = "verify"
      /\ FirstStage[order.run] = "demo" => order.run = "demo"
      /\ FirstStage[order.run] = "spawn" => order.run \in {"enroll_device", "verify_device"}
  BY <1>4 DEF FirstStage, Runs
<1>7. cli'[i] \in Records
  <2>1. FirstStage[order.run] \in Busy
    BY <1>6 DEF Busy
  <2>2. cli'[i] = [at |-> FirstStage[order.run], order |-> order, bound |-> "none",
                   samples |-> <<>>, content |-> Nothing, compared |-> NoComparison,
                   why |-> "none", code |-> 0]
    BY <1>3 DEF Idle
  <2>. QED BY <2>1, <2>2, NothingIsFree DEF Records
<1>8. Alike(<<>>) /\ Len(<<>>) < SampleCount
  BY CaptureAssumption DEF Alike
<1>9. StageOf(disk, i, cli'[i])
  BY <1>5, <1>6, <1>8 DEF StageOf, Over, Verifications
<1>10. VerdictOf(disk, i, cli'[i])
  BY <1>5, <1>6 DEF VerdictOf, Over
<1>11. OutcomeOf(disk, i, cli'[i])
  BY <1>5, <1>6, NothingIsFree DEF OutcomeOf, Over
<1>12. cli' = [cli EXCEPT ![i] = cli'[i]]
  BY <1>1, <1>3
<1>. QED BY <1>2, <1>7, <1>9, <1>10, <1>11, <1>12, OwnStep DEF Honest

\* An invocation that meets an error, and leaves the disk alone.
LEMMA ErrorStep ==
  ASSUME AllHonest, NEW i \in Invocations, cli[i].at \in Busy,
         NEW why \in {"input", "demo", "device", "taken", "failure"},
         Fails(i, why), disk' = disk, roster' = roster
  PROVE  AllHonest'
<1>1. cli \in [Invocations -> Records] /\ Honest(disk, i, cli[i])
  BY DEF AllHonest, TypeOK
<1>2. cli' = [cli EXCEPT ![i] = [cli[i] EXCEPT !.at = "report", !.why = why, !.code = 2]]
  BY DEF Fails, Becomes
<1>3. cli'[i] = [cli[i] EXCEPT !.at = "report", !.why = why, !.code = 2]
  BY <1>1, <1>2
<1>4. cli'[i] \in Records /\ Honest(disk, i, cli'[i])
  <2>1. cli[i] \in Records
    BY <1>1
  <2>2. /\ [cli[i] EXCEPT !.at = "report", !.why = why, !.code = 2] \in Records
        /\ Honest(disk, i, [cli[i] EXCEPT !.at = "report", !.why = why, !.code = 2])
    BY <1>1, <2>1, ErrorsAreHonest
  <2>. QED BY <1>3, <2>2
<1>5. cli' = [cli EXCEPT ![i] = cli'[i]]
  BY <1>2, <1>3
<1>. QED BY <1>4, <1>5, OwnStep

\* A success of a command that makes nothing.
LEMMA ReadingStep ==
  ASSUME AllHonest, NEW i \in Invocations, cli[i].at \in {"inspect", "demo"},
         Succeeds(i), disk' = disk, roster' = roster
  PROVE  AllHonest'
<1>1. cli \in [Invocations -> Records] /\ Honest(disk, i, cli[i])
  BY DEF AllHonest, TypeOK
<1>2. cli' = [cli EXCEPT ![i] = [cli[i] EXCEPT !.at = "report", !.code = 0]]
  BY DEF Succeeds, Becomes
<1>3. cli'[i] = [cli[i] EXCEPT !.at = "report", !.code = 0]
  BY <1>1, <1>2
<1>4. cli[i].order.run \in {"inspect", "demo"}
  BY <1>1 DEF Honest, StageOf
<1>5. cli'[i] \in Records /\ Honest(disk, i, cli'[i])
  <2>1. cli[i] \in Records /\ cli[i].at \in Busy
    BY <1>1 DEF Busy
  <2>2. /\ cli[i].order.run \notin Verifications
        /\ cli[i].order.run \notin {"synthetic", "enroll", "enroll_device"}
    BY <1>4 DEF Verifications
  <2>3. /\ [cli[i] EXCEPT !.at = "report", !.code = 0] \in Records
        /\ Honest(disk, i, [cli[i] EXCEPT !.at = "report", !.code = 0])
    BY <1>1, <2>1, <2>2, SuccessIsHonest
  <2>. QED BY <1>3, <2>3
<1>6. cli' = [cli EXCEPT ![i] = cli'[i]]
  BY <1>2, <1>3
<1>. QED BY <1>5, <1>6, OwnStep

\* synthetic: a capture is made.
LEMMA GenerateStep == ASSUME AllHonest, NEW i \in Invocations, Generate(i) PROVE AllHonest'
<1> DEFINE bundle == Bundle(cli[i].order.makes)
<1>1. cli \in [Invocations -> Records] /\ Honest(disk, i, cli[i]) /\ cli[i].at = "generate"
      /\ disk' = disk /\ roster' = roster
  BY DEF AllHonest, TypeOK, Generate
<1>2. cli' = [cli EXCEPT ![i] = [cli[i] EXCEPT !.content = bundle, !.at = "save"]]
  BY DEF Generate, Keeps, Becomes
<1>3. cli'[i] = [cli[i] EXCEPT !.content = bundle, !.at = "save"]
  BY <1>1, <1>2
<1>4. cli[i].order \in Orders[i] /\ cli[i].order.run = "synthetic"
      /\ cli[i].compared = NoComparison /\ cli[i].why = "none"
  BY <1>1, BusyFacts DEF Busy, Honest, StageOf
<1>5. bundle \in Contents /\ bundle.kind = "capture" /\ bundle # Nothing
  <2>1. cli[i].order.makes \in Captures
    BY <1>4, OrdersOf
  <2>. QED BY <2>1 DEF Contents, Bundle, Nothing
<1> HIDE DEF bundle
<1>6. cli'[i] \in Records
  BY <1>1, <1>3, <1>5 DEF Records, Busy
<1>7. /\ cli'[i].at = "save" /\ cli'[i].content = bundle /\ cli'[i].order = cli[i].order
      /\ cli'[i].compared = NoComparison /\ cli'[i].why = "none"
  BY <1>1, <1>3, <1>4 DEF Records
<1>8. StageOf(disk, i, cli'[i])
  BY <1>4, <1>5, <1>7 DEF StageOf, Over, Made
<1>9. VerdictOf(disk, i, cli'[i])
  BY <1>7 DEF VerdictOf, Over
<1>10. OutcomeOf(disk, i, cli'[i])
  BY <1>4, <1>5, <1>7 DEF OutcomeOf, Over, Truthful
<1>. QED BY <1>1, <1>2, <1>3, <1>6, <1>8, <1>9, <1>10, OwnStep DEF Honest

\* One capture more that fits keeps the samples alike.
LEMMA MoreAlike ==
  ASSUME NEW samples \in Seq(Captures), NEW c \in Captures, Alike(samples), Fits(c, samples)
  PROVE  /\ Append(samples, c) \in Seq(Captures)
         /\ Len(Append(samples, c)) = Len(samples) + 1
         /\ Alike(Append(samples, c))
<1> DEFINE more == Append(samples, c)
<1>1. more \in Seq(Captures) /\ Len(more) = Len(samples) + 1 /\ more[Len(samples) + 1] = c
      /\ \A k \in 1..Len(samples) : more[k] = samples[k]
  OBVIOUS
<1>2. Analyzed(c) /\ (samples # <<>> => Profile[c] = Profile[samples[1]])
  BY DEF Fits
<1>3. CASE samples = <<>>
  BY <1>1, <1>2, <1>3 DEF Alike
<1>4. CASE samples # <<>>
  <2>1. 1 \in 1..Len(samples) /\ more[1] = samples[1]
    BY <1>1, <1>4
  <2>. QED BY <1>1, <1>2, <1>4, <2>1 DEF Alike
<1>. QED BY <1>1, <1>3, <1>4

\* A template made on the host, and what it is made of.
LEMMA HostTemplateFacts ==
  ASSUME NEW samples \in Seq(Captures), Len(samples) = SampleCount, Alike(samples)
  PROVE  /\ HostTemplate(samples) \in Contents /\ HostTemplate(samples) # Nothing
         /\ Made("enroll", HostTemplate(samples)) /\ Truthful(HostTemplate(samples))
<1>1. samples[1] \in Captures
  BY CaptureAssumption
<1>2. HostTemplate(samples) \in [kind : {"host_image"},
        profile : {Profile[c] : c \in Captures}, samples : Seq(Captures)]
  BY <1>1 DEF HostTemplate
<1>. QED BY <1>2 DEF HostTemplate, Contents, Nothing, Made, Truthful

\* enroll: one more capture is loaded and analyzed.
LEMMA TakeSampleStep == ASSUME AllHonest, NEW i \in Invocations, TakeSample(i) PROVE AllHonest'
<1> DEFINE r == cli[i]
           reads == r.order.reads
           bundle == disk[reads[Len(r.samples) + 1]]
           more == Append(r.samples, bundle.of)
           full == Len(more) = SampleCount
<1>1. /\ cli \in [Invocations -> Records] /\ r \in Records /\ Honest(disk, i, r)
      /\ r.at = "sample" /\ disk' = disk /\ roster' = roster /\ disk \in [Paths -> Contents]
  BY DEF AllHonest, TypeOK, TakeSample
<1>2. CASE Len(reads) # SampleCount \/ bundle.kind # "capture" \/ ~Fits(bundle.of, r.samples)
  <2>1. Fails(i, "input")
    BY <1>2 DEF TakeSample
  <2>. QED BY <2>1, <1>1, ErrorStep DEF Busy
<1>3. CASE ~(Len(reads) # SampleCount \/ bundle.kind # "capture"
               \/ ~Fits(bundle.of, r.samples))
  <2> DEFINE n == [r EXCEPT !.samples = more,
                            !.content = IF full THEN HostTemplate(more) ELSE @,
                            !.at = IF full THEN "save" ELSE @]
  <2>1. cli' = [cli EXCEPT ![i] = n]
    BY <1>3 DEF TakeSample, Becomes
  <2>2. cli'[i] = n
    BY <1>1, <2>1
  <2>3. /\ r.order \in Orders[i] /\ r.compared = NoComparison /\ r.why = "none"
        /\ r.order.run = "enroll" /\ r.content = Nothing
        /\ Len(r.samples) < SampleCount /\ Alike(r.samples)
    BY <1>1, BusyFacts DEF Busy, Honest, StageOf
  <2>4. r.samples \in Seq(Captures)
    BY <1>1 DEF Records
  <2>5. bundle \in Contents
    <3>1. reads \in Seq(Paths)
      BY <2>3, OrdersOf
    <3>2. Len(r.samples) + 1 \in 1..Len(reads)
      BY <2>3, <2>4, <1>3, CaptureAssumption
    <3>. QED BY <1>1, <3>1, <3>2
  <2>6. bundle.of \in Captures
    BY <2>5, <1>3, KindsOf
  <2>7. more \in Seq(Captures) /\ Len(more) = Len(r.samples) + 1 /\ Alike(more)
    BY <2>3, <2>4, <2>6, <1>3, MoreAlike
  <2>8. full => /\ HostTemplate(more) \in Contents /\ HostTemplate(more) # Nothing
                /\ Made("enroll", HostTemplate(more)) /\ Truthful(HostTemplate(more))
    BY <2>7, HostTemplateFacts
  <2> HIDE DEF more
  <2>9. /\ n.samples = more /\ n.content = IF full THEN HostTemplate(more) ELSE Nothing
        /\ n.at = (IF full THEN "save" ELSE "sample")
        /\ n.order = r.order /\ n.compared = NoComparison /\ n.why = "none"
    BY <1>1, <2>3 DEF Records
  <2>10. n \in Records
    BY <1>1, <2>7, <2>8 DEF Records, Busy
  <2> HIDE DEF n, full
  <2>11. StageOf(disk, i, n)
    <3>1. CASE full
      BY <3>1, <2>3, <2>8, <2>9 DEF StageOf, Over
    <3>2. CASE ~full
      <4>1. Len(more) < SampleCount
        BY <3>2, <2>3, <2>4, <2>7, CaptureAssumption DEF full
      <4>. QED BY <3>2, <4>1, <2>3, <2>7, <2>9 DEF StageOf, Over
    <3>. QED BY <3>1, <3>2
  <2>12. VerdictOf(disk, i, n)
    BY <2>9 DEF VerdictOf, Over
  <2>13. OutcomeOf(disk, i, n)
    BY <2>3, <2>8, <2>9, NothingIsFree DEF OutcomeOf, Over
  <2>14. cli' = [cli EXCEPT ![i] = cli'[i]]
    BY <2>1, <2>2
  <2>. QED BY <1>1, <2>2, <2>10, <2>11, <2>12, <2>13, <2>14, OwnStep DEF Honest
<1>. QED BY <1>2, <1>3

\* verify: the probe is analyzed and compared.
LEMMA VerifyCaptureStep == ASSUME AllHonest, NEW i \in Invocations, VerifyCapture(i) PROVE AllHonest'
<1> DEFINE r == cli[i]
           bundle == disk[r.order.reads[1]]
           matched == Matches(r.content.samples, bundle.of)
<1>1. /\ cli \in [Invocations -> Records] /\ r \in Records /\ Honest(disk, i, r)
      /\ r.at = "compare" /\ r.order.run = "verify"
      /\ disk' = disk /\ roster' = roster /\ disk \in [Paths -> Contents]
  BY DEF AllHonest, TypeOK, VerifyCapture
<1>2. CASE bundle.kind # "capture" \/ ~Comparable(r.content, bundle.of)
  <2>1. Fails(i, "input")
    BY <1>2 DEF VerifyCapture
  <2>. QED BY <2>1, <1>1, ErrorStep DEF Busy
<1>3. CASE ~(bundle.kind # "capture" \/ ~Comparable(r.content, bundle.of))
  <2> DEFINE n == [r EXCEPT !.compared = [by |-> bundle.of, matched |-> matched],
                            !.at = "report", !.code = IF matched THEN 0 ELSE 1]
  <2>1. cli' = [cli EXCEPT ![i] = n]
    BY <1>3 DEF VerifyCapture, Becomes
  <2>2. cli'[i] = n
    BY <1>1, <2>1
  <2>3. /\ r.order \in Orders[i] /\ r.why = "none"
        /\ r.content.kind \in {"host_image", "match_on_chip"} /\ disk[r.order.path] = r.content
    BY <1>1, BusyFacts DEF Busy, Honest, StageOf
  <2>4. bundle.of \in Captures
    BY <2>3, <1>1, <1>3, OrdersOf, KindsOf
  <2>5. matched \in BOOLEAN
    BY DEF Matches
  <2> HIDE DEF matched, bundle
  <2>6. /\ n.compared = [by |-> bundle.of, matched |-> matched] /\ n.at = "report"
        /\ n.code = (IF matched THEN 0 ELSE 1)
        /\ n.order = r.order /\ n.content = r.content /\ n.why = "none"
    BY <1>1, <2>3 DEF Records
  <2>7. n \in Records
    BY <1>1, <2>4, <2>5 DEF Records
  <2> HIDE DEF n
  <2>8. StageOf(disk, i, n)
    BY <2>3, <2>6 DEF StageOf, Over
  <2>9. VerdictOf(disk, i, n)
    <3>1. r.content # Nothing
      BY <2>3 DEF Nothing
    <3>2. n.compared # NoComparison /\ n.compared.by = bundle.of /\ n.compared.matched = matched
      BY <2>6 DEF NoComparison
    <3>3. n.compared.matched = Matches(n.content.samples, n.compared.by)
      BY <2>6, <3>2 DEF matched
    <3>4. Comparable(n.content, n.compared.by) /\ n.compared.by \in Captures
      BY <1>3, <2>4, <2>6, <3>2
    <3>5. n.code = IF n.compared.matched THEN 0 ELSE 1
      BY <2>6, <3>2
    <3>6. /\ Over(n) /\ n.order.run = "verify" /\ n.order.run \in Verifications
          /\ disk[n.order.path] = n.content /\ n.content # Nothing
      BY <1>1, <2>3, <2>6, <3>1 DEF Over, Verifications
    <3>. QED BY <3>2, <3>3, <3>4, <3>5, <3>6, Zenon DEF VerdictOf
  <2>10. OutcomeOf(disk, i, n)
    BY <1>1, <2>6 DEF OutcomeOf, Over, Honest
  <2>11. cli' = [cli EXCEPT ![i] = cli'[i]]
    BY <2>1, <2>2
  <2>. QED BY <1>1, <2>2, <2>7, <2>8, <2>9, <2>10, <2>11, OwnStep DEF Honest
<1>. QED BY <1>2, <1>3

\* The worker is spawned and binds a sensor.
LEMMA SpawnStep == ASSUME AllHonest, NEW i \in Invocations, Spawn(i) PROVE AllHonest'
<1> DEFINE r == cli[i]
           stage == IF r.order.run = "enroll_device" THEN "enroll" ELSE "load"
           n == [r EXCEPT !.bound = Head(roster), !.at = stage]
<1>1. /\ cli \in [Invocations -> Records] /\ r \in Records /\ Honest(disk, i, r)
      /\ r.at = "spawn" /\ disk' = disk /\ roster' = roster /\ roster \in Seq(Sensors)
  BY SensorAssumption DEF AllHonest, TypeOK, Spawn
<1>2. CASE roster = <<>>
  <2>1. Fails(i, "device")
    BY <1>2 DEF Spawn
  <2>. QED BY <2>1, <1>1, ErrorStep DEF Busy
<1>3. CASE roster # <<>>
  <2>1. cli' = [cli EXCEPT ![i] = n]
    BY <1>3 DEF Spawn, Becomes
  <2>2. cli'[i] = n
    BY <1>1, <2>1
  <2>3. /\ r.order \in Orders[i] /\ r.why = "none" /\ r.compared = NoComparison
        /\ r.order.run \in {"enroll_device", "verify_device"}
    BY <1>1, BusyFacts DEF Busy, Honest, StageOf
  <2>4. Head(roster) \in Sensors
    BY <1>1, <1>3
  <2>5. n \in Records
    BY <1>1, <2>4 DEF Records, Busy
  <2>6. /\ n.bound = Head(roster) /\ n.at = stage /\ n.order = r.order
        /\ n.content = r.content /\ n.why = "none" /\ n.compared = NoComparison
    BY <1>1, <2>3 DEF Records
  <2> HIDE DEF n
  <2>7. StageOf(disk, i, n)
    BY <2>3, <2>4, <2>6 DEF StageOf, Over, Verifications
  <2>8. VerdictOf(disk, i, n)
    BY <2>6 DEF VerdictOf, Over
  <2>9. OutcomeOf(disk, i, n)
    BY <1>1, <2>3, <2>6 DEF OutcomeOf, Over, Honest
  <2>10. cli' = [cli EXCEPT ![i] = cli'[i]]
    BY <2>1, <2>2
  <2>. QED BY <1>1, <2>2, <2>5, <2>7, <2>8, <2>9, <2>10, OwnStep DEF Honest
<1>. QED BY <1>2, <1>3

\* A driver that opens the sensor of an id finds one of its own.
LEMMA OpenedFacts ==
  ASSUME roster \in Seq(Sensors), NEW i \in Invocations, NEW sensor \in Opened(i)
  PROVE  sensor \in Sensors /\ Id[sensor] = Id[cli[i].bound]
  BY DEF Opened

\* enroll on a sensor.
LEMMA EnrollDeviceStep == ASSUME AllHonest, NEW i \in Invocations, EnrollDevice(i) PROVE AllHonest'
<1> DEFINE r == cli[i]
<1>1. /\ cli \in [Invocations -> Records] /\ r \in Records /\ Honest(disk, i, r)
      /\ r.at = "enroll" /\ disk' = disk /\ roster' = roster /\ roster \in Seq(Sensors)
  BY SensorAssumption DEF AllHonest, TypeOK, EnrollDevice
<1>2. PICK sensor \in Opened(i) : Keeps(i, DeviceTemplate(r.bound, sensor), "save")
  BY DEF EnrollDevice
<1> DEFINE template == DeviceTemplate(r.bound, sensor)
           n == [r EXCEPT !.content = template, !.at = "save"]
<1>3. cli' = [cli EXCEPT ![i] = n]
  BY <1>2 DEF Keeps, Becomes
<1>4. cli'[i] = n
  BY <1>1, <1>3
<1>5. /\ r.order \in Orders[i] /\ r.why = "none" /\ r.compared = NoComparison
      /\ r.order.run = "enroll_device" /\ r.bound \in Sensors
  BY <1>1, BusyFacts DEF Busy, Honest, StageOf
<1>6. sensor \in Sensors /\ Id[sensor] = Id[r.bound]
  BY <1>1, <1>2, OpenedFacts
<1>7. /\ template.kind = "match_on_chip" /\ template.driver = Driver[r.bound]
      /\ template.profile = Id[r.bound] /\ template.blob = sensor
  BY DEF DeviceTemplate
<1>8. template \in Contents /\ template # Nothing
  BY <1>5, <1>6 DEF DeviceTemplate, Contents, Nothing
<1>9. Truthful(template)
  BY <1>5, <1>6, <1>7 DEF Truthful
<1> HIDE DEF template
<1>10. n \in Records
  BY <1>1, <1>8 DEF Records, Busy
<1>11. /\ n.content = template /\ n.at = "save" /\ n.order = r.order
       /\ n.why = "none" /\ n.compared = NoComparison
  BY <1>1, <1>5 DEF Records
<1> HIDE DEF n
<1>12. StageOf(disk, i, n)
  BY <1>5, <1>7, <1>11 DEF StageOf, Over, Made
<1>13. VerdictOf(disk, i, n)
  BY <1>11 DEF VerdictOf, Over
<1>14. OutcomeOf(disk, i, n)
  BY <1>5, <1>9, <1>11 DEF OutcomeOf, Over
<1>15. cli' = [cli EXCEPT ![i] = cli'[i]]
  BY <1>3, <1>4
<1>. QED BY <1>1, <1>4, <1>10, <1>12, <1>13, <1>14, <1>15, OwnStep DEF Honest

\* A template is loaded.
LEMMA LoadStep == ASSUME AllHonest, NEW i \in Invocations, Load(i) PROVE AllHonest'
<1> DEFINE r == cli[i]
           template == disk[r.order.path]
           device == r.order.run = "verify_device"
           wrong == Provenance(r.bound, template)
           bad == \/ template.kind \notin {"host_image", "match_on_chip"} \/ ~ValidTemplate(template)
                  \/ device /\ template.kind # "match_on_chip"
           refused == device /\ wrong # "none"
           n == IF refused
                  THEN [r EXCEPT !.content = template, !.at = "report", !.why = wrong, !.code = 2]
                  ELSE [r EXCEPT !.content = template, !.at = "compare"]
<1>1. /\ cli \in [Invocations -> Records] /\ r \in Records /\ Honest(disk, i, r)
      /\ r.at = "load" /\ disk' = disk /\ roster' = roster /\ disk \in [Paths -> Contents]
      /\ \A p \in Paths : Truthful(disk[p])
  BY DEF AllHonest, TypeOK, Load
<1>2. CASE bad
  <2>1. Fails(i, "input")
    BY <1>2 DEF Load
  <2>. QED BY <2>1, <1>1, ErrorStep DEF Busy
<1>3. CASE ~bad
  <2>1. cli' = [cli EXCEPT ![i] = n]
    BY <1>3 DEF Load, Becomes, Keeps
  <2>2. cli'[i] = n
    BY <1>1, <2>1
  <2>3. /\ r.order \in Orders[i] /\ r.why = "none" /\ r.compared = NoComparison
        /\ r.order.run \in Verifications /\ (device => r.bound \in Sensors)
    BY <1>1, BusyFacts DEF Busy, Honest, StageOf
  <2>4. template \in Contents /\ Truthful(template)
    BY <1>1, <2>3, OrdersOf
  <2>5. /\ template.kind \in {"host_image", "match_on_chip"}
        /\ device => template.kind = "match_on_chip"
    BY <1>3
  <2>6. wrong \in {"driver", "profile", "none"}
    BY DEF Provenance
  <2> HIDE DEF template, wrong
  <2>8. n \in Records
    BY <1>1, <2>4, <2>6 DEF Records, Busy
  <2>9. /\ n.content = template /\ n.order = r.order /\ n.compared = NoComparison
        /\ n.bound = r.bound
        /\ n.at = (IF refused THEN "report" ELSE "compare")
        /\ n.why = (IF refused THEN wrong ELSE "none")
        /\ refused => n.code = 2
    BY <1>1, <2>3 DEF Records
  <2> HIDE DEF n
  <2>10. StageOf(disk, i, n)
    BY <2>3, <2>5, <2>9 DEF StageOf, Over, template, wrong
  <2>11. VerdictOf(disk, i, n)
    BY <2>9 DEF VerdictOf, Over
  <2>12. OutcomeOf(disk, i, n)
    <3>1. n.why # "content"
      BY <2>6, <2>9
    <3>2. n.why \in {"driver", "profile"} =>
            n.content.kind = "match_on_chip" /\ Provenance(n.bound, n.content) = n.why
      BY <2>5, <2>9 DEF wrong
    <3>3. n.order.run # "enroll" /\ n.order.run \notin {"synthetic", "enroll", "enroll_device"}
      BY <2>3, <2>9 DEF Verifications
    <3>. QED BY <3>1, <3>2, <3>3, <2>4, <2>9 DEF OutcomeOf
  <2>13. cli' = [cli EXCEPT ![i] = cli'[i]]
    BY <2>1, <2>2
  <2>. QED BY <1>1, <2>2, <2>8, <2>10, <2>11, <2>12, <2>13, OwnStep DEF Honest
<1>. QED BY <1>2, <1>3

\* verify on a sensor.
LEMMA VerifyDeviceStep == ASSUME AllHonest, NEW i \in Invocations, VerifyDevice(i) PROVE AllHonest'
<1> DEFINE r == cli[i]
<1>1. /\ cli \in [Invocations -> Records] /\ r \in Records /\ Honest(disk, i, r)
      /\ r.at = "compare" /\ r.order.run = "verify_device"
      /\ disk' = disk /\ roster' = roster /\ roster \in Seq(Sensors)
  BY SensorAssumption DEF AllHonest, TypeOK, VerifyDevice
<1>2. PICK sensor \in Opened(i), matched \in BOOLEAN :
        cli' = [cli EXCEPT ![i] = [r EXCEPT
          !.compared = [by |-> sensor, matched |-> matched],
          !.at = "report", !.code = IF matched THEN 0 ELSE 1]]
  BY DEF VerifyDevice, Becomes
<1> DEFINE n == [r EXCEPT !.compared = [by |-> sensor, matched |-> matched],
                          !.at = "report", !.code = IF matched THEN 0 ELSE 1]
<1>3. cli'[i] = n
  BY <1>1, <1>2
<1>4. /\ r.order \in Orders[i] /\ r.why = "none" /\ r.content.kind = "match_on_chip"
      /\ Provenance(r.bound, r.content) = "none" /\ disk[r.order.path] = r.content
  BY <1>1, BusyFacts DEF Busy, Honest, StageOf
<1>5. /\ sensor \in Sensors /\ Id[sensor] = Id[r.bound]
      /\ r.content.driver = Driver[r.bound] /\ r.content.profile = Id[r.bound]
  BY <1>1, <1>2, <1>4, OpenedFacts DEF Provenance
<1>6. n \in Records
  BY <1>1, <1>5 DEF Records
<1>7. /\ n.compared = [by |-> sensor, matched |-> matched] /\ n.at = "report"
      /\ n.code = (IF matched THEN 0 ELSE 1)
      /\ n.order = r.order /\ n.content = r.content /\ n.why = "none" /\ n.bound = r.bound
  BY <1>1, <1>4 DEF Records
<1> HIDE DEF n
<1>8. StageOf(disk, i, n)
  BY <1>4, <1>7 DEF StageOf, Over
<1>9. VerdictOf(disk, i, n)
  <2>1. n.compared # NoComparison /\ n.compared.by = sensor /\ n.compared.matched = matched
    BY <1>7 DEF NoComparison
  <2>2. n.code = IF n.compared.matched THEN 0 ELSE 1
    BY <1>7, <2>1
  <2>3. /\ n.compared.by \in Sensors /\ n.content.kind = "match_on_chip"
        /\ Id[n.compared.by] = n.content.profile
        /\ n.content.driver = Driver[n.bound]
    BY <1>4, <1>5, <1>7, <2>1
  <2>4. /\ Over(n) /\ n.order.run # "verify" /\ n.order.run \in Verifications
        /\ disk[n.order.path] = n.content /\ n.content # Nothing
    BY <1>1, <1>4, <1>7 DEF Over, Verifications, Nothing
  <2>. QED BY <2>1, <2>2, <2>3, <2>4, Zenon DEF VerdictOf
<1>10. OutcomeOf(disk, i, n)
  BY <1>1, <1>7 DEF OutcomeOf, Over, Honest
<1>11. cli' = [cli EXCEPT ![i] = cli'[i]]
  BY <1>2, <1>3
<1>. QED BY <1>1, <1>3, <1>6, <1>8, <1>9, <1>10, <1>11, OwnStep DEF Honest
-----------------------------------------------------------------------------
(* Saving, and the end *)

\* What is about to be saved is fit for the disk.
LEMMA SavingFacts ==
  ASSUME AllHonest, NEW i \in Invocations, cli[i].at = "save"
  PROVE  /\ cli[i].order \in Orders[i] /\ cli[i].order.path \in Paths
         /\ cli[i].content \in Contents /\ Truthful(cli[i].content)
         /\ Made(cli[i].order.run, cli[i].content) /\ cli[i].content # Nothing
         /\ cli[i].order.run \notin Verifications
<1>1. cli[i] \in Records /\ Honest(disk, i, cli[i])
  BY DEF AllHonest, TypeOK
<1>2. cli[i].order \in Orders[i] /\ Made(cli[i].order.run, cli[i].content)
  BY <1>1 DEF Honest, StageOf
<1>3. cli[i].content \in Contents /\ Truthful(cli[i].content)
  BY <1>1 DEF Honest, OutcomeOf, Records
<1>4. cli[i].content # Nothing
  BY <1>2 DEF Made, Nothing
<1>. QED BY <1>2, <1>3, <1>4, OrdersOf DEF Made, Verifications

\* What was made is saved.
LEMMA SaveStep == ASSUME AllHonest, NEW i \in Invocations, Save(i) PROVE AllHonest'
<1> DEFINE r == cli[i]
           path == r.order.path
<1>1. /\ cli \in [Invocations -> Records] /\ r \in Records /\ Honest(disk, i, r)
      /\ r.at = "save" /\ roster' = roster /\ disk \in [Paths -> Contents]
  BY DEF AllHonest, TypeOK, Save
<1>2. /\ r.order \in Orders[i] /\ path \in Paths /\ r.content \in Contents
      /\ Truthful(r.content) /\ Made(r.order.run, r.content) /\ r.content # Nothing
      /\ r.order.run \notin Verifications
  BY <1>1, SavingFacts
<1>3. CASE ~ValidTemplate(r.content)
  <2> DEFINE n == [r EXCEPT !.at = "report", !.why = "content", !.code = 2]
  <2>1. cli' = [cli EXCEPT ![i] = n] /\ disk' = disk
    BY <1>1, <1>3 DEF Save, Fails, Becomes
  <2>2. cli'[i] = n
    BY <1>1, <2>1
  <2>3. r.compared = NoComparison
    BY <1>1, BusyFacts DEF Busy
  <2>4. n \in Records
    BY <1>1 DEF Records
  <2>5. /\ n.at = "report" /\ n.why = "content" /\ n.code = 2 /\ n.order = r.order
        /\ n.content = r.content /\ n.compared = NoComparison
    BY <1>1, <2>3 DEF Records
  <2> HIDE DEF n
  <2>6. r.content.kind = "host_image" /\ Made("enroll", r.content)
    BY <1>2, <1>3 DEF ValidTemplate, Made
  <2>7. StageOf(disk, i, n)
    BY <1>2, <2>5 DEF StageOf, Over
  <2>8. VerdictOf(disk, i, n)
    BY <1>2, <2>5 DEF VerdictOf, Over
  <2>9. OutcomeOf(disk, i, n)
    BY <1>2, <1>3, <2>5, <2>6 DEF OutcomeOf, Over
  <2>10. cli' = [cli EXCEPT ![i] = cli'[i]]
    BY <2>1, <2>2
  <2>. QED BY <1>1, <2>1, <2>2, <2>4, <2>7, <2>8, <2>9, <2>10, OwnStep DEF Honest
<1>4. CASE ValidTemplate(r.content) /\ disk[path] # Nothing
  <2>1. Fails(i, "taken") /\ disk' = disk
    BY <1>4 DEF Save
  <2>. QED BY <2>1, <1>1, ErrorStep DEF Busy
<1>5. CASE ValidTemplate(r.content) /\ disk[path] = Nothing
  <2> DEFINE n == [r EXCEPT !.at = "report", !.code = 0]
  <2>1. cli' = [cli EXCEPT ![i] = n] /\ disk' = [disk EXCEPT ![path] = r.content]
    BY <1>5 DEF Save, Succeeds, Becomes
  <2>2. cli'[i] = n /\ disk'[path] = r.content
    BY <1>1, <1>2, <2>1
  <2>3. \A q \in Paths : disk[q] # Nothing => disk'[q] = disk[q]
    BY <1>1, <1>5, <2>1
  <2>4. Honest(disk', i, r)
    BY <1>1, <2>3, HonestAsDiskGrows
  <2>5. n \in Records /\ Honest(disk', i, n)
    <3>1. r.at \in Busy
      BY <1>1 DEF Busy
    <3>. QED BY <1>1, <1>2, <2>2, <2>4, <3>1, SuccessIsHonest
  <2>6. cli' = [cli EXCEPT ![i] = cli'[i]] /\ disk' = [disk EXCEPT ![path] = disk'[path]]
    BY <2>1, <2>2
  <2>. QED BY <1>1, <1>2, <1>5, <2>2, <2>5, <2>6, SavingStep
<1>. QED BY <1>3, <1>4, <1>5

\* What a save leaves that is cut short: nothing, a remnant or all of it, where
\* nothing was; or the disk as it is.
LEMMA LeavesFacts ==
  ASSUME AllHonest, NEW i \in Invocations, Leaves(i)
  PROVE  \/ disk' = disk
         \/ \E p \in Paths : /\ disk' = [disk EXCEPT ![p] = disk'[p]] /\ disk[p] = Nothing
                             /\ disk'[p] \in Contents /\ Truthful(disk'[p])
<1>1. CASE ~(cli[i].at = "save" /\ ValidTemplate(cli[i].content)
               /\ disk[cli[i].order.path] = Nothing)
  BY <1>1 DEF Leaves
<1>2. CASE cli[i].at = "save" /\ ValidTemplate(cli[i].content)
             /\ disk[cli[i].order.path] = Nothing
  <2> DEFINE path == cli[i].order.path
  <2>1. path \in Paths /\ cli[i].content \in Contents /\ Truthful(cli[i].content)
    BY <1>2, SavingFacts
  <2>2. PICK left \in {Nothing, Remnant, cli[i].content} : disk' = [disk EXCEPT ![path] = left]
    BY <1>2 DEF Leaves
  <2>3. left \in Contents /\ Truthful(left)
    BY <2>1, NothingIsFree DEF Contents
  <2>4. disk'[path] = left
    BY <2>1, <2>2 DEF AllHonest, TypeOK
  <2>. QED BY <1>2, <2>1, <2>2, <2>3, <2>4
<1>. QED BY <1>1, <1>2

\* A step that may leave something behind, of an invocation whose new record is
\* honest whatever it leaves.
LEMMA LeavingStep ==
  ASSUME AllHonest, NEW i \in Invocations, Leaves(i), roster' = roster,
         cli' = [cli EXCEPT ![i] = cli'[i]], cli'[i] \in Records, Honest(disk, i, cli'[i])
  PROVE  AllHonest'
<1>1. CASE disk' = disk
  BY <1>1, OwnStep
<1>2. ASSUME NEW p \in Paths, disk' = [disk EXCEPT ![p] = disk'[p]], disk[p] = Nothing,
             disk'[p] \in Contents, Truthful(disk'[p])
      PROVE  AllHonest'
  <2>1. \A q \in Paths : disk[q] # Nothing => disk'[q] = disk[q]
    BY <1>2 DEF AllHonest, TypeOK
  <2>2. Honest(disk', i, cli'[i])
    BY <2>1, HonestAsDiskGrows
  <2>. QED BY <1>2, <2>2, SavingStep
<1>. QED BY <1>1, <1>2, LeavesFacts

\* An invocation fails on the way.
LEMMA BreakStep == ASSUME AllHonest, NEW i \in Invocations, Break(i) PROVE AllHonest'
<1>1. /\ cli \in [Invocations -> Records] /\ cli[i] \in Records /\ Honest(disk, i, cli[i])
      /\ cli[i].at \in Busy /\ roster' = roster /\ Leaves(i)
  BY DEF AllHonest, TypeOK, Break
<1>2. cli' = [cli EXCEPT ![i] = [cli[i] EXCEPT !.at = "report", !.why = "failure", !.code = 2]]
  BY DEF Break, Fails, Becomes
<1>3. cli'[i] = [cli[i] EXCEPT !.at = "report", !.why = "failure", !.code = 2]
  BY <1>1, <1>2
<1>4. cli'[i] \in Records /\ Honest(disk, i, cli'[i])
  <2>1. /\ [cli[i] EXCEPT !.at = "report", !.why = "failure", !.code = 2] \in Records
        /\ Honest(disk, i, [cli[i] EXCEPT !.at = "report", !.why = "failure", !.code = 2])
    BY <1>1, ErrorsAreHonest
  <2>. QED BY <1>3, <2>1
<1>5. cli' = [cli EXCEPT ![i] = cli'[i]]
  BY <1>2, <1>3
<1>. QED BY <1>1, <1>4, <1>5, LeavingStep

\* An invocation is killed.
LEMMA DieStep == ASSUME AllHonest, NEW i \in Invocations, Die(i) PROVE AllHonest'
<1>1. cli \in [Invocations -> Records] /\ roster' = roster /\ Leaves(i)
  BY DEF AllHonest, TypeOK, Die
<1>2. cli' = [cli EXCEPT ![i] = [Idle EXCEPT !.at = "dead"]]
  BY DEF Die, Becomes
<1>3. cli'[i] = [at |-> "dead", order |-> NoOrder, bound |-> "none", samples |-> <<>>,
                 content |-> Nothing, compared |-> NoComparison, why |-> "none", code |-> 0]
  BY <1>1, <1>2 DEF Idle
<1>4. cli'[i] \in Records
  BY <1>3, NothingIsFree DEF Records
<1>5. Honest(disk, i, cli'[i])
  BY <1>3, NothingIsFree DEF Honest, StageOf, VerdictOf, OutcomeOf, Over, NoOrder, Nothing
<1>6. cli' = [cli EXCEPT ![i] = cli'[i]]
  BY <1>1, <1>2
<1>. QED BY <1>1, <1>4, <1>5, <1>6, LeavingStep

\* An invocation exits with a code.
LEMMA ExitStep == ASSUME AllHonest, NEW i \in Invocations, Exit(i) PROVE AllHonest'
<1> DEFINE r == cli[i]
           n == [r EXCEPT !.at = "exited"]
<1>1. /\ cli \in [Invocations -> Records] /\ r \in Records /\ Honest(disk, i, r)
      /\ r.at = "report" /\ disk' = disk /\ roster' = roster
  BY DEF AllHonest, TypeOK, Exit
<1>2. cli' = [cli EXCEPT ![i] = n]
  BY DEF Exit, Becomes
<1>3. cli'[i] = n
  BY <1>1, <1>2
<1>4. n \in Records
  BY <1>1 DEF Records
<1>5. /\ n.at = "exited" /\ n.order = r.order /\ n.bound = r.bound /\ n.content = r.content
      /\ n.compared = r.compared /\ n.why = r.why /\ n.code = r.code
  BY <1>1 DEF Records
<1> HIDE DEF n
<1>6. StageOf(disk, i, n)
  BY <1>1, <1>5 DEF Honest, StageOf, Over
<1>7. VerdictOf(disk, i, n)
  BY <1>1, <1>5 DEF Honest, VerdictOf, Over
<1>8. OutcomeOf(disk, i, n)
  BY <1>1, <1>5 DEF Honest, OutcomeOf, Over
<1>9. cli' = [cli EXCEPT ![i] = cli'[i]]
  BY <1>2, <1>3
<1>. QED BY <1>1, <1>3, <1>4, <1>6, <1>7, <1>8, <1>9, OwnStep DEF Honest

\* Every step of every invocation keeps the invariant.
LEMMA HonestNext == AllHonest /\ [Next]_vars => AllHonest'
<1>. SUFFICES ASSUME AllHonest, [Next]_vars PROVE AllHonest'
  OBVIOUS
<1>1. CASE Plug
  BY <1>1 DEF Plug, AllHonest, TypeOK
<1>2. ASSUME NEW i \in Invocations, Execute(i) PROVE AllHonest'
  <2>1. CASE Inspect(i)
    <3>1. cli[i].at = "inspect" /\ disk' = disk /\ roster' = roster
            /\ (Succeeds(i) \/ Fails(i, "input"))
      BY <2>1 DEF Inspect
    <3>. QED BY <3>1, ReadingStep, ErrorStep DEF Busy
  <2>2. CASE Demo(i)
    <3>1. cli[i].at = "demo" /\ disk' = disk /\ roster' = roster
            /\ (Succeeds(i) \/ Fails(i, "demo"))
      BY <2>2 DEF Demo
    <3>. QED BY <3>1, ReadingStep, ErrorStep DEF Busy
  <2>. QED BY <1>2, <2>1, <2>2, InvokeStep, GenerateStep, TakeSampleStep, VerifyCaptureStep,
              SpawnStep, EnrollDeviceStep, LoadStep, VerifyDeviceStep, SaveStep, BreakStep,
              DieStep, ExitStep
           DEF Execute
<1>3. CASE UNCHANGED vars
  BY <1>3 DEF vars, AllHonest, TypeOK
<1>. QED BY <1>1, <1>2, <1>3 DEF Next

\* The inductive invariant: every invocation's record is honest about the disk,
\* whatever other invocations do.
THEOREM HonestAlways == Spec => []AllHonest
<1>. QED BY HonestInit, HonestNext, PTL DEF Spec
-----------------------------------------------------------------------------
(* What follows *)

\* Exit codes 0 and 1 of a verification tell of a comparison with the template
\* at the path, and no other command exits 1.
THEOREM ExitCodesTell == Spec => []ExitsTell
<1>1. AllHonest => ExitsTell
  <2>. SUFFICES ASSUME AllHonest, NEW i \in Invocations, NEW code \in {0, 1},
                       Exited(i, code),
                       cli[i].order.run \in Verifications \/ code = 1
                PROVE  /\ cli[i].order.run \in Verifications
                       /\ disk[cli[i].order.path] = cli[i].content
                       /\ cli[i].compared # NoComparison
                       /\ code = 0 <=> cli[i].compared.matched
                       /\ cli[i].order.run = "verify" =>
                            (cli[i].compared.matched <=>
                               \E k \in 1..Len(cli[i].content.samples) :
                                 Score[cli[i].compared.by, cli[i].content.samples[k]] >= Threshold)
    BY DEF ExitsTell
  <2> DEFINE r == cli[i]
  <2>1. r \in Records /\ Honest(disk, i, r) /\ Over(r) /\ r.code = code
    BY DEF AllHonest, TypeOK, Exited, Over
  <2>2. r.compared # NoComparison
    BY <2>1 DEF Honest, VerdictOf
  <2>3. r.order.run \in Verifications /\ disk[r.order.path] = r.content
    BY <2>1, <2>2 DEF Honest, VerdictOf
  <2>4. code = 0 <=> r.compared.matched
    <3>1. r.compared.matched \in BOOLEAN
      BY <2>1, <2>2 DEF Records
    <3>2. r.code = IF r.compared.matched THEN 0 ELSE 1
      BY <2>1, <2>2 DEF Honest, VerdictOf
    <3>. QED BY <2>1, <3>1, <3>2
  <2>5. ASSUME r.order.run = "verify"
        PROVE  r.compared.matched <=>
                 \E k \in 1..Len(r.content.samples) :
                   Score[r.compared.by, r.content.samples[k]] >= Threshold
    <3> DEFINE samples == r.content.samples
               c == r.compared.by
    <3>1. c \in Captures /\ Comparable(r.content, c) /\ r.compared.matched = Matches(samples, c)
      BY <2>1, <2>2, <2>5 DEF Honest, VerdictOf
    <3>. QED BY <3>1 DEF Matches
  <2>. QED BY <2>2, <2>3, <2>4, <2>5
<1>. QED BY <1>1, HonestAlways, PTL

\* A save that was reported stays.
THEOREM CreationsStay == Spec => []CreatedIsKept
<1>1. AllHonest => CreatedIsKept
  <2>. SUFFICES ASSUME AllHonest, NEW i \in Invocations, Exited(i, 0),
                       cli[i].order.run \in {"synthetic", "enroll", "enroll_device"}
                PROVE  /\ disk[cli[i].order.path] = cli[i].content
                       /\ cli[i].content.kind =
                            CASE cli[i].order.run = "synthetic" -> "capture"
                              [] cli[i].order.run = "enroll" -> "host_image"
                              [] OTHER -> "match_on_chip"
    BY DEF CreatedIsKept
  <2>1. OutcomeOf(disk, i, cli[i]) /\ Over(cli[i])
    BY DEF AllHonest, Honest, Exited, Over
  <2>2. /\ disk[cli[i].order.path] = cli[i].content
        /\ Made(cli[i].order.run, cli[i].content)
    BY <2>1 DEF OutcomeOf, Exited
  <2>. QED BY <2>2 DEF Made
<1>. QED BY <1>1, HonestAlways, PTL

\* Captures and sensors are compared only with templates that are for them.
THEOREM ComparisonsFit == Spec => []ComparisonsAreFit
<1>1. AllHonest => ComparisonsAreFit
  BY DEF AllHonest, Honest, VerdictOf, ComparisonsAreFit, Comparable, Verifications
<1>. QED BY <1>1, HonestAlways, PTL

\* The samples of an enrollment are of one profile and pass the policy.
THEOREM EnrollmentsAreAlike == Spec => []SamplesAreAlike
<1>1. AllHonest => SamplesAreAlike
  BY DEF AllHonest, Honest, OutcomeOf, SamplesAreAlike, Made, Alike, Comparable
<1>. QED BY <1>1, HonestAlways, PTL

\* What the policy of the engine accepts, the template's validation refuses only
\* for the number or the range of the minutiae.
THEOREM RefusalsAreForMinutiae == Spec => []RefusedForAMinutia
<1>1. AllHonest => RefusedForAMinutia
  <2>. SUFFICES ASSUME AllHonest, NEW i \in Invocations, cli[i].why = "content"
                PROVE  \E k \in 1..SampleCount :
                         LET found == Found[cli[i].content.samples[k]] IN
                         found.count > MaxMinutiae \/ ~found.percents \/ ~found.inside
    BY DEF RefusedForAMinutia
  <2> DEFINE t == cli[i].content
  <2>1. /\ t \in Contents /\ t.kind = "host_image" /\ Made("enroll", t) /\ ~ValidTemplate(t)
    BY DEF AllHonest, TypeOK, Records, Honest, OutcomeOf
  <2>2. t.samples \in Seq(Captures) /\ Len(t.samples) = SampleCount /\ Alike(t.samples)
    BY <2>1, KindsOf DEF Made
  <2>3. PICK k \in 1..SampleCount : ~ValidSample(SampleOf(Found[t.samples[k]]))
    BY <2>1, <2>2 DEF ValidTemplate
  <2>4. t.samples[k] \in Captures /\ Analyzed(t.samples[k])
    BY <2>2, <2>3 DEF Alike
  <2> DEFINE found == Found[t.samples[k]]
  <2>5. /\ found \in Minutiae /\ Analyzes(found)
        /\ found.percents => found.sum <= 100 * found.count
    BY <2>4, CaptureAssumption DEF Analyzed
  <2>6. ~(found.count <= MaxMinutiae /\ found.percents /\ found.inside)
    <3> HIDE DEF found
    <3>. QED BY <2>3, <2>5, AnalyzedIsValid DEF found
  <2>7. found.count \in Nat
    BY <2>5 DEF Minutiae
  <2>. QED BY <2>3, <2>6, <2>7, PolicyAssumption
<1>. QED BY <1>1, HonestAlways, PTL

\* Whatever ids the drivers use, a blob is given only to a sensor of its maker's
\* id, and to one of another driver only if a sensor other than the one bound to
\* was opened, at the enrollment or now (moc.rs, main.rs).
THEOREM MisledOnlyByASwap == Spec => []OnlyASwapMisleads
<1>1. AllHonest => OnlyASwapMisleads
  <2>. SUFFICES ASSUME AllHonest, NEW i \in Invocations, cli[i].compared # NoComparison,
                       cli[i].order.run = "verify_device"
                PROVE  /\ Id[cli[i].compared.by] = Id[cli[i].content.blob]
                       /\ cli[i].content.driver = Driver[cli[i].bound]
    BY DEF OnlyASwapMisleads
  <2>1. /\ Truthful(cli[i].content) /\ cli[i].content.kind = "match_on_chip"
        /\ Id[cli[i].compared.by] = cli[i].content.profile
        /\ cli[i].content.driver = Driver[cli[i].bound]
    BY DEF AllHonest, Honest, VerdictOf, OutcomeOf
  <2>. QED BY <2>1 DEF Truthful
<1>. QED BY <1>1, HonestAlways, PTL

\* Whatever ids the drivers use, the sensor that made a template is refused for
\* the template's provenance only if a worker bound to a sensor of another
\* driver opened it when it enrolled (moc::verify_device).
THEOREM RefusedOnlyByASwap == Spec => []OnlyASwapRefuses
<1>1. AllHonest => OnlyASwapRefuses
  <2>. SUFFICES ASSUME AllHonest, NEW i \in Invocations, cli[i].why \in {"driver", "profile"},
                       cli[i].bound = cli[i].content.blob
                PROVE  /\ cli[i].why = "driver"
                       /\ \E s \in Sensors :
                            /\ Id[s] = Id[cli[i].bound] /\ Driver[s] = cli[i].content.driver
                            /\ Driver[s] # Driver[cli[i].bound]
    BY DEF OnlyASwapRefuses
  <2>1. /\ Truthful(cli[i].content) /\ cli[i].content.kind = "match_on_chip"
        /\ Provenance(cli[i].bound, cli[i].content) = cli[i].why
    BY DEF AllHonest, Honest, OutcomeOf
  <2>2. PICK s \in Sensors : Driver[s] = cli[i].content.driver /\ Id[s] = cli[i].content.profile
    BY <2>1 DEF Truthful
  <2>3. Id[cli[i].bound] = cli[i].content.profile
    BY <2>1 DEF Truthful
  <2>4. cli[i].why = "driver" /\ cli[i].content.driver # Driver[cli[i].bound]
    BY <2>1, <2>3 DEF Provenance
  <2>. QED BY <2>2, <2>3, <2>4
<1>. QED BY <1>1, HonestAlways, PTL
=============================================================================
