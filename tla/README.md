# fingerprint-kit: a TLA+ development

Modules, model-checking configurations and machine-checked proofs for the
fingerprint-kit repository. Paths below are relative to the repository root, so
`src/protocol.rs` is `src/src/protocol.rs` in `PROJECT.json`, and "the worker" is
`crates/fpk-driver-libfprint/src/main.rs`.

## 1. Inventory

The kit captures, enrolls and verifies fingerprints. Two families of sensor exist:
*host-image* sensors deliver pictures, matched on the host by mindtct and bozorth3;
*match-on-chip* sensors keep the biometric and hand out an opaque template. The
second family is driven by a worker process, because its C library may crash.

| Component | Source | State | Operations | What makes it correct |
|---|---|---|---|---|
| Session validator | `src/protocol.rs` | session state (10 variants), request and operation identifiers seen | `new`, `accept_request`, `accept_response` | one request unanswered and one operation live at a time; identifiers used once; nothing completes without its result; bounded memory; no dead end |
| JSON Lines codec | `src/protocol.rs` | none | encode and decode of lines, templates, frames | what passes the first limit passes all later ones and arrives whole; nothing is decoded past its limit |
| libfprint worker | worker | a validator, the answers not yet written | read a line, dispatch, `enumerate`, `enroll`, `verify`, `emit` | at rest between lines; every operation at most once; exits when its host is gone |
| Worker device | `src/worker.rs` | child process, pipes, a validator, bound device, `next_id` | `spawn`, `enroll`, `verify`, `drop` | an answer is the device's own for this very call; no line is left for the next call; calls end |
| Match-on-chip seam | `src/moc.rs` | none | `enroll_device`, `verify_device` | a template reaches only a sensor of the driver and model it came from, and is taken there, as far as ids tell them apart |
| Template store | `src/template.rs` | one file per template | `save_template`, `load_template` | a path is a write-once register; what can be saved can be loaded |
| Capture bundle | `src/bundle.rs`, `src/io_util.rs` | one directory of two files per capture | `save_capture_bundle`, `load_capture_bundle` | a write-once register; never half a bundle, never a mixture of two |
| Domain values | `src/domain.rs` | none | validating constructors | what is constructed is valid |
| Matching engine | `src/engine.rs` | none | `inspect`, `enroll_paths`, `verify` | three samples of one profile; a verdict is a score against a threshold; what it enrolls can be saved |
| Entry points, command line | `src/lib.rs`, `src/main.rs` | none | the public functions, exit codes 0, 1 and 2 | exit code 1 means a stranger's finger and nothing else |
| Capture sources, synthetic data | `src/source.rs`, `src/synthetic.rs` | none | replay, generate | a replay is what was saved |
| Errors | `src/error.rs` | none | categories of errors | outside what is modelled |

**How they interact.** The command line calls the entry points. Those for
match-on-chip devices spawn a `WorkerDevice`, which runs the worker as a child process
and talks to it over its standard input and output, one JSON line per message. Host
and worker *each* hold a `SessionValidator`: each validates what it is about to send
and what it has read. They share nothing else. The worker reads nothing while its
device works, collects all the answers to a request and writes them at the end.
`WorkerDevice::enroll` calls back into its caller on every stage. Templates and captures
are passed between invocations as files, which several processes may save and load at
once; the file system is all they share.

**What is hard here.** The two validators advance at different times, with lines under
way between them. The worker can die anywhere, the host can leave anywhere, a pipe can
fill. The worker checks its own output and ends itself if it does not like it. There is
no timeout. Identifiers are used up. A file can be seen while it is being written, its writer may
stop half way, and nothing is cleaned up. A worker binds to a sensor when it is spawned and
looks it up again, by its id, when the operation starts. Whether the path of an enrollment is
free is known only when the finger has been presented. Four limits in different units lie
on the way of one payload. `PROJECT.json` lists the hazards, each at its line.

## 2. Modules

```
SessionRules        what one validator does with one message (operators, no variables)
 |- SessionValidator      one validator, any messages       refines  Conversation
 |- DuplexSession         two validators and two pipes
 |   `- TurnTaking        ... whose host does not cancel
 `- DriverWorker          the worker process, the pipes, the device
     |- AnyHost           ... and a host that may do anything
     `- WorkerSession     ... and the WorkerDevice      refines  AtomicDevice

StoredFile          a file that is written in steps (operators, no variables)
 |- TemplateStore         one template path               refines  WriteOnce
 `- CaptureBundle         one bundle path, two files      refines  WriteOnce

MatchingPolicy      what is accepted of minutiae (operators, no variables)
 `- Commands              invocations that share files and sensors

CodecLimits         the limits on the way of one payload

SessionRulesProofs, SessionValidatorProofs, TurnTakingProofs,
WorkerProofs, TemplateStoreProofs, CaptureBundleProofs,
CommandsProofs, CodecLimitsProofs                                 theorems
MCSessionValidator, MCTurnTaking, MCDuplexSession, MCAnyHost,
MCWorkerSession, MCTemplateStore, MCCaptureBundle,
MCCommands, MCCodecLimits                                         instances for TLC
```

**`SessionRules`** translates `validate_request`, `validate_response`, `accept_request`,
`accept_response` and `accept_error_response`. A validator is a record: `phase` is the
variant of `SessionState`, the other fields the data of the variants, at rest where a
variant does not carry them. `AcceptsRequest(s, m)` and `AcceptsResponse(s, m)` say when
the code returns `Ok`; `AfterRequest(s, m)` and `AfterResponse(s, m)` what it leaves
behind. A rejected message leaves the validator alone. Identifiers that
`validate_identifier` accepts are `Ids`, one that it refuses is `BadId`; everything else
in a message that is only checked for validity (names, base64, geometry, lengths) is
the single field `data`.

**`SessionValidator`** feeds one validator with any message in any order, and writes
down, as an observer who does not know the validator would, what became of every
request (`asks`) and operation (`ops`) and the numbers each operation reported
(`trail`). **`Conversation`** is the abstract specification on `asks`, `ops` and a
`channel` that is new, open or closed: it has no phases and no validator. The
refinement maps `channel` to the phase and the rest to the notes.

**`DuplexSession`** is two validators and two FIFO pipes; each end sends whatever its own
validator accepts. `HostTypes` restricts what the host makes use of. **`TurnTaking`**
assumes that this leaves out `cancel`, which `WorkerDevice` never sends.

**`DriverWorker`** is `run`, one action per step: take a line (`SkipBlank`,
`RefuseMalformed`, `RefuseOutOfOrder`, `Take`; one that is not UTF-8 ends it, `FailRead`), let the device work and decide all
answers (`Serve`, with `dispatch`, `enumerate`, `enroll`, `verify`), write one answer or
fail the self check (`Emit`, `FailSelfCheck`), end of input, and death. The device is
external: an enumeration yields any list, whose ids and driver names nothing looks at before the worker's
own validator does (`DevicesTo`, `FitList`), an enrollment a series of progress callbacks
and a template, a verification a verdict, or any of them an error with a short or an
over-long text.

**`AnyHost`** adds a host that writes any line, reads and leaves at any time.
**`WorkerSession`** adds the `WorkerDevice`: `Greet`, `List` and `Bind` are `spawn`;
`Enroll` and `Verify` mint identifiers and send; `Receive` is one turn of their loops
and of `exchange_one`; `Panic` is a progress callback that unwinds; `Drop` and
`WaitReturns` are `drop`. `mint` numbers identifiers, so here an identifier is its
number. `answers[o]` keeps what the call of operation `o` returned and `did[o]` what the
device did as operation `o`. **`AtomicDevice`** is what all this promises the caller: a sensor without
worker, lines or sessions, that may break for good, is asked one thing at a time, works at most once
for it, and only while the caller waits. The refinement maps `alive` to a running worker, `calls` to
the call under way and `answers`, and `works` to `did`. It is what `Commands` takes a worker device for.
Its `Honest` says what comes of it, in terms of `calls` and `works` alone.

**`StoredFile`** is a file as `create_new`, `write_all` and `sync_all` make it: of which
value it is, how much of it has been written, and whether it was synced. It decodes if
and only if all of it is there: a strict prefix of the JSON object is unclosed, a strict
prefix of the image has too few pixels for its header. **`TemplateStore`** is
`save_template` and `load_template` on one path, **`CaptureBundle`** is
`save_capture_bundle` and `load_capture_bundle` on one directory; in both any number of
callers interleave at every operation of the file system, and `Stop`, `StopLoading` and
`PowerLoss` cut them short. A loader's `saved` is history: a save had returned when the load
began. **`WriteOnce`** is what both promise: a register that takes one value, all at once,
and keeps it. The refinements hold a value as soon as the last file is whole, which is
before its save returns; a save that dies just then has taken effect.

**`Commands`** is the command line as the user meets it: any number of processes, each
told one of seven things (`Orders`), on the same paths and with the same sensors plugged
in. An invocation is a record whose `at` is the next call of its entry point: `spawn`,
`enroll` and `save` for `enroll-device`, for example. What has a module of its own is one
step here. A path is the register of `WriteOnce`: `Save` takes it or fails, and a save that is cut short
(`Leaves`) may leave a remnant that neither loads nor goes away. A call of the worker device
returns the device's answer or an error, as `WorkerSession` shows. `Plug` changes the
sensors at any time; `Spawn` takes the first that is listed, and `Opened` is any that is
listed under the same id when the operation starts. A template's `blob` is the
sensor that made it, which the code cannot see. **`MatchingPolicy`** is the arithmetic of
`analyze` and of `validate_host_image_template` on the summary of a list of
minutiae, which `WithMinutia` builds one minutia at a time.

**`CodecLimits`** follows one payload, by its length alone: from a sensor into base64, into
a message, a line, to the other end, into a file, out of it, and back to the sensor that
is to verify. A peer and a file may also hold texts that this code never makes (`Send`,
`Place`). `Encoded` and `DecodedLength` are base64, `Estimated` is the guess that is made
before decoding, `TakesLine` the treatment of the line's end. `size` remembers what the
sensor handed over.

Definitions whose comment begins with "Faulty" are not part of the model. Each is a
definition of the module with a plausible mistake in it, and `PROJECT.json` names the
property that fails when it takes the right one's place.

## 3. What is checked

| Run | Instance | Shows |
|---|---|---|
| `validator` | 5 identifiers, limit 4, 2 frame numbers, 3 stage counts, 2 versions; symmetric identifiers; 45,538 states | the validator implements `Conversation` (`KeepsPromises`), reports ascend over whole operations (`TrailsAscend`), what was asked can be answered, and what is live can be failed, under its own identifier, and it is never stuck before its limit (`NoDeadEnd`), tracks exactly the identifiers used and at most the limit (`TrackingBounded`); `Summary` is the inductive invariant of the proofs |
| `turn_taking` | 5 identifiers, limit 4, pipes of 3 lines; 4,668 states | without `cancel` neither end refuses a line of the other, however delayed, and they agree when nothing is under way; `Connected` is the inductive invariant |
| `crossing_cancel` | 4 identifiers | **violation**: with `cancel` they do refuse each other's lines |
| `worker_any_host` | 3 identifiers, limit 3, one waiting line, one line of pipe, 2 devices in a list at most, good and bad devices; 1,209,619 states | the worker is at rest between lines, does every operation at most once, refuses its own output only for a listed cause, and exits when its host has left (`ExitsWhenLeft`) |
| `worker_refusals` | the same, good device | **violation**: a malformed line ends the worker |
| `session` | 4 calls, limit 5, two-line pipe, every failure, death and panic; 140,954 states | the two processes implement `AtomicDevice` (`CallsAreAtomic`); no `unexpected` arm is taken, nothing is left between calls, the worker fails its self check for four causes only (`WorkerFailsForACause`); calls and spawn end, and so do drops unless the callback panicked (`QuietDropReturns`) |
| `session_panic` | the same, good device, limit 6 | **violation**: after a panic host and worker deadlock in `drop` |
| `template_store` | 4 savers (a small template, one of the limit, one over it, one invalid), 2 loaders, 1 power loss; 76,384 states | the path is a write-once register (`WritesOnce`), what was saved stays (`SavedStays`), a load that begins after a save is not refused (`SavedLoads`); `Stored` is the inductive invariant |
| `capture_bundle` | 3 savers (one of a capture whose metadata disagrees with its image), 2 loaders, 1 power loss; 110,360 states | the same for two files, and what loads is the metadata and image of one fit capture (`LoadsAreWhole`) |
| `commands` | 3 invocations (enrolling, creating, verifying), one template path, five bundle paths, five captures, three sensors of two drivers, two of them under one id; 2,356,652 states | exit codes tell what took place (`ExitsTell`), what was created stays (`CreatedIsKept`), nothing unfit is compared (`ComparisonsAreFit`, `SamplesAreAlike`), nothing fit is refused (`RefusedForAMinutia`); a blob goes by its maker's id and only an exchange of sensors misleads it (`OnlyASwapMisleads`) or has its maker refused (`OnlyASwapRefuses`) |
| `device_swap` | two drivers that use one id | **violation**: a blob reaches another driver's sensor |
| `codec_limits` | the limits of the code; lengths within 3 of each of them, every padding; 15,825 states | what is refused is refused at the first limit (`RefusedAtOnce`), what arrives is whole (`ArrivesWhole`), estimate and line end refuse nothing that fits (`RefusedForItsSize`), at most two bytes too many are decoded (`NeverOver`) |

**Bounds.** Five identifiers are one more than the limit of four, so that sessions end
at the limit and a refused extra request is seen; within it a session holds a hello, an
operation, its cancellation and one request more. Two frame numbers and two stages are
what "ascending" needs. `Versions` holds the accepted version and another. Pipes hold
one to three lines, fewer than the longest series of answers, so writers block. In
`WorkerSession` `Ids` is `1..11`: hello, enumerate, four calls of two identifiers, and
shutdown; every kind of call follows every other and every ending. The
identifier limit is 5 in `session`: three calls are within it, the fourth exceeds it, and the
shutdown does if three went before; before that all fit, as they do under the code's 4096. In
`worker_any_host` a limit of 3 leaves room for a hello and two starts, which is what carrying an operation
out twice would take. There hellos carry one identifier only: until one is taken, the identifiers are alike.
`Backlog` bounds what an unknown host writes ahead of the worker. `MaxDevices` is 2 in place of 256: lists
are empty, fit, of three devices, with an unfit id and with an unfit driver name. Runs set
`CHECK_DEADLOCK FALSE` because sessions end: closed, out of identifiers, or with an
exited process.

A file is written in two steps (`Full`), so that it can be seen empty, half and whole. Two
savers that could both succeed are what a race needs, the others are refused for what they
save; a third loader would repeat the first two, as loaders change nothing. A
second power loss finds no more than the first: calls that have not begun begin later, on
whatever was left. Two captures have the same dimensions, so a mixture of their files is
not told apart by them.

Three invocations are one that takes a path, one that competes for it and one that reads it
meanwhile. Orders cover every command and every refusal: too few captures, another profile, a probe of
the wrong profile, too many minutiae, a capture that is created while it is read, a template of the
other kind. Scores lie on both sides of the threshold and at it, mean qualities just below the minimum
and at it. Four rosters let a sensor disappear, change places with another and be
replaced. The engine's limits are small in `commands` (2 to 4 minutiae, not 10 to
150); the theorems hold for any. In `codec_limits` they are the code's own.

**Fairness.** `AnyHost!AnyFairSpec` and `WorkerSession!FairSpec` give each process weak
fairness of all it does of its own accord: the operating system schedules both, and a
blocking read or write returns once it can. That includes the device's answer
(`Serve`), which the code cannot enforce, having no timeout; so the liveness
properties read "if the device answers". Dying, leaving, new calls and panics are never
assumed. `QuietDropReturns` leaves calls that panicked out, and `session_panic` shows why it must.

**What the violations show.**

1. `worker_refusals`: the comment at the head of the worker says that everything that
   can go wrong is reported as a protocol error. The errors for malformed and
   out-of-order lines pass through `emit`, whose validator accepts no error between
   requests, so the worker exits instead. For the same reason the `version` error of
   `dispatch` is never sent.
2. `crossing_cancel`: the comment in `emit` says that self-validation keeps protocol
   violations from the host. A `cancel` that crosses an event makes one out of two
   correct ends. `WorkerDevice` does not cancel and is safe (`turn_taking`).
3. `session_panic`: `drop` says "Ask before killing" but only asks, and waits for ever if
   the worker is blocked in a write. The command line's callback prints with
   `println!`, which panics when its own output is closed.
4. `device_swap`: the seam compares driver and id of the sensor that was listed at spawn, and the worker
   opens by the id alone, later. The protocol calls the id driver-defined, so two
   drivers may use the same one. What the code does ensure whatever the ids, that a blob goes by its maker's id and
   that two drivers are confused only after a worker opened another sensor than it had bound to, is
   `OnlyASwapMisleads`, which holds in `commands` with the same two sensors under one id. The id also stands where the seam speaks of a device *model*, in its
   documentation, its field and its error: two sensors of one model under two ids refuse each other's
   templates, as of another model, and two models of one driver under one id do not.

## 4. What is proved

All theorems hold for every value of the constants that meets the assumptions:
`BadId` and `NoId` are no identifiers and differ, `MaxTracked` is a natural number, frame
numbers and stages are sets of natural numbers, and, for `TurnTaking`, `cancel` is not in
`HostTypes`. Nothing bounds identifiers, messages or pipe capacity. For the template
store: files are written in at least one step, `MaxBytes` and the sizes are natural numbers,
and the marker for "no value" is not a template; likewise for the bundle. For the commands: policy limits are natural numbers, the minimum
quality a percentage, what is on the disk at first is well formed, and a template on it names its maker's driver and id;
scores, captures, sensors, orders and rosters are arbitrary. For the codec: limits are natural
numbers, and base64 of a payload of the limit with its envelope is shorter than a line and no longer than a file.
For the worker: pipes hold at least one line, what a host writes is a request, a blank or a malformed
line, error texts are valid or too long, and what a device reports of an enrollment is a sequence of
callbacks with stage numbers in `Stages`, of which nothing else is assumed: neither that they ascend nor that they are not 0.
For the worker device: identifiers are `1..n` for some `n` of at least 3, as `mint` hands them out (`spawn` takes two, `drop` one);
a listed device has an id, a driver name, a capability and a number of stages, which may be 0; how many devices a list
holds and which ids are too long is arbitrary. The worker device's identifier limit is any number,
0 included. Only `NeverStuck` needs more: the accepted version is one of `Versions`,
and there are more identifiers than `MaxTracked`, without which a session could run out of them before its limit.

| Theorem | Statement |
|---|---|
| `SummaryHolds` | `Spec => []Summary` |
| `TypeCorrect`, `Monotone`, `TrackingIsBounded` | `TypeOK`, `TrailsAscend`, `TrackingBounded` always hold |
| `PromisesKept` | `Spec => KeepsPromises`: every step of the validator is a step of `Conversation` or a stutter |
| `NeitherEndIsRefused` | in `TurnTaking`, every line is accepted by the end that reads it |
| `EndsAgree` | in `TurnTaking`, equal validators when nothing is under way |
| `NeverStuck` | `NoDeadEnd` always holds |
| `AlwaysServed` | `AnySpec => []Served` |
| `WorkerTypes`, `WorkerRests`, `WorkOnce`, `SelfCheckCause` | in `AnyHost`, `AnyTypeOK`, `AtRestBetweenLines`, `OncePerOperation` and `SelfCheckHasACause` always hold |
| `AlwaysInOrder` | `WorkerSession!Spec => []SessionInv` |
| `SessionTypes`, `ReadsAreExpected`, `CallsCleanUp`, `WorkerCause` | in `WorkerSession`, `TypeOK`, `NothingUnexpected`, `NothingLeftBehind` and `WorkerFailsForACause` always hold |
| `SessionIsADevice` | `WorkerSession!Spec => CallsAreAtomic`: the two processes implement `AtomicDevice` |
| `AnswersAreKept` | what a call returned is what the device made of that request (`AnswersAreTheDevices`) |
| `NeverEmbraced` | host and worker never wait for each other, but in a drop after a panic (`NoEmbrace`) |
| `StoredHolds` | `TemplateStore!Spec => []Stored` |
| `TemplatesStay` | a template whose save returned stays |
| `TurnsConnect`, `TurnsWellTyped` | in `TurnTaking`, `Connected` and `TypeOK` always hold |
| `TemplatesLoad` | a load that begins after a save finds the template |
| `PathIsWriteOnce` | `TemplateStore!Spec => WritesOnce`: the store implements `WriteOnce` |
| `KeptHolds` | `CaptureBundle!Spec => []Kept` |
| `BundlesLoadWhole`, `BundlesStay`, `BundlesLoad` | `LoadsAreWhole`, `SavedStays`, `SavedLoads` of the bundle always hold |
| `BundleIsWriteOnce` | `CaptureBundle!Spec => WritesOnce`: two files implement one register |
| `LoadableIsEnrollable` | a sample that passes `validate_host_image_template` would have passed `analyze`, with the same mean |
| `HonestAlways` | `Commands!Spec => []AllHonest` |
| `ExitCodesTell`, `CreationsStay`, `ComparisonsFit`, `EnrollmentsAreAlike`, `RefusalsAreForMinutiae` | `ExitsTell`, `CreatedIsKept`, `ComparisonsAreFit`, `SamplesAreAlike`, `RefusedForAMinutia` always hold |
| `MisledOnlyByASwap`, `RefusedOnlyByASwap` | `OnlyASwapMisleads` and `OnlyASwapRefuses` always hold, whatever ids drivers use |
| `PayloadsOnTheirWay` | `CodecLimits!Spec => []OnItsWay` |
| `FirstGateDecides`, `PayloadsArriveWhole`, `RefusalsAreForSize`, `DecodingIsBounded` | `RefusedAtOnce`, `ArrivesWhole`, `RefusedForItsSize`, `NeverOver` always hold |

**The argument for the validator.** What the validator promises about a whole session it
cannot see in its own state: an operation is forgotten as it ends. `Summary` ties state
to history: the request waited on is the one that is asked and unanswered (`AsksMatch`),
the operation engaged is the one that lives (`OpsMatch`), the phase says how far it has
come and the flags whether it has produced anything (`PhaseMatches`), the last number
remembered is above all that were reported (`LastReported`), and the sets of identifiers
seen are those the history has used. Each of these is needed for the others. `SessionRulesProofs`
has the lemmas about single messages: what each leaves unchanged, what an event may
touch, that `Coherent` records stay so. `SessionValidatorProofs` shows that each kind
of accepted message preserves each part, and that each is an action of
`Conversation`. That both sets of identifiers stay finite and under the limit comes from
`TypeOK` and the cardinality facts of the library.

**No dead end.** `NoDeadEnd` is about what an observer of the messages knows, so it fails if a phase loses the
identifier it waits for or keeps another in its place. `NeverStuck` names a message for every phase: in one that waits,
the answer that carries what the phase holds (`AnAnswerIsTaken`), in one engaged with an operation, an error
about it (`AnErrorIsTaken`); by `AsksMatch` and `OpsMatch` these are the request asked and the operation that lives. In
the others a request is taken (`ARequestIsTaken`), if it carries an identifier that was never used:
`TrackingBounded` and the finiteness of what was seen leave one (`AnIdIsLeft`). `hello` and `shutdown` carry no
operation, so only a full set of request identifiers can be in the way, and the property excepts that limit and no other.

**The argument for turn taking.** `Connected`: the responses under way lead, one by one,
from the host's validator to the driver's; a request under way leads from the
driver's to the host's; and only one of the two directions is ever in use. That is
inductive because, `cancel` aside, a phase accepts either requests or responses and
never both (`OneTurn`, `TurnPasses` in `SessionRulesProofs`), and `cancel` is exactly
what breaks it. `marks` remembers the driver's validator behind each line, so that the
chain can be written down.

**The argument for the worker.** The worker decides on all its answers before it writes the first, and
looks at no line until the last is written. `Due(driver, pending)` says, phase by phase, that what is still to
be written is what the worker's own validator waits for: one error, or the right answer, or the
start of the right operation with its events and its end. Whether the answer passes its own checks is left open. It holds of the answers to the request the validator waits
on (`AnswersDue`, by what the device did), and of the rest of them when the first has been
accepted (`StaysDue`). So nothing left to write means a validator at rest, whatever the host has sent, and only the
causes of `DueIsAccepted` can fail the self check: an error for no request, an over-long error text, a stage counted
wrong, a list of devices that is too long or names one by an id or driver name that is empty or over 128 bytes. `WorkIsSeen` ties the history of the device to the
identifiers the validator has seen: a request is taken only if its operation is not among them, so the
device has not carried it out (`Awaits`), and none is carried out twice. `Served` was checked by TLC as an
invariant of the states of the run `worker_any_host` before it was proved.

**The argument for the session.** `NothingUnexpected` speaks of one line, the next, and it stays true only if all lines
under way fit together. `SessionInv` divides the life of a call into `Situation`s. Between calls nothing is under way and the validators
are equal (`Quiet`). In a call the request is in the pipe (`Asking`), or the worker holds it and the
validators are equal (`BeingServed`), or it is answered (`Answering`); in a drop the worker finishes what it does (`Winding`). In `Answering`
the two ends differ by just what is in the pipe: `Leads(host, toHost, driver)` says that the host's
validator, taking the lines in the pipe one after another, would arrive at the worker's. `LeadsOn` is a line
written at the far end, `LeadsFirst` one read at the near end. The invariant of the worker, `WorkerInOrder`,
with its `Due`, says what is still to be written from there. So every line fits when it is
written, and still does when it is read. `WorkerInOrder` knows nothing of a host; its lemmas serve `AnyHost` and `WorkerSession` alike.

`Minted` says that identifiers are used in order, so the worker has not seen the next one, and the request of a call and
the shutdown are taken unless the limit is reached. `Answered` says that what the host has
in hand, what is in the pipe and what is to be written all `Tell` of one outcome, the device's for this very request. It is what the
refinement needs. TLC checked `SessionInv`, with `NoEmbrace` and `AnswersAreTheDevices`, on the states of `session` for limits 0, 1, 2, 3 and 5
before it was proved. It is in no configuration because `Leads` quantifies over sequences of
validators, which TLC evaluates only with a definition replaced.

**The refinement of the session.** `SessionRefines` goes through the actions. `Enroll` and `Verify` are
`Ask` if the request was sent and `Refuse` if not, like `VerifyUnsendable`; the list of devices is `Bind`; `Serve` of a start is
`Work`; the `completed` line is `Answer`; an error line and the end of output are `Fail`; `Panic`
is `Abandon`; what ends the worker is `Break`; everything else stutters. Each needs
`SessionInv`. `Answer` returns what the device made only because of `Answered`. `Fail` is allowed only if the device
failed or the worker is gone, so it needs that no correct line is ever taken for an error, at the limit of
identifiers too. `Abandon` needs that a progress line only ever precedes a template. `AnswersAreKept` is then proved
of `AtomicDevice`, where `Honest` is a few lines, and carried over.

**The two ends never embrace.** `NeverEmbraced` is the safety that `CallsReturn` and `QuietDropReturns` rest on: as long as a
call, a spawn or a drop lasts, one of the processes can take a step that the other need not allow.
With `Answering`, an empty pipe to a host that waits means that the validators are equal and something is `Due`. In
`Winding`, unless a callback panicked, the worker has only the shutdown to take, or, at its limit, one error to write
that its own validator refuses, which ends it.

**The argument for the template store.** `SavedStays` is not inductive: that the file holds
the right template when a save returns depends on who wrote it. `OneWriter` says that
at most one saver is past `create_new`, that the file is of its template, and that it has
been synced exactly if the save has returned; `OpenedAfterSave` ties a loader's history to a
saver that is still `saved`. With these a power loss leaves a saved file alone, and a load
that began after a save sees a whole file that passes the same limits it was saved under
(`SameLimits`). For `PathIsWriteOnce` each action maps to an action of the register: the
write that completes the file to `TakeEffect`, the sync to `Save`, every failure to `NotSave`
or `NotLoad`, and the other steps to stutters.

**The argument for the bundle.** Two files make two writers possible where one file
has none: `OneInside` says that `create_dir` lets one saver in for good and how far the
files are at each of its stages; a saver that stops leaves the directory behind, and with it the door
shut. `FilesAgree` is what remains true of the leavings: there is no image without a whole and
synced manifest of the same fit capture. A power loss can therefore take the image and not the
manifest, never the reverse. `ReadsWhatIsThere` lets a loader that has read the manifest rely on it
when it comes to the image. The register takes its value at the write that completes the image.

**The argument for the commands.** `AllHonest` says of each invocation on its own, given the disk, that
it has what its stage needs (`StageOf`), that a verdict is one about the template at the path
(`VerdictOf`), and that an outcome has its reasons (`OutcomeOf`). The disk only grows:
a path that holds something keeps it. `HonestAsDiskGrows` says that a record honest about a disk is honest about any that has grown from
it, so steps of other invocations need no thought. `RefusalsAreForMinutiae` needs
arithmetic: a sum of at least `MinQuality * count` rounds to a mean of at least `MinQuality`, whatever the count
(`AnalyzedIsValid`). `Truthful` ties a template to its maker by the maker's id alone, and its driver to some sensor of that
id, the one bound to at the enrollment. With what `Provenance` compared when the template was loaded, that is all that
`OnlyASwapMisleads` and `OnlyASwapRefuses` need; no assumption on ids is made.

**The argument for the codec.** The lemmas say that the decoded length of a base64 text is the
length that was encoded, that the estimate is no less than it and at most two more
(`EstimateIsClose`), that a longer payload has no shorter text. `OnItsWay` says of each place on the
way that a sensor's payload there is still what was handed over and within the limits ahead.

**Only model-checked.** Liveness (`ExitsWhenLeft`, `CallsReturn`, `QuietDropReturns`): the prover has no rule for fairness
or `ENABLED`. What is safety in it is proved, in `NeverEmbraced` and `NeverStuck`. Everything else that a passing run
checks is a theorem. What recursive definitions compute for every input cannot be proved either, since no installed prover can instantiate the
induction theorems; no module here needs it.

## 5. What is not modelled, and why

* The text of messages: field order, escapes, redacted debugging output, blanks around a body. Whether a
  line decodes and whether its data is valid is a choice of the environment; how long it is, is in `CodecLimits`.
* Memory: a line is read whole before its limit is looked at.
* Partial lines: a worker that dies in mid-line leaves a line the host cannot decode,
  which ends the call as the end of output does.
* libfprint, the USB bus, `device.close`: outside the worker's state.
* Other drivers' enrollments that stream progress: `DuplexSession` covers any driver
  that validates its output; `WorkerSession` is about the libfprint worker.
* Image synthesis (floating-point arithmetic without state), minutiae detection and scoring:
  numeric libraries. The mean quality in floating point is exact where it is compared; the
  head of `MatchingPolicy` says why.
* `src/error.rs`, and the constructors of images and metadata: values without state. A capture is
  fit or not.
* Files that are deleted or replaced while invocations run: the code never does it.
* Within `Commands` a call of a worker device, a save and a load are one step each. `WorkerSession`,
  `TemplateStore` and `CaptureBundle` have the steps they are made of and show, by their refinements of
  `AtomicDevice` and `WriteOnce`, that they add up to that.
* The directory entry: `sync_all` is called on files, never on their directory, and the
  models assume that the entry of a synced file is kept, as common file systems do.
* Programs that write into a template or a bundle's own two files: the code does not
  claim to survive them. Another file in a bundle's directory is modelled (`Intrude`).
* The listing of a directory takes place at once in the model; spread out, it can only
  miss files of a save that has not returned, and then the load fails as it may anyway.

## 6. Plan

What is left, in order of weight:

1. **Streaming workers**: a driver that reports progress while its device works, and answers a
   cancellation, as the protocol allows and no worker here does.
2. **One proof for whole invocations**: `Commands` takes the promises of `AtomicDevice` and `WriteOnce` as the
   effects of single steps. An `INSTANCE` of both in `Commands` would let these steps be shown to be theirs.
