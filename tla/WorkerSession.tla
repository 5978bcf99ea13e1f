---------------------------- MODULE WorkerSession ----------------------------
(***************************************************************************)
(* A WorkerDevice (src/src/worker.rs) and the driver worker it spawned, in *)
(* processes of their own: the host negotiates, binds a device, calls      *)
(* enroll and verify one after another, and drops the device at the end.   *)
(*                                                                         *)
(* mint numbers identifiers within a session, and the prefix only says     *)
(* what they are for, so an identifier is its number: Ids is 1..n, and n   *)
(* bounds the calls explored.                                              *)
(***************************************************************************)
EXTENDS DriverWorker

CONSTANTS
  Foreign,  \* a template of an earlier session
  MayPanic  \* the progress callback of enroll may panic

\* There are identifiers for the two exchanges of spawn and for the drop.
ASSUME MintAssumption ==
  IsFiniteSet(Ids) /\ Ids = 1..Cardinality(Ids) /\ Cardinality(Ids) >= 3
ASSUME PanicAssumption == MayPanic \in BOOLEAN
ASSUME RostersAssumption ==
  \A roster \in Rosters : \A i \in DOMAIN roster :
    DOMAIN roster[i] = {"id", "profile", "capability", "stages"}

VARIABLES
  host,     \* the WorkerDevice's SessionValidator
  nextId,   \* WorkerDevice.next_id
  bound,    \* the device it bound to, or Nothing
  doing,    \* the call under way, and how far it is
  call,     \* the locals of the enroll or verify under way
  answers   \* answers[o]: history, what the call of operation o returned

hostVars == <<host, nextId, bound, doing, call, answers>>
vars == <<pipes, process, did, hostVars>>

Awaiting == {"await_hello", "await_devices", "enroll", "verify"}
Doings == Awaiting \cup {"greet", "list", "idle", "dropping", "waiting", "gone"}

None == [what |-> "none"]
Failed == [what |-> "error"]
NoCall == [op |-> NoId, blob |-> NoId, got |-> None]

Init ==
  /\ DriverInit
  /\ toDriver = <<>> /\ toHost = <<>> /\ hostGone = FALSE
  /\ host = NewValidator
  /\ nextId = 0
  /\ bound = Nothing
  /\ doing = "greet"
  /\ call = NoCall
  /\ answers = [o \in Ids |-> None]
-----------------------------------------------------------------------------
(* Sending *)

\* send goes through if the validator takes the request and the pipe has a
\* reader.
Sent(m) == AcceptsRequest(host, m) /\ exit = "running"

\* The validator moves on before the line is written.
Send(m) ==
  /\ host' = IF AcceptsRequest(host, m) THEN AfterRequest(host, m) ELSE host
  /\ toDriver' = IF Sent(m) THEN Append(toDriver, m) ELSE toDriver
  /\ UNCHANGED <<toHost, hostGone, process, did>>

\* spawn: the two exchanges; a failure drops the half-made WorkerDevice.
Exchange(m, awaiting) ==
  /\ nextId' = nextId + 1
  /\ Send(m)
  /\ doing' = IF Sent(m) THEN awaiting ELSE "dropping"
  /\ UNCHANGED <<bound, call, answers>>

Greet ==
  /\ doing = "greet"
  /\ Exchange([type |-> "hello", req |-> nextId + 1, version |-> ProtocolVersion],
              "await_hello")

List ==
  /\ doing = "list"
  /\ Exchange([type |-> "enumerate", req |-> nextId + 1], "await_devices")

\* enroll and verify, up to their first receive.
Begin(m, doingWhat) ==
  /\ doing = "idle"
  /\ nextId + 3 \in Ids
  /\ nextId' = nextId + 2
  /\ Send(m)
  /\ doing' = IF Sent(m) THEN doingWhat ELSE "idle"
  /\ answers' = IF Sent(m) THEN answers ELSE [answers EXCEPT ![m.op] = Failed]
  /\ UNCHANGED bound

\* The id of a device bound is valid: the host's validator took the list.
Enroll ==
  LET m == [type |-> "start_enroll", req |-> nextId + 1, op |-> nextId + 2,
            data |-> "valid", device |-> bound.id] IN
  /\ Begin(m, "enroll")
  /\ call' = [op |-> m.op, blob |-> NoId, got |-> None]

Verify(blob) ==
  LET m == [type |-> "start_verify", req |-> nextId + 1, op |-> nextId + 2,
            data |-> "valid", device |-> bound.id, template |-> blob] IN
  /\ Begin(m, "verify")
  /\ call' = [op |-> m.op, blob |-> blob, got |-> None]

\* A template that cannot be encoded fails after the identifiers are minted.
VerifyUnsendable ==
  /\ doing = "idle"
  /\ nextId + 3 \in Ids
  /\ nextId' = nextId + 2
  /\ answers' = [answers EXCEPT ![nextId + 2] = Failed]
  /\ UNCHANGED <<pipes, process, did, host, bound, doing, call>>

\* The templates a caller may hold: an old one, and those enrolled here.
Held ==
  {Foreign} \cup {answers[o].template : o \in {p \in Ids : answers[p].what = "template"}}
-----------------------------------------------------------------------------
(* Receiving *)

Return(value) ==
  /\ doing' = "idle"
  /\ answers' = [answers EXCEPT ![call.op] = value]
  /\ UNCHANGED <<bound, call>>

\* Faulty: a verification that fails is reported as a stranger's finger.
FailAsNoMatch ==
  CASE doing = "verify" -> Return([what |-> "verdict", blob |-> call.blob, matched |-> FALSE])
    [] doing = "enroll" -> Return(Failed)
    [] OTHER -> doing' = "dropping" /\ UNCHANGED <<bound, call, answers>>

\* An error ends the call; in spawn it drops the half-made WorkerDevice.
Fail ==
  IF doing \in {"enroll", "verify"}
    THEN Return(Failed)
    ELSE doing' = "dropping" /\ UNCHANGED <<bound, call, answers>>

\* `find': the first match-on-chip device of a list, if it has one.
FirstChip(roster) ==
  {roster[i] : i \in {k \in DOMAIN roster :
    /\ roster[k].capability = "match_on_chip"
    /\ \A j \in 1..(k - 1) : roster[j].capability # "match_on_chip"}}

BindTo(d) == bound' = d /\ doing' = "idle" /\ UNCHANGED <<call, answers>>

\* Faulty: spawn binds a device that cannot enroll.
BindAny(roster) ==
  \/ \E d \in FirstChip(roster) : BindTo(d)
  \/ FirstChip(roster) = {} /\ Fail

\* Faulty: spawn waits for a list with a device in it.
BindWaits(roster) ==
  \/ \E d \in FirstChip(roster) : d.stages # 0 /\ BindTo(d)
  \/ /\ \A d \in FirstChip(roster) : d.stages = 0
     /\ UNCHANGED <<bound, doing, call, answers>>

\* The first match-on-chip device, if it can enroll.
Bind(roster) ==
  \/ \E d \in FirstChip(roster) : d.stages # 0 /\ BindTo(d)
  \/ (\A d \in FirstChip(roster) : d.stages = 0) /\ Fail

\* Faulty: an enrollment that reports progress is not expected.
ExpectedNoProgress ==
  CASE doing = "await_hello" -> {"hello_ack"}
    [] doing = "await_devices" -> {"devices"}
    [] doing = "enroll" -> {"started", "enrolled", "completed"}
    [] doing = "verify" -> {"started", "finger_present", "finger_removed",
                            "match_result", "completed"}

\* The arms of the match on a received response that is not `other'.
Expected ==
  CASE doing = "await_hello" -> {"hello_ack"}
    [] doing = "await_devices" -> {"devices"}
    [] doing = "enroll" -> {"started", "enroll_progress", "enrolled", "completed"}
    [] doing = "verify" -> {"started", "finger_present", "finger_removed",
                            "match_result", "completed"}

Keep(value) ==
  call' = [call EXCEPT !.got = value] /\ UNCHANGED <<bound, doing, answers>>

\* Faulty: verify returns with the verdict, before the operation completes.
HandleEarly(m) ==
  CASE m.type = "hello_ack" -> doing' = "list" /\ UNCHANGED <<bound, call, answers>>
    [] m.type = "devices" -> Bind(m.roster)
    [] m.type = "enrolled" -> Keep([what |-> "template", template |-> m.template])
    [] m.type = "match_result" ->
         Return([what |-> "verdict", blob |-> call.blob, matched |-> m.matched])
    [] m.type = "completed" -> Return(IF call.got = None THEN Failed ELSE call.got)
    [] OTHER -> UNCHANGED <<bound, doing, call, answers>>

Handle(m) ==
  CASE m.type = "hello_ack" -> doing' = "list" /\ UNCHANGED <<bound, call, answers>>
    [] m.type = "devices" -> Bind(m.roster)
    [] m.type = "enrolled" -> Keep([what |-> "template", template |-> m.template])
    [] m.type = "match_result" ->
         Keep([what |-> "verdict", blob |-> call.blob, matched |-> m.matched])
    [] m.type = "completed" -> Return(IF call.got = None THEN Failed ELSE call.got)
    [] OTHER -> UNCHANGED <<bound, doing, call, answers>>

\* The response read is handled if the validator takes it and the call can
\* use it, and else ends the call.
Receive ==
  /\ doing \in Awaiting /\ toHost # <<>>
  /\ toHost' = Tail(toHost)
  /\ LET m == Head(toHost) IN
     /\ host' = IF AcceptsResponse(host, m) THEN AfterResponse(host, m) ELSE host
     /\ IF AcceptsResponse(host, m) /\ m.type \in Expected THEN Handle(m) ELSE Fail
  /\ UNCHANGED <<toDriver, hostGone, process, did, nextId>>

\* The worker closed its output.
ReadEnd ==
  /\ doing \in Awaiting /\ toHost = <<>> /\ exit # "running"
  /\ Fail
  /\ UNCHANGED <<pipes, process, did, host, nextId>>

\* A panic in the progress callback unwinds through enroll into the drop.
Panic ==
  /\ MayPanic
  /\ doing = "enroll" /\ toHost # <<>> /\ Head(toHost).type = "enroll_progress"
  /\ AcceptsResponse(host, Head(toHost))
  /\ host' = AfterResponse(host, Head(toHost))
  /\ toHost' = Tail(toHost)
  /\ doing' = "dropping"
  /\ answers' = [answers EXCEPT ![call.op] = [what |-> "panicked"]]
  /\ UNCHANGED <<toDriver, hostGone, process, did, nextId, bound, call>>
-----------------------------------------------------------------------------
(* Dropping *)

\* Faulty: the shutdown request reuses the last identifier minted.
DropReusesId ==
  /\ doing \in {"idle", "dropping"}
  /\ toDriver' = IF exit = "running"
                   THEN Append(toDriver, [type |-> "shutdown", req |-> nextId])
                   ELSE toDriver
  /\ doing' = "waiting"
  /\ UNCHANGED <<toHost, hostGone, process, did, host, nextId, bound, call, answers>>

\* Faulty: the worker is not asked to leave.
DropSilently ==
  /\ doing \in {"idle", "dropping"}
  /\ doing' = "waiting"
  /\ UNCHANGED <<pipes, process, did, host, nextId, bound, call, answers>>

\* The shutdown line is written past the validator, if anyone reads it.
Drop ==
  /\ doing \in {"idle", "dropping"}
  /\ toDriver' = IF exit = "running"
                   THEN Append(toDriver, [type |-> "shutdown", req |-> nextId + 1])
                   ELSE toDriver
  /\ doing' = "waiting"
  /\ UNCHANGED <<toHost, hostGone, process, did, host, nextId, bound, call, answers>>

\* Both pipes stay open, and unread, until the worker has exited.
WaitReturns ==
  /\ doing = "waiting" /\ exit # "running"
  /\ doing' = "gone"
  /\ hostGone' = TRUE
  /\ UNCHANGED <<toDriver, toHost, process, did, host, nextId, bound, call, answers>>

HostWorks ==
  \/ Greet \/ List \/ Receive \/ ReadEnd
  \/ doing = "dropping" /\ Drop
  \/ WaitReturns

Next ==
  \/ HostWorks
  \/ Enroll \/ (\E blob \in Held : Verify(blob)) \/ VerifyUnsendable
  \/ Panic
  \/ Drop
  \/ DriverWorks /\ UNCHANGED hostVars
  \/ Die /\ UNCHANGED hostVars

Spec == Init /\ [][Next]_vars

\* Both processes get their turns, and the device answers in the end: the
\* code has no timeout, so without that a call may wait for ever.
FairSpec ==
  /\ Spec
  /\ WF_vars(HostWorks)
  /\ WF_vars(DriverWorks /\ UNCHANGED hostVars)
-----------------------------------------------------------------------------
(* Properties *)

Value ==
  {None, Failed, [what |-> "panicked"]}
    \cup [what : {"template"}, template : Ids]
    \cup [what : {"verdict"}, blob : Ids \cup {Foreign}, matched : BOOLEAN]

\* A device is bound from the end of spawn on, and it can enroll.
TypeOK ==
  /\ doing \in {"idle", "enroll", "verify"} => bound # Nothing
  /\ bound # Nothing => bound.stages # 0
  /\ host \in Validators /\ driver \in Validators
  /\ nextId \in Ids \cup {0}
  /\ doing \in Doings
  /\ call \in [op : Ids \cup {NoId}, blob : Ids \cup {NoId, Foreign}, got : Value]
  /\ answers \in [Ids -> Value]
  /\ exit \in Exits \cup {"running"}
  /\ Len(toHost) <= Capacity
  /\ hostGone \in BOOLEAN

\* What the worker did for a call: on which sensor, and with what result.
Result(request, outcome) ==
  CASE outcome.what = "enrolled" -> [what |-> "template", template |-> outcome.template]
    [] outcome.what = "decided" ->
         [what |-> "verdict", blob |-> request.template, matched |-> outcome.matched]
    [] outcome.what = "failed" -> Failed

\* The sensors the backend may list.
Sensors == UNION {{roster[i] : i \in DOMAIN roster} : roster \in Rosters}

\* The calls that have returned, and the one that waits.
CallsMade ==
  [o \in Ids |->
    CASE answers[o] # None -> answers[o]
      [] answers[o] = None /\ doing = "enroll" /\ call.op = o ->
           [what |-> "pending", ask |-> [kind |-> "enroll"]]
      [] answers[o] = None /\ doing = "verify" /\ call.op = o ->
           [what |-> "pending", ask |-> [kind |-> "verify", blob |-> call.blob]]
      [] OTHER -> None]

\* What the device did for a call, seen from outside.
Seen(work) ==
  [i \in DOMAIN work |->
    [on |-> work[i].request.device, made |-> Result(work[i].request, work[i].outcome)]]

WorksDone == [o \in Ids |-> Seen(did[o])]

Device == INSTANCE AtomicDevice WITH
  Devices <- Sensors, NoDevice <- Nothing,
  device <- bound, alive <- exit = "running", calls <- CallsMade, works <- WorksDone

\* Two processes, two validators and a dozen kinds of lines between them are
\* one sensor that is called: it works once for a call at most, while that
\* call waits, on what the call gave; the call returns what was made of it,
\* and fails only if that failed or the worker is gone.  No failure, death or
\* leftover line turns into an answer ("A broken device must not be
\* indistinguishable from a stranger's finger", moc.rs), and no result is lost.
CallsAreAtomic == Device!Spec

\* What the host reads, its validator takes and the call can use, or it is an
\* error: no `unexpected' arm of enroll, verify and spawn is ever taken.
NothingUnexpected ==
  doing \in Awaiting /\ toHost # <<>> =>
    /\ AcceptsResponse(host, Head(toHost))
    /\ Head(toHost).type \in Expected \cup {"error"}

\* A call leaves nothing behind: between calls the pipes are empty, the worker
\* is at rest, and both validators hold the same session.
NothingLeftBehind ==
  doing = "idle" /\ exit = "running" =>
    /\ toHost = <<>> /\ toDriver = <<>> /\ serving = Nothing /\ pending = <<>>
    /\ host = driver

\* The worker refuses its own output only if the device counted its stages
\* wrong, an error text is too long, a list of devices is unfit, or a session
\* at its limit takes no more requests.  So until then the shutdown line, which the host writes past its
\* validator, is in order whenever it is read.
WorkerFailsForACause ==
  exit = "self_check" =>
    \/ Head(pending).type = "enroll_progress"
    \/ Head(pending).type = "error" /\ Head(pending).data = "invalid"
    \/ Head(pending).type = "devices" /\ ~FitList(Head(pending).roster)
    \/ Cardinality(driver.seenReq) = MaxTracked

\* Every call returns, or panics, and spawn ends in a device or in the drop of
\* a half-made one.
CallsReturn == doing \in {"greet", "enroll", "verify"} ~> doing \in {"idle", "dropping", "gone"}

\* A drop ends when the worker has exited.
DropReturns == doing = "dropping" ~> doing = "gone"

Panicked == \E o \in Ids : answers[o].what = "panicked"

\* And so it does, unless a panic left answers of the worker unread.
QuietDropReturns == doing = "dropping" /\ ~Panicked ~> doing = "gone"

\* A template or a verdict that a call returned is what the device made of that
\* very request; a call that failed after the device had succeeded lost its
\* worker.
AnswersAreTheDevices ==
  \A o \in Ids :
    /\ answers[o].what \in {"template", "verdict"} =>
         \E i \in DOMAIN did[o] : answers[o] = Result(did[o][i].request, did[o][i].outcome)
    /\ answers[o] = Failed =>
         \/ exit # "running"
         \/ \A i \in DOMAIN did[o] : Result(did[o][i].request, did[o][i].outcome) = Failed

\* What each end can do without the other.
HostMoves ==
  \/ doing \in {"greet", "list", "dropping"}
  \/ doing \in Awaiting /\ (toHost # <<>> \/ exit # "running")
  \/ doing = "waiting" /\ exit # "running"

WorkerMoves ==
  /\ exit = "running"
  /\ \/ serving # Nothing
     \/ pending = <<>> /\ toDriver # <<>>
     \/ pending # <<>> /\ (Len(toHost) < Capacity \/ ~AcceptsResponse(driver, Head(pending)))

\* The two ends never wait for each other, in a call, in spawn and in a drop:
\* no line is owed by both, and no write blocks an end the other waits for.
\* The exception is a drop after a panic (DropReturns).
NoEmbrace ==
  doing \notin {"idle", "gone"} =>
    HostMoves \/ WorkerMoves \/ (doing = "waiting" /\ Panicked)
-----------------------------------------------------------------------------
(* Why: the inductive invariant *)

\* Taking the lines one after another leads from validator s to validator t.
Leads(s, lines, t) ==
  \E chain \in Seq(Validators) :
    /\ Len(chain) = Len(lines) + 1
    /\ chain[1] = s /\ chain[Len(chain)] = t
    /\ \A i \in 1..Len(lines) :
         /\ AcceptsResponse(chain[i], lines[i])
         /\ chain[i + 1] = AfterResponse(chain[i], lines[i])

InCall == doing \in {"enroll", "verify"}

\* The request under way.
Asked ==
  CASE doing = "await_hello" ->
         [type |-> "hello", req |-> nextId, version |-> ProtocolVersion]
    [] doing = "await_devices" -> [type |-> "enumerate", req |-> nextId]
    [] doing = "enroll" ->
         [type |-> "start_enroll", req |-> nextId - 1, op |-> nextId,
          data |-> "valid", device |-> bound.id]
    [] doing = "verify" ->
         [type |-> "start_verify", req |-> nextId - 1, op |-> nextId,
          data |-> "valid", device |-> bound.id, template |-> call.blob]

Shutdown == [type |-> "shutdown", req |-> nextId + 1]

\* Identifiers are handed out in order, and there is one left for the drop.
Minted ==
  /\ nextId \in Nat /\ nextId + 1 \in Ids
  /\ doing = "greet" => nextId = 0
  /\ doing \in {"await_hello", "list"} => nextId = 1
  /\ doing = "await_devices" => nextId = 2
  /\ exit = "running" => driver.seenReq \subseteq 1..nextId
  /\ Cardinality(driver.seenReq) <= MaxTracked
  /\ \A o \in Ids : o > nextId => answers[o] = None
  /\ InCall => call.op = nextId /\ answers[nextId] = None
  /\ doing = "verify" => call.blob \in Ids \cup {Foreign}

\* The host waits for what the call asked for.
HostWaits ==
  /\ doing = "await_hello" => host.phase = "AwaitHelloAck"
  /\ doing = "await_devices" => host.phase = "AwaitDevices"
  /\ doing = "enroll" =>
       host.phase = "Enrolling" \/ (host.phase = "AwaitStarted" /\ host.kind = "enroll")
  /\ doing = "verify" =>
       host.phase = "Verifying" \/ (host.phase = "AwaitStarted" /\ host.kind = "verify")
  /\ InCall => host.op = call.op

PipesEmpty == toDriver = <<>> /\ toHost = <<>>

\* Between calls nothing is under way.
Quiet ==
  /\ PipesEmpty /\ serving = Nothing /\ pending = <<>>
  /\ host = driver
  /\ driver.phase = IF doing = "greet" THEN "NeedHello" ELSE "Ready"

\* The request is on its way,
Asking ==
  /\ toDriver = <<Asked>> /\ toHost = <<>> /\ serving = Nothing /\ pending = <<>>
  /\ AcceptsRequest(driver, Asked) /\ host = AfterRequest(driver, Asked)
  /\ InCall => call.got = None

\* or is carried out,
BeingServed ==
  /\ PipesEmpty /\ serving = Asked
  /\ host = driver
  /\ InCall => call.got = None

\* A line about what the device did says what it did.
Tells(m, outcome) ==
  /\ m.type = "error" => outcome.what = "failed"
  /\ m.type = "enroll_progress" => outcome.what = "enrolled"
  /\ m.type = "enrolled" => outcome.what = "enrolled" /\ m.template = outcome.template
  /\ m.type = "match_result" => outcome.what = "decided" /\ m.matched = outcome.matched

\* What the host has, and what is on its way to it, is what the device did.
Answered ==
  \E outcome \in DeviceDoes(Asked) :
    /\ did[call.op] = <<[request |-> Asked, outcome |-> outcome]>>
    /\ \A i \in DOMAIN toHost : Tells(toHost[i], outcome)
    /\ \A i \in DOMAIN pending : Tells(pending[i], outcome)
    /\ call.got # None =>
         outcome.what # "failed" /\ call.got = Result(Asked, outcome)
    /\ host.phase = "Enrolling" /\ host.enrolled => call.got # None
    /\ host.phase = "Verifying" /\ host.reported => call.got # None

\* or the answers to it are on their way.
Answering ==
  /\ toDriver = <<>> /\ serving = Nothing
  /\ Leads(host, toHost, driver)
  /\ driver.phase # "NeedHello"
  /\ AtRest(driver) => pending = <<>>
  /\ InCall => Answered

\* A worker told to leave finishes what it does, and takes the shutdown unless
\* its session is at its limit.  Only after a panic are there answers left.
Winding ==
  /\ serving = Nothing
  /\ toDriver = <<>> \/ (doing = "waiting" /\ toDriver = <<Shutdown>>)
  /\ driver.phase = "NeedHello" => MaxTracked = 0
  /\ AtRest(driver) /\ pending # <<>> => Cardinality(driver.seenReq) = MaxTracked
  /\ ~Panicked =>
       /\ toHost = <<>> /\ AtRest(driver)
       /\ doing = "waiting" /\ pending = <<>> => toDriver = <<Shutdown>>

Situation ==
  /\ doing \in {"greet", "list", "idle"} /\ exit = "running" => Quiet
  /\ doing \in Awaiting => HostWaits /\ (Asking \/ BeingServed \/ Answering)
  /\ doing \in {"dropping", "waiting"} /\ exit = "running" => Winding

SessionInv ==
  /\ TypeOK /\ WorkerFailsForACause
  /\ WorkerInOrder
  /\ toHost \in Seq(Written)
  /\ Coherent(host)
  /\ Minted
  /\ doing \in {"greet", "await_hello", "list", "await_devices"} => bound = Nothing
  /\ hostGone <=> doing = "gone"
  /\ doing = "gone" => exit # "running"
  /\ Situation
=============================================================================
