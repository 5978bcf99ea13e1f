---------------------------- MODULE DriverWorker ----------------------------
(***************************************************************************)
(* The driver worker, src/crates/fpk-driver-libfprint/src/main.rs: a       *)
(* process that reads one request line at a time, carries it out on the    *)
(* device while it reads nothing else, and then writes the answers, each   *)
(* of which its own SessionValidator must accept first.                    *)
(*                                                                         *)
(* The module has the worker, the two pipes and the device behind it; who  *)
(* writes to `toDriver' and reads `toHost' is for the modules that extend  *)
(* this one (AnyHost, WorkerSession).  The device is the libfprint backend *)
(* as the worker uses it: it may do anything DeviceDoes lists.             *)
(***************************************************************************)
EXTENDS SessionRules, Sequences

CONSTANTS
  Capacity,  \* lines the pipe to the host holds before a write blocks
  Rosters,   \* the device lists the backend may enumerate
  MaxDevices,  \* devices that validate_response lets a list have
  Reports,   \* the progress callbacks one enrollment may make
  Texts      \* error texts: "valid", or "invalid" when over 4096 bytes

ASSUME CapacityAssumption == Capacity \in Nat \ {0}
ASSUME TextsAssumption == Texts \subseteq Data /\ Texts # {}

VARIABLES
  toDriver,  \* lines in the worker's standard input
  toHost,    \* lines in the worker's standard output
  hostGone,  \* the host has closed its ends of both pipes
  driver,    \* the worker's SessionValidator
  serving,   \* the request being carried out, or Nothing
  pending,   \* answers decided on and not yet written
  exit,      \* "running", or how the process ended
  did        \* did[o]: history, the request the device carried out as operation o

pipes == <<toDriver, toHost, hostGone>>
process == <<driver, serving, pending, exit>>

Nothing == [type |-> "nothing"]
Blank == [type |-> "blank"]          \* a line of white space
Malformed == [type |-> "malformed"]  \* a line decode_request refuses
Unreadable == [type |-> "unreadable"]  \* a line that is not UTF-8, or that cannot be read

NoRequests == {Blank, Malformed, Unreadable}

Exits == {"success", "self_check", "io", "killed"}
-----------------------------------------------------------------------------
(* The device, and the answers made of what it does *)

Failures == [what : {"failed"}, text : Texts]

\* Enumerating, enrolling and verifying end in a result or fail at one of
\* several steps (opening, the operation itself, serializing the template).
DeviceDoes(request) ==
  CASE request.type = "enumerate" -> [what : {"listed"}, roster : Rosters] \cup Failures
    [] request.type = "start_enroll" ->
         [what : {"enrolled"}, report : Reports, template : {request.op}] \cup Failures
    [] request.type = "start_verify" -> [what : {"decided"}, matched : BOOLEAN] \cup Failures
    [] OTHER -> {[what |-> "nothing"]}

ErrorTo(r, o, text) == [type |-> "error", req |-> r, op |-> o, data |-> text]

OperationOf(request) ==
  IF request.type \in StartRequests \cup {"cancel"} THEN request.op ELSE NoId

Started(request) == [type |-> "started", req |-> request.req, op |-> request.op]

Completed(request) == [type |-> "completed", op |-> request.op]

\* A presentation that has to be repeated is not progress.  A report's `total'
\* is the greater of the callback's and the device's own number of stages.
Counted(callback) == ~callback.retry

Progress(report) == SelectSeq(report, Counted)

ASSUME ReportsAssumption ==
  \A report \in Reports :
    Progress(report) \in Seq([completed : Stages, total : Stages, retry : BOOLEAN])

EnrollAnswers(request, outcome) ==
  LET report == Progress(outcome.report) IN
     <<Started(request)>>
  \o [i \in DOMAIN report |->
        [type |-> "enroll_progress", op |-> request.op,
         completed |-> report[i].completed, total |-> report[i].total]]
  \o <<[type |-> "enrolled", op |-> request.op, data |-> "valid",
        template |-> outcome.template], Completed(request)>>

\* Faulty: a verification is never completed.
VerifyAnswersUnfinished(request, outcome) ==
  <<Started(request),
    [type |-> "match_result", op |-> request.op, matched |-> outcome.matched]>>

\* Faulty: a verification completes before its verdict.
VerifyAnswersSwapped(request, outcome) ==
  <<Started(request), Completed(request),
    [type |-> "match_result", op |-> request.op, matched |-> outcome.matched]>>

VerifyAnswers(request, outcome) ==
  <<Started(request),
    [type |-> "match_result", op |-> request.op, matched |-> outcome.matched],
    Completed(request)>>

\* validate_response, of a list of devices.  The backend's ids and driver names
\* (capture_profile_id) are passed on as they are.
FitList(roster) ==
  /\ Len(roster) <= MaxDevices
  /\ \A i \in DOMAIN roster : BadId \notin {roster[i].id, roster[i].profile}

DevicesTo(r, roster) ==
  [type |-> "devices", req |-> r, roster |-> roster,
   data |-> IF FitList(roster) THEN "valid" ELSE "invalid"]

\* All the answers to a request, decided before the first is written.
Answers(request, outcome) ==
  CASE outcome.what = "failed" ->
         <<ErrorTo(request.req, OperationOf(request), outcome.text)>>
    [] request.type = "hello" ->
         <<[type |-> "hello_ack", req |-> request.req, version |-> ProtocolVersion]>>
    [] outcome.what = "listed" ->
         <<DevicesTo(request.req, outcome.roster)>>
    [] outcome.what = "enrolled" -> EnrollAnswers(request, outcome)
    [] outcome.what = "decided" -> VerifyAnswers(request, outcome)
    [] request.type \in {"start_capture", "cancel"} ->
         <<ErrorTo(request.req, OperationOf(request), "valid")>>
-----------------------------------------------------------------------------
(* The worker process *)

\* Between requests the worker takes the next line.
Line == Head(toDriver)

Reads ==
  /\ exit = "running" /\ serving = Nothing /\ pending = <<>>
  /\ toDriver # <<>>
  /\ toDriver' = Tail(toDriver)
  /\ UNCHANGED <<toHost, hostGone, did>>

SkipBlank == Reads /\ Line = Blank /\ UNCHANGED process

\* Faulty: a line that is no request is served all the same.
RefuseMalformedFallsThrough ==
  /\ Reads /\ Line = Malformed
  /\ pending' = <<ErrorTo(NoId, NoId, "valid")>>
  /\ serving' = Line
  /\ UNCHANGED <<driver, exit>>

\* A line that is no request cannot be answered by identifier.
RefuseMalformed ==
  /\ Reads /\ Line = Malformed
  /\ pending' = <<ErrorTo(NoId, NoId, "valid")>>
  /\ UNCHANGED <<driver, serving, exit>>

\* `lines' yields an error, which ends the worker.
FailRead ==
  /\ Reads /\ Line = Unreadable
  /\ exit' = "io"
  /\ UNCHANGED <<driver, serving, pending>>

RefuseOutOfOrder ==
  /\ Reads /\ Line \notin NoRequests
  /\ ~AcceptsRequest(driver, Line)
  /\ pending' = <<ErrorTo(Line.req, NoId, "valid")>>
  /\ UNCHANGED <<driver, serving, exit>>

Take ==
  /\ Reads /\ Line \notin NoRequests
  /\ AcceptsRequest(driver, Line)
  /\ driver' = AfterRequest(driver, Line)
  /\ IF Line.type = "shutdown"
       THEN exit' = "success" /\ UNCHANGED serving
       ELSE serving' = Line /\ UNCHANGED exit
  /\ UNCHANGED pending

\* The device does what it does; the worker has all the answers at once.
Serve ==
  /\ exit = "running" /\ serving # Nothing
  /\ \E outcome \in DeviceDoes(serving) :
       /\ pending' = Answers(serving, outcome)
       /\ did' = IF serving.type \in StartRequests
                   THEN [did EXCEPT ![serving.op] = Append(@, [request |-> serving,
                                                               outcome |-> outcome])]
                   ELSE did
  /\ serving' = Nothing
  /\ UNCHANGED <<pipes, driver, exit>>

\* emit: an answer the worker's own validator refuses ends the worker.
FailSelfCheck ==
  /\ exit = "running" /\ pending # <<>>
  /\ ~AcceptsResponse(driver, Head(pending))
  /\ exit' = "self_check"
  /\ UNCHANGED <<pipes, driver, serving, pending, did>>

\* Faulty: a write to a host that has left is tried again and again.
EmitForEver ==
  /\ exit = "running" /\ pending # <<>>
  /\ AcceptsResponse(driver, Head(pending))
  /\ \/ /\ ~hostGone /\ Len(toHost) < Capacity
        /\ driver' = AfterResponse(driver, Head(pending))
        /\ toHost' = Append(toHost, Head(pending))
        /\ pending' = Tail(pending)
     \/ /\ hostGone
        /\ UNCHANGED <<driver, toHost, pending>>
  /\ UNCHANGED <<toDriver, hostGone, serving, exit, did>>

\* emit: an accepted answer is written, when there is room and a reader.
Emit ==
  /\ exit = "running" /\ pending # <<>>
  /\ AcceptsResponse(driver, Head(pending))
  /\ driver' = AfterResponse(driver, Head(pending))
  /\ \/ /\ ~hostGone /\ Len(toHost) < Capacity
        /\ toHost' = Append(toHost, Head(pending))
        /\ pending' = Tail(pending)
        /\ UNCHANGED exit
     \/ /\ hostGone
        /\ exit' = "io"
        /\ UNCHANGED <<toHost, pending>>
  /\ UNCHANGED <<toDriver, hostGone, serving, did>>

EndOfInput ==
  /\ exit = "running" /\ serving = Nothing /\ pending = <<>>
  /\ hostGone /\ toDriver = <<>>
  /\ exit' = "success"
  /\ UNCHANGED <<pipes, driver, serving, pending, did>>

\* A fault in the C library, or a signal, ends the worker anywhere.
Die ==
  /\ exit = "running"
  /\ exit' = "killed"
  /\ UNCHANGED <<pipes, driver, serving, pending, did>>

DriverInit ==
  /\ driver = NewValidator
  /\ serving = Nothing
  /\ pending = <<>>
  /\ exit = "running"
  /\ did = [o \in Ids |-> <<>>]

\* What the worker does of its own accord, for the fairness of its owner.
DriverWorks ==
  \/ SkipBlank \/ RefuseMalformed \/ FailRead \/ RefuseOutOfOrder \/ Take
  \/ Serve
  \/ FailSelfCheck \/ Emit
  \/ EndOfInput
-----------------------------------------------------------------------------
(* Why: what the worker keeps, whoever its host is *)

\* What the worker writes.
Written ==
       [type : {"hello_ack"}, req : AnyId, version : {ProtocolVersion}]
  \cup {DevicesTo(r, roster) : r \in AnyId, roster \in Rosters}
  \cup [type : {"started"}, req : AnyId, op : AnyId]
  \cup [type : {"enroll_progress"}, op : AnyId, completed : Stages, total : Stages]
  \cup [type : {"enrolled"}, op : AnyId, data : {"valid"}, template : AnyId]
  \cup [type : {"match_result"}, op : AnyId, matched : BOOLEAN]
  \cup [type : {"completed"}, op : AnyId]
  \cup [type : {"error"}, req : AnyId \cup {NoId}, op : AnyId \cup {NoId}, data : Data]

AtRest(s) == s.phase \in {"NeedHello", "Ready"}

OneError(s, p) == Len(p) = 1 /\ p[1].type = "error"

\* An error that the validator takes unless its text is too long.
ErrorDue(s, p) ==
  OneError(s, p) /\ p[1].req = s.req /\ p[1].op \in {NoId, s.op}

CompletedDue(s, p) == Len(p) = 1 /\ p[1].type = "completed" /\ p[1].op = s.op

VerdictDue(s, p) ==
  /\ Len(p) = 2
  /\ p[1].type = "match_result" /\ p[1].op = s.op
  /\ CompletedDue(s, Tail(p))

\* Some stages, the template, and the end.
TemplateDue(s, p) ==
  /\ Len(p) >= 2
  /\ \A k \in 1..(Len(p) - 2) : p[k].type = "enroll_progress" /\ p[k].op = s.op
  /\ LET enrolled == p[Len(p) - 1]
         completed == p[Len(p)]
     IN /\ enrolled.type = "enrolled" /\ enrolled.op = s.op /\ enrolled.data = "valid"
        /\ completed.type = "completed" /\ completed.op = s.op

StartDue(s, p) ==
  /\ Len(p) >= 2
  /\ p[1].type = "started" /\ p[1].req = s.req /\ p[1].op = s.op
  /\ \/ s.kind = "enroll" /\ TemplateDue(s, Tail(p))
     \/ s.kind = "verify" /\ VerdictDue(s, Tail(p))

\* What is still to be written is what the validator waits for.  Nothing is
\* said of a list of devices, except that it is one.
Due(s, p) ==
  /\ s.phase \notin {"Closed", "Capturing", "AwaitCancelled"}
  /\ AtRest(s) => p = <<>> \/ OneError(s, p)
  /\ s.phase = "AwaitHelloAck" =>
       Len(p) = 1 /\ p[1].type = "hello_ack" /\ p[1].req = s.req
         /\ p[1].version = ProtocolVersion
  /\ s.phase = "AwaitDevices" =>
       \/ ErrorDue(s, p)
       \/ Len(p) = 1 /\ p[1].type = "devices" /\ p[1].req = s.req
  /\ s.phase = "AwaitStarted" => ErrorDue(s, p) \/ StartDue(s, p)
  /\ s.phase = "Enrolling" => IF s.enrolled THEN CompletedDue(s, p) ELSE TemplateDue(s, p)
  /\ s.phase = "Verifying" => IF s.reported THEN CompletedDue(s, p) ELSE VerdictDue(s, p)

\* The request being served is the one the validator waits on.
Awaits(s, m) ==
  /\ m.type \in {"hello", "enumerate"} \cup StartRequests
  /\ m.type = "hello" => s.phase = "AwaitHelloAck" /\ m.version = ProtocolVersion
  /\ m.type = "enumerate" => s.phase = "AwaitDevices"
  /\ m.type \in StartRequests =>
       s.phase = "AwaitStarted" /\ s.op = m.op /\ s.kind = KindOf(m.type)
         /\ m.op \in s.seenOp /\ did[m.op] = <<>>
  /\ s.req = m.req

\* An operation the device has carried out is one the validator has seen.
WorkIsSeen ==
  \A o \in Ids : Len(did[o]) <= 1 /\ (did[o] # <<>> => o \in driver.seenOp)

WorkerInOrder ==
  /\ driver \in Validators /\ Coherent(driver)
  /\ pending \in Seq(Written)
  /\ exit \in Exits \cup {"running"}
  /\ DOMAIN did = Ids /\ WorkIsSeen
  /\ serving # Nothing => pending = <<>> /\ Awaits(driver, serving)
  /\ serving = Nothing /\ exit \in {"running", "self_check"} => Due(driver, pending)
  /\ exit = "self_check" =>
       serving = Nothing /\ pending # <<>> /\ ~AcceptsResponse(driver, Head(pending))
=============================================================================
