---------------------------- MODULE SessionRules ----------------------------
(***************************************************************************)
(* The rules of the driver protocol, src/src/protocol.rs: which messages   *)
(* are well formed (validate_request, validate_response) and what one      *)
(* SessionValidator does with a well-formed message (accept_request,       *)
(* accept_response, accept_error_response).                                *)
(*                                                                         *)
(* The host and the driver worker each hold a validator of their own, so   *)
(* the rules are operators on a validator record s and a message record m: *)
(* Accepts...(s, m) is the condition under which the code returns Ok, and  *)
(* After...(s, m) the validator it leaves behind.  A rejected message      *)
(* leaves the validator as it was.                                         *)
(*                                                                         *)
(* The record flattens the SessionState enum: `phase' is the variant, the  *)
(* other fields are the data of the variants, at rest ("no value") in the  *)
(* variants that do not carry them.  A frame sequence of -1 and a stage of *)
(* 0 are Option::None; no real one is below them.                          *)
(***************************************************************************)
EXTENDS Integers, FiniteSets

CONSTANTS
  Ids,              \* identifiers that pass validate_identifier
  BadId,            \* an identifier that does not: empty, or over 128 bytes
  NoId,             \* an identifier field that is absent
  Versions,         \* the protocol versions a message may carry
  ProtocolVersion,  \* PROTOCOL_VERSION, the one version accepted
  MaxTracked,       \* MAX_TRACKED_IDENTIFIERS
  Sequences,        \* frame sequence numbers
  Stages            \* enrollment stage counts

ASSUME IdsAssumption == BadId \notin Ids /\ NoId \notin Ids /\ BadId # NoId
ASSUME VersionAssumption == ProtocolVersion \in Versions
ASSUME TrackedAssumption == MaxTracked \in Nat
ASSUME CountersAssumption == Sequences \subseteq Nat /\ Stages \subseteq Nat
-----------------------------------------------------------------------------
(* Messages *)

AnyId == Ids \cup {BadId}

\* What is left of a message once identifiers and counters are set aside:
\* device names, template bytes, frame geometry and bytes, the device list,
\* an error's code and text.  Only whether it passes its checks matters.
Data == {"valid", "invalid"}

Kinds == {"capture", "enroll", "verify"}

StartRequests == {"start_capture", "start_enroll", "start_verify"}

KindOf(type) ==
  CASE type = "start_capture" -> "capture"
    [] type = "start_enroll" -> "enroll"
    [] type = "start_verify" -> "verify"

Requests ==
       [type : {"hello"}, req : AnyId, version : Versions]
  \cup [type : {"enumerate", "shutdown"}, req : AnyId]
  \cup [type : StartRequests, req : AnyId, op : AnyId, data : Data]
  \cup [type : {"cancel"}, req : AnyId, op : AnyId]

Responses ==
       [type : {"hello_ack"}, req : AnyId, version : Versions]
  \cup [type : {"devices"}, req : AnyId, data : Data]
  \cup [type : {"started", "cancelled"}, req : AnyId, op : AnyId]
  \cup [type : {"finger_present", "finger_removed", "match_result", "completed"},
        op : AnyId]
  \cup [type : {"frame"}, op : AnyId, sequence : Sequences, data : Data]
  \cup [type : {"enroll_progress"}, op : AnyId, completed : Stages, total : Stages]
  \cup [type : {"enrolled"}, op : AnyId, data : Data]
  \cup [type : {"error"}, req : AnyId \cup {NoId}, op : AnyId \cup {NoId}, data : Data]
-----------------------------------------------------------------------------
(* Validators *)

\* The phases in which an operation runs, those that wait for an answer, and
\* the phase each kind of operation runs in.
Running == {"Capturing", "Enrolling", "Verifying"}

Waiting == {"AwaitHelloAck", "AwaitDevices", "AwaitStarted", "AwaitCancelled"}

\* The phases that are about one operation.
Engaged == Running \cup {"AwaitStarted", "AwaitCancelled"}

PhaseOf(kind) ==
  CASE kind = "capture" -> "Capturing"
    [] kind = "enroll" -> "Enrolling"
    [] kind = "verify" -> "Verifying"

Phases == {"NeedHello", "Ready", "Closed"} \cup Waiting \cup Running

Validators ==
  [phase : Phases,
   req : Ids \cup {NoId},           \* request an Await... phase waits on
   op : Ids \cup {NoId},            \* operation requested, running or being cancelled
   kind : Kinds \cup {"none"},      \* its kind, while it waits to be started
   present : BOOLEAN,               \* Capturing: a finger is on the sensor
   sawFrame : BOOLEAN,              \* Capturing: a frame has arrived
   lastSequence : Sequences \cup {-1},
   lastCompleted : Stages \cup {0},
   enrolled : BOOLEAN,              \* Enrolling: the template has arrived
   reported : BOOLEAN,              \* Verifying: the verdict has arrived
   seenReq : SUBSET Ids,
   seenOp : SUBSET Ids]

\* A phase carries the identifiers of its variant, and no others.
Coherent(s) ==
  /\ s.req # NoId <=> s.phase \in Waiting
  /\ s.op # NoId <=> s.phase \in Engaged
  /\ s.kind # "none" <=> s.phase = "AwaitStarted"

\* Move s to a phase that waits for the answer to request r about operation o.
Await(s, phase, r, o, kind) ==
  [phase |-> phase, req |-> r, op |-> o, kind |-> kind,
   present |-> FALSE, sawFrame |-> FALSE, lastSequence |-> -1,
   lastCompleted |-> 0, enrolled |-> FALSE, reported |-> FALSE,
   seenReq |-> s.seenReq, seenOp |-> s.seenOp]

\* Move s to a phase that carries no data.
Rest(s, phase) == Await(s, phase, NoId, NoId, "none")

\* Move s to the phase in which the operation it awaited runs.
Run(s) == Await(s, PhaseOf(s.kind), NoId, s.op, "none")

NewValidator ==
  [phase |-> "NeedHello", req |-> NoId, op |-> NoId, kind |-> "none",
   present |-> FALSE, sawFrame |-> FALSE, lastSequence |-> -1,
   lastCompleted |-> 0, enrolled |-> FALSE, reported |-> FALSE,
   seenReq |-> {}, seenOp |-> {}]
-----------------------------------------------------------------------------
(* Well-formedness: validate_request and validate_response *)

\* Faulty: the request's own identifier is not checked.
ValidRequestAnyId(m) ==
  /\ m.type \in StartRequests \cup {"cancel"} => m.op \in Ids /\ m.op # m.req
  /\ m.type \in StartRequests => m.data = "valid"

ValidRequest(m) ==
  /\ m.req \in Ids
  /\ m.type \in StartRequests \cup {"cancel"} => m.op \in Ids /\ m.op # m.req
  /\ m.type \in StartRequests => m.data = "valid"

ValidStage(m) == m.total # 0 /\ m.completed # 0 /\ m.completed <= m.total

ValidResponse(m) ==
  /\ m.type \in {"hello_ack", "devices", "started", "cancelled"} => m.req \in Ids
  /\ m.type \notin {"hello_ack", "devices", "error"} => m.op \in Ids
  /\ m.type = "error" => m.req # BadId /\ m.op # BadId
  /\ m.type \in {"devices", "frame", "enrolled", "error"} => m.data = "valid"
  /\ m.type = "enroll_progress" => ValidStage(m)
-----------------------------------------------------------------------------
(* accept_request *)

\* Faulty: one identifier more than the limit is tracked.
FreshIdsOneMore(s, m) ==
  /\ m.req \notin s.seenReq
  /\ Cardinality(s.seenReq) <= MaxTracked
  /\ m.type \in StartRequests =>
       m.op \notin s.seenOp /\ Cardinality(s.seenOp) <= MaxTracked

\* Faulty: an operation identifier may be used again.
FreshIdsReused(s, m) ==
  /\ m.req \notin s.seenReq
  /\ Cardinality(s.seenReq) < MaxTracked

\* Identifiers are used once in a session, and a session tracks a bounded
\* number of them.
FreshIds(s, m) ==
  /\ m.req \notin s.seenReq
  /\ Cardinality(s.seenReq) < MaxTracked
  /\ m.type \in StartRequests =>
       m.op \notin s.seenOp /\ Cardinality(s.seenOp) < MaxTracked

RequestInOrder(s, m) ==
  \/ /\ m.type = "hello"
     /\ s.phase = "NeedHello"
     /\ m.version = ProtocolVersion
  \/ /\ m.type \in StartRequests \cup {"enumerate", "shutdown"}
     /\ s.phase = "Ready"
  \/ /\ m.type = "cancel"
     /\ s.phase \in Running
     /\ m.op = s.op

AcceptsRequest(s, m) == ValidRequest(m) /\ FreshIds(s, m) /\ RequestInOrder(s, m)

\* The identifiers of an accepted request are spent, whatever becomes of it.
Spend(s, m) ==
  [s EXCEPT !.seenReq = @ \cup {m.req},
            !.seenOp = IF m.type \in StartRequests THEN @ \cup {m.op} ELSE @]

\* Faulty: a cancellation waits for the identifier of the operation.
AfterRequestWaitsForOp(s, m) ==
  LET t == Spend(s, m) IN
  CASE m.type = "hello" -> Await(t, "AwaitHelloAck", m.req, NoId, "none")
    [] m.type = "enumerate" -> Await(t, "AwaitDevices", m.req, NoId, "none")
    [] m.type \in StartRequests ->
         Await(t, "AwaitStarted", m.req, m.op, KindOf(m.type))
    [] m.type = "cancel" -> Await(t, "AwaitCancelled", s.op, s.op, "none")
    [] m.type = "shutdown" -> Rest(t, "Closed")

AfterRequest(s, m) ==
  LET t == Spend(s, m) IN
  CASE m.type = "hello" -> Await(t, "AwaitHelloAck", m.req, NoId, "none")
    [] m.type = "enumerate" -> Await(t, "AwaitDevices", m.req, NoId, "none")
    [] m.type \in StartRequests ->
         Await(t, "AwaitStarted", m.req, m.op, KindOf(m.type))
    [] m.type = "cancel" -> Await(t, "AwaitCancelled", m.req, s.op, "none")
    [] m.type = "shutdown" -> Rest(t, "Closed")
-----------------------------------------------------------------------------
(* accept_response and accept_error_response *)

\* The answers to hello, enumerate, start and cancel name what they answer.
AnswerInOrder(s, m) ==
  \/ /\ m.type = "hello_ack"
     /\ s.phase = "AwaitHelloAck"
     /\ m.req = s.req /\ m.version = ProtocolVersion
  \/ /\ m.type = "devices"
     /\ s.phase = "AwaitDevices"
     /\ m.req = s.req
  \/ /\ m.type = "started"
     /\ s.phase = "AwaitStarted"
     /\ m.req = s.req /\ m.op = s.op
  \/ /\ m.type = "cancelled"
     /\ s.phase = "AwaitCancelled"
     /\ m.req = s.req /\ m.op = s.op

\* Events of a running operation.  A verification does not track the finger;
\* a capture does, and takes frames only while it is present; an enrollment
\* has no finger events at all.
EventInOrder(s, m) ==
  \/ /\ s.phase = "Capturing"
     /\ \/ m.type = "finger_present" /\ ~s.present
        \/ m.type = "finger_removed" /\ s.present
        \/ m.type = "frame" /\ s.present /\ m.sequence > s.lastSequence
  \/ /\ s.phase = "Enrolling" /\ ~s.enrolled
     /\ \/ m.type = "enroll_progress" /\ m.completed > s.lastCompleted
        \/ m.type = "enrolled"
  \/ /\ s.phase = "Verifying"
     /\ \/ m.type \in {"finger_present", "finger_removed"}
        \/ m.type = "match_result" /\ ~s.reported

\* Faulty: an enrollment may complete without its template.
MayCompleteEmpty(s) ==
  \/ s.phase = "Capturing" /\ s.sawFrame /\ ~s.present
  \/ s.phase = "Enrolling"
  \/ s.phase = "Verifying" /\ s.reported

\* An operation may complete once it has produced what it was started for.
MayComplete(s) ==
  \/ s.phase = "Capturing" /\ s.sawFrame /\ ~s.present
  \/ s.phase = "Enrolling" /\ s.enrolled
  \/ s.phase = "Verifying" /\ s.reported

\* An error names the request that is waiting or the operation that runs.
ErrorInOrder(s, m) ==
  \/ s.phase \in {"AwaitHelloAck", "AwaitDevices"} /\ m.req = s.req /\ m.op = NoId
  \/ s.phase = "AwaitStarted" /\ m.req = s.req /\ m.op \in {NoId, s.op}
  \/ s.phase \in Running /\ m.req = NoId /\ m.op = s.op
  \/ s.phase = "AwaitCancelled" /\ m.req = s.req /\ m.op = s.op

AcceptsResponse(s, m) ==
  /\ ValidResponse(m)
  /\ \/ AnswerInOrder(s, m)
     \/ m.type \in {"finger_present", "finger_removed", "frame", "enroll_progress",
                    "enrolled", "match_result"} /\ m.op = s.op /\ EventInOrder(s, m)
     \/ m.type = "completed" /\ m.op = s.op /\ MayComplete(s)
     \/ m.type = "error" /\ ErrorInOrder(s, m)

\* Faulty: lifting the finger starts the frame numbering afresh.
AfterEventRestarts(s, m) ==
  CASE m.type = "finger_present" -> [s EXCEPT !.present = s.phase = "Capturing"]
    [] m.type = "finger_removed" -> [s EXCEPT !.present = FALSE, !.lastSequence = -1]
    [] m.type = "frame" ->
         [s EXCEPT !.sawFrame = TRUE, !.lastSequence = m.sequence]
    [] m.type = "enroll_progress" -> [s EXCEPT !.lastCompleted = m.completed]
    [] m.type = "enrolled" -> [s EXCEPT !.enrolled = TRUE]
    [] m.type = "match_result" -> [s EXCEPT !.reported = TRUE]

AfterEvent(s, m) ==
  CASE m.type = "finger_present" -> [s EXCEPT !.present = s.phase = "Capturing"]
    [] m.type = "finger_removed" -> [s EXCEPT !.present = FALSE]
    [] m.type = "frame" ->
         [s EXCEPT !.sawFrame = TRUE, !.lastSequence = m.sequence]
    [] m.type = "enroll_progress" -> [s EXCEPT !.lastCompleted = m.completed]
    [] m.type = "enrolled" -> [s EXCEPT !.enrolled = TRUE]
    [] m.type = "match_result" -> [s EXCEPT !.reported = TRUE]

\* Faulty: an error does not end the operation that runs.
AfterResponseGoesOn(s, m) ==
  CASE m.type = "error" /\ s.phase = "AwaitHelloAck" -> Rest(s, "NeedHello")
    [] m.type \in {"hello_ack", "devices", "completed", "cancelled"} -> Rest(s, "Ready")
    [] m.type = "error" /\ s.phase \in Waiting \ {"AwaitHelloAck"} -> Rest(s, "Ready")
    [] m.type = "error" /\ s.phase \in Running -> s
    [] m.type = "started" -> Run(s)
    [] OTHER -> AfterEvent(s, m)

\* A refused hello has to be sent again; any other answer that ends a wait or
\* an operation leaves the session ready for the next request.
AfterResponse(s, m) ==
  CASE m.type = "error" /\ s.phase = "AwaitHelloAck" -> Rest(s, "NeedHello")
    [] m.type \in {"hello_ack", "devices", "completed", "cancelled"} -> Rest(s, "Ready")
    [] m.type = "error" /\ s.phase # "AwaitHelloAck" -> Rest(s, "Ready")
    [] m.type = "started" -> Run(s)
    [] OTHER -> AfterEvent(s, m)
=============================================================================
