-------------------------- MODULE SessionValidator --------------------------
(***************************************************************************)
(* One SessionValidator (src/src/protocol.rs) fed whatever messages its    *)
(* owner sees, in any order: the host feeds it the requests it is about to *)
(* send and the responses it read, a driver the requests it read and the   *)
(* responses it is about to send.                                          *)
(*                                                                         *)
(* A message the rules reject returns Err and changes nothing, which is a  *)
(* stuttering step of this specification.                                  *)
(*                                                                         *)
(* `asks', `ops' and `trail' are history: what an observer of the accepted *)
(* messages, who knows nothing of the validator, writes down about each    *)
(* request and each operation.  The validator forgets an operation as soon *)
(* as it ends; the history is there so that its promises about the whole   *)
(* session, the specification Conversation, can be stated.                 *)
(***************************************************************************)
EXTENDS SessionRules, Sequences

\* There are more identifiers (strings of up to 128 bytes) than are tracked.
ASSUME PlentyAssumption ==
  \E plenty \in SUBSET Ids : IsFiniteSet(plenty) /\ Cardinality(plenty) = MaxTracked + 1

VARIABLES
  validator,  \* the SessionValidator
  asks,       \* asks[r]: request r was asked, answered, or neither
  ops,        \* ops[o]: stage and kind of operation o, and what it produced
  trail       \* trail[o]: the sequence numbers or stages operation o reported

vars == <<validator, asks, ops, trail>>
history == <<asks, ops, trail>>

\* The phases of the session as the stages of a channel.
Channel ==
  CASE validator.phase \in {"NeedHello", "AwaitHelloAck"} -> "new"
    [] validator.phase = "Closed" -> "closed"
    [] OTHER -> "open"

Promise == INSTANCE Conversation WITH channel <- Channel

Init ==
  /\ validator = NewValidator
  /\ asks = [r \in Ids |-> "unasked"]
  /\ ops = [o \in Ids |-> Promise!Unused]
  /\ trail = [o \in Ids |-> <<>>]
-----------------------------------------------------------------------------
(* What the observer writes down *)

NoteRequest(m) ==
  /\ asks' = [asks EXCEPT ![m.req] = "asked"]
  /\ ops' =
       CASE m.type \in StartRequests ->
              [ops EXCEPT ![m.op] = [stage |-> "requested",
                                     kind |-> KindOf(m.type), produced |-> <<>>]]
         [] m.type = "cancel" -> [ops EXCEPT ![m.op].stage = "cancelling"]
         [] OTHER -> ops
  /\ UNCHANGED trail

\* The stage an answer or event puts its operation in.
StageAfter(type) ==
  CASE type = "started" -> "running"
    [] type = "completed" -> "completed"
    [] type = "cancelled" -> "cancelled"

ResultIn(type) ==
  CASE type = "frame" -> "frame"
    [] type = "enrolled" -> "template"
    [] type = "match_result" -> "verdict"

Number(m) == IF m.type = "frame" THEN m.sequence ELSE m.completed

NoteResponse(m) ==
  /\ asks' = IF /\ m.type \in {"hello_ack", "devices", "started", "cancelled", "error"}
                /\ m.req # NoId
               THEN [asks EXCEPT ![m.req] = "answered"]
               ELSE asks
  /\ ops' =
       CASE m.type \in {"started", "completed", "cancelled"} ->
              [ops EXCEPT ![m.op].stage = StageAfter(m.type)]
         [] m.type \in {"frame", "enrolled", "match_result"} ->
              [ops EXCEPT ![m.op].produced = Append(@, ResultIn(m.type))]
         [] m.type = "error" ->
              [o \in Ids |-> IF Promise!Live(o)
                               THEN [ops[o] EXCEPT !.stage = "failed"] ELSE ops[o]]
         [] OTHER -> ops
  /\ trail' = IF m.type \in {"frame", "enroll_progress"}
                THEN [trail EXCEPT ![m.op] = Append(@, Number(m))]
                ELSE trail
-----------------------------------------------------------------------------
(* The two operations of the validator *)

AcceptRequest(m) ==
  /\ AcceptsRequest(validator, m)
  /\ validator' = AfterRequest(validator, m)
  /\ NoteRequest(m)

AcceptResponse(m) ==
  /\ AcceptsResponse(validator, m)
  /\ validator' = AfterResponse(validator, m)
  /\ NoteResponse(m)

Next ==
  \/ \E m \in Requests : AcceptRequest(m)
  \/ \E m \in Responses : AcceptResponse(m)

Spec == Init /\ [][Next]_vars
-----------------------------------------------------------------------------
(* Properties *)

\* Type invariant: the validator record, and the observer's notes.
TypeOK ==
  /\ validator \in Validators
  /\ asks \in [Ids -> {"unasked", "asked", "answered"}]
  /\ ops \in [Ids -> Promise!Lives]
  /\ trail \in [Ids -> Seq(Sequences \cup Stages)]

\* The validator keeps, at every moment of any message sequence, the promises
\* of Conversation: identifiers are never reused, one request is unanswered
\* at a time, one operation is live at a time, and nothing completes without
\* the result it was started for (accept_request and accept_response
\* together; each ended operation is beyond the validator's own memory).
KeepsPromises == Promise!Spec

\* The frames of a capture and the stages of an enrollment are reported in
\* strictly ascending order over the whole operation, across removals and
\* returns of the finger (the "must increase monotonically" errors).
TrailsAscend ==
  \A o \in Ids : \A i, j \in DOMAIN trail[o] :
    i < j => trail[o][i] < trail[o][j]

\* No dead end, as an observer of the messages sees it: a request that was asked
\* can be answered under its own identifier, an operation that is live can be
\* failed under its own, and where neither is the case another request is taken
\* until the limit is reached.  A transition that loses the identifier it waits
\* on, or waits on another, would refuse the one answer a driver can give.
NoDeadEnd ==
  validator.phase # "Closed" =>
    /\ \A r \in Ids : asks[r] = "asked" =>
         \E m \in Responses :
           /\ m.type \in {"hello_ack", "devices", "started", "cancelled"} /\ m.req = r
           /\ AcceptsResponse(validator, m)
    /\ \A o \in Ids : Promise!Live(o) =>
         \E m \in Responses : m.type = "error" /\ m.op = o /\ AcceptsResponse(validator, m)
    /\ \/ \E r \in Ids : asks[r] = "asked" \/ Promise!Live(r)
       \/ Cardinality(validator.seenReq) = MaxTracked
       \/ \E m \in Requests : AcceptsRequest(validator, m)

\* An identifier is tracked for every request and operation the session ever
\* accepted, and MAX_TRACKED_IDENTIFIERS bounds both sets.
TrackingBounded ==
  /\ validator.seenReq = {r \in Ids : asks[r] # "unasked"}
  /\ validator.seenOp = {o \in Ids : ops[o].stage # "unused"}
  /\ Cardinality(validator.seenReq) <= MaxTracked
  /\ Cardinality(validator.seenOp) <= MaxTracked
-----------------------------------------------------------------------------
(* Why the promises are kept: the inductive invariant *)

\* The request waited on is the one unanswered request, unless the session is
\* closed: shutdown has no answer.
AsksMatch ==
  /\ \A r \in Ids : asks[r] = "unasked" <=> r \notin validator.seenReq
  /\ \A r \in Ids : asks[r] = "asked" => validator.phase = "Closed" \/ r = validator.req
  /\ validator.req # NoId => asks[validator.req] = "asked"

\* The operation engaged is the one live operation.
OpsMatch ==
  /\ \A o \in Ids : ops[o].stage = "unused" <=> o \notin validator.seenOp
  /\ \A o \in Ids : ops[o].stage = "unused" => ops[o] = Promise!Unused /\ trail[o] = <<>>
  /\ \A o \in Ids : Promise!Live(o) <=> o = validator.op

\* The phase says how far the engaged operation has come, of what kind it is
\* and whether it has produced anything.
PhaseMatches ==
  LET life == ops[validator.op] IN
  /\ validator.phase = "AwaitStarted" =>
       /\ life = [stage |-> "requested", kind |-> validator.kind, produced |-> <<>>]
       /\ trail[validator.op] = <<>>
  /\ validator.phase \in Running => life.stage = "running"
  /\ validator.phase = "Capturing" =>
       life.kind = "capture" /\ (validator.sawFrame <=> life.produced # <<>>)
  /\ validator.phase = "Enrolling" =>
       life.kind = "enroll" /\ (validator.enrolled <=> life.produced # <<>>)
  /\ validator.phase = "Verifying" =>
       life.kind = "verify" /\ (validator.reported <=> life.produced # <<>>)
  /\ validator.phase = "AwaitCancelled" => life.stage = "cancelling"

\* The last number the validator remembers is above all that were reported.
LastReported ==
  LET reported == trail[validator.op] IN
  /\ validator.phase = "Capturing" =>
       \A i \in DOMAIN reported : reported[i] <= validator.lastSequence
  /\ validator.phase = "Enrolling" =>
       \A i \in DOMAIN reported : reported[i] <= validator.lastCompleted

\* The validator's state is a summary of the observer's notes.
Summary ==
  /\ TypeOK
  /\ Coherent(validator)
  /\ AsksMatch
  /\ OpsMatch
  /\ PhaseMatches
  /\ LastReported
  /\ TrailsAscend
=============================================================================
