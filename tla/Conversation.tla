---------------------------- MODULE Conversation ----------------------------
(***************************************************************************)
(* What a driver session promises, with no validator in sight: a           *)
(* conversation of requests and operations.                                *)
(*                                                                         *)
(*  - A request is asked once and answered at most once, and no second     *)
(*    request is asked while one is unanswered.                            *)
(*  - An operation is used once.  At most one is live, and only in an open *)
(*    channel; it produces only what its kind calls for, a template or a   *)
(*    verdict once, and completes only after that.                         *)
(*  - What has ended stays ended.                                          *)
(*  - The channel opens by agreement, and closes for good, with nothing    *)
(*    left running.                                                        *)
(***************************************************************************)
EXTENDS Sequences

CONSTANT Ids  \* identifiers of requests and of operations

VARIABLES
  channel,  \* "new", "open" or "closed"
  asks,     \* asks[r]: what became of request r
  ops       \* ops[o]: the life of operation o

vars == <<channel, asks, ops>>

Kinds == {"capture", "enroll", "verify"}

Results == {"frame", "template", "verdict"}

\* The result an operation of each kind is started for.
ResultOf(kind) ==
  CASE kind = "capture" -> "frame"
    [] kind = "enroll" -> "template"
    [] kind = "verify" -> "verdict"

Lives == [stage : {"unused", "requested", "running", "cancelling",
                   "completed", "cancelled", "failed"},
          kind : Kinds \cup {"none"},
          produced : Seq(Results)]

Unused == [stage |-> "unused", kind |-> "none", produced |-> <<>>]

Init ==
  /\ channel = "new"
  /\ asks = [r \in Ids |-> "unasked"]
  /\ ops = [o \in Ids |-> Unused]
-----------------------------------------------------------------------------
Live(o) == ops[o].stage \in {"requested", "running", "cancelling"}

Idle == channel = "open" /\ \A o \in Ids : ~Live(o)

Ask(r) ==
  /\ asks[r] = "unasked"
  /\ \A q \in Ids : asks[q] # "asked"
  /\ asks' = [asks EXCEPT ![r] = "asked"]

Answer(r) ==
  /\ asks[r] = "asked"
  /\ asks' = [asks EXCEPT ![r] = "answered"]

\* Operation o passes from one stage to the next.
Passes(o, from, to) ==
  /\ ops[o].stage = from
  /\ ops' = [ops EXCEPT ![o].stage = to]
-----------------------------------------------------------------------------
Greet(r) == channel = "new" /\ Ask(r) /\ UNCHANGED <<channel, ops>>

Agree(r) == channel = "new" /\ Answer(r) /\ channel' = "open" /\ UNCHANGED ops

Refuse(r) == channel = "new" /\ Answer(r) /\ UNCHANGED <<channel, ops>>

List(r) == Idle /\ Ask(r) /\ UNCHANGED <<channel, ops>>

Listed(r) == Idle /\ Answer(r) /\ UNCHANGED <<channel, ops>>

Start(r, o, kind) ==
  /\ Idle
  /\ Ask(r)
  /\ ops[o] = Unused
  /\ ops' = [ops EXCEPT ![o] =
       [stage |-> "requested", kind |-> kind, produced |-> <<>>]]
  /\ UNCHANGED channel

Started(r, o) ==
  Answer(r) /\ Passes(o, "requested", "running") /\ UNCHANGED channel

StartFailed(r, o) ==
  Answer(r) /\ Passes(o, "requested", "failed") /\ UNCHANGED channel

\* A capture produces frame after frame; an enrollment one template and a
\* verification one verdict.
Produce(o) ==
  /\ ops[o].stage = "running"
  /\ ops[o].kind = "capture" \/ ops[o].produced = <<>>
  /\ ops' = [ops EXCEPT ![o].produced = Append(@, ResultOf(ops[o].kind))]
  /\ UNCHANGED <<channel, asks>>

Complete(o) ==
  /\ Passes(o, "running", "completed")
  /\ ops[o].produced # <<>>
  /\ UNCHANGED <<channel, asks>>

Fail(o) == Passes(o, "running", "failed") /\ UNCHANGED <<channel, asks>>

Cancel(r, o) ==
  Ask(r) /\ Passes(o, "running", "cancelling") /\ UNCHANGED channel

Cancelled(r, o) ==
  Answer(r) /\ Passes(o, "cancelling", "cancelled") /\ UNCHANGED channel

CancelFailed(r, o) ==
  Answer(r) /\ Passes(o, "cancelling", "failed") /\ UNCHANGED channel

Close(r) == Idle /\ Ask(r) /\ channel' = "closed" /\ UNCHANGED ops
-----------------------------------------------------------------------------
Next ==
  \/ \E r \in Ids :
       Greet(r) \/ Agree(r) \/ Refuse(r) \/ List(r) \/ Listed(r) \/ Close(r)
  \/ \E r, o \in Ids :
       \/ Started(r, o) \/ StartFailed(r, o)
       \/ Cancel(r, o) \/ Cancelled(r, o) \/ CancelFailed(r, o)
       \/ \E kind \in Kinds : Start(r, o, kind)
  \/ \E o \in Ids : Produce(o) \/ Complete(o) \/ Fail(o)

Spec == Init /\ [][Next]_vars
=============================================================================
