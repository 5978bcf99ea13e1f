---------------------------- MODULE AtomicDevice ----------------------------
(***************************************************************************)
(* What a WorkerDevice promises its caller, with no worker, no lines and   *)
(* no session in it: a sensor that may break for good, is called for one   *)
(* thing at a time, and works at most once for a call, while the call      *)
(* waits.  A call returns what that work made, or fails because the work   *)
(* failed or the sensor broke, or is refused before any work.              *)
(***************************************************************************)
EXTENDS Naturals, Sequences

CONSTANTS
  Ids,       \* calls
  Devices,   \* the sensors there may be
  NoDevice,  \* no sensor is bound
  Foreign    \* a template of an earlier session

VARIABLES
  device,  \* the sensor bound
  alive,   \* it has not broken
  calls,   \* calls[o]: what was asked or what was returned
  works    \* works[o]: what the sensor did for the call, and on what sensor

vars == <<device, alive, calls, works>>

None == [what |-> "none"]
Failed == [what |-> "error"]
Pending(ask) == [what |-> "pending", ask |-> ask]

EnrollAsk == [kind |-> "enroll"]
VerifyAsk(blob) == [kind |-> "verify", blob |-> blob]

\* The templates a caller may hold.
Held == {Foreign} \cup {calls[o].template : o \in {p \in Ids : calls[p].what = "template"}}

\* What the sensor may make of an ask: a template nobody had, or a verdict on
\* the template given.
Makes(o, ask) ==
  IF ask.kind = "enroll"
    THEN {[what |-> "template", template |-> o], Failed}
    ELSE [what : {"verdict"}, blob : {ask.blob}, matched : BOOLEAN] \cup {Failed}

Init ==
  /\ device = NoDevice
  /\ alive = TRUE
  /\ calls = [o \in Ids |-> None]
  /\ works = [o \in Ids |-> <<>>]

\* Only a sensor that can enroll is bound.
Bind(d) ==
  /\ device = NoDevice
  /\ d.stages # 0
  /\ device' = d
  /\ UNCHANGED <<alive, calls, works>>

Returns(o, value) ==
  /\ calls' = [calls EXCEPT ![o] = value]
  /\ UNCHANGED <<device, alive, works>>

Waits(o) == calls[o].what = "pending"

Ask(o, ask) ==
  /\ device # NoDevice
  /\ calls[o] = None
  /\ \A p \in Ids : ~Waits(p)
  /\ Returns(o, Pending(ask))

Refuse(o) == calls[o] = None /\ Returns(o, Failed)

Work(o) ==
  /\ alive
  /\ Waits(o) /\ works[o] = <<>>
  /\ \E made \in Makes(o, calls[o].ask) :
       works' = [works EXCEPT ![o] = <<[on |-> device.id, made |-> made]>>]
  /\ UNCHANGED <<device, alive, calls>>

Answer(o) ==
  /\ Waits(o)
  /\ works[o] # <<>> /\ works[o][1].made # Failed
  /\ Returns(o, works[o][1].made)

Fail(o) ==
  /\ Waits(o)
  /\ ~alive \/ (works[o] # <<>> /\ works[o][1].made = Failed)
  /\ Returns(o, Failed)

\* The progress callback of an enrollment panics.
Abandon(o) ==
  /\ Waits(o) /\ calls[o].ask = EnrollAsk
  /\ works[o] # <<>> /\ works[o][1].made # Failed
  /\ Returns(o, [what |-> "panicked"])

Break ==
  /\ alive
  /\ alive' = FALSE
  /\ UNCHANGED <<device, calls, works>>

Next ==
  \/ \E d \in Devices : Bind(d)
  \/ \E o \in Ids :
       \/ Ask(o, EnrollAsk)
       \/ \E blob \in Held : Ask(o, VerifyAsk(blob))
       \/ Refuse(o) \/ Work(o) \/ Answer(o) \/ Fail(o) \/ Abandon(o)
  \/ Break

Spec == Init /\ [][Next]_vars
-----------------------------------------------------------------------------
(* What comes of it *)

\* The sensor worked once for a call at most, and not before it was made.  What
\* was returned is what it made; where a call failed although it worked, it
\* broke or its work failed.
Honest ==
  \A o \in Ids :
    /\ works[o] = <<>> \/ DOMAIN works[o] = {1}
    /\ works[o] # <<>> =>
         works[o][1].made = Failed \/ works[o][1].made.what \in {"template", "verdict"}
    /\ calls[o].what = "none" => works[o] = <<>>
    /\ calls[o].what \in {"template", "verdict"} =>
         works[o] # <<>> /\ works[o][1].made = calls[o]
    /\ calls[o].what = "error" /\ works[o] # <<>> => ~alive \/ works[o][1].made = Failed
=============================================================================
