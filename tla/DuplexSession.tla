---------------------------- MODULE DuplexSession ----------------------------
(***************************************************************************)
(* A session as two programs see it: a host and a driver, each with a      *)
(* SessionValidator of its own (WorkerDevice.validator in                  *)
(* src/src/worker.rs, `validator' in the worker's run), joined by two      *)
(* pipes that delay lines and neither lose nor reorder them.               *)
(*                                                                         *)
(* Each program sends anything its own validator accepts, at any moment:   *)
(* send and emit validate before they write, receive and run validate      *)
(* what they read.  The validators make the session safe only if what one  *)
(* end may send is what the other end will accept.                         *)
(***************************************************************************)
EXTENDS SessionRules, Sequences

CONSTANTS
  HostTypes,  \* the types of request the host makes use of
  Capacity    \* lines a pipe holds

VARIABLES
  host,      \* the host's validator
  driver,    \* the driver's validator
  toDriver,  \* requests written and not yet read
  toHost,    \* responses written and not yet read
  marks      \* history: marks[i] is the driver's validator after it sent toHost[i]

vars == <<host, driver, toDriver, toHost, marks>>

Init ==
  /\ host = NewValidator
  /\ driver = NewValidator
  /\ toDriver = <<>>
  /\ toHost = <<>>
  /\ marks = <<>>

\* WorkerDevice::send
HostSends(m) ==
  /\ m.type \in HostTypes
  /\ Len(toDriver) < Capacity
  /\ AcceptsRequest(host, m)
  /\ host' = AfterRequest(host, m)
  /\ toDriver' = Append(toDriver, m)
  /\ UNCHANGED <<driver, toHost, marks>>

\* Faulty: the worker reads a request past its validator.
DriverReceivesUnnoted ==
  /\ toDriver # <<>>
  /\ AcceptsRequest(driver, Head(toDriver))
  /\ toDriver' = Tail(toDriver)
  /\ UNCHANGED <<host, driver, toHost, marks>>

\* The worker's run, up to the point where it acts on the request.
DriverReceives ==
  /\ toDriver # <<>>
  /\ AcceptsRequest(driver, Head(toDriver))
  /\ driver' = AfterRequest(driver, Head(toDriver))
  /\ toDriver' = Tail(toDriver)
  /\ UNCHANGED <<host, toHost, marks>>

\* Faulty: the worker writes what its validator refused.
DriverSendsUnchecked(m) ==
  /\ Len(toHost) < Capacity
  /\ driver' = IF AcceptsResponse(driver, m) THEN AfterResponse(driver, m) ELSE driver
  /\ toHost' = Append(toHost, m)
  /\ marks' = Append(marks, driver')
  /\ UNCHANGED <<host, toDriver>>

\* The worker's emit
DriverSends(m) ==
  /\ Len(toHost) < Capacity
  /\ AcceptsResponse(driver, m)
  /\ driver' = AfterResponse(driver, m)
  /\ toHost' = Append(toHost, m)
  /\ marks' = Append(marks, driver')
  /\ UNCHANGED <<host, toDriver>>

\* Faulty: the host gives up on an error before its validator has seen it.
HostReceivesErrorFirst ==
  /\ toHost # <<>>
  /\ AcceptsResponse(host, Head(toHost))
  /\ host' = IF Head(toHost).type = "error" THEN host ELSE AfterResponse(host, Head(toHost))
  /\ toHost' = Tail(toHost)
  /\ marks' = Tail(marks)
  /\ UNCHANGED <<driver, toDriver>>

\* WorkerDevice::receive
HostReceives ==
  /\ toHost # <<>>
  /\ AcceptsResponse(host, Head(toHost))
  /\ host' = AfterResponse(host, Head(toHost))
  /\ toHost' = Tail(toHost)
  /\ marks' = Tail(marks)
  /\ UNCHANGED <<driver, toDriver>>

Next ==
  \/ \E m \in Requests : HostSends(m)
  \/ DriverReceives
  \/ \E m \in Responses : DriverSends(m)
  \/ HostReceives

Spec == Init /\ [][Next]_vars
-----------------------------------------------------------------------------
TypeOK ==
  /\ host \in Validators /\ driver \in Validators
  /\ toDriver \in Seq(Requests) /\ toHost \in Seq(Responses)
  /\ marks \in Seq(Validators) /\ Len(marks) = Len(toHost)

\* main.rs:287-288: a worker that validates its own output sends nothing a
\* host has to defend against, and a host that validates its own requests
\* sends nothing the worker refuses.  However long a line was under way, the
\* end that reads it accepts it.
NoProtocolViolation ==
  /\ toDriver # <<>> => AcceptsRequest(driver, Head(toDriver))
  /\ toHost # <<>> => AcceptsResponse(host, Head(toHost))
=============================================================================
