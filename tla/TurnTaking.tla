----------------------------- MODULE TurnTaking -----------------------------
(***************************************************************************)
(* A DuplexSession whose host never cancels, as WorkerDevice: it is then a *)
(* strict exchange of turns, a request one way and responses the other.    *)
(***************************************************************************)
EXTENDS DuplexSession

ASSUME NoCancelAssumption == "cancel" \notin HostTypes
-----------------------------------------------------------------------------
\* With nothing under way the two ends are of one mind about the session.
AgreeWhenQuiet == toDriver = <<>> /\ toHost = <<>> => host = driver

\* Lines travel one way at a time: while a request is under way there is no
\* other, and no response.
OneDirection == toDriver # <<>> => Len(toDriver) = 1 /\ toHost = <<>>

\* The host's validator before it reads toHost[i].
Before(i) == IF i = 1 THEN host ELSE marks[i - 1]

\* Why: the responses under way lead from the host's validator to the
\* driver's, and a request under way from the driver's to the host's.
Connected ==
  /\ OneDirection
  /\ toDriver # <<>> =>
       /\ AcceptsRequest(driver, Head(toDriver))
       /\ host = AfterRequest(driver, Head(toDriver))
       /\ Head(toDriver).type \in HostTypes
  /\ toDriver = <<>> => driver = Before(Len(toHost) + 1)
  /\ \A i \in 1..Len(toHost) :
       /\ AcceptsResponse(Before(i), toHost[i])
       /\ marks[i] = AfterResponse(Before(i), toHost[i])
=============================================================================
