------------------------------- MODULE AnyHost -------------------------------
(***************************************************************************)
(* The driver worker facing a host of which nothing is known: any line may *)
(* arrive at any time, what the worker writes is read at any time, and the *)
(* host may close its pipes at any time.                                   *)
(***************************************************************************)
EXTENDS DriverWorker

CONSTANTS
  Lines,    \* the lines a host may write
  Backlog   \* bound: lines waiting to be read by the worker

ASSUME LinesAssumption == Lines \subseteq Requests \cup NoRequests
ASSUME BacklogAssumption == Backlog \in Nat

anyVars == <<pipes, process, did>>

AnyInit ==
  /\ DriverInit
  /\ toDriver = <<>>
  /\ toHost = <<>>
  /\ hostGone = FALSE

Write(line) ==
  /\ ~hostGone /\ exit = "running"
  /\ Len(toDriver) < Backlog
  /\ toDriver' = Append(toDriver, line)
  /\ UNCHANGED <<toHost, hostGone, process, did>>

Read ==
  /\ ~hostGone /\ toHost # <<>>
  /\ toHost' = Tail(toHost)
  /\ UNCHANGED <<toDriver, hostGone, process, did>>

Leave ==
  /\ ~hostGone
  /\ hostGone' = TRUE
  /\ UNCHANGED <<toDriver, toHost, process, did>>

AnyNext ==
  \/ \E line \in Lines : Write(line)
  \/ Read
  \/ Leave
  \/ DriverWorks
  \/ Die

AnySpec == AnyInit /\ [][AnyNext]_anyVars

\* The worker gets its turns, and its device answers.
AnyFairSpec == AnySpec /\ WF_anyVars(DriverWorks)
-----------------------------------------------------------------------------
AnyTypeOK ==
  /\ toDriver \in Seq(Lines) /\ Len(toDriver) <= Backlog
  /\ Len(toHost) <= Capacity
  /\ hostGone \in BOOLEAN
  /\ driver \in Validators
  /\ serving \in (Lines \ NoRequests) \cup {Nothing}
  /\ exit \in Exits \cup {"running"}
  /\ DOMAIN did = Ids

\* The worker's session is at rest whenever it takes a line: an operation is
\* over, or the worker is, before the next request is looked at.  (dispatch
\* collects all the answers, so nothing is left running between requests.)
AtRestBetweenLines ==
  exit = "running" /\ serving = Nothing /\ pending = <<>>
    => driver.phase \in {"NeedHello", "Ready"}

\* A host that repeats a start, reuses an identifier or races a cancellation
\* never makes the device carry an operation out twice.
OncePerOperation == \A o \in Ids : Len(did[o]) <= 1

\* The answers the worker makes of a device's success are in order for its own
\* validator, whatever the host has sent.  What ends the worker in emit is an
\* error about a line it did not serve, an error text over the limit, a list
\* of devices that is too long or has a name in it that is no identifier, or
\* stages the device counted wrong.
SelfCheckHasACause ==
  exit = "self_check" =>
    \/ Head(pending).type = "error" /\ driver.phase \in {"NeedHello", "Ready"}
    \/ Head(pending).type = "error" /\ Head(pending).data = "invalid"
    \/ Head(pending).type = "devices" /\ ~FitList(Head(pending).roster)
    \/ Head(pending).type = "enroll_progress"

\* main.rs:27-28: everything that can go wrong is reported to the host as a
\* protocol error.  So no line a host sends ends the worker.
LinesAreAnswered == exit # "self_check"

\* A worker whose host has left exits, whatever it was doing.
ExitsWhenLeft == hostGone ~> exit # "running"
-----------------------------------------------------------------------------
(* Why: the inductive invariant *)

Served == AnyTypeOK /\ toHost \in Seq(Written) /\ WorkerInOrder
=============================================================================
