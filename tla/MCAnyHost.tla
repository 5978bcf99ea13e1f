------------------------------ MODULE MCAnyHost ------------------------------
(* The worker on three identifiers, with a device of two enrollment stages *)
(* that may ask for a repeat and need not report the last stage, or that   *)
(* misbehaves.                                                             *)
EXTENDS AnyHost

Callback(completed, retry) == [completed |-> completed, total |-> 2, retry |-> retry]

GoodReports ==
  {<<Callback(1, FALSE)>>,
   <<Callback(1, TRUE), Callback(1, FALSE), Callback(2, FALSE)>>}

\* A stage counted twice, and one that never was.
BadReports == {<<Callback(1, FALSE), Callback(1, FALSE)>>, <<Callback(0, FALSE)>>}

AllReports == GoodReports \cup BadReports

\* A device whose driver has no name.
SomeRosters == {<<>>, <<[id |-> "a", profile |-> BadId, capability |-> "match_on_chip", stages |-> 2]>>}

\* Until a hello is taken the identifiers are alike, so i1 stands for all.
CONSTANT i1

AllLines ==
  {m \in Requests : ValidRequest(m) /\ (m.type = "hello" => m.req = i1)}
    \cup NoRequests
=============================================================================
