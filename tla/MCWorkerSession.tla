--------------------------- MODULE MCWorkerSession ---------------------------
(* Up to four calls in one session, on a worker with no device, or with a *)
(* sensor that enrolls in two stages, behind one that cannot enroll or not. *)
EXTENDS WorkerSession

Numbers(n) == 1..n
Ids11 == Numbers(11)

Callback(completed, retry) == [completed |-> completed, total |-> 2, retry |-> retry]

\* The last stage need not be reported, and a presentation may have to be
\* repeated.
GoodReports ==
  {<<Callback(1, FALSE)>>,
   <<Callback(1, TRUE), Callback(1, FALSE), Callback(2, FALSE)>>}

\* A stage counted twice.
AllReports == GoodReports \cup {<<Callback(1, FALSE), Callback(1, FALSE)>>}

\* enumerate lists every device as match-on-chip.
Chip(id, stages) ==
  [id |-> id, profile |-> "driver", capability |-> "match_on_chip", stages |-> stages]

\* Two lists that the protocol does not take: one has too long a name in it,
\* the other one device too many.
UnfitLists == {<<Chip("b", 2), Chip(BadId, 2)>>, <<Chip("b", 2), Chip("a", 0), Chip("b", 2)>>}

SomeRosters == UnfitLists \cup
  {<<>>,
   <<Chip("a", 0), Chip("b", 2)>>,
   <<Chip("b", 2), Chip("a", 0)>>}
=============================================================================
