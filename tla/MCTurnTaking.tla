---------------------------- MODULE MCTurnTaking ----------------------------
(* Two ends on five identifiers, one more than they may track. *)
EXTENDS TurnTaking, TLC

IdSymmetry == Permutations(Ids)

NoCancel == {"hello", "enumerate", "shutdown"} \cup StartRequests
=============================================================================
