------------------------- MODULE MCSessionValidator -------------------------
(* SessionValidator on five identifiers, one more than a session may track: *)
(* enough for a hello, an operation, its cancellation and another request.  *)
EXTENDS SessionValidator, TLC

IdSymmetry == Permutations(Ids)
=============================================================================
