--------------------------- MODULE MCDuplexSession ---------------------------
(* Two ends on four identifiers, with a host that may send any request. *)
EXTENDS DuplexSession

AnyRequest == {"hello", "enumerate", "cancel", "shutdown"} \cup StartRequests
=============================================================================
