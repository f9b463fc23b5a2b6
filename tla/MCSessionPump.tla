--------------------------- MODULE MCSessionPump ---------------------------
(* Instances of SessionPump for TLC. *)
EXTENDS SessionRefinement

AllKinds == {"data", "resize", "cancel", "eof", "error"}
=============================================================================
