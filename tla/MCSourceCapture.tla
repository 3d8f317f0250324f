---------------------------- MODULE MCSourceCapture ----------------------------
(* Instances of SourceCapture small enough for TLC. *)
EXTENDS SourceCapture
=============================================================================
