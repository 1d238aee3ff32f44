---------------------------- MODULE MCKTPBuffers ----------------------------
(* Instances of KTPBuffers for TLC. *)
EXTENDS KTPBuffers
=============================================================================
