--------------------------- MODULE MCMirrorSync ---------------------------
(* Small instances of MirrorSync for TLC. *)
EXTENDS MirrorSync
=============================================================================
