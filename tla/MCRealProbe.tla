---------------------------- MODULE MCRealProbe ----------------------------
(* Two contributions, in one directory, to one output path. *)
EXTENDS RealProbe

CONSTANTS c1, c2
=============================================================================
