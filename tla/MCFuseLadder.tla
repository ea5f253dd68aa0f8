---------------------------- MODULE MCFuseLadder ----------------------------
(* A ladder of three rungs.                                                *)
EXTENDS FuseLadder

MCLadder == <<1, 3, 2>>
=============================================================================
