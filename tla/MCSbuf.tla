------------------------------- MODULE MCSbuf -------------------------------
(* One sbuf with a machine of small sizes.                                 *)
EXTENDS Sbuf

MCPieces == {<<"x", " ">>, <<" ", "0", "x", "x", "x">>}
MCNewSizes == {0, 1, 5}
=============================================================================
