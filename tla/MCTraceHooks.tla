---------------------------- MODULE MCTraceHooks ----------------------------
(***************************************************************************)
(* Two threads, two processes that share one pid, and buffers so small     *)
(* that names and flag strings are cut.                                    *)
(***************************************************************************)
EXTENDS TraceHooks

MCFlags == <<"V", "A">>
=============================================================================
