-------------------------- MODULE MCLookupHistory ---------------------------
(* The armed phase on a small instance.                                    *)
EXTENDS LookupHistory

\* The safe slots take no part in the armed phase; one stands for them all.
MCSlotOrder == <<"open", "lookup">>
=============================================================================
