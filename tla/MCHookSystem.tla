---------------------------- MODULE MCHookSystem ----------------------------
(* The hook and the sysctls on small instances.                            *)
EXTENDS HookSystem

\* One safe slot stored before the lookup slot.
MCSlotOrder == <<"open", "lookup">>
=============================================================================
