---------------------------- MODULE MCBootLoader ----------------------------
(* The boot daemon and one interactive load.                               *)
EXTENDS BootLoader

MCSlotOrder == <<"lookup">>
MCOidOrder == <<"sedarwin", "hooks">>
=============================================================================
