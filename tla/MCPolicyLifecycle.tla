------------------------- MODULE MCPolicyLifecycle --------------------------
(* Loads and unloads on a small instance.                                  *)
EXTENDS PolicyLifecycle

MCSlotOrder == <<"open", "lookup">>

\* The order of the source, without the keys that are plain integers nothing
\* here depends on.
MCOidOrder == <<"sedarwin", "hooks", "unsafe">>
=============================================================================
