----------------------------- MODULE HookSystem -----------------------------
(***************************************************************************)
(* The quarantined hook and the sysctls together, from a fresh load on:    *)
(* dispatches on any thread interleave with handlers of any writer.        *)
(***************************************************************************)
EXTENDS LookupHook, HookControl

\* sebsd_lookup_fuse when the other variables still have their initialisers:
\* its own, or what has been written to it since the load.
CONSTANT InitialFuses

ASSUME SystemAssumption ==
    \A f \in InitialFuses : f \in Int /\ FitsInt(f)

VARIABLE keyed  \* history: sedarwin.unsafe has been set at some time

systemVars == <<stateVars, hookVars, controlVars, keyed>>

SystemTypeOK == HookTypeOK /\ ControlTypeOK /\ keyed \in BOOLEAN

SystemInit ==
    /\ \E f \in InitialFuses : FreshState(f)
    /\ HookInit
    /\ ControlInit
    /\ keyed = FALSE

DispatchStep(t, k) == Dispatch(t, k) /\ UNCHANGED <<controlVars, keyed>>

BodyStep(t, k) == Body(t, k) /\ UNCHANGED <<controlVars, keyed>>

HandlerStep(w) == Handler(w) /\ UNCHANGED <<hookVars, keyed>>

ControlStep ==
    /\ ControlNext
    /\ keyed' = (keyed \/ unsafe')
    /\ UNCHANGED hookVars

SystemNext ==
    \/ \E t \in Threads, k \in 1..MaxNest :
        DispatchStep(t, k) \/ BodyStep(t, k)
    \/ ControlStep

\* The scheduler runs every thread that is in the kext, and lookups go on:
\* writes are up to the operators.
SystemFairness ==
    /\ \A t \in Threads, k \in 1..MaxNest : WF_systemVars(BodyStep(t, k))
    /\ WF_systemVars(\E t \in Threads : DispatchStep(t, 1))
    /\ \A w \in Writers : WF_systemVars(HandlerStep(w))

SystemSpec == SystemInit /\ [][SystemNext]_systemVars /\ SystemFairness

-----------------------------------------------------------------------------
\* main.c:82-87: "Those bits are rejected unless this is set first".  However
\* handlers, fuse and key interleave, the unsafe hook is neither installed nor
\* reported unless sedarwin.unsafe has been set.
Interlock == Unsafe \cap (Installed \cup mask) # {} => keyed

\* vnode.c:168-169: the fuse "bounds how long the slot stays non-NULL".  When
\* the writes end with a positive fuse the slot ends up NULL for good: also
\* when one of them re-arms the hook while a dispatch is blowing the fuse, and
\* when the fuse is set while a hook armed without one runs and its count wraps.
FuseWins == <>[](fuse > 0) => <>[](~slot[Lookup])

\* No activation is between clearing the slot and storing the mask, and no
\* handler between its mask store and its last slot store.
AtRest == ControlAtRest /\ \A f \in Frames : pc[f] \notin {"load", "store"}

\* main.c:175 and 180-182, for the hook that wedges the machine: `sedarwin.hooks`
\* "reports what is actually installed", so a mask without its bit means that
\* it is not installed.
UnreportedIsAbsent == AtRest => (Installed \cap Unsafe) \subseteq mask
=============================================================================
