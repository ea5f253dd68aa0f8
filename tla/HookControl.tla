---------------------------- MODULE HookControl -----------------------------
(***************************************************************************)
(* The sedarwin.* sysctls of kext/main.c.  Every oid is CTLFLAG_LOCKED, so *)
(* handlers of different processes run at the same time with no lock       *)
(* around them; the hooks handler is split at each access to shared        *)
(* memory, the plain integers are one store each (sysctl_handle_int).      *)
(***************************************************************************)
EXTENDS SebsdState

CONSTANTS
    Writers,    \* processes that write sedarwin.hooks
    BadBit,     \* a bit outside SEBSD_HOOK_ALL | SEBSD_HOOK_UNSAFE
    FuseWrites, \* values written to sedarwin.lookup_fuse
    CountWrites,    \* values written to sedarwin.lookup_count
    DepthWrites,    \* values written to sedarwin.lookup_maxdepth
    MaxWrites   \* bound on the number of sysctl writes

ASSUME ControlAssumption ==
    /\ BadBit \notin Hooks
    /\ \A v \in FuseWrites : v \in Int /\ FitsInt(v)
    /\ CountWrites \subseteq 0..(UIntMod - 1)
    /\ DepthWrites \subseteq 0..(UIntMod - 1)
    /\ MaxWrites \in Nat

VARIABLES
    wpc,        \* where each writer is in sebsd_sysctl_hooks_handler()
    value,      \* the handler's local: the mask being written
    next,       \* the index in SlotOrder of the next slot to store
    writes      \* sysctl writes so far

controlVars == <<wpc, value, next, writes>>

ControlTypeOK ==
    /\ wpc \in [Writers -> {"idle", "validate", "mask", "slots"}]
    /\ value \in [Writers -> SUBSET (Hooks \cup {BadBit})]
    /\ next \in [Writers -> 1..(Len(SlotOrder) + 1)]
    /\ writes \in 0..MaxWrites

ControlInit ==
    /\ wpc = [w \in Writers |-> "idle"]
    /\ value = [w \in Writers |-> {}]
    /\ next = [w \in Writers |-> 1]
    /\ writes = 0

-----------------------------------------------------------------------------
OneMoreWrite == writes < MaxWrites /\ writes' = writes + 1

\* sysctl_handle_int() copies the new value in.
WriteHooks(w, v) ==
    /\ OneMoreWrite
    /\ wpc[w] = "idle"
    /\ wpc' = [wpc EXCEPT ![w] = "validate"]
    /\ value' = [value EXCEPT ![w] = v]
    /\ UNCHANGED <<stateVars, next>>

\* Mutant: only a mask of nothing but the unsafe bit is stopped.
RefusedAlone(v) == v = Unsafe /\ ~unsafe

\* EPERM: an unsafe bit without the second key.
Refused(v) == v \cap Unsafe # {} /\ ~unsafe

\* Mutant: unknown bits are let through.
ValidateAnyBit(w) ==
    /\ wpc[w] = "validate"
    /\ IF Refused(value[w])
         THEN /\ wpc' = [wpc EXCEPT ![w] = "idle"]
              /\ value' = [value EXCEPT ![w] = {}]
         ELSE /\ wpc' = [wpc EXCEPT ![w] = "mask"]
              /\ UNCHANGED value
    /\ UNCHANGED <<stateVars, next, writes>>

\* EINVAL for an unknown bit, and the EPERM test.
Validate(w) ==
    /\ wpc[w] = "validate"
    /\ IF BadBit \in value[w] \/ Refused(value[w])
         THEN /\ wpc' = [wpc EXCEPT ![w] = "idle"]
              /\ value' = [value EXCEPT ![w] = {}]
         ELSE /\ wpc' = [wpc EXCEPT ![w] = "mask"]
              /\ UNCHANGED value
    /\ UNCHANGED <<stateVars, next, writes>>

\* sebsd_hooks_enabled = value
StoreMask(w) ==
    /\ wpc[w] = "mask"
    /\ wpc' = [wpc EXCEPT ![w] = "slots"]
    /\ mask' = value[w]
    /\ UNCHANGED <<slot, unsafe, trace, fuse, count, maxdepth, recursed>>
    /\ UNCHANGED <<value, next, writes>>

\* Mutant: only the hooks that are asked for are stored.
InstallSlotSetsOnly(w) ==
    /\ wpc[w] = "slots"
    /\ next[w] <= Len(SlotOrder)
    /\ slot' = [slot EXCEPT ![SlotOrder[next[w]]] =
                    @ \/ SlotOrder[next[w]] \in value[w]]
    /\ next' = [next EXCEPT ![w] = @ + 1]
    /\ UNCHANGED <<mask, unsafe, trace, fuse, count, maxdepth, recursed>>
    /\ UNCHANGED <<wpc, value, writes>>

\* sebsd_install_hooks(): one pointer store per slot, in source order.
InstallSlot(w) ==
    /\ wpc[w] = "slots"
    /\ next[w] <= Len(SlotOrder)
    /\ slot' = [slot EXCEPT ![SlotOrder[next[w]]] =
                    SlotOrder[next[w]] \in value[w]]
    /\ next' = [next EXCEPT ![w] = @ + 1]
    /\ UNCHANGED <<mask, unsafe, trace, fuse, count, maxdepth, recursed>>
    /\ UNCHANGED <<wpc, value, writes>>

\* The handler logs the new mask and returns 0.
ReturnHooks(w) ==
    /\ wpc[w] = "slots"
    /\ next[w] > Len(SlotOrder)
    /\ wpc' = [wpc EXCEPT ![w] = "idle"]
    /\ value' = [value EXCEPT ![w] = {}]
    /\ next' = [next EXCEPT ![w] = 1]
    /\ UNCHANGED <<stateVars, writes>>

-----------------------------------------------------------------------------
WriteUnsafe(v) ==
    /\ OneMoreWrite
    /\ unsafe' = v
    /\ UNCHANGED <<slot, mask, trace, fuse, count, maxdepth, recursed>>
    /\ UNCHANGED <<wpc, value, next>>

WriteTrace(v) ==
    /\ OneMoreWrite
    /\ trace' = v
    /\ UNCHANGED <<slot, mask, unsafe, fuse, count, maxdepth, recursed>>
    /\ UNCHANGED <<wpc, value, next>>

WriteFuse(v) ==
    /\ OneMoreWrite
    /\ fuse' = v
    /\ UNCHANGED <<slot, mask, unsafe, trace, count, maxdepth, recursed>>
    /\ UNCHANGED <<wpc, value, next>>

\* What the hook measures is writable too: an operator who starts a new
\* measurement writes zero, but any value is stored.
WriteCount(v) ==
    /\ OneMoreWrite
    /\ count' = v
    /\ UNCHANGED <<slot, mask, unsafe, trace, fuse, maxdepth, recursed>>
    /\ UNCHANGED <<wpc, value, next>>

WriteMaxdepth(v) ==
    /\ OneMoreWrite
    /\ maxdepth' = v
    /\ UNCHANGED <<slot, mask, unsafe, trace, fuse, count, recursed>>
    /\ UNCHANGED <<wpc, value, next>>

WriteRecursed(v) ==
    /\ OneMoreWrite
    /\ recursed' = v
    /\ UNCHANGED <<slot, mask, unsafe, trace, fuse, count, maxdepth>>
    /\ UNCHANGED <<wpc, value, next>>

-----------------------------------------------------------------------------
Handler(w) == Validate(w) \/ StoreMask(w) \/ InstallSlot(w) \/ ReturnHooks(w)

ControlNext ==
    \/ \E w \in Writers :
        \/ \E v \in SUBSET (Hooks \cup {BadBit}) : WriteHooks(w, v)
        \/ Handler(w)
    \/ \E v \in BOOLEAN : WriteUnsafe(v) \/ WriteTrace(v) \/ WriteRecursed(v)
    \/ \E v \in FuseWrites : WriteFuse(v)
    \/ \E v \in CountWrites : WriteCount(v)
    \/ \E v \in DepthWrites : WriteMaxdepth(v)

\* No hooks handler is between its mask store and its last slot store.
ControlAtRest == \A w \in Writers : wpc[w] \notin {"mask", "slots"}
=============================================================================
