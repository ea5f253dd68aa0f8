----------------------------- MODULE SebsdState -----------------------------
(***************************************************************************)
(* The file-scope state of the kext that more than one component touches:  *)
(* the slots of sebsd_ops, the mask that reports them, and the integers    *)
(* behind the sedarwin.* sysctls.  A hook bitmask is the set of the hooks  *)
(* whose bits are set.                                                     *)
(***************************************************************************)
EXTENDS Integers, Sequences, FiniteSets

CONSTANTS
    SlotOrder,  \* the slots in the order sebsd_install_hooks() stores them
    Lookup,     \* the hook behind SEBSD_HOOK_VNODE_LOOKUP
    UIntMod     \* one more than the largest unsigned int: 2^32

Hooks == {SlotOrder[i] : i \in 1..Len(SlotOrder)}

\* SEBSD_HOOK_UNSAFE: the bits that need sedarwin.unsafe.
Unsafe == {Lookup}

ASSUME SlotOrderAssumption ==
    /\ SlotOrder \in Seq(Hooks)
    /\ Lookup \in Hooks
    /\ \A i, j \in 1..Len(SlotOrder) : SlotOrder[i] = SlotOrder[j] => i = j

ASSUME UIntModAssumption == UIntMod \in Nat \ {0}

\* An int fits into half of the range of an unsigned int on either side of 0.
FitsInt(i) == -UIntMod <= 2 * i /\ 2 * i < UIntMod

\* __atomic_add_fetch(&u, 1, ...) on an unsigned int, and the cast of an int.
Incremented(u) == IF u + 1 = UIntMod THEN 0 ELSE u + 1
Unsigned(i) == IF i < 0 THEN i + UIntMod ELSE i

VARIABLES
    slot,       \* sebsd_ops: slot[h] is TRUE when the pointer is not NULL
    mask,       \* sebsd_hooks_enabled
    unsafe,     \* sebsd_unsafe_enabled # 0
    trace,      \* sebsd_trace_enabled # 0
    fuse,       \* sebsd_lookup_fuse
    count,      \* sebsd_lookup_count
    maxdepth,   \* sebsd_lookup_maxdepth
    recursed    \* sebsd_lookup_recursed # 0

stateVars == <<slot, mask, unsafe, trace, fuse, count, maxdepth, recursed>>

\* The hooks that are really installed, whatever the mask says.
Installed == {h \in Hooks : slot[h]}

StateTypeOK ==
    /\ slot \in [Hooks -> BOOLEAN]
    /\ mask \subseteq Hooks
    /\ unsafe \in BOOLEAN
    /\ trace \in BOOLEAN
    /\ fuse \in Int
    /\ count \in 0..(UIntMod - 1)
    /\ maxdepth \in Int
    /\ recursed \in BOOLEAN

\* The static initialisers: SEBSD_HOOK_DEFAULT is no hook at all.
FreshState(initialFuse) ==
    /\ slot = [h \in Hooks |-> FALSE]
    /\ mask = {}
    /\ unsafe = FALSE
    /\ trace = FALSE
    /\ fuse = initialFuse
    /\ count = 0
    /\ maxdepth = 0
    /\ recursed = FALSE
=============================================================================
