----------------------------- MODULE LookupHook -----------------------------
(***************************************************************************)
(* sebsd_vnode_check_lookup() of kext/vnode.c, the quarantined hook, one   *)
(* action per access to shared memory: every core that resolves a path     *)
(* runs it, nothing serialises the runs, and the only callout it makes     *)
(* (the trace line) may resolve a path again on the same thread.           *)
(*                                                                         *)
(* A frame <<t, k>> is the k-th nested activation of the hook on thread t. *)
(* Frame k + 1 can exist only while frame k is in its callout.             *)
(***************************************************************************)
EXTENDS SebsdState

CONSTANTS
    Threads,    \* the threads that resolve paths
    MaxNest,    \* bound on the nesting of activations on one thread
    Resolvers,  \* the threads whose trace callout resolves a path again
    NoThread,   \* sebsd_lookup_owner = 0
    ArmedFuses  \* the values of lookup_fuse the armed phase starts with

ASSUME ThreadsAssumption == IsFiniteSet(Threads) /\ NoThread \notin Threads
ASSUME MaxNestAssumption == MaxNest \in Nat \ {0}
ASSUME ResolversAssumption == Resolvers \subseteq Threads

Frames == Threads \X (1..MaxNest)

\* The fuse is far from the largest unsigned int: all the activations that can
\* be in flight when it blows do not make the count wrap.
ASSUME ArmedFusesAssumption ==
    \A f \in ArmedFuses :
        f \in Nat \ {0} /\ f - 1 + Cardinality(Frames) < UIntMod

VARIABLES
    owner,      \* sebsd_lookup_owner
    depth,      \* sebsd_lookup_depth
    pc,         \* where each frame is
    d,          \* the frame's local d, what ++depth returned
    n,          \* the frame's local n, what ++count returned
    loaded,     \* the mask the frame has loaded and not yet stored back
    back        \* where the frame goes after blowing the fuse

frameVars == <<pc, d, n, loaded, back>>
hookVars == <<owner, depth, pc, d, n, loaded, back>>
vars == <<stateVars, hookVars>>

\* "entry": the framework has loaded a non-NULL pointer and calls it.
Labels == {"idle", "entry", "flag", "own", "incr", "peak", "raise", "count",
           "trace", "callout", "positive", "reached", "null", "load",
           "store", "decr", "disown"}

HookTypeOK ==
    /\ StateTypeOK
    /\ owner \in Threads \cup {NoThread}
    /\ depth \in Int
    /\ pc \in [Frames -> Labels]
    /\ d \in [Frames -> Int]
    /\ n \in [Frames -> Nat]
    /\ loaded \in [Frames -> SUBSET Hooks]
    /\ back \in [Frames -> {"decr", "idle"}]

HookInit ==
    /\ owner = NoThread
    /\ depth = 0
    /\ pc = [f \in Frames |-> "idle"]
    /\ d = [f \in Frames |-> 0]
    /\ n = [f \in Frames |-> 0]
    /\ loaded = [f \in Frames |-> {}]
    /\ back = [f \in Frames |-> "decr"]

-----------------------------------------------------------------------------
\* Frame <<t, k>> can be entered: the thread is outside the hook, or its
\* previous activation is in the callout and this one does not exist yet.
CanEnter(t, k) ==
    /\ pc[<<t, k>>] = "idle"
    /\ k > 1 => t \in Resolvers /\ pc[<<t, k - 1>>] = "callout"

\* The step of frame f from label a to label b.
Goto(f, a, b) == pc[f] = a /\ pc' = [pc EXCEPT ![f] = b]

\* The framework re-reads the slot on every dispatch; a NULL slot is skipped,
\* a loaded pointer is called even when the slot is cleared right after.
Dispatch(t, k) ==
    /\ CanEnter(t, k)
    /\ slot[Lookup]
    /\ pc' = [pc EXCEPT ![<<t, k>>] = "entry"]
    /\ UNCHANGED <<stateVars, owner, depth, d, n, loaded, back>>

\* if (atomic_load(owner) == self)
CheckOwner(t, k) ==
    /\ Goto(<<t, k>>, "entry", IF owner = t THEN "flag" ELSE "own")
    /\ UNCHANGED <<stateVars, owner, depth, d, n, loaded, back>>

\* Mutant: the re-entry path leaves through the ordinary exit.
FlagRecursionNoReturn(t, k) ==
    /\ Goto(<<t, k>>, "flag", "null")
    /\ recursed' = TRUE
    /\ UNCHANGED <<slot, mask, unsafe, trace, fuse, count, maxdepth>>
    /\ UNCHANGED <<owner, depth, d, n, loaded, back>>

\* sebsd_lookup_recursed = 1; the fuse is blown and the call returns 0
\* without touching owner or depth.
FlagRecursion(t, k) ==
    /\ Goto(<<t, k>>, "flag", "null")
    /\ recursed' = TRUE
    /\ back' = [back EXCEPT ![<<t, k>>] = "idle"]
    /\ UNCHANGED <<slot, mask, unsafe, trace, fuse, count, maxdepth>>
    /\ UNCHANGED <<owner, depth, d, n, loaded>>

StoreOwner(t, k) ==
    /\ Goto(<<t, k>>, "own", "incr")
    /\ owner' = t
    /\ UNCHANGED <<stateVars, depth, d, n, loaded, back>>

IncrDepth(t, k) ==
    /\ Goto(<<t, k>>, "incr", "peak")
    /\ depth' = depth + 1
    /\ d' = [d EXCEPT ![<<t, k>>] = depth + 1]
    /\ UNCHANGED <<stateVars, owner, n, loaded, back>>

\* Mutant: the comparison the wrong way round.
ReadMaxdepthReversed(t, k) ==
    /\ Goto(<<t, k>>, "peak",
            IF d[<<t, k>>] < maxdepth THEN "raise" ELSE "count")
    /\ UNCHANGED <<stateVars, owner, depth, d, n, loaded, back>>

\* if (d > maxdepth): the load ...
ReadMaxdepth(t, k) ==
    /\ Goto(<<t, k>>, "peak",
            IF d[<<t, k>>] > maxdepth THEN "raise" ELSE "count")
    /\ UNCHANGED <<stateVars, owner, depth, d, n, loaded, back>>

\* ... and the store, a plain one that nothing ties to the load.
RaiseMaxdepth(t, k) ==
    /\ Goto(<<t, k>>, "raise", "count")
    /\ maxdepth' = d[<<t, k>>]
    /\ UNCHANGED <<slot, mask, unsafe, trace, fuse, count, recursed>>
    /\ UNCHANGED <<owner, depth, d, n, loaded, back>>

\* n = ++lookup_count, which wraps; the locals of a frame see the wrapped value.
IncrCount(t, k) ==
    /\ Goto(<<t, k>>, "count", "trace")
    /\ count' = Incremented(count)
    /\ n' = [n EXCEPT ![<<t, k>>] = Incremented(count)]
    /\ UNCHANGED <<slot, mask, unsafe, trace, fuse, maxdepth, recursed>>
    /\ UNCHANGED <<owner, depth, d, loaded, back>>

\* if (sebsd_tracing()) sebsd_trace_lookup(...)
CheckTrace(t, k) ==
    /\ Goto(<<t, k>>, "trace", IF trace THEN "callout" ELSE "positive")
    /\ UNCHANGED <<stateVars, owner, depth, d, n, loaded, back>>

\* The trace call returns, when no activation is nested in it.
LeaveTrace(t, k) ==
    /\ k < MaxNest => pc[<<t, k + 1>>] = "idle"
    /\ Goto(<<t, k>>, "callout", "positive")
    /\ UNCHANGED <<stateVars, owner, depth, d, n, loaded, back>>

\* The condition loads the fuse twice: lookup_fuse > 0 ...
FusePositive(t, k) ==
    /\ Goto(<<t, k>>, "positive", IF fuse > 0 THEN "reached" ELSE "decr")
    /\ UNCHANGED <<stateVars, owner, depth, d, n, loaded, back>>

\* Mutant: one dispatch too few.
FuseReachedEarly(t, k) ==
    /\ Goto(<<t, k>>, "reached",
            IF n[<<t, k>>] + 1 >= Unsigned(fuse) THEN "null" ELSE "decr")
    /\ UNCHANGED <<stateVars, owner, depth, d, n, loaded, back>>

\* Mutant: one dispatch too many.
FuseReachedLate(t, k) ==
    /\ Goto(<<t, k>>, "reached",
            IF n[<<t, k>>] > Unsigned(fuse) THEN "null" ELSE "decr")
    /\ UNCHANGED <<stateVars, owner, depth, d, n, loaded, back>>

\* ... && n >= (unsigned int)lookup_fuse; a fuse that has turned negative in
\* between is larger than nearly every count.
FuseReached(t, k) ==
    /\ Goto(<<t, k>>, "reached",
            IF n[<<t, k>>] >= Unsigned(fuse) THEN "null" ELSE "decr")
    /\ UNCHANGED <<stateVars, owner, depth, d, n, loaded, back>>

\* Mutant: the hook is drained before its slot goes, and waits for itself.
BlowSlotDrained(t, k) ==
    /\ depth = 0
    /\ Goto(<<t, k>>, "null", "load")
    /\ slot' = [slot EXCEPT ![Lookup] = FALSE]
    /\ UNCHANGED <<mask, unsafe, trace, fuse, count, maxdepth, recursed>>
    /\ UNCHANGED <<owner, depth, d, n, loaded, back>>

\* sebsd_hooks_blow_lookup_fuse(): the slot is cleared ...
BlowSlot(t, k) ==
    /\ Goto(<<t, k>>, "null", "load")
    /\ slot' = [slot EXCEPT ![Lookup] = FALSE]
    /\ UNCHANGED <<mask, unsafe, trace, fuse, count, maxdepth, recursed>>
    /\ UNCHANGED <<owner, depth, d, n, loaded, back>>

\* ... then hooks_enabled &= ~LOOKUP, a load ...
BlowLoad(t, k) ==
    /\ Goto(<<t, k>>, "load", "store")
    /\ loaded' = [loaded EXCEPT ![<<t, k>>] = mask]
    /\ UNCHANGED <<stateVars, owner, depth, d, n, back>>

\* Mutant: the bit is not dropped from the mask.
BlowStoreKeepsBit(t, k) ==
    /\ Goto(<<t, k>>, "store", back[<<t, k>>])
    /\ mask' = loaded[<<t, k>>]
    /\ loaded' = [loaded EXCEPT ![<<t, k>>] = {}]
    /\ back' = [back EXCEPT ![<<t, k>>] = "decr"]
    /\ UNCHANGED <<slot, unsafe, trace, fuse, count, maxdepth, recursed>>
    /\ UNCHANGED <<owner, depth, d, n>>

\* ... and a store; on the re-entry path the hook returns from here.
BlowStore(t, k) ==
    /\ Goto(<<t, k>>, "store", back[<<t, k>>])
    /\ mask' = loaded[<<t, k>>] \ {Lookup}
    /\ loaded' = [loaded EXCEPT ![<<t, k>>] = {}]
    /\ back' = [back EXCEPT ![<<t, k>>] = "decr"]
    /\ UNCHANGED <<slot, unsafe, trace, fuse, count, maxdepth, recursed>>
    /\ UNCHANGED <<owner, depth, d, n>>

\* Mutant: a return that skips the decrement.
DecrDepthForgotten(t, k) ==
    /\ Goto(<<t, k>>, "decr", "disown")
    /\ UNCHANGED <<stateVars, owner, depth, d, n, loaded, back>>

DecrDepth(t, k) ==
    /\ Goto(<<t, k>>, "decr", "disown")
    /\ depth' = depth - 1
    /\ UNCHANGED <<stateVars, owner, d, n, loaded, back>>

\* Mutant: owner is not cleared on the way out.
DisownForgotten(t, k) ==
    /\ Goto(<<t, k>>, "disown", "idle")
    /\ d' = [d EXCEPT ![<<t, k>>] = 0]
    /\ n' = [n EXCEPT ![<<t, k>>] = 0]
    /\ UNCHANGED <<stateVars, owner, depth, loaded, back>>

\* owner = 0, whoever the owner is by now, and return 0; the locals die.
Disown(t, k) ==
    /\ Goto(<<t, k>>, "disown", "idle")
    /\ owner' = NoThread
    /\ d' = [d EXCEPT ![<<t, k>>] = 0]
    /\ n' = [n EXCEPT ![<<t, k>>] = 0]
    /\ UNCHANGED <<stateVars, depth, loaded, back>>

-----------------------------------------------------------------------------
\* What an activation does once it is called.
Body(t, k) ==
    \/ CheckOwner(t, k) \/ FlagRecursion(t, k) \/ StoreOwner(t, k)
    \/ IncrDepth(t, k) \/ ReadMaxdepth(t, k) \/ RaiseMaxdepth(t, k)
    \/ IncrCount(t, k) \/ CheckTrace(t, k) \/ LeaveTrace(t, k)
    \/ FusePositive(t, k) \/ FuseReached(t, k)
    \/ BlowSlot(t, k) \/ BlowLoad(t, k) \/ BlowStore(t, k)
    \/ DecrDepth(t, k) \/ Disown(t, k)

HookNext == \E t \in Threads, k \in 1..MaxNest : Dispatch(t, k) \/ Body(t, k)

-----------------------------------------------------------------------------
\* The pcs of a frame that has stored its thread in owner and not cleared it,
\* and of one that has added itself to depth and not yet subtracted itself.
Counted == {"peak", "raise", "count", "trace", "callout", "positive",
            "reached", "decr"}
Blowing == {"null", "load", "store"}
InsideHook(f) == pc[f] \in Counted \/ (pc[f] \in Blowing /\ back[f] = "decr")
Owning(f) == InsideHook(f) \/ pc[f] \in {"incr", "disown"}

\* A frame that has found its own thread in owner.
SawItself(f) == pc[f] = "flag" \/ (pc[f] \in Blowing /\ back[f] = "idle")

\* vnode.c:194-199: "A false positive would require reading our own thread
\* pointer when we are not nested, which cannot happen".  A frame takes the
\* re-entry path only when an outer frame of its own thread is in its callout.
NoFalsePositive ==
    \A t \in Threads, k \in 1..MaxNest :
        SawItself(<<t, k>>) =>
            \E j \in 1..(k - 1) : pc[<<t, j>>] = "callout"

\* The atomic ++depth/--depth pair, with the early return that does neither:
\* depth is the number of activations between the two, so it never wraps
\* below zero and returns to zero when the last one leaves.
DepthIsActivations == depth = Cardinality({f \in Frames : InsideHook(f)})

-----------------------------------------------------------------------------
(* The armed phase: the operator has followed the procedure of             *)
(* vnode.c:148-151 with a positive fuse and then leaves the keys alone.    *)

ArmedInit ==
    /\ HookInit
    /\ slot = [h \in Hooks |-> h = Lookup]
    /\ mask = {Lookup}
    /\ unsafe = TRUE
    /\ trace \in BOOLEAN
    /\ fuse \in ArmedFuses
    /\ count = 0
    /\ maxdepth = 0
    /\ recursed = FALSE

\* Lookups go on while the slot is armed, and a running thread proceeds.
HookFairness ==
    /\ WF_vars(HookNext)
    /\ \A t \in Threads, k \in 1..MaxNest : WF_vars(Body(t, k))

ArmedSpec == ArmedInit /\ [][HookNext]_vars /\ HookFairness

\* vnode.c:143-145: the hook "uninstalls itself once it has seen lookup_fuse"
\* dispatches.  Every activation that the framework started before the slot
\* was cleared still lands, so the count may pass the fuse, by at most one per
\* activation that can be in flight.
FuseOvershoot == count <= fuse - 1 + Cardinality(Frames)

\* main.c:180-182: when no activation is between clearing the slot and
\* storing the mask, `sedarwin.hooks` reports what is installed.
MaskReportsLookup ==
    (\A f \in Frames : pc[f] \notin {"load", "store"}) => mask = Installed

\* The armed slot does not stay armed: it is cleared for good and the mask,
\* the depth and the owner all come back to rest.
FuseBlows ==
    <>[](~slot[Lookup] /\ mask = {} /\ depth = 0 /\ owner = NoThread)

-----------------------------------------------------------------------------
(* The hook as an implementation of OneShotFuse.                           *)

\* The activations that have not reached their count yet, and those that have
\* counted themselves at or past the fuse and not cleared the slot yet.
Uncounted == {f \in Frames : pc[f] \in {"entry", "flag", "own", "incr",
                                        "peak", "raise", "count"}}
Late == {f \in Frames :
            /\ pc[f] \in {"trace", "callout", "positive", "reached", "null"}
            /\ n[f] >= fuse}

Fuse == INSTANCE OneShotFuse WITH
            Calls <- Frames, armed <- slot[Lookup], limit <- fuse,
            landed <- count, pending <- Uncounted, late <- Late,
            reentered <- recursed

\* vnode.c:143-151: the slot is not cleared before `fuse` dispatches have been
\* counted, unless the thread was found nested; every dispatch from then on
\* clears it itself, whatever the others do; and none starts afterwards.
ImplementsFuse == Fuse!FuseSpec
=============================================================================
