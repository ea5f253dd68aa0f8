----------------------------- MODULE OneShotFuse ----------------------------
(***************************************************************************)
(* What the fuse of kext/vnode.c:143-151 promises to an operator, without  *)
(* the owner, the depth, the trace and the loads and stores it is made of: *)
(* the hook takes `limit` dispatches, each dispatch that lands from then   *)
(* on removes it, so does a re-entry, and nothing else does; once removed  *)
(* it is not called any more.                                              *)
(***************************************************************************)
EXTENDS Naturals

CONSTANT Calls  \* the activations that can be in flight

VARIABLES
    armed,      \* the hook is installed
    limit,      \* the number of dispatches asked for
    landed,     \* the dispatches seen
    pending,    \* calls under way that have not landed
    late,       \* calls that landed at the limit or past it, and
                \* have not removed the hook yet
    reentered   \* a call has found itself nested in the hook

fuseVars == <<armed, limit, landed, pending, late, reentered>>

FuseInit ==
    /\ armed = TRUE
    /\ limit \in Nat \ {0}
    /\ landed = 0
    /\ pending = {} /\ late = {}
    /\ reentered = FALSE

Start(c) ==
    /\ armed
    /\ c \notin pending \cup late
    /\ pending' = pending \cup {c}
    /\ UNCHANGED <<armed, limit, landed, late, reentered>>

Land(c) ==
    /\ c \in pending
    /\ pending' = pending \ {c}
    /\ landed' = landed + 1
    /\ late' = IF landed + 1 >= limit THEN late \cup {c} ELSE late
    /\ UNCHANGED <<armed, limit, reentered>>

\* A nested call does not land.
Reenter(c) ==
    /\ c \in pending
    /\ pending' = pending \ {c}
    /\ reentered' = TRUE
    /\ UNCHANGED <<armed, limit, landed, late>>

\* A call leaves `late` in no other way.
Remove ==
    /\ armed' = FALSE
    /\ \/ \E c \in late : late' = late \ {c}
       \/ reentered /\ UNCHANGED late
    /\ UNCHANGED <<limit, landed, pending, reentered>>

FuseNext ==
    \/ \E c \in Calls : Start(c) \/ Land(c) \/ Reenter(c)
    \/ Remove

FuseSpec == FuseInit /\ [][FuseNext]_fuseVars
=============================================================================
