-------------------------- MODULE PolicyLifecycle ---------------------------
(***************************************************************************)
(* Loading and unloading the kext: sebsd_mac_policy_register() and         *)
(* sebsd_mac_policy_unregister() of kext/main.c, with the hooks handler of *)
(* HookControl and dispatches by the framework running at the same time.   *)
(* The module's memory is freed when start fails or stop succeeds, and a   *)
(* later load starts from the static initialisers again.                   *)
(*                                                                         *)
(* Outside this repository, and modelled from how it is used:              *)
(* mac_policy_register() and mac_policy_unregister() may fail; a           *)
(* successful mac_policy_unregister() lets no dispatch in and waits for    *)
(* those inside; sysctl_unregister_oid() unlinks the oid and waits for the *)
(* handlers that run on it.                                                *)
(***************************************************************************)
EXTENDS HookControl

CONSTANTS
    Dispatchers,    \* threads on which the framework dispatches hooks
    OidOrder,       \* the oids as sebsd_sysctl_register() links them
    NodeOid,        \* the parent node, "sedarwin"
    HooksOid,       \* sedarwin.hooks
    UnsafeOid,      \* sedarwin.unsafe
    DefaultFuse,    \* initial sebsd_lookup_fuse
    MaxLoads        \* bound on the number of loads

Oids == {OidOrder[i] : i \in 1..Len(OidOrder)}

ASSUME LifecycleAssumption ==
    /\ OidOrder \in Seq(Oids) /\ Len(OidOrder) > 0
    /\ OidOrder[1] = NodeOid
    /\ {HooksOid, UnsafeOid} \subseteq Oids \ {NodeOid}
    /\ \A i, j \in 1..Len(OidOrder) : OidOrder[i] = OidOrder[j] => i = j
    /\ DefaultFuse \in Int
    /\ MaxLoads \in Nat

VARIABLES
    lpc,        \* where the kext loader's thread is
    at,         \* where each dispatcher is: "out", "busy" or "body"
    loaded,     \* the module's memory is mapped
    registered, \* sebsd_registered
    attached,   \* the framework has the policy in its list
    oids,       \* the oids linked into the sysctl tree
    index,      \* the loader's position in OidOrder or SlotOrder
    loads,      \* loads so far
    inited,     \* policy_init and policy_initbsd ran, policy_destroy did not
    asked,      \* history: a hooks write was accepted since the load
    alone       \* history: the writer whose stores nobody else's mix with

loaderVars == <<lpc, index, loads>>
kernelVars == <<loaded, registered, attached, oids, inited>>
historyVars == <<asked, alone>>
lifecycleVars ==
    <<stateVars, controlVars, loaderVars, kernelVars, at, historyVars>>

LoaderLabels == {"unloaded", "install", "link", "attach", "init", "mark",
                 "running", "clear", "detach", "drain", "destroy", "unmark",
                 "unlink", "wait", "stopped"}

LifecycleTypeOK ==
    /\ StateTypeOK
    /\ ControlTypeOK
    /\ lpc \in LoaderLabels
    /\ at \in [Dispatchers -> {"out", "busy", "body"}]
    /\ loaded \in BOOLEAN /\ registered \in BOOLEAN /\ attached \in BOOLEAN
    /\ oids \subseteq Oids
    /\ index \in Nat
    /\ loads \in 0..MaxLoads
    /\ inited \in BOOLEAN
    /\ asked \in BOOLEAN
    /\ alone \subseteq Writers

LifecycleInit ==
    /\ FreshState(DefaultFuse)
    /\ ControlInit
    /\ lpc = "unloaded"
    /\ at = [t \in Dispatchers |-> "out"]
    /\ loaded = FALSE /\ registered = FALSE /\ attached = FALSE
    /\ oids = {}
    /\ index = 1
    /\ loads = 0
    /\ inited = FALSE
    /\ asked = FALSE
    /\ alone = {}

-----------------------------------------------------------------------------
(* sebsd_mac_policy_register()                                             *)

\* The module's data become what the static initialisers say.
MapData ==
    /\ slot' = [h \in Hooks |-> FALSE] /\ mask' = {}
    /\ unsafe' = FALSE /\ trace' = FALSE /\ fuse' = DefaultFuse
    /\ count' = 0 /\ maxdepth' = 0 /\ recursed' = FALSE

\* The kernel maps the module and calls its start routine.
Load ==
    /\ lpc = "unloaded"
    /\ lpc' = "install"
    /\ loaded' = TRUE /\ registered' = FALSE
    /\ MapData
    /\ asked' = FALSE
    /\ UNCHANGED <<controlVars, index, attached, oids, inited, at, alone>>

LoadAgain == loads < MaxLoads /\ loads' = loads + 1 /\ Load

\* Mutant: the safe hooks are installed by default.
InstallAllAtStart ==
    /\ lpc = "install"
    /\ lpc' = "link"
    /\ index' = 1
    /\ slot' = [h \in Hooks |-> h \notin Unsafe]
    /\ UNCHANGED <<mask, unsafe, trace, fuse, count, maxdepth, recursed>>
    /\ UNCHANGED <<controlVars, loads, kernelVars, at, historyVars>>

\* install_lifecycle(), then install_hooks(hooks_enabled); nobody else can
\* reach the slots yet.
InstallAtStart ==
    /\ lpc = "install"
    /\ lpc' = "link"
    /\ index' = 1
    /\ slot' = [h \in Hooks |-> h \in mask]
    /\ UNCHANGED <<mask, unsafe, trace, fuse, count, maxdepth, recursed>>
    /\ UNCHANGED <<controlVars, loads, kernelVars, at, historyVars>>

LinkOid ==
    /\ lpc = "link"
    /\ oids' = oids \cup {OidOrder[index]}
    /\ index' = index + 1
    /\ lpc' = IF index = Len(OidOrder) THEN "attach" ELSE "link"
    /\ UNCHANGED <<stateVars, controlVars, loads, loaded, registered,
                   attached, inited, at, historyVars>>

\* Mutant: start fails with the oids still linked.
AttachLeavesOids ==
    /\ lpc = "attach"
    /\ \/ lpc' = "init" /\ UNCHANGED index
       \/ lpc' = "stopped" /\ index' = 1
    /\ UNCHANGED <<stateVars, controlVars, loads, kernelVars, at, historyVars>>

\* mac_policy_register() succeeds, or fails and the oids are taken back.
Attach ==
    /\ lpc = "attach"
    /\ \/ lpc' = "init" /\ UNCHANGED index
       \/ lpc' = "unlink" /\ index' = Len(OidOrder)
    /\ UNCHANGED <<stateVars, controlVars, loads, kernelVars, at, historyVars>>

\* The framework calls mpo_policy_init and mpo_policy_initbsd before it lets a
\* dispatch reach the policy.
PolicyInit ==
    /\ lpc = "init"
    /\ lpc' = "mark"
    /\ inited' = TRUE /\ attached' = TRUE
    /\ UNCHANGED <<stateVars, controlVars, index, loads, loaded, registered,
                   oids, at, historyVars>>

\* sebsd_registered = 1
MarkRegistered ==
    /\ lpc = "mark"
    /\ lpc' = "running"
    /\ registered' = TRUE
    /\ UNCHANGED <<stateVars, controlVars, index, loads, loaded, attached,
                   oids, inited, at, historyVars>>

-----------------------------------------------------------------------------
(* sebsd_mac_policy_unregister()                                           *)

\* Mutant: the flag is cleared before the framework has agreed.
StopUnmarks ==
    /\ lpc = "running"
    /\ lpc' = IF registered THEN "clear" ELSE "stopped"
    /\ index' = 1
    /\ registered' = FALSE
    /\ UNCHANGED <<stateVars, controlVars, loads, loaded, attached, oids,
                   inited, at, historyVars>>

\* if (!sebsd_registered) return KERN_SUCCESS
Stop ==
    /\ lpc = "running"
    /\ lpc' = IF registered THEN "clear" ELSE "stopped"
    /\ index' = 1
    /\ UNCHANGED <<stateVars, controlVars, loads, kernelVars, at, historyVars>>

\* install_hooks(0), slot by slot; the mask is left as it is.
ClearSlot ==
    /\ lpc = "clear"
    /\ slot' = [slot EXCEPT ![SlotOrder[index]] = FALSE]
    /\ index' = index + 1
    /\ lpc' = IF index = Len(SlotOrder) THEN "detach" ELSE "clear"
    /\ alone' = {}
    /\ UNCHANGED <<mask, unsafe, trace, fuse, count, maxdepth, recursed>>
    /\ UNCHANGED <<controlVars, loads, kernelVars, at, asked>>

\* Mutant: a refused unregister is tried again from the start.
DetachRetries ==
    /\ lpc = "detach"
    /\ \/ lpc' = "clear" /\ index' = 1
       \/ lpc' = "drain" /\ UNCHANGED index
    /\ UNCHANGED <<stateVars, controlVars, loads, kernelVars, at, historyVars>>

\* mac_policy_unregister() refuses, the module stays and so do its sysctls;
\* or it accepts and starts to drain.
Detach ==
    /\ lpc = "detach"
    /\ lpc' \in {"running", "drain"}
    /\ UNCHANGED <<stateVars, controlVars, index, loads, kernelVars, at,
                   historyVars>>

Drained ==
    /\ lpc = "drain"
    /\ \A t \in Dispatchers : at[t] = "out"
    /\ lpc' = "destroy"
    /\ attached' = FALSE
    /\ UNCHANGED <<stateVars, controlVars, index, loads, loaded, registered,
                   oids, inited, at, historyVars>>

\* The lifecycle slots were not cleared: the framework calls
\* mpo_policy_destroy, and mac_policy_unregister() returns.
PolicyDestroy ==
    /\ lpc = "destroy"
    /\ lpc' = "unmark"
    /\ inited' = FALSE
    /\ UNCHANGED <<stateVars, controlVars, index, loads, loaded, registered,
                   attached, oids, at, historyVars>>

\* sebsd_registered = 0
MarkUnregistered ==
    /\ lpc = "unmark"
    /\ lpc' = "unlink"
    /\ registered' = FALSE
    /\ index' = Len(OidOrder)
    /\ UNCHANGED <<stateVars, controlVars, loads, loaded, attached, oids,
                   inited, at, historyVars>>

\* Mutant: the oids are taken back in the order they were linked in.
UnlinkParentFirst ==
    /\ lpc = "unlink"
    /\ lpc' = "wait"
    /\ oids' = oids \ {OidOrder[Len(OidOrder) + 1 - index]}
    /\ UNCHANGED <<stateVars, controlVars, index, loads, loaded, registered,
                   attached, inited, at, historyVars>>

\* sysctl_unregister_oid(): unlink the oid, last linked first ...
UnlinkOid ==
    /\ lpc = "unlink"
    /\ lpc' = "wait"
    /\ oids' = oids \ {OidOrder[index]}
    /\ UNCHANGED <<stateVars, controlVars, index, loads, loaded, registered,
                   attached, inited, at, historyVars>>

\* ... and wait for the handlers that run on it.
OidDrained ==
    /\ lpc = "wait"
    /\ OidOrder[index] = HooksOid => \A w \in Writers : wpc[w] = "idle"
    /\ lpc' = IF index = 1 THEN "stopped" ELSE "unlink"
    /\ index' = IF index = 1 THEN 1 ELSE index - 1
    /\ UNCHANGED <<stateVars, controlVars, loads, kernelVars, at, historyVars>>

\* The kernel frees a module whose start failed or whose stop succeeded.
Free ==
    /\ lpc = "stopped"
    /\ lpc' = "unloaded"
    /\ loaded' = FALSE
    /\ UNCHANGED <<stateVars, controlVars, index, loads, registered,
                   attached, oids, inited, at, historyVars>>

-----------------------------------------------------------------------------
(* The rest of the kernel                                                  *)

\* The framework goes through its policy list ...
EnterFramework(t) ==
    /\ at[t] = "out" /\ attached /\ lpc # "drain"
    /\ at' = [at EXCEPT ![t] = "busy"]
    /\ UNCHANGED <<stateVars, controlVars, loaderVars, kernelVars, historyVars>>

\* ... loads the slot of the hook it wants, and calls it unless it is NULL.
LoadSlot(t, h) ==
    /\ at[t] = "busy"
    /\ at' = [at EXCEPT ![t] = IF slot[h] THEN "body" ELSE "out"]
    /\ UNCHANGED <<stateVars, controlVars, loaderVars, kernelVars, historyVars>>

ReturnFromHook(t) ==
    /\ at[t] = "body"
    /\ at' = [at EXCEPT ![t] = "out"]
    /\ UNCHANGED <<stateVars, controlVars, loaderVars, kernelVars, historyVars>>

\* A sysctl is found by its path: the node, then the oid.
Linked(oid) == {NodeOid, oid} \subseteq oids

SysctlWrite ==
    /\ \/ /\ Linked(HooksOid)
          /\ \E w \in Writers : \E v \in SUBSET (Hooks \cup {BadBit}) :
                WriteHooks(w, v)
       \/ /\ Linked(UnsafeOid)
          /\ \E v \in BOOLEAN : WriteUnsafe(v)
    /\ UNCHANGED <<loaderVars, kernelVars, at, historyVars>>

\* A writer that stores its mask is alone when nobody else is storing slots;
\* the writer that was alone until then is not any more.
HandlerRuns(w) ==
    /\ Handler(w)
    /\ asked' = (asked \/ wpc'[w] = "slots")
    /\ LET storing == {v \in Writers : wpc'[v] = "slots"}
       IN  alone' = IF wpc[w] # "mask" THEN alone \cap storing
                    ELSE IF storing = {w} THEN {w} ELSE {}
    /\ UNCHANGED <<loaderVars, kernelVars, at>>

-----------------------------------------------------------------------------
LoaderProceeds ==
    \/ InstallAtStart \/ LinkOid \/ Attach \/ PolicyInit \/ MarkRegistered
    \/ ClearSlot \/ Detach \/ Drained \/ PolicyDestroy \/ MarkUnregistered
    \/ UnlinkOid \/ OidDrained \/ Free

DispatchProceeds(t) == (\E h \in Hooks : LoadSlot(t, h)) \/ ReturnFromHook(t)

LifecycleNext ==
    \/ LoadAgain \/ Stop \/ LoaderProceeds
    \/ \E t \in Dispatchers : EnterFramework(t) \/ DispatchProceeds(t)
    \/ SysctlWrite
    \/ \E w \in Writers : HandlerRuns(w)

\* A thread that is in a start or stop routine, a hook or a handler runs on;
\* loading, unloading, dispatching and writing are up to the environment.
LifecycleFairness ==
    /\ WF_lifecycleVars(LoaderProceeds)
    /\ \A t \in Dispatchers : WF_lifecycleVars(DispatchProceeds(t))
    /\ \A w \in Writers : WF_lifecycleVars(HandlerRuns(w))

LifecycleSpec ==
    /\ LifecycleInit
    /\ [][LifecycleNext]_lifecycleVars
    /\ LifecycleFairness

-----------------------------------------------------------------------------
\* main.c:385-391: freed memory that is still linked anywhere "takes the
\* machine down".  When the module is not mapped, no oid is linked, the
\* framework does not know the policy and has destroyed what it had
\* initialised, and no thread is in the module's code.
NothingDangles ==
    ~loaded =>
        /\ oids = {} /\ ~attached /\ ~inited
        /\ \A t \in Dispatchers : at[t] = "out"
        /\ \A w \in Writers : wpc[w] = "idle"

\* main.c:259, "parent first": no child oid is ever linked without its node.
ParentLinked == oids # {} => NodeOid \in oids

\* main.c:75-79: "a fresh load puts nothing on any system call path until an
\* operator asks for it", also on a load that follows an unload.
QuietUntilAsked == loaded /\ Installed # {} => asked

\* A module whose start has returned success, and whose stop has not, is
\* complete: initialised, attached, flagged, all its sysctls linked.  A stop
\* that fails half way leaves nothing of it undone.
RunningIsComplete ==
    lpc = "running" =>
        loaded /\ inited /\ attached /\ registered /\ oids = Oids

\* main.c:76: whatever races of writers, a failed stop or a write during the
\* stop have left behind, one write of sedarwin.hooks whose stores do not mix
\* with another's sets it right: at its last slot mask and slots agree.
LoneWriteRepairs ==
    \A w \in alone :
        next[w] > Len(SlotOrder) => mask = value[w] /\ Installed = value[w]

\* Every start and stop ends, whatever dispatches and handlers are under way.
TransitionsEnd ==
    (lpc \notin {"unloaded", "running"}) ~> (lpc \in {"unloaded", "running"})

-----------------------------------------------------------------------------
\* main.c:76, "Which hook groups are currently installed", for a policy that
\* stayed live because mac_policy_unregister() failed.
LiveMaskReports == lpc = "running" /\ ControlAtRest => mask = Installed
=============================================================================
