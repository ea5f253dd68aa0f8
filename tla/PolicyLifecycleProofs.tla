----------------------- MODULE PolicyLifecycleProofs -----------------------
(***************************************************************************)
(* Starting and stopping the policy is safe for any list of oids, any      *)
(* hooks and any number of writers, dispatchers and loads.                 *)
(***************************************************************************)
EXTENDS PolicyLifecycle, TLAPS

\* The labels between the success of mac_policy_register() and the end of
\* mac_policy_unregister(), and those at which every oid is linked.
Attached == {"mark", "running", "clear", "detach", "drain"}
Complete == Attached \cup {"attach", "init", "destroy", "unmark"}

\* What the loader's position says about the flags.
FlagsInv ==
    /\ loaded <=> lpc # "unloaded"
    /\ attached <=> lpc \in Attached
    /\ inited <=> lpc \in Attached \cup {"destroy"}
    /\ registered <=> lpc \in (Attached \ {"mark"}) \cup {"destroy", "unmark"}

\* The oids that are linked are always a beginning of OidOrder.
UpTo(k) == {OidOrder[j] : j \in 1..k}

OidsInv ==
    /\ lpc \in {"unloaded", "install", "stopped"} => oids = UpTo(0)
    /\ lpc \in Complete => oids = UpTo(Len(OidOrder))
    /\ lpc \in {"link", "wait"} => oids = UpTo(index - 1)
    /\ lpc = "unlink" => oids = UpTo(index)
    /\ lpc \in {"link", "unlink", "wait"} => index \in 1..Len(OidOrder)

\* A thread is in the module only while something still leads into it, or
\* somebody waits for it.
InsideInv ==
    /\ \A t \in Dispatchers : at[t] # "out" => lpc \in Attached
    /\ \A w \in Writers : wpc[w] # "idle" =>
            \/ HooksOid \in oids
            \/ lpc = "wait" /\ OidOrder[index] = HooksOid

\* Neither the mask nor a slot is set before a write was accepted.
AskedInv ==
    (mask # {} \/ Installed # {} \/ \E w \in Writers : wpc[w] = "slots")
        => asked \/ ~loaded

\* Past its validation a writer holds a mask of hooks, and it starts with the
\* first slot.
WriterInv ==
    \A w \in Writers :
        /\ wpc[w] \in {"mask", "slots"} => value[w] \subseteq Hooks
        /\ wpc[w] # "slots" => next[w] = 1

\* A writer that is alone has the mask, and the slots up to its next, to itself.
LoneInv ==
    \A w \in alone :
        /\ wpc[w] = "slots"
        /\ \A v \in Writers : wpc[v] = "slots" => v = w
        /\ mask = value[w]
        /\ \A j \in 1..(next[w] - 1) :
                slot[SlotOrder[j]] <=> SlotOrder[j] \in value[w]

LifecycleInv ==
    /\ LifecycleTypeOK /\ FlagsInv /\ OidsInv /\ InsideInv /\ AskedInv
    /\ WriterInv /\ LoneInv

-----------------------------------------------------------------------------
\* The first k oids, one more and one less.
LEMMA UpToSteps ==
    ASSUME NEW k \in 1..Len(OidOrder)
    PROVE  /\ UpTo(k - 1) \cup {OidOrder[k]} = UpTo(k)
           /\ UpTo(k) \ {OidOrder[k]} = UpTo(k - 1)
           /\ NodeOid \in UpTo(k)
           /\ UpTo(k) \subseteq Oids
<1>1. UpTo(k) = UpTo(k - 1) \cup {OidOrder[k]}
  BY DEF UpTo
<1>2. \A j \in 1..(k - 1) : OidOrder[j] # OidOrder[k]
  BY LifecycleAssumption
<1>3. OidOrder[k] \notin UpTo(k - 1)
  BY <1>2 DEF UpTo
<1>4. NodeOid \in UpTo(k)
  BY LifecycleAssumption DEF UpTo
<1>5. UpTo(k) \subseteq Oids
  BY DEF UpTo, Oids
<1> QED
  BY <1>1, <1>3, <1>4, <1>5

\* No oid and all of them.
LEMMA UpToEnds ==
    /\ UpTo(0) = {}
    /\ UpTo(Len(OidOrder)) = Oids
    /\ NodeOid \in Oids /\ HooksOid \in Oids
    /\ Len(OidOrder) \in Nat \ {0}
  BY LifecycleAssumption DEF UpTo, Oids

\* What FlagsInv and OidsInv say together when nothing is mapped or linked.
LEMMA QuietOutside ==
    ASSUME LifecycleInv, lpc \in {"unloaded", "install"}
    PROVE  /\ oids = {}
           /\ \A t \in Dispatchers : at[t] = "out"
           /\ \A w \in Writers : wpc[w] = "idle"
  BY UpToEnds
  DEF LifecycleInv, OidsInv, InsideInv, Attached, LifecycleTypeOK

\* A load, whoever asks for it, and how the loads are counted.
LoadNow == Load /\ loads' \in 0..MaxLoads

LoaderStep == LoadNow \/ Stop \/ LoaderProceeds

OtherStep ==
    \/ \E t \in Dispatchers : EnterFramework(t) \/ DispatchProceeds(t)
    \/ SysctlWrite
    \/ \E w \in Writers : HandlerRuns(w)

\* What BootLoader has in common with LifecycleNext.
LifecycleStep == LoaderStep \/ OtherStep

LEMMA NextIsStep == LifecycleTypeOK /\ LifecycleNext => LifecycleStep
  BY LifecycleAssumption
  DEF LifecycleTypeOK, LifecycleNext, LoadAgain, LifecycleStep, LoaderStep,
      LoadNow, OtherStep

\* The loader does not touch what the other threads hold, nor they its place.
LEMMA LoaderLeaves == LoaderStep => UNCHANGED <<controlVars, at>>
  BY DEF LoaderStep, LoadNow, Load, Stop, LoaderProceeds, InstallAtStart,
     LinkOid, Attach, PolicyInit, MarkRegistered, ClearSlot, Detach, Drained,
     PolicyDestroy, MarkUnregistered, UnlinkOid, OidDrained, Free, controlVars

LEMMA OtherLeaves == OtherStep => UNCHANGED <<loaderVars, kernelVars>>
  BY DEF OtherStep, EnterFramework, DispatchProceeds, LoadSlot, ReturnFromHook,
     SysctlWrite, HandlerRuns, loaderVars, kernelVars

\* The flags follow the loader through every step of it.
LEMMA FlagsStep ==
    LifecycleTypeOK /\ FlagsInv /\ LoaderStep => FlagsInv'
<1> SUFFICES ASSUME LifecycleTypeOK, FlagsInv, LoaderStep
             PROVE  FlagsInv'
  OBVIOUS
<1> USE DEF FlagsInv, Attached, kernelVars
<1>1. CASE LoadNow
  BY <1>1 DEF LoadNow, Load
<1>2. CASE Stop
  BY <1>2 DEF Stop
<1>3. CASE InstallAtStart
  BY <1>3 DEF InstallAtStart
<1>4. CASE LinkOid
  BY <1>4 DEF LinkOid
<1>5. CASE Attach
  BY <1>5 DEF Attach
<1>6. CASE PolicyInit
  BY <1>6 DEF PolicyInit
<1>7. CASE MarkRegistered
  BY <1>7 DEF MarkRegistered
<1>8. CASE ClearSlot
  BY <1>8 DEF ClearSlot
<1>9. CASE Detach
  BY <1>9 DEF Detach
<1>10. CASE Drained
  BY <1>10 DEF Drained
<1>11. CASE PolicyDestroy
  BY <1>11 DEF PolicyDestroy
<1>12. CASE MarkUnregistered
  BY <1>12 DEF MarkUnregistered
<1>13. CASE UnlinkOid
  BY <1>13 DEF UnlinkOid
<1>14. CASE OidDrained
  BY <1>14 DEF OidDrained
<1>15. CASE Free
  BY <1>15 DEF Free
<1> QED
  BY <1>1, <1>2, <1>3, <1>4, <1>5, <1>6, <1>7, <1>8, <1>9, <1>10, <1>11,
     <1>12, <1>13, <1>14, <1>15 DEF LoaderStep, LoaderProceeds

\* The linked oids stay a beginning of the list.
LEMMA OidsStep ==
    LifecycleTypeOK /\ FlagsInv /\ OidsInv /\ LoaderStep => OidsInv'
<1> SUFFICES ASSUME LifecycleTypeOK, FlagsInv, OidsInv, LoaderStep
             PROVE  OidsInv'
  OBVIOUS
<1>n. Len(OidOrder) \in Nat \ {0}
  BY UpToEnds
<1>i. \A k \in 1..Len(OidOrder) :
        /\ UpTo(k - 1) \cup {OidOrder[k]} = UpTo(k)
        /\ UpTo(k) \ {OidOrder[k]} = UpTo(k - 1)
  BY UpToSteps
<1> USE <1>n DEF OidsInv, Attached, Complete, kernelVars
<1>1. CASE LoadNow
  BY <1>1 DEF LoadNow, Load
<1>2. CASE Stop
  <2>1. registered
    BY <1>2 DEF Stop, FlagsInv
  <2> QED
    BY <1>2, <2>1 DEF Stop
<1>3. CASE InstallAtStart
  BY <1>3 DEF InstallAtStart
<1>4. CASE LinkOid
  <2>1. index \in 1..Len(OidOrder) /\ oids' = UpTo(index)
    BY <1>4, <1>i DEF LinkOid
  <2>2. CASE index = Len(OidOrder)
    BY <1>4, <2>1, <2>2 DEF LinkOid
  <2>3. CASE index # Len(OidOrder)
    BY <1>4, <2>1, <2>3 DEF LinkOid
  <2> QED
    BY <2>2, <2>3
<1>5. CASE Attach
  BY <1>5 DEF Attach
<1>6. CASE PolicyInit
  BY <1>6 DEF PolicyInit
<1>7. CASE MarkRegistered
  BY <1>7 DEF MarkRegistered
<1>8. CASE ClearSlot
  BY <1>8 DEF ClearSlot
<1>9. CASE Detach
  BY <1>9 DEF Detach
<1>10. CASE Drained
  BY <1>10 DEF Drained
<1>11. CASE PolicyDestroy
  BY <1>11 DEF PolicyDestroy
<1>12. CASE MarkUnregistered
  BY <1>12 DEF MarkUnregistered
<1>13. CASE UnlinkOid
  BY <1>13, <1>i DEF UnlinkOid
<1>14. CASE OidDrained
  BY <1>14 DEF OidDrained
<1>15. CASE Free
  BY <1>15 DEF Free
<1> QED
  BY <1>1, <1>2, <1>3, <1>4, <1>5, <1>6, <1>7, <1>8, <1>9, <1>10, <1>11,
     <1>12, <1>13, <1>14, <1>15 DEF LoaderStep, LoaderProceeds

\* A handler or a dispatch that is under way is waited for.
LEMMA InsideStep ==
    LifecycleInv /\ LifecycleStep => InsideInv'
<1> SUFFICES ASSUME LifecycleInv, LifecycleStep
             PROVE  InsideInv'
  OBVIOUS
<1>1. CASE LoaderStep
  <2>u. wpc' = wpc /\ at' = at
    BY <1>1, LoaderLeaves DEF controlVars
  <2>1. ASSUME NEW t \in Dispatchers, at[t] # "out"
        PROVE  lpc' \in Attached
    <3>1. lpc \in Attached /\ ~(\A u \in Dispatchers : at[u] = "out")
      BY <2>1 DEF LifecycleInv, InsideInv
    <3> QED
      BY <1>1, <3>1
      DEF LoaderStep, LoaderProceeds, LoadNow, Load, Stop, InstallAtStart,
          LinkOid, Attach, PolicyInit, MarkRegistered, ClearSlot, Detach,
          Drained, PolicyDestroy, MarkUnregistered, UnlinkOid, OidDrained,
          Free, Attached, LifecycleInv, FlagsInv
  <2>2. ASSUME NEW w \in Writers, wpc[w] # "idle"
        PROVE  \/ HooksOid \in oids'
               \/ lpc' = "wait" /\ OidOrder[index'] = HooksOid
    <3>1. \/ HooksOid \in oids
          \/ lpc = "wait" /\ OidOrder[index] = HooksOid
      BY <2>2 DEF LifecycleInv, InsideInv
    <3>2. CASE UnlinkOid
      BY <3>1, <3>2 DEF UnlinkOid
    <3>3. CASE OidDrained
      BY <2>2, <3>1, <3>3 DEF OidDrained, kernelVars
    <3>4. CASE ~UnlinkOid /\ ~OidDrained
      <4>1. oids \subseteq oids'
        BY <1>1, <3>4
        DEF LoaderStep, LoaderProceeds, LoadNow, Load, Stop, InstallAtStart,
            LinkOid, Attach, PolicyInit, MarkRegistered, ClearSlot, Detach,
            Drained, PolicyDestroy, MarkUnregistered, Free, kernelVars
      <4>2. lpc # "wait"
        BY <1>1, <3>4
        DEF LoaderStep, LoaderProceeds, LoadNow, Load, Stop, InstallAtStart,
            LinkOid, Attach, PolicyInit, MarkRegistered, ClearSlot, Detach,
            Drained, PolicyDestroy, MarkUnregistered, Free
      <4> QED
        BY <3>1, <4>1, <4>2
    <3> QED
      BY <3>2, <3>3, <3>4
  <2> QED
    BY <2>u, <2>1, <2>2 DEF InsideInv
<1>2. CASE OtherStep
  <2>u. /\ lpc' = lpc /\ index' = index /\ oids' = oids
        /\ attached' = attached
    BY <1>2, OtherLeaves DEF loaderVars, kernelVars
  <2>t. /\ at \in [Dispatchers -> {"out", "busy", "body"}]
        /\ wpc \in [Writers -> {"idle", "validate", "mask", "slots"}]
    BY DEF LifecycleInv, LifecycleTypeOK, ControlTypeOK
  <2>1. \A t \in Dispatchers :
            at'[t] # "out" => at[t] # "out" \/ lpc \in Attached
    BY <1>2, <2>t
    DEF OtherStep, EnterFramework, DispatchProceeds, LoadSlot, ReturnFromHook,
        SysctlWrite, HandlerRuns, LifecycleInv, FlagsInv
  <2>2. \A w \in Writers :
            wpc'[w] # "idle" => wpc[w] # "idle" \/ HooksOid \in oids
    <3>1. CASE \E t \in Dispatchers : EnterFramework(t) \/ DispatchProceeds(t)
      BY <3>1 DEF EnterFramework, DispatchProceeds, LoadSlot, ReturnFromHook,
         controlVars
    <3>2. CASE SysctlWrite
      BY <3>2, <2>t DEF SysctlWrite, WriteHooks, WriteUnsafe, Linked
    <3>3. CASE \E w \in Writers : HandlerRuns(w)
      BY <3>3, <2>t DEF HandlerRuns, Handler, Validate, StoreMask, InstallSlot,
         ReturnHooks
    <3> QED
      BY <1>2, <3>1, <3>2, <3>3 DEF OtherStep
  <2> QED
    BY <2>u, <2>1, <2>2 DEF InsideInv, LifecycleInv
<1> QED
  BY <1>1, <1>2 DEF LifecycleStep, OtherStep

\* Only a handler past its validation sets the mask or a slot.
LEMMA AskedStep ==
    LifecycleInv /\ LifecycleStep => AskedInv'
<1> SUFFICES ASSUME LifecycleInv, LifecycleStep
             PROVE  AskedInv'
  OBVIOUS
<1> DEFINE Set == \/ mask # {} \/ \E h \in Hooks : slot[h]
                  \/ \E w \in Writers : wpc[w] = "slots"
<1>s. Set => asked \/ ~loaded
  BY DEF LifecycleInv, AskedInv, Installed
<1>p. (Set' => asked' \/ ~loaded') => AskedInv'
  BY DEF AskedInv, Installed
<1>t. /\ slot \in [Hooks -> BOOLEAN]
      /\ wpc \in [Writers -> {"idle", "validate", "mask", "slots"}]
  BY DEF LifecycleInv, LifecycleTypeOK, StateTypeOK, ControlTypeOK
<1>1. CASE LoadNow
  <2>1. \A w \in Writers : wpc[w] = "idle"
    BY <1>1, QuietOutside DEF LoadNow, Load
  <2>2. ~Set'
    BY <1>1, <2>1 DEF LoadNow, Load, MapData, controlVars
  <2> QED
    BY <1>p, <2>2
<1>2. CASE InstallAtStart
  <2>1. Set' => Set
    BY <1>2, <1>t DEF InstallAtStart, controlVars
  <2>2. asked' = asked /\ loaded' = loaded
    BY <1>2 DEF InstallAtStart, historyVars, kernelVars
  <2> QED
    BY <1>s, <1>p, <2>1, <2>2
<1>3. CASE ClearSlot
  <2>1. Set' => Set
    BY <1>3, <1>t DEF ClearSlot, controlVars
  <2>2. asked' = asked /\ loaded' = loaded
    BY <1>3 DEF ClearSlot, kernelVars
  <2> QED
    BY <1>s, <1>p, <2>1, <2>2
<1>4. CASE LoaderStep /\ ~LoadNow /\ ~InstallAtStart /\ ~ClearSlot
  <2>1. /\ UNCHANGED <<slot, mask, wpc, asked>>
        /\ loaded' => loaded
    BY <1>4
    DEF LoaderStep, LoaderProceeds, Stop, LinkOid, Attach, PolicyInit,
        MarkRegistered, Detach, Drained, PolicyDestroy, MarkUnregistered,
        UnlinkOid, OidDrained, Free, stateVars, controlVars, kernelVars,
        historyVars
  <2> HIDE DEF Set
  <2>2. Set' => Set
    BY <2>1 DEF Set
  <2> QED
    BY <1>s, <1>p, <2>1, <2>2
<1>5. CASE \E t \in Dispatchers : EnterFramework(t) \/ DispatchProceeds(t)
  <2>1. UNCHANGED <<slot, mask, wpc, asked, loaded>>
    BY <1>5 DEF EnterFramework, DispatchProceeds, LoadSlot, ReturnFromHook,
       stateVars, controlVars, kernelVars, historyVars
  <2> QED
    BY <1>s, <1>p, <2>1
<1>6. CASE SysctlWrite
  <2>1. Set' => Set
    BY <1>6, <1>t DEF SysctlWrite, WriteHooks, WriteUnsafe, stateVars
  <2>2. asked' = asked /\ loaded' = loaded
    BY <1>6 DEF SysctlWrite, kernelVars, historyVars
  <2> QED
    BY <1>s, <1>p, <2>1, <2>2
<1>7. ASSUME NEW w \in Writers, HandlerRuns(w) PROVE AskedInv'
  <2>1. loaded' = loaded /\ (asked => asked')
        /\ (wpc'[w] = "slots" => asked')
    BY <1>7 DEF HandlerRuns, kernelVars
  <2>2. Set' => Set \/ wpc'[w] = "slots"
    <3>1. CASE Validate(w)
      BY <3>1, <1>t DEF Validate, stateVars
    <3>2. CASE StoreMask(w)
      BY <3>2, <1>t DEF StoreMask
    <3>3. CASE InstallSlot(w)
      BY <3>3, <1>t DEF InstallSlot
    <3>4. CASE ReturnHooks(w)
      BY <3>4, <1>t DEF ReturnHooks, stateVars
    <3> QED
      BY <1>7, <3>1, <3>2, <3>3, <3>4 DEF HandlerRuns, Handler
  <2> QED
    BY <1>s, <1>p, <2>1, <2>2
<1> QED
  BY <1>1, <1>2, <1>3, <1>4, <1>5, <1>6, <1>7
  DEF LifecycleStep, OtherStep

\* A handler step keeps the types of what the sysctls share, and its own mask.
LEMMA HandlerTypes ==
    ASSUME LifecycleTypeOK, WriterInv, NEW w \in Writers, Handler(w)
    PROVE  StateTypeOK' /\ ControlTypeOK' /\ WriterInv'
<1> USE SlotOrderAssumption, ControlAssumption
    DEF LifecycleTypeOK, StateTypeOK, ControlTypeOK, WriterInv
<1>1. CASE Validate(w)
  <2>1. CASE BadBit \in value[w] \/ Refused(value[w])
    BY <1>1, <2>1 DEF Validate, stateVars
  <2>2. CASE ~(BadBit \in value[w] \/ Refused(value[w]))
    <3>1. value[w] \subseteq Hooks
      BY <2>2
    <3> QED
      BY <1>1, <2>2, <3>1 DEF Validate, stateVars
  <2> QED
    BY <2>1, <2>2
<1>2. CASE StoreMask(w)
  BY <1>2 DEF StoreMask
<1>3. CASE InstallSlot(w)
  BY <1>3 DEF InstallSlot
<1>4. CASE ReturnHooks(w)
  BY <1>4 DEF ReturnHooks, stateVars
<1> QED
  BY <1>1, <1>2, <1>3, <1>4 DEF Handler

\* Every step keeps the types and the masks of the writers.
LEMMA LifecycleTypeStep ==
    LifecycleInv /\ LifecycleStep => LifecycleTypeOK' /\ WriterInv'
<1> SUFFICES ASSUME LifecycleInv, LifecycleStep
             PROVE  LifecycleTypeOK' /\ WriterInv'
  OBVIOUS
<1>t. LifecycleTypeOK /\ WriterInv /\ OidsInv
  BY DEF LifecycleInv
<1>n. Len(OidOrder) \in Nat \ {0} /\ UpTo(Len(OidOrder)) = Oids
  BY UpToEnds
<1>1. CASE LoaderStep
  <2>c. ControlTypeOK' /\ WriterInv'
    BY <1>1, <1>t, LoaderLeaves
    DEF controlVars, LifecycleTypeOK, ControlTypeOK, WriterInv
  <2>a. at' \in [Dispatchers -> {"out", "busy", "body"}]
    BY <1>1, <1>t, LoaderLeaves DEF LifecycleTypeOK
  <2>s. StateTypeOK' /\ asked' \in BOOLEAN /\ alone' \subseteq Writers
    <3> USE <1>t DEF LifecycleTypeOK, StateTypeOK
    <3>1. CASE LoadNow
      <4>1. UIntMod \in Nat \ {0} /\ DefaultFuse \in Int
        BY UIntModAssumption, LifecycleAssumption
      <4>2. 0 \in 0..(UIntMod - 1)
        BY <4>1
      <4> QED
        <5>1. /\ slot' \in [Hooks -> BOOLEAN] /\ mask' \subseteq Hooks
              /\ fuse' \in Int /\ count' \in 0..(UIntMod - 1)
              /\ maxdepth' \in Int
          BY <3>1, <4>1, <4>2 DEF LoadNow, Load, MapData
        <5>2. /\ unsafe' \in BOOLEAN /\ trace' \in BOOLEAN
              /\ recursed' \in BOOLEAN /\ asked' \in BOOLEAN
              /\ alone' \subseteq Writers
          BY <3>1, Zenon DEF LoadNow, Load, MapData
        <5> QED
          BY <5>1, <5>2
    <3>2. CASE InstallAtStart
      <4>1. slot' \in [Hooks -> BOOLEAN]
        <5>1. \A h \in Hooks : (h \in mask) \in BOOLEAN
          OBVIOUS
        <5> QED
          BY <3>2, <5>1, Zenon DEF InstallAtStart
      <4> QED
        BY <3>2, <4>1 DEF InstallAtStart, historyVars
    <3>3. CASE ClearSlot
      BY <3>3 DEF ClearSlot
    <3>4. CASE LoaderStep /\ ~LoadNow /\ ~InstallAtStart /\ ~ClearSlot
      <4>1. UNCHANGED <<stateVars, historyVars>>
        BY <3>4
        DEF LoaderStep, LoaderProceeds, Stop, LinkOid, Attach, PolicyInit,
            MarkRegistered, Detach, Drained, PolicyDestroy, MarkUnregistered,
            UnlinkOid, OidDrained, Free
      <4> QED
        BY <4>1 DEF stateVars, historyVars
    <3> QED
      BY <1>1, <3>1, <3>2, <3>3, <3>4
  <2>k. /\ lpc' \in LoaderLabels /\ index' \in Nat /\ loads' \in 0..MaxLoads
        /\ loaded' \in BOOLEAN /\ registered' \in BOOLEAN
        /\ attached' \in BOOLEAN /\ inited' \in BOOLEAN
    <3> USE <1>1, <1>t, <1>n
        DEF LifecycleTypeOK, LoaderLabels, kernelVars, OidsInv
    <3>1. CASE LoadNow
      <4>1. lpc' \in LoaderLabels /\ index' \in Nat /\ loads' \in 0..MaxLoads
        BY <3>1, LifecycleAssumption DEF LoadNow, Load
      <4>2. /\ loaded' \in BOOLEAN /\ registered' \in BOOLEAN
            /\ attached' \in BOOLEAN /\ inited' \in BOOLEAN
        BY <3>1, Zenon DEF LoadNow, Load
      <4> QED
        BY <4>1, <4>2
    <3>2. CASE ClearSlot \/ Detach \/ InstallAtStart \/ Attach
      BY <3>2 DEF ClearSlot, Detach, InstallAtStart, Attach
    <3>6. CASE PolicyInit
      BY <3>6 DEF PolicyInit
    <3>7. CASE MarkRegistered
      BY <3>7 DEF MarkRegistered
    <3>5. CASE Stop
      BY <3>5 DEF Stop
    <3>3. CASE Drained \/ PolicyDestroy \/ MarkUnregistered \/ Free
      BY <3>3 DEF Drained, PolicyDestroy, MarkUnregistered, Free
    <3>4. CASE LinkOid \/ UnlinkOid \/ OidDrained
      BY <3>4 DEF LinkOid, UnlinkOid, OidDrained
    <3> QED
      BY <3>1, <3>2, <3>3, <3>4, <3>5, <3>6, <3>7
      DEF LoaderStep, LoaderProceeds
  <2>o. oids' \subseteq Oids
    <3>1. CASE LinkOid
      BY <3>1, <1>t, <1>n DEF LinkOid, LifecycleTypeOK, OidsInv, Oids
    <3>2. CASE ~LinkOid
      BY <1>1, <3>2, <1>t
      DEF LoaderStep, LoaderProceeds, LoadNow, Load, Stop, InstallAtStart,
          Attach, PolicyInit, MarkRegistered, ClearSlot, Detach, Drained,
          PolicyDestroy, MarkUnregistered, UnlinkOid, OidDrained, Free,
          LifecycleTypeOK, kernelVars
    <3> QED
      BY <3>1, <3>2
  <2> QED
    BY <2>c, <2>a, <2>s, <2>k, <2>o DEF LifecycleTypeOK
<1>2. CASE OtherStep
  <2>u. /\ lpc' = lpc /\ index' = index /\ loads' = loads /\ oids' = oids
        /\ loaded' = loaded /\ registered' = registered
        /\ attached' = attached /\ inited' = inited
    BY <1>2, OtherLeaves DEF loaderVars, kernelVars
  <2>1. CASE \E t \in Dispatchers : EnterFramework(t) \/ DispatchProceeds(t)
    <3>1. UNCHANGED <<stateVars, controlVars, historyVars>>
      BY <2>1 DEF EnterFramework, DispatchProceeds, LoadSlot, ReturnFromHook
    <3>2. StateTypeOK' /\ ControlTypeOK' /\ WriterInv'
          /\ asked' \in BOOLEAN /\ alone' \subseteq Writers
      BY <3>1, <1>t DEF stateVars, controlVars, historyVars, LifecycleTypeOK,
         StateTypeOK, ControlTypeOK, WriterInv
    <3>3. at' \in [Dispatchers -> {"out", "busy", "body"}]
      BY <2>1, <1>t DEF EnterFramework, DispatchProceeds, LoadSlot,
         ReturnFromHook, LifecycleTypeOK
    <3> QED
      BY <1>t, <2>u, <3>2, <3>3 DEF LifecycleTypeOK
  <2>2. CASE SysctlWrite
    <3>1. /\ at' = at /\ asked' = asked /\ alone' = alone
      BY <2>2 DEF SysctlWrite, historyVars
    <3>2. StateTypeOK' /\ ControlTypeOK' /\ WriterInv'
      <4> USE <1>t, ControlAssumption
          DEF LifecycleTypeOK, StateTypeOK, ControlTypeOK, WriterInv,
              OneMoreWrite, stateVars
      <4>1. CASE \E w \in Writers : \E v \in SUBSET (Hooks \cup {BadBit}) :
                    WriteHooks(w, v)
        BY <4>1 DEF WriteHooks
      <4>2. CASE \E v \in BOOLEAN : WriteUnsafe(v)
        BY <4>2 DEF WriteUnsafe
      <4> QED
        BY <2>2, <4>1, <4>2 DEF SysctlWrite
    <3> QED
      BY <1>t, <2>u, <3>1, <3>2 DEF LifecycleTypeOK
  <2>3. ASSUME NEW w \in Writers, HandlerRuns(w)
        PROVE  LifecycleTypeOK' /\ WriterInv'
    <3>1. StateTypeOK' /\ ControlTypeOK' /\ WriterInv'
      BY <1>t, <2>3, HandlerTypes DEF HandlerRuns
    <3>2. at' = at /\ asked' \in BOOLEAN
      BY <1>t, <2>3 DEF HandlerRuns, LifecycleTypeOK
    <3>3. alone' \subseteq Writers
      BY <1>t, <2>3 DEF HandlerRuns, LifecycleTypeOK
    <3> QED
      BY <1>t, <2>u, <3>1, <3>2, <3>3 DEF LifecycleTypeOK
  <2> QED
    BY <1>2, <2>1, <2>2, <2>3 DEF OtherStep
<1> QED
  BY <1>1, <1>2 DEF LifecycleStep, OtherStep

\* A step that leaves slots, mask and writers alone, or finds nobody alone,
\* keeps LoneInv.
LEMMA LoneKept ==
    ASSUME LoneInv, UNCHANGED <<slot, mask, wpc, value, next, alone>>
    PROVE  LoneInv'
  BY DEF LoneInv

\* Nobody's stores mix with those of a writer that is alone.
LEMMA LoneStep ==
    LifecycleInv /\ LifecycleStep => LoneInv'
<1> SUFFICES ASSUME LifecycleInv, LifecycleStep
             PROVE  LoneInv'
  OBVIOUS
<1>t. /\ LoneInv /\ WriterInv
      /\ slot \in [Hooks -> BOOLEAN] /\ alone \subseteq Writers
      /\ wpc \in [Writers -> {"idle", "validate", "mask", "slots"}]
      /\ value \in [Writers -> SUBSET (Hooks \cup {BadBit})]
      /\ next \in [Writers -> 1..(Len(SlotOrder) + 1)]
  BY DEF LifecycleInv, LifecycleTypeOK, StateTypeOK, ControlTypeOK
<1>1. CASE LoadNow \/ InstallAtStart
  <2>1. lpc \in {"unloaded", "install"} /\ alone' = alone /\ wpc' = wpc
    BY <1>1 DEF LoadNow, Load, InstallAtStart, controlVars, historyVars
  <2>2. alone = {}
    BY <1>t, <2>1, QuietOutside DEF LoneInv
  <2> QED
    BY <2>1, <2>2 DEF LoneInv
<1>2. CASE ClearSlot
  BY <1>2 DEF ClearSlot, LoneInv
<1>3. CASE LoaderStep /\ ~LoadNow /\ ~InstallAtStart /\ ~ClearSlot
  <2>1. UNCHANGED <<slot, mask, wpc, value, next, alone>>
    BY <1>3
    DEF LoaderStep, LoaderProceeds, Stop, LinkOid, Attach, PolicyInit,
        MarkRegistered, Detach, Drained, PolicyDestroy, MarkUnregistered,
        UnlinkOid, OidDrained, Free, stateVars, controlVars, historyVars
  <2> QED
    BY <1>t, <2>1, LoneKept
<1>4. CASE \E t \in Dispatchers : EnterFramework(t) \/ DispatchProceeds(t)
  <2>1. UNCHANGED <<slot, mask, wpc, value, next, alone>>
    BY <1>4 DEF EnterFramework, DispatchProceeds, LoadSlot, ReturnFromHook,
       stateVars, controlVars, historyVars
  <2> QED
    BY <1>t, <2>1, LoneKept
<1>5. CASE SysctlWrite
  <2>0. slot' = slot /\ mask' = mask /\ next' = next /\ alone' = alone
    BY <1>5 DEF SysctlWrite, WriteHooks, WriteUnsafe, stateVars, historyVars
  <2>1. \A w \in Writers :
            /\ wpc'[w] = "slots" <=> wpc[w] = "slots"
            /\ wpc[w] = "slots" => value'[w] = value[w]
    BY <1>5, <1>t DEF SysctlWrite, WriteHooks, WriteUnsafe
  <2> QED
    BY <1>t, <2>0, <2>1 DEF LoneInv
<1>6. ASSUME NEW w \in Writers, HandlerRuns(w)
      PROVE  LoneInv'
  <2> DEFINE Storing == {v \in Writers : wpc'[v] = "slots"}
  <2>1. Handler(w) /\ alone' = IF wpc[w] # "mask" THEN alone \cap Storing
                               ELSE IF Storing = {w} THEN {w} ELSE {}
    BY <1>6 DEF HandlerRuns
  <2> SUFFICES ASSUME NEW u \in alone'
               PROVE  /\ wpc'[u] = "slots"
                      /\ \A v \in Writers : wpc'[v] = "slots" => v = u
                      /\ mask' = value'[u]
                      /\ \A j \in 1..(next'[u] - 1) :
                           slot'[SlotOrder[j]] <=> SlotOrder[j] \in value'[u]
    BY DEF LoneInv
  <2>2. CASE StoreMask(w)
    <3>1. /\ wpc[w] = "mask" /\ next'[w] = 1 /\ value' = value
          /\ mask' = value[w]
      BY <1>t, <2>2 DEF StoreMask, WriterInv
    <3>2. Storing = {w} /\ u = w
      BY <2>1, <3>1
    <3> QED
      BY <3>1, <3>2
  <2>3. CASE ~StoreMask(w)
    <3>1. wpc[w] # "mask" /\ u \in alone /\ u \in Writers /\ wpc'[u] = "slots"
      BY <1>t, <2>1, <2>3 DEF Handler, StoreMask, Validate, InstallSlot,
         ReturnHooks
    <3>2. /\ wpc[u] = "slots" /\ mask = value[u]
          /\ \A v \in Writers : wpc[v] = "slots" => v = u
          /\ \A j \in 1..(next[u] - 1) :
                slot[SlotOrder[j]] <=> SlotOrder[j] \in value[u]
      BY <1>t, <3>1 DEF LoneInv
    <3>3. CASE InstallSlot(w)
      <4>1. w = u
        BY <3>2, <3>3 DEF InstallSlot
      <4>2. /\ wpc' = wpc /\ value' = value /\ mask' = mask
            /\ next[u] \in 1..Len(SlotOrder) /\ next'[u] = next[u] + 1
            /\ slot' = [slot EXCEPT ![SlotOrder[next[u]]] =
                            SlotOrder[next[u]] \in value[u]]
        BY <1>t, <3>3, <4>1 DEF InstallSlot
      <4>3. \A j \in 1..Len(SlotOrder) : SlotOrder[j] \in Hooks
        BY DEF Hooks
      <4>4. ASSUME NEW j \in 1..(next'[u] - 1)
            PROVE  slot'[SlotOrder[j]] <=> SlotOrder[j] \in value'[u]
        <5>1. j \in 1..Len(SlotOrder) /\ SlotOrder[j] \in Hooks
              /\ SlotOrder[next[u]] \in Hooks
          BY <4>2, <4>3
        <5>2. CASE SlotOrder[j] = SlotOrder[next[u]]
          BY <1>t, <4>2, <5>1, <5>2
        <5>3. CASE SlotOrder[j] # SlotOrder[next[u]]
          <6>1. j \in 1..(next[u] - 1)
            BY <4>2, <5>3
          <6>2. slot'[SlotOrder[j]] = slot[SlotOrder[j]]
            BY <1>t, <4>2, <5>1, <5>3
          <6> QED
            BY <3>2, <4>2, <6>1, <6>2
        <5> QED
          BY <5>2, <5>3
      <4> QED
        BY <3>2, <4>2, <4>4
    <3>4. CASE Validate(w)
      <4>1. /\ slot' = slot /\ mask' = mask /\ next' = next /\ w # u
            /\ wpc'[w] # "slots"
        BY <1>t, <3>2, <3>4 DEF Validate, stateVars
      <4>2. \A v \in Writers : v # w => wpc'[v] = wpc[v] /\ value'[v] = value[v]
        BY <1>t, <3>4 DEF Validate
      <4> QED
        BY <3>1, <3>2, <4>1, <4>2
    <3>5. CASE ReturnHooks(w)
      <4>1. wpc'[w] = "idle" /\ wpc[w] = "slots"
        BY <1>t, <3>5 DEF ReturnHooks
      <4> QED
        BY <3>1, <3>2, <4>1
    <3> QED
      BY <2>1, <2>3, <3>3, <3>4, <3>5 DEF Handler
  <2> QED
    BY <2>2, <2>3
<1> QED
  BY <1>1, <1>2, <1>3, <1>4, <1>5, <1>6
  DEF LifecycleStep, OtherStep

-----------------------------------------------------------------------------
\* Every step of a start, a stop, a handler or a dispatch keeps the invariant.
LEMMA LifecycleStepInv ==
    LifecycleInv /\ LifecycleStep => LifecycleInv'
<1> SUFFICES ASSUME LifecycleInv, LifecycleStep
             PROVE  LifecycleInv'
  OBVIOUS
<1>1. FlagsInv' /\ OidsInv'
  <2>1. CASE LoaderStep
    BY <2>1, FlagsStep, OidsStep DEF LifecycleInv
  <2>2. CASE OtherStep
    BY <2>2, OtherLeaves
    DEF LifecycleInv, FlagsInv, OidsInv, loaderVars, kernelVars
  <2> QED
    BY <2>1, <2>2 DEF LifecycleStep
<1> QED
  BY <1>1, LifecycleTypeStep, InsideStep, AskedStep, LoneStep
  DEF LifecycleInv

\* The invariant holds of a kernel that has not loaded the kext, and always.
LEMMA LifecycleInductive ==
    /\ LifecycleInit => LifecycleInv
    /\ LifecycleInv /\ [LifecycleNext]_lifecycleVars => LifecycleInv'
<1>1. ASSUME LifecycleInit PROVE LifecycleInv
  <2> USE <1>1 DEF LifecycleInit, FreshState, ControlInit
  <2>1. StateTypeOK
    <3>1. /\ slot \in [Hooks -> BOOLEAN] /\ mask \subseteq Hooks
          /\ fuse \in Int /\ count \in 0..(UIntMod - 1) /\ maxdepth \in Int
      BY LifecycleAssumption, UIntModAssumption
    <3>2. unsafe \in BOOLEAN /\ trace \in BOOLEAN /\ recursed \in BOOLEAN
      BY Zenon
    <3> QED
      BY <3>1, <3>2 DEF StateTypeOK
  <2>2. ControlTypeOK
    BY ControlAssumption, SlotOrderAssumption DEF ControlTypeOK
  <2>3. LifecycleTypeOK
    <3>1. /\ loaded \in BOOLEAN /\ registered \in BOOLEAN
          /\ attached \in BOOLEAN /\ inited \in BOOLEAN /\ asked \in BOOLEAN
      BY Zenon
    <3>2. /\ lpc \in LoaderLabels /\ index \in Nat /\ loads \in 0..MaxLoads
          /\ oids \subseteq Oids /\ alone \subseteq Writers
          /\ at \in [Dispatchers -> {"out", "busy", "body"}]
      BY LifecycleAssumption DEF LoaderLabels
    <3> QED
      BY <2>1, <2>2, <3>1, <3>2 DEF LifecycleTypeOK
  <2>4. FlagsInv /\ InsideInv /\ WriterInv /\ LoneInv
    BY DEF FlagsInv, InsideInv, WriterInv, LoneInv, Attached
  <2>5. OidsInv
    BY UpToEnds DEF OidsInv, Complete, Attached
  <2>6. AskedInv
    BY DEF AskedInv, Installed
  <2> QED
    BY <2>3, <2>4, <2>5, <2>6 DEF LifecycleInv
<1>2. ASSUME LifecycleInv, LifecycleNext PROVE LifecycleInv'
  BY <1>2, NextIsStep, LifecycleStepInv DEF LifecycleInv
<1>3. ASSUME LifecycleInv, UNCHANGED lifecycleVars PROVE LifecycleInv'
  <2> USE <1>3 DEF LifecycleInv, lifecycleVars, stateVars, controlVars,
                   loaderVars, kernelVars, historyVars
  <2>1. LifecycleTypeOK'
    BY DEF LifecycleTypeOK, StateTypeOK, ControlTypeOK
  <2>2. FlagsInv' /\ OidsInv' /\ InsideInv'
    BY DEF FlagsInv, OidsInv, InsideInv
  <2>3. AskedInv'
    BY DEF AskedInv, Installed
  <2>4. WriterInv' /\ LoneInv'
    BY DEF WriterInv, LoneInv
  <2> QED
    BY <2>1, <2>2, <2>3, <2>4
<1> QED
  BY <1>1, <1>2, <1>3

\* What the invariant says, in the words of the properties.
LEMMA LifecycleInvImplies ==
    ASSUME LifecycleInv
    PROVE  /\ NothingDangles /\ ParentLinked /\ QuietUntilAsked
           /\ RunningIsComplete /\ LoneWriteRepairs
<1> USE DEF LifecycleInv
<1>1. NothingDangles
  <2> SUFFICES ASSUME ~loaded PROVE NothingDangles
    BY DEF NothingDangles
  <2>1. lpc = "unloaded" /\ ~attached /\ ~inited
    BY DEF FlagsInv, Attached
  <2> QED
    BY <2>1, QuietOutside DEF NothingDangles
<1>2. ParentLinked
  <2>1. \A k \in 1..Len(OidOrder) : NodeOid \in UpTo(k)
    BY UpToSteps
  <2>2. oids = UpTo(0) \/ \E k \in 1..Len(OidOrder) : oids = UpTo(k)
    <3>1. lpc \in Complete \cup {"unloaded", "install", "stopped", "link",
                                 "wait", "unlink"}
      BY DEF LifecycleTypeOK, LoaderLabels, Complete, Attached
    <3>2. CASE lpc \in {"link", "wait"}
      <4>1. index \in 1..Len(OidOrder) /\ oids = UpTo(index - 1)
        BY <3>2 DEF OidsInv
      <4>2. index - 1 = 0 \/ index - 1 \in 1..Len(OidOrder)
        BY <4>1, UpToEnds
      <4> QED
        BY <4>1, <4>2
    <3> QED
      BY <3>1, <3>2, UpToEnds DEF OidsInv
  <2> QED
    BY <2>1, <2>2, UpToEnds DEF ParentLinked
<1>3. QuietUntilAsked
  BY DEF QuietUntilAsked, AskedInv
<1>4. RunningIsComplete
  BY UpToEnds DEF RunningIsComplete, FlagsInv, OidsInv, Complete, Attached
<1>5. LoneWriteRepairs
  <2> SUFFICES ASSUME NEW w \in alone, next[w] > Len(SlotOrder)
               PROVE  mask = value[w] /\ Installed = value[w]
    BY DEF LoneWriteRepairs
  <2>1. /\ w \in Writers /\ wpc[w] = "slots" /\ mask = value[w]
        /\ \A j \in 1..(next[w] - 1) :
                slot[SlotOrder[j]] <=> SlotOrder[j] \in value[w]
    BY DEF LoneInv, LifecycleTypeOK
  <2>2. value[w] \subseteq Hooks
    BY <2>1 DEF WriterInv
  <2>3. next[w] = Len(SlotOrder) + 1
    BY <2>1, SlotOrderAssumption DEF LifecycleTypeOK, ControlTypeOK
  <2>4. \A h \in Hooks : slot[h] <=> h \in value[w]
    <3> SUFFICES ASSUME NEW h \in Hooks PROVE slot[h] <=> h \in value[w]
      OBVIOUS
    <3>1. PICK j \in 1..Len(SlotOrder) : h = SlotOrder[j]
      BY DEF Hooks
    <3>2. j \in 1..(next[w] - 1)
      BY <2>3, SlotOrderAssumption
    <3> QED
      BY <2>1, <3>1, <3>2
  <2> QED
    BY <2>1, <2>2, <2>4 DEF Installed
<1> QED
  BY <1>1, <1>2, <1>3, <1>4, <1>5

\* Every state of every sequence of loads and unloads is of its type.
THEOREM LifecycleTyped == LifecycleSpec => []LifecycleTypeOK
<1>1. LifecycleInv => LifecycleTypeOK
  BY DEF LifecycleInv
<1> QED
  BY <1>1, LifecycleInductive, PTL DEF LifecycleSpec

\* For any oids, writers, dispatchers and loads, and whatever fails: nothing
\* leads into a module that is not mapped.
THEOREM LifecycleNothingDangles == LifecycleSpec => []NothingDangles
<1>1. LifecycleInv => NothingDangles
  BY LifecycleInvImplies
<1> QED
  BY <1>1, LifecycleInductive, PTL DEF LifecycleSpec

\* For any list of oids, no child is ever linked without its node.
THEOREM LifecycleParentLinked == LifecycleSpec => []ParentLinked
<1>1. LifecycleInv => ParentLinked
  BY LifecycleInvImplies
<1> QED
  BY <1>1, LifecycleInductive, PTL DEF LifecycleSpec

\* A module whose start returned success and whose stop did not is complete,
\* after any number of refused stops.
THEOREM LifecycleRunningIsComplete == LifecycleSpec => []RunningIsComplete
<1>1. LifecycleInv => RunningIsComplete
  BY LifecycleInvImplies
<1> QED
  BY <1>1, LifecycleInductive, PTL DEF LifecycleSpec

\* Nothing is installed in a load in which no write was accepted.
THEOREM LifecycleQuietUntilAsked == LifecycleSpec => []QuietUntilAsked
<1>1. LifecycleInv => QuietUntilAsked
  BY LifecycleInvImplies
<1> QED
  BY <1>1, LifecycleInductive, PTL DEF LifecycleSpec

\* For any number of writers, a write whose stores do not mix with another's
\* leaves the mask and all the slots as it asked.
THEOREM LifecycleLoneWriteRepairs == LifecycleSpec => []LoneWriteRepairs
<1>1. LifecycleInv => LoneWriteRepairs
  BY LifecycleInvImplies
<1> QED
  BY <1>1, LifecycleInductive, PTL DEF LifecycleSpec

-----------------------------------------------------------------------------
(* How long a start or a stop has to go.                                   *)

\* The steps that a start or a stop has left, at most: each oid takes one to
\* link and two to unlink, each slot one to clear.
TransitionLeft ==
    LET oid == Len(OidOrder)
    IN  IF lpc = "install" THEN 3 * oid + 3
        ELSE IF lpc = "link" THEN 3 * oid + 3 - index
        ELSE IF lpc = "attach" THEN 2 * oid + 2
        ELSE IF lpc = "init" THEN 2
        ELSE IF lpc = "mark" THEN 1
        ELSE IF lpc = "clear" THEN 2 * oid + 6 + Len(SlotOrder) - index
        ELSE IF lpc = "detach" THEN 2 * oid + 5
        ELSE IF lpc = "drain" THEN 2 * oid + 4
        ELSE IF lpc = "destroy" THEN 2 * oid + 3
        ELSE IF lpc = "unmark" THEN 2 * oid + 2
        ELSE IF lpc = "unlink" THEN 2 * index + 1
        ELSE IF lpc = "wait" THEN 2 * index
        ELSE IF lpc = "stopped" THEN 1
        ELSE 0

\* Where the loader is in the list that it goes through.
IndexInv ==
    /\ lpc = "clear" => index \in 1..Len(SlotOrder)
    /\ lpc \in {"link", "unlink", "wait"} => index \in 1..Len(OidOrder)

TransitionCounted ==
    /\ TransitionLeft \in Nat
    /\ lpc \notin {"unloaded", "running"} => TransitionLeft # 0

\* main.c:373-443: a start or a stop never goes back, whatever the
\* writers, the dispatchers and the framework do meanwhile: each step of it
\* leaves less to do, and nobody else adds anything.
TransitionsShorten ==
    [][lpc \notin {"unloaded", "running"} =>
        /\ TransitionLeft \in Nat \ {0} /\ TransitionLeft' \in Nat
        /\ \/ TransitionLeft' < TransitionLeft
           \/ UNCHANGED <<loaderVars, kernelVars>>]_lifecycleVars

LEMMA SomeSlots == Len(SlotOrder) \in Nat \ {0}
<1>1. PICK j \in 1..Len(SlotOrder) : Lookup = SlotOrder[j]
  BY SlotOrderAssumption DEF Hooks
<1>2. Len(SlotOrder) \in Nat
  BY SlotOrderAssumption
<1> QED
  BY <1>1, <1>2

LEMMA IndexInvStep ==
    ASSUME LifecycleInv, LifecycleInv', IndexInv, LifecycleNext
    PROVE  IndexInv'
<1>t. /\ Len(SlotOrder) \in Nat \ {0} /\ index \in Nat
      /\ lpc' \in {"link", "unlink", "wait"} => index' \in 1..Len(OidOrder)
  BY SomeSlots DEF LifecycleInv, LifecycleTypeOK, OidsInv
<1>1. CASE Stop
  <2>1. index' = 1 /\ lpc' \in {"clear", "stopped"}
    BY <1>1 DEF Stop
  <2> QED
    BY <1>t, <2>1 DEF IndexInv
<1>2. CASE ClearSlot
  BY <1>t, <1>2 DEF ClearSlot, IndexInv
<1>3. CASE OtherStep
  BY <1>3, OtherLeaves DEF IndexInv, loaderVars
<1>4. CASE LoadNow \/ (LoaderProceeds /\ ~ClearSlot)
  <2>1. lpc' # "clear"
    BY <1>4
       DEF LoadNow, Load, LoaderProceeds, InstallAtStart, LinkOid, Attach,
           PolicyInit, MarkRegistered, Detach, Drained, PolicyDestroy,
           MarkUnregistered, UnlinkOid, OidDrained, Free
  <2> QED
    BY <1>t, <2>1 DEF IndexInv
<1>5. LifecycleStep
  BY NextIsStep DEF LifecycleInv
<1> QED
  BY <1>1, <1>2, <1>3, <1>4, <1>5 DEF LifecycleStep, LoaderStep

LEMMA TransitionCounts ==
    ASSUME LifecycleInv, IndexInv
    PROVE  TransitionCounted
<1>1. /\ Len(SlotOrder) \in Nat /\ Len(OidOrder) \in Nat \ {0}
      /\ index \in Nat /\ lpc \in LoaderLabels
  BY SomeSlots, UpToEnds DEF LifecycleInv, LifecycleTypeOK
<1>2. TransitionLeft \in Nat
  BY <1>1 DEF TransitionLeft, IndexInv
<1>3. lpc \notin {"unloaded", "running"} => TransitionLeft # 0
  BY <1>1 DEF TransitionLeft, IndexInv, LoaderLabels
<1> QED
  BY <1>2, <1>3 DEF TransitionCounted

\* A step of the start or the stop.
LEMMA LoaderShortens ==
    ASSUME LifecycleInv, IndexInv, LoaderProceeds
    PROVE  TransitionLeft' < TransitionLeft
<1>1. /\ Len(SlotOrder) \in Nat \ {0} /\ Len(OidOrder) \in Nat \ {0}
      /\ index \in Nat
  BY SomeSlots, UpToEnds DEF LifecycleInv, LifecycleTypeOK
<1>2. CASE InstallAtStart
  BY <1>1, <1>2 DEF InstallAtStart, TransitionLeft
<1>3. CASE LinkOid
  <2>1. index \in 1..Len(OidOrder) /\ lpc = "link"
    BY <1>3 DEF LinkOid, IndexInv
  <2>2. CASE index = Len(OidOrder)
    <3>1. lpc' = "attach"
      BY <1>3, <2>2 DEF LinkOid
    <3> QED
      BY <1>1, <2>1, <2>2, <3>1 DEF TransitionLeft
  <2>3. CASE index # Len(OidOrder)
    <3>1. lpc' = "link" /\ index' = index + 1
      BY <1>3, <2>3 DEF LinkOid
    <3> QED
      BY <1>1, <2>1, <2>3, <3>1 DEF TransitionLeft
  <2> QED
    BY <2>2, <2>3
<1>4. CASE Attach
  <2>1. lpc = "attach"
        /\ (lpc' = "init" \/ (lpc' = "unlink" /\ index' = Len(OidOrder)))
    BY <1>4 DEF Attach
  <2> QED
    BY <1>1, <2>1 DEF TransitionLeft
<1>5. CASE PolicyInit \/ MarkRegistered \/ Free
  BY <1>1, <1>5 DEF PolicyInit, MarkRegistered, Free, TransitionLeft
<1>6. CASE ClearSlot
  <2>1. index \in 1..Len(SlotOrder) /\ lpc = "clear"
    BY <1>6 DEF ClearSlot, IndexInv
  <2>2. CASE index = Len(SlotOrder)
    <3>1. lpc' = "detach"
      BY <1>6, <2>2 DEF ClearSlot
    <3> QED
      BY <1>1, <2>1, <2>2, <3>1 DEF TransitionLeft
  <2>3. CASE index # Len(SlotOrder)
    <3>1. lpc' = "clear" /\ index' = index + 1
      BY <1>6, <2>3 DEF ClearSlot
    <3> QED
      BY <1>1, <2>1, <2>3, <3>1 DEF TransitionLeft
  <2> QED
    BY <2>2, <2>3
<1>7. CASE Detach
  <2>1. lpc = "detach" /\ (lpc' = "running" \/ lpc' = "drain")
    BY <1>7 DEF Detach
  <2> QED
    BY <1>1, <2>1 DEF TransitionLeft
<1>8. CASE Drained \/ PolicyDestroy
  BY <1>1, <1>8 DEF Drained, PolicyDestroy, TransitionLeft
<1>9. CASE MarkUnregistered
  BY <1>1, <1>9 DEF MarkUnregistered, TransitionLeft
<1>10. CASE UnlinkOid
  BY <1>1, <1>10 DEF UnlinkOid, TransitionLeft
<1>11. CASE OidDrained
  <2>1. lpc = "wait" /\ index \in 1..Len(OidOrder)
    BY <1>11 DEF OidDrained, IndexInv
  <2>2. CASE index = 1
    <3>1. lpc' = "stopped"
      BY <1>11, <2>2 DEF OidDrained
    <3> QED
      BY <2>1, <2>2, <3>1 DEF TransitionLeft
  <2>3. CASE index # 1
    <3>1. lpc' = "unlink" /\ index' = index - 1
      BY <1>11, <2>3 DEF OidDrained
    <3> QED
      BY <1>1, <2>1, <2>3, <3>1 DEF TransitionLeft
  <2> QED
    BY <2>2, <2>3
<1> QED
  BY <1>2, <1>3, <1>4, <1>5, <1>6, <1>7, <1>8, <1>9, <1>10, <1>11
     DEF LoaderProceeds

\* The safety half of TransitionsEnd, for any oids, hooks, writers and
\* dispatchers: what is left of a start or a stop is a number that only falls.
THEOREM LifecycleOnlyShortens == LifecycleSpec => TransitionsShorten
<1>1. LifecycleInit => IndexInv
  BY DEF LifecycleInit, IndexInv
<1>2. LifecycleInv /\ LifecycleInv' /\ IndexInv
        /\ [LifecycleNext]_lifecycleVars => IndexInv'
  <2>1. CASE LifecycleNext
    BY <2>1, IndexInvStep
  <2>2. CASE UNCHANGED lifecycleVars
    BY <2>2 DEF lifecycleVars, loaderVars, IndexInv
  <2> QED
    BY <2>1, <2>2
<1>3. LifecycleInv /\ IndexInv => TransitionCounted
  BY TransitionCounts
<1>4. LifecycleInv /\ IndexInv /\ TransitionCounted /\ TransitionCounted'
        /\ [LifecycleNext]_lifecycleVars =>
        [lpc \notin {"unloaded", "running"} =>
            /\ TransitionLeft \in Nat \ {0} /\ TransitionLeft' \in Nat
            /\ \/ TransitionLeft' < TransitionLeft
               \/ UNCHANGED <<loaderVars, kernelVars>>]_lifecycleVars
  <2> SUFFICES ASSUME LifecycleInv, IndexInv, TransitionCounted,
                      TransitionCounted', LifecycleNext,
                      lpc \notin {"unloaded", "running"}
               PROVE  /\ TransitionLeft \in Nat \ {0} /\ TransitionLeft' \in Nat
                      /\ \/ TransitionLeft' < TransitionLeft
                         \/ UNCHANGED <<loaderVars, kernelVars>>
    OBVIOUS
  <2>1. TransitionLeft \in Nat \ {0} /\ TransitionLeft' \in Nat
    BY DEF TransitionCounted
  <2>2. LoaderProceeds \/ OtherStep
    BY NextIsStep
       DEF LifecycleInv, LifecycleStep, LoaderStep, LoadNow, Load, Stop
  <2> QED
    BY <2>1, <2>2, LoaderShortens, OtherLeaves
<1> QED
  BY <1>1, <1>2, <1>3, <1>4, LifecycleInductive, PTL
     DEF LifecycleSpec, TransitionsShorten
=============================================================================
