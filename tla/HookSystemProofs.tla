-------------------------- MODULE HookSystemProofs --------------------------
(***************************************************************************)
(* The hook's invariants survive the sysctls, which write none of its      *)
(* private state, and the interlock holds in every interleaving.           *)
(***************************************************************************)
EXTENDS HookSystem, LookupHookProofs

\* Past its validation a handler that carries the unsafe bit has seen the key
\* set; and nothing else ever puts the bit anywhere.
KeyInv ==
    /\ unsafe => keyed
    /\ Lookup \in mask => keyed
    /\ slot[Lookup] => keyed
    /\ \A w \in Writers :
        wpc[w] \in {"mask", "slots"} =>
            /\ BadBit \notin value[w]
            /\ Lookup \in value[w] => keyed

SystemInv == SystemTypeOK /\ HookInv /\ DepthIsActivations /\ KeyInv

-----------------------------------------------------------------------------
\* A control step keeps the hook's part of the invariant.
LEMMA ControlKeepsHook ==
    ASSUME HookInv, DepthIsActivations, StateTypeOK', UNCHANGED hookVars
    PROVE  HookInv' /\ DepthIsActivations'
<1> USE DEF hookVars
<1>1. HookTypeOK'
  BY DEF HookInv, HookTypeOK
<1>2. (StackInv /\ OwnerInv /\ BackInv /\ OutermostInv)'
  BY DEF HookInv, StackInv, OwnerInv, BackInv, OutermostInv, Owning,
         InsideHook, SawItself
<1>3. DepthIsActivations'
  BY DEF DepthIsActivations, InsideHook
<1> QED
  BY <1>1, <1>2, <1>3 DEF HookInv

\* The types of the control state, and the key, after a control step.
LEMMA ControlStepInv ==
    ASSUME SystemInv, ControlStep
    PROVE  StateTypeOK' /\ ControlTypeOK' /\ keyed' \in BOOLEAN /\ KeyInv'
<1> USE SlotOrderAssumption, ControlAssumption
<1>t. StateTypeOK /\ ControlTypeOK /\ keyed \in BOOLEAN /\ KeyInv
  BY DEF SystemInv, SystemTypeOK, HookTypeOK
<1>k. keyed' = (keyed \/ unsafe')
  BY DEF ControlStep
<1>b. keyed' \in BOOLEAN
  BY <1>k, Zenon
<1>1. ASSUME NEW w \in Writers, NEW v \in SUBSET (Hooks \cup {BadBit}),
             WriteHooks(w, v)
      PROVE  StateTypeOK' /\ ControlTypeOK' /\ KeyInv'
  BY <1>1, <1>t, <1>k DEF WriteHooks, OneMoreWrite, stateVars, StateTypeOK,
     ControlTypeOK, KeyInv
<1>2. ASSUME NEW w \in Writers, Validate(w)
      PROVE  StateTypeOK' /\ ControlTypeOK' /\ KeyInv'
  BY <1>2, <1>t, <1>k DEF Validate, Refused, Unsafe, stateVars, StateTypeOK,
     ControlTypeOK, KeyInv
<1>3. ASSUME NEW w \in Writers, StoreMask(w)
      PROVE  StateTypeOK' /\ ControlTypeOK' /\ KeyInv'
  BY <1>3, <1>t, <1>k DEF StoreMask, StateTypeOK, ControlTypeOK, KeyInv
<1>4. ASSUME NEW w \in Writers, InstallSlot(w)
      PROVE  StateTypeOK' /\ ControlTypeOK' /\ KeyInv'
  BY <1>4, <1>t, <1>k DEF InstallSlot, StateTypeOK, ControlTypeOK, KeyInv
<1>5. ASSUME NEW w \in Writers, ReturnHooks(w)
      PROVE  StateTypeOK' /\ ControlTypeOK' /\ KeyInv'
  BY <1>5, <1>t, <1>k DEF ReturnHooks, stateVars, StateTypeOK, ControlTypeOK,
     KeyInv
<1>6. ASSUME NEW v \in BOOLEAN, WriteUnsafe(v) \/ WriteTrace(v)
      PROVE  StateTypeOK' /\ ControlTypeOK' /\ KeyInv'
  BY <1>6, <1>t, <1>k DEF WriteUnsafe, WriteTrace, OneMoreWrite, StateTypeOK,
     ControlTypeOK, KeyInv
<1>7. ASSUME NEW v \in FuseWrites, WriteFuse(v)
      PROVE  StateTypeOK' /\ ControlTypeOK' /\ KeyInv'
  BY <1>7, <1>t, <1>k DEF WriteFuse, OneMoreWrite, StateTypeOK,
     ControlTypeOK, KeyInv
<1>8. ASSUME NEW v \in CountWrites, WriteCount(v)
      PROVE  StateTypeOK' /\ ControlTypeOK' /\ KeyInv'
  BY <1>8, <1>t, <1>k DEF WriteCount, OneMoreWrite, StateTypeOK,
     ControlTypeOK, KeyInv
<1>9. ASSUME NEW v \in DepthWrites, WriteMaxdepth(v)
      PROVE  StateTypeOK' /\ ControlTypeOK' /\ KeyInv'
  BY <1>9, <1>t, <1>k DEF WriteMaxdepth, OneMoreWrite, StateTypeOK,
     ControlTypeOK, KeyInv
<1>10. ASSUME NEW v \in BOOLEAN, WriteRecursed(v)
       PROVE  StateTypeOK' /\ ControlTypeOK' /\ KeyInv'
  BY <1>10, <1>t, <1>k DEF WriteRecursed, OneMoreWrite, StateTypeOK,
     ControlTypeOK, KeyInv
<1> QED
  BY <1>1, <1>2, <1>3, <1>4, <1>5, <1>6, <1>7, <1>8, <1>9, <1>10, <1>b
  DEF ControlStep, ControlNext, Handler

\* The hook only ever takes the lookup bit away.
LEMMA HookKeepsKey ==
    ASSUME SystemInv, HookNext, UNCHANGED <<controlVars, keyed>>
    PROVE  ControlTypeOK' /\ KeyInv'
<1> PICK t \in Threads, k \in 1..MaxNest : Dispatch(t, k) \/ Body(t, k)
  BY DEF HookNext
<1> USE DEF controlVars
<1>t. StateTypeOK /\ ControlTypeOK /\ KeyInv
  BY DEF SystemInv, SystemTypeOK, HookTypeOK
<1>1. ControlTypeOK'
  BY <1>t DEF ControlTypeOK
<1>2. /\ unsafe' = unsafe
      /\ mask' = mask \/ Lookup \notin mask'
      /\ slot' = slot \/ ~slot'[Lookup]
  BY <1>t, SlotOrderAssumption DEF Dispatch, Body, CheckOwner, FlagRecursion,
     StoreOwner, IncrDepth, ReadMaxdepth, RaiseMaxdepth, IncrCount,
     CheckTrace, LeaveTrace, FusePositive, FuseReached, BlowSlot, BlowLoad,
     BlowStore, DecrDepth, Disown, stateVars, StateTypeOK
<1>3. KeyInv'
  BY <1>t, <1>2 DEF KeyInv
<1> QED
  BY <1>1, <1>3

\* The invariant of hook and sysctls together holds in all their states.
LEMMA SystemInductive ==
    /\ SystemInit => SystemInv
    /\ SystemInv /\ [SystemNext]_systemVars => SystemInv'
<1>1. ASSUME SystemInit PROVE SystemInv
  <2> USE <1>1, SlotOrderAssumption, SystemAssumption, ControlAssumption
      DEF SystemInit, FreshState
  <2>a. /\ slot \in [Hooks -> BOOLEAN]
        /\ unsafe \in BOOLEAN /\ trace \in BOOLEAN /\ recursed \in BOOLEAN
    BY Zenon
  <2>b. /\ mask \subseteq Hooks
        /\ fuse \in Int /\ count \in 0..(UIntMod - 1) /\ maxdepth \in Int
    BY UIntModAssumption
  <2>1. StateTypeOK
    BY <2>a, <2>b, Zenon DEF StateTypeOK
  <2>2. HookInv /\ DepthIsActivations
    BY <2>1, HookInitInv
  <2>3. ControlTypeOK
    BY DEF ControlInit, ControlTypeOK
  <2>4. KeyInv
    BY DEF ControlInit, KeyInv
  <2> QED
    BY <2>2, <2>3, <2>4 DEF SystemInv, SystemTypeOK, HookInv
<1>2. ASSUME SystemInv, NEW t \in Threads, NEW k \in 1..MaxNest,
             DispatchStep(t, k) \/ BodyStep(t, k)
      PROVE  SystemInv'
  <2>1. HookNext /\ UNCHANGED <<controlVars, keyed>>
    BY <1>2 DEF HookNext, DispatchStep, BodyStep
  <2>2. HookInv' /\ DepthIsActivations'
    BY <1>2, <2>1, HookInvStep, DepthStep DEF SystemInv, HookInv
  <2>3. ControlTypeOK' /\ KeyInv'
    BY <1>2, <2>1, HookKeepsKey
  <2> QED
    BY <1>2, <2>1, <2>2, <2>3 DEF SystemInv, SystemTypeOK, HookInv
<1>3. ASSUME SystemInv, ControlStep PROVE SystemInv'
  <2>1. StateTypeOK' /\ ControlTypeOK' /\ keyed' \in BOOLEAN /\ KeyInv'
    BY <1>3, ControlStepInv
  <2>2. HookInv' /\ DepthIsActivations'
    BY <1>3, <2>1, ControlKeepsHook DEF SystemInv, ControlStep
  <2> QED
    BY <2>1, <2>2 DEF SystemInv, SystemTypeOK, HookInv
<1>4. ASSUME SystemInv, UNCHANGED systemVars PROVE SystemInv'
  <2> USE <1>4 DEF SystemInv, systemVars, stateVars, controlVars
  <2>1. StateTypeOK'
    BY DEF SystemTypeOK, HookTypeOK, StateTypeOK
  <2>2. HookInv' /\ DepthIsActivations'
    BY <2>1, ControlKeepsHook
  <2>3. ControlTypeOK' /\ KeyInv'
    BY DEF SystemTypeOK, ControlTypeOK, KeyInv
  <2> QED
    BY <2>2, <2>3 DEF SystemTypeOK, HookInv
<1> QED
  BY <1>1, <1>2, <1>3, <1>4 DEF SystemNext

\* In every interleaving of dispatches and sysctl writes, of any number of
\* threads and writers: the types hold, a set recursed flag is evidence of
\* nesting, and depth is the number of activations.
THEOREM SystemSafe ==
    SystemSpec => [](SystemTypeOK /\ NoFalsePositive /\ DepthIsActivations)
<1>1. SystemInv => SystemTypeOK /\ NoFalsePositive /\ DepthIsActivations
  BY HookInvImplies DEF SystemInv
<1> QED
  BY <1>1, SystemInductive, PTL DEF SystemSpec

\* Whatever the operators write meanwhile, the last thread to leave the hook
\* leaves depth at zero and no owner, so that no later call is taken for a
\* nested one.
THEOREM SystemRestsClean == SystemSpec => []RestsClean
<1>1. SystemInv => RestsClean
  BY HookRestsClean DEF SystemInv
<1> QED
  BY <1>1, SystemInductive, PTL DEF SystemSpec

\* The second key of main.c:82-88 cannot be got round by racing handlers.
THEOREM InterlockHolds == SystemSpec => []Interlock
<1>1. SystemInv => Interlock
  BY DEF SystemInv, KeyInv, Interlock, Unsafe, Installed
<1> QED
  BY <1>1, SystemInductive, PTL DEF SystemSpec

\* Every state of the hook among the sysctls is of its type.
THEOREM SystemTyped == SystemSpec => []SystemTypeOK
<1>1. SystemInv => SystemTypeOK
  BY DEF SystemInv
<1> QED
  BY <1>1, SystemInductive, PTL DEF SystemSpec
=============================================================================
