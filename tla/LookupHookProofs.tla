-------------------------- MODULE LookupHookProofs --------------------------
(***************************************************************************)
(* Facts about every step of the lookup hook, for any number of threads    *)
(* and any nesting, and the theorems of the armed phase.  HookSystemProofs *)
(* uses the same step lemmas for the hook among the sysctls.               *)
(***************************************************************************)
EXTENDS LookupHistory, FiniteSetTheorems, TLAPS

\* The activations of a thread form a stack: all but the top are in callouts.
StackInv ==
    \A t \in Threads : \A j, k \in 1..MaxNest :
        j < k /\ pc[<<t, k>>] # "idle" => pc[<<t, j>>] = "callout"

\* A thread found in owner has an activation that has not cleared it yet.
OwnerInv ==
    \A t \in Threads : owner = t => \E k \in 1..MaxNest : Owning(<<t, k>>)

\* Only a blow on the re-entry path returns without leaving depth.
BackInv == \A f \in Frames : back[f] = "idle" => pc[f] \in Blowing

\* The first activation of a thread never finds itself in owner.
OutermostInv == \A t \in Threads : ~SawItself(<<t, 1>>)

HookInv == HookTypeOK /\ StackInv /\ OwnerInv /\ BackInv /\ OutermostInv

-----------------------------------------------------------------------------
\* The parts of a hook step that the invariants below are about: it moves the
\* pc of one frame, and a frame with an activation nested in it does not move.
LEMMA BodyMoves ==
    ASSUME NEW t \in Threads, NEW k \in 1..MaxNest, HookTypeOK, Body(t, k)
    PROVE  /\ \E b \in Labels : pc' = [pc EXCEPT ![<<t, k>>] = b]
           /\ pc[<<t, k>>] # "idle"
           /\ pc[<<t, k>>] = "callout" /\ k < MaxNest
                => pc[<<t, k + 1>>] = "idle"
<1> DEFINE f == <<t, k>>
<1>0. f \in Frames
  BY DEF Frames
<1>1. back[f] \in Labels
  BY <1>0 DEF HookTypeOK, Labels
<1>3. CASE LeaveTrace(t, k)
  BY <1>3 DEF LeaveTrace, Goto, Labels
<1>4. CASE CheckOwner(t, k)
  BY <1>4 DEF CheckOwner, Goto, Labels
<1>5. CASE FlagRecursion(t, k)
  BY <1>5 DEF FlagRecursion, Goto, Labels
<1>6. CASE StoreOwner(t, k)
  BY <1>6 DEF StoreOwner, Goto, Labels
<1>7. CASE IncrDepth(t, k)
  BY <1>7 DEF IncrDepth, Goto, Labels
<1>8. CASE ReadMaxdepth(t, k)
  BY <1>8 DEF ReadMaxdepth, Goto, Labels
<1>9. CASE RaiseMaxdepth(t, k)
  BY <1>9 DEF RaiseMaxdepth, Goto, Labels
<1>10. CASE IncrCount(t, k)
  BY <1>10 DEF IncrCount, Goto, Labels
<1>11. CASE CheckTrace(t, k)
  BY <1>11 DEF CheckTrace, Goto, Labels
<1>12. CASE FusePositive(t, k)
  BY <1>12 DEF FusePositive, Goto, Labels
<1>13. CASE FuseReached(t, k)
  BY <1>13 DEF FuseReached, Goto, Labels
<1>14. CASE BlowSlot(t, k)
  BY <1>14 DEF BlowSlot, Goto, Labels
<1>15. CASE BlowLoad(t, k)
  BY <1>15 DEF BlowLoad, Goto, Labels
<1>16. CASE BlowStore(t, k)
  BY <1>1, <1>16 DEF BlowStore, Goto
<1>17. CASE DecrDepth(t, k)
  BY <1>17 DEF DecrDepth, Goto, Labels
<1>18. CASE Disown(t, k)
  BY <1>18 DEF Disown, Goto, Labels
<1> QED
  BY <1>3, <1>4, <1>5, <1>6, <1>7, <1>8, <1>9, <1>10, <1>11, <1>12, <1>13,
     <1>14, <1>15, <1>16, <1>17, <1>18 DEF Body

\* Every step of the hook keeps the activations of a thread a stack.
LEMMA StackStep == HookTypeOK /\ StackInv /\ HookNext => StackInv'
<1> SUFFICES ASSUME HookTypeOK, StackInv,
                    NEW t \in Threads, NEW k \in 1..MaxNest,
                    Dispatch(t, k) \/ Body(t, k),
                    NEW u \in Threads, NEW i \in 1..MaxNest,
                    NEW j \in 1..MaxNest, i < j,
                    pc'[<<u, j>>] # "idle"
             PROVE  pc'[<<u, i>>] = "callout"
  BY DEF HookNext, StackInv
<1> USE MaxNestAssumption
<1>0. <<t, k>> \in Frames /\ <<u, i>> \in Frames /\ <<u, j>> \in Frames
  BY DEF Frames
<1>1. pc \in [Frames -> Labels]
  BY DEF HookTypeOK
<1>2. CASE Dispatch(t, k)
  <2>1. pc' = [pc EXCEPT ![<<t, k>>] = "entry"] /\ CanEnter(t, k)
    BY <1>2 DEF Dispatch
  <2>2. CASE u = t /\ j = k
    <3>1. k > 1 /\ k - 1 \in 1..MaxNest /\ pc[<<t, k - 1>>] = "callout"
      BY <2>1, <2>2 DEF CanEnter
    <3>2. pc[<<t, i>>] = "callout"
      BY <3>1, <2>2 DEF StackInv
    <3> QED
      BY <1>0, <1>1, <2>1, <2>2, <3>2
  <2>3. CASE ~(u = t /\ j = k)
    <3>1. pc[<<u, j>>] # "idle"
      BY <1>0, <1>1, <2>1, <2>3
    <3>2. pc[<<u, i>>] = "callout"
      BY <3>1 DEF StackInv
    <3> QED
      BY <1>0, <1>1, <2>1, <3>2 DEF CanEnter
  <2> QED
    BY <2>2, <2>3
<1>3. CASE Body(t, k)
  <2>1. PICK b \in Labels : pc' = [pc EXCEPT ![<<t, k>>] = b]
    BY <1>3, BodyMoves
  <2>2. /\ pc[<<t, k>>] # "idle"
        /\ pc[<<t, k>>] = "callout" /\ k < MaxNest => pc[<<t, k + 1>>] = "idle"
    BY <1>3, BodyMoves
  <2>3. pc[<<u, j>>] # "idle"
    BY <1>0, <1>1, <2>1, <2>2
  <2>4. pc[<<u, i>>] = "callout"
    BY <2>3 DEF StackInv
  <2>5. ~(u = t /\ i = k)
    <3> SUFFICES ASSUME u = t, i = k PROVE FALSE
      OBVIOUS
    <3>1. k < MaxNest /\ k + 1 \in 1..MaxNest /\ pc[<<t, k + 1>>] = "idle"
      BY <2>2, <2>4
    <3>2. CASE j = k + 1
      BY <3>1, <3>2, <2>3
    <3>3. CASE j > k + 1
      BY <3>1, <3>3, <2>3 DEF StackInv
    <3> QED
      BY <3>2, <3>3
  <2> QED
    BY <1>0, <1>1, <2>1, <2>4, <2>5
<1> QED
  BY <1>2, <1>3

\* Every step keeps the types: the only numbers that grow are counters, and
\* what a frame stores in the mask it has loaded from it.
LEMMA TypeStep == HookTypeOK /\ HookNext => HookTypeOK'
<1> SUFFICES ASSUME HookTypeOK, NEW t \in Threads, NEW k \in 1..MaxNest,
                    Dispatch(t, k) \/ Body(t, k)
             PROVE  HookTypeOK'
  BY DEF HookNext
<1> DEFINE f == <<t, k>>
<1>0. f \in Frames
  BY DEF Frames
<1> HIDE DEF f
<1> USE <1>0 DEF HookTypeOK, StateTypeOK, Labels, stateVars, Goto
<1>c. count \in Nat /\ Incremented(count) \in 0..(UIntMod - 1)
  BY UIntModAssumption DEF Incremented
<1>1. CASE Dispatch(t, k)
  BY <1>1 DEF Dispatch, f
<1>2. CASE CheckOwner(t, k)
  BY <1>2 DEF CheckOwner, f
<1>3. CASE FlagRecursion(t, k)
  BY <1>3 DEF FlagRecursion, f
<1>4. CASE StoreOwner(t, k)
  BY <1>4 DEF StoreOwner, f
<1>5. CASE IncrDepth(t, k)
  BY <1>5 DEF IncrDepth, f
<1>6. CASE ReadMaxdepth(t, k)
  BY <1>6 DEF ReadMaxdepth, f
<1>7. CASE RaiseMaxdepth(t, k)
  BY <1>7 DEF RaiseMaxdepth, f
<1>8. CASE IncrCount(t, k)
  BY <1>8, <1>c DEF IncrCount, f
<1>9. CASE CheckTrace(t, k)
  BY <1>9 DEF CheckTrace, f
<1>10. CASE LeaveTrace(t, k)
  BY <1>10 DEF LeaveTrace, f
<1>11. CASE FusePositive(t, k)
  BY <1>11 DEF FusePositive, f
<1>12. CASE FuseReached(t, k)
  BY <1>12 DEF FuseReached, f
<1>13. CASE BlowSlot(t, k)
  BY <1>13 DEF BlowSlot, f
<1>14. CASE BlowLoad(t, k)
  BY <1>14 DEF BlowLoad, f
<1>15. CASE BlowStore(t, k)
  BY <1>15 DEF BlowStore, f
<1>16. CASE DecrDepth(t, k)
  BY <1>16 DEF DecrDepth, f
<1>17. CASE Disown(t, k)
  BY <1>17 DEF Disown, f
<1> QED
  BY <1>1, <1>2, <1>3, <1>4, <1>5, <1>6, <1>7, <1>8, <1>9,
     <1>10, <1>11, <1>12, <1>13, <1>14, <1>15, <1>16, <1>17 DEF Body

\* The other frames own owner exactly as before a step of frame <<t, k>>; so
\* when that step neither writes owner nor lets its frame stop owning it, the
\* owner is still an owning thread.
LEMMA OwnerKept ==
    ASSUME NEW t \in Threads, NEW k \in 1..MaxNest, HookTypeOK, OwnerInv,
           NEW b \in Labels, pc' = [pc EXCEPT ![<<t, k>>] = b],
           NEW c \in {"decr", "idle"}, back' = [back EXCEPT ![<<t, k>>] = c],
           owner' = owner, Owning(<<t, k>>) => Owning(<<t, k>>)'
    PROVE  OwnerInv'
<1> SUFFICES ASSUME NEW u \in Threads, owner' = u
             PROVE  \E j \in 1..MaxNest : Owning(<<u, j>>)'
  BY DEF OwnerInv
<1>1. PICK j \in 1..MaxNest : Owning(<<u, j>>)
  BY DEF OwnerInv
<1>2. <<t, k>> \in Frames /\ <<u, j>> \in Frames
  BY DEF Frames
<1>3. CASE u = t /\ j = k
  BY <1>1, <1>3
<1>4. CASE ~(u = t /\ j = k)
  <2>1. <<u, j>> # <<t, k>>
    BY <1>4
  <2>2. pc'[<<u, j>>] = pc[<<u, j>>] /\ back'[<<u, j>>] = back[<<u, j>>]
    BY <1>2, <2>1 DEF HookTypeOK
  <2>3. Owning(<<u, j>>)'
    BY <1>1, <2>2 DEF Owning, InsideHook
  <2> QED
    BY <2>3
<1> QED
  BY <1>3, <1>4

\* Nor does a step of frame <<t, k>> make another thread see itself.
LEMMA OutermostKept ==
    ASSUME NEW t \in Threads, NEW k \in 1..MaxNest, HookTypeOK, OutermostInv,
           NEW b \in Labels, pc' = [pc EXCEPT ![<<t, k>>] = b],
           NEW c \in {"decr", "idle"}, back' = [back EXCEPT ![<<t, k>>] = c],
           k = 1 => ~SawItself(<<t, k>>)'
    PROVE  OutermostInv'
<1> SUFFICES ASSUME NEW u \in Threads
             PROVE  ~SawItself(<<u, 1>>)'
  BY DEF OutermostInv
<1>1. <<t, k>> \in Frames /\ <<u, 1>> \in Frames
  BY MaxNestAssumption DEF Frames
<1>2. CASE u = t /\ k = 1
  BY <1>2
<1>3. CASE ~(u = t /\ k = 1)
  <2>1. <<u, 1>> # <<t, k>>
    BY <1>3
  <2>2. pc'[<<u, 1>>] = pc[<<u, 1>>] /\ back'[<<u, 1>>] = back[<<u, 1>>]
    BY <1>1, <2>1 DEF HookTypeOK
  <2> QED
    BY <2>2 DEF OutermostInv, SawItself
<1> QED
  BY <1>2, <1>3

\* What each action does to the places the invariants speak of: a step of
\* frame f either keeps it owning, enters by storing owner, or clears owner.
LEMMA OwnerStep ==
    HookTypeOK /\ StackInv /\ OwnerInv /\ BackInv /\ OutermostInv /\ HookNext
        => OwnerInv' /\ BackInv' /\ OutermostInv'
<1> SUFFICES ASSUME HookTypeOK, StackInv, OwnerInv, BackInv, OutermostInv,
                    NEW t \in Threads, NEW k \in 1..MaxNest,
                    Dispatch(t, k) \/ Body(t, k)
             PROVE  OwnerInv' /\ BackInv' /\ OutermostInv'
  BY DEF HookNext
<1> USE MaxNestAssumption, ThreadsAssumption
<1> USE DEF Goto, Owning, InsideHook, SawItself, Counted, Blowing, Frames
<1> DEFINE Kept == owner' = owner /\ back' = back
<1>f. <<t, k>> \in Frames
  OBVIOUS
<1>a. /\ pc \in [Frames -> Labels] /\ back \in [Frames -> {"decr", "idle"}]
      /\ owner \in Threads \cup {NoThread}
  BY DEF HookTypeOK
<1>b. ASSUME NEW b \in Labels, pc' = [pc EXCEPT ![<<t, k>>] = b], Kept,
             Owning(<<t, k>>) => Owning(<<t, k>>)',
             pc[<<t, k>>] \in Blowing => b \in Blowing,
             SawItself(<<t, k>>)' => SawItself(<<t, k>>)
      PROVE  OwnerInv' /\ BackInv' /\ OutermostInv'
  <2>1. back' = [back EXCEPT ![<<t, k>>] = back[<<t, k>>]]
    BY <1>a, <1>b, <1>f
  <2>2. OwnerInv'
    BY <1>a, <1>b, <1>f, <2>1, OwnerKept
  <2>3. BackInv'
    BY <1>a, <1>b DEF BackInv
  <2>4. OutermostInv'
    <3>1. k = 1 => ~SawItself(<<t, k>>)'
      BY <1>b DEF OutermostInv
    <3> QED
      BY <1>a, <1>b, <1>f, <2>1, <3>1, OutermostKept
  <2> QED
    BY <2>2, <2>3, <2>4
<1>1. CASE Dispatch(t, k)
  BY <1>1, <1>a, <1>b DEF Dispatch, CanEnter, Labels
<1>2. CASE CheckOwner(t, k)
  <2>1. CASE owner = t
    <3>1. k # 1
      <4>1. PICK j \in 1..MaxNest : Owning(<<t, j>>)
        BY <2>1 DEF OwnerInv
      <4>2. pc[<<t, k>>] = "entry" /\ pc[<<t, j>>] # "idle" /\ j # k
        BY <1>2, <4>1 DEF CheckOwner
      <4> QED
        BY <4>2 DEF StackInv
    <3>2. Kept /\ pc' = [pc EXCEPT ![<<t, k>>] = "flag"] /\ pc[<<t, k>>] = "entry"
      BY <1>2, <2>1 DEF CheckOwner
    <3>3. OwnerInv'
      <4>1. back' = [back EXCEPT ![<<t, k>>] = back[<<t, k>>]]
        BY <1>a, <1>f, <3>2
      <4> QED
        BY <1>a, <1>f, <3>2, <4>1, OwnerKept DEF Labels
    <3>4. BackInv'
      BY <1>a, <3>2 DEF BackInv
    <3>5. OutermostInv'
      <4>1. back' = [back EXCEPT ![<<t, k>>] = back[<<t, k>>]]
        BY <1>a, <1>f, <3>2
      <4> QED
        BY <1>a, <1>f, <3>1, <3>2, <4>1, OutermostKept DEF Labels
    <3> QED
      BY <3>3, <3>4, <3>5
  <2>2. CASE owner # t
    BY <1>2, <2>2, <1>a, <1>b DEF CheckOwner, Labels
  <2> QED
    BY <2>1, <2>2
<1>3. CASE FlagRecursion(t, k)
  <2>1. OwnerInv'
    BY <1>3, <1>a, <1>f, OwnerKept DEF FlagRecursion, Labels
  <2>2. BackInv'
    BY <1>3, <1>a DEF BackInv, FlagRecursion
  <2>3. OutermostInv'
    <3>1. k # 1
      BY <1>3 DEF OutermostInv, FlagRecursion
    <3> QED
      BY <1>3, <1>a, <1>f, <3>1, OutermostKept DEF FlagRecursion, Labels
  <2> QED
    BY <2>1, <2>2, <2>3
<1>4. CASE StoreOwner(t, k)
  <2>1. OwnerInv'
    <3>1. owner' = t /\ Owning(<<t, k>>)'
      BY <1>4, <1>a, <1>f DEF StoreOwner
    <3> QED
      BY <3>1 DEF OwnerInv
  <2>2. BackInv'
    BY <1>4, <1>a DEF BackInv, StoreOwner
  <2>3. OutermostInv'
    <3>1. back' = [back EXCEPT ![<<t, k>>] = back[<<t, k>>]]
      BY <1>4, <1>a, <1>f DEF StoreOwner
    <3>2. ~SawItself(<<t, k>>)'
      BY <1>4, <1>a, <1>f DEF StoreOwner
    <3> QED
      BY <1>4, <1>a, <1>f, <3>1, <3>2, OutermostKept DEF StoreOwner, Labels
  <2> QED
    BY <2>1, <2>2, <2>3
<1>5. CASE IncrDepth(t, k)
  BY <1>5, <1>a, <1>b DEF IncrDepth, Labels
<1>6. CASE ReadMaxdepth(t, k)
  BY <1>6, <1>a, <1>b DEF ReadMaxdepth, Labels
<1>7. CASE RaiseMaxdepth(t, k)
  BY <1>7, <1>a, <1>b DEF RaiseMaxdepth, Labels
<1>8. CASE IncrCount(t, k)
  BY <1>8, <1>a, <1>b DEF IncrCount, Labels
<1>9. CASE CheckTrace(t, k)
  BY <1>9, <1>a, <1>b DEF CheckTrace, Labels
<1>10. CASE LeaveTrace(t, k)
  BY <1>10, <1>a, <1>b DEF LeaveTrace, Labels
<1>11. CASE FusePositive(t, k)
  BY <1>11, <1>a, <1>b DEF FusePositive, Labels
<1>12. CASE FuseReached(t, k)
  <2>1. back[<<t, k>>] = "decr"
    BY <1>12, <1>a DEF FuseReached, BackInv
  <2> QED
    BY <1>12, <1>a, <1>b, <2>1 DEF FuseReached, Labels
<1>13. CASE BlowSlot(t, k)
  BY <1>13, <1>a, <1>b DEF BlowSlot, Labels
<1>14. CASE BlowLoad(t, k)
  BY <1>14, <1>a, <1>b DEF BlowLoad, Labels
<1>15. CASE BlowStore(t, k)
  <2>1. OwnerInv'
    <3>1. back[<<t, k>>] \in Labels
      BY <1>a, <1>f DEF Labels
    <3>2. Owning(<<t, k>>) => Owning(<<t, k>>)'
      BY <1>15, <1>a, <1>f DEF BlowStore
    <3> QED
      BY <1>15, <1>a, <1>f, <3>1, <3>2, OwnerKept DEF BlowStore
  <2>2. BackInv'
    BY <1>15, <1>a DEF BackInv, BlowStore
  <2>3. OutermostInv'
    <3>1. back[<<t, k>>] \in Labels
      BY <1>a, <1>f DEF Labels
    <3>2. ~SawItself(<<t, k>>)'
      BY <1>15, <1>a, <1>f DEF BlowStore
    <3> QED
      BY <1>15, <1>a, <1>f, <3>1, <3>2, OutermostKept DEF BlowStore
  <2> QED
    BY <2>1, <2>2, <2>3
<1>16. CASE DecrDepth(t, k)
  BY <1>16, <1>a, <1>b DEF DecrDepth, Labels
<1>17. CASE Disown(t, k)
  <2>1. OwnerInv'
    BY <1>17, <1>a DEF OwnerInv, Disown
  <2>2. BackInv'
    BY <1>17, <1>a DEF BackInv, Disown
  <2>3. OutermostInv'
    <3>1. back' = [back EXCEPT ![<<t, k>>] = back[<<t, k>>]]
      BY <1>17, <1>a, <1>f DEF Disown
    <3>2. ~SawItself(<<t, k>>)'
      BY <1>17, <1>a, <1>f DEF Disown
    <3> QED
      BY <1>17, <1>a, <1>f, <3>1, <3>2, OutermostKept DEF Disown, Labels
  <2> QED
    BY <2>1, <2>2, <2>3
<1> QED
  BY <1>1, <1>2, <1>3, <1>4, <1>5, <1>6, <1>7, <1>8, <1>9, <1>10, <1>11,
     <1>12, <1>13, <1>14, <1>15, <1>16, <1>17 DEF Body

\* The stack, the owner and the types together are inductive.
LEMMA HookInvStep == HookInv /\ HookNext => HookInv'
  BY TypeStep, StackStep, OwnerStep DEF HookInv

\* The invariant gives the claim of vnode.c:194-199.
LEMMA HookInvImplies == HookInv => NoFalsePositive
<1> SUFFICES ASSUME HookInv, NEW t \in Threads, NEW k \in 1..MaxNest,
                    SawItself(<<t, k>>)
             PROVE  \E j \in 1..(k - 1) : pc[<<t, j>>] = "callout"
  BY DEF NoFalsePositive
<1> USE MaxNestAssumption
<1>1. k # 1
  BY DEF HookInv, OutermostInv
<1>2. pc[<<t, k>>] # "idle"
  BY DEF SawItself, Blowing
<1>3. 1 \in 1..(k - 1) /\ pc[<<t, 1>>] = "callout"
  BY <1>1, <1>2 DEF HookInv, StackInv
<1> QED
  BY <1>3

-----------------------------------------------------------------------------
\* A step leaves the program counters of all frames but its own alone.
LEMMA OthersStay ==
    ASSUME HookTypeOK, NEW t \in Threads, NEW k \in 1..MaxNest,
           Dispatch(t, k) \/ Body(t, k),
           NEW g \in Frames, g # <<t, k>>
    PROVE  pc'[g] = pc[g] /\ back'[g] = back[g] /\ n'[g] = n[g]
<1>1. <<t, k>> \in Frames
  BY DEF Frames
<1> USE <1>1 DEF HookTypeOK, Goto
<1>2. CASE Dispatch(t, k)
  BY <1>2 DEF Dispatch
<1>3. CASE Body(t, k)
  BY <1>3 DEF Body, CheckOwner, FlagRecursion, StoreOwner, IncrDepth,
     ReadMaxdepth, RaiseMaxdepth, IncrCount, CheckTrace, LeaveTrace,
     FusePositive, FuseReached, BlowSlot, BlowLoad, BlowStore, DecrDepth,
     Disown
<1> QED
  BY <1>2, <1>3

\* There are finitely many frames, so the cardinalities below are numbers.
LEMMA FramesFinite == IsFiniteSet(Frames) /\ Cardinality(Frames) \in Nat
<1>1. IsFiniteSet(1..MaxNest)
  BY FS_Interval, MaxNestAssumption
<1>2. IsFiniteSet(Frames)
  BY <1>1, FS_Product, ThreadsAssumption DEF Frames
<1> QED
  BY <1>2, FS_CardinalityType

Inside == {f \in Frames : InsideHook(f)}

\* depth and the set of activations it counts change together.
LEMMA DepthStep ==
    HookTypeOK /\ BackInv /\ DepthIsActivations /\ HookNext
        => DepthIsActivations'
<1> SUFFICES ASSUME HookTypeOK, BackInv, DepthIsActivations,
                    NEW t \in Threads, NEW k \in 1..MaxNest,
                    Dispatch(t, k) \/ Body(t, k)
             PROVE  DepthIsActivations'
  BY DEF HookNext
<1> DEFINE f == <<t, k>>
<1>f. f \in Frames
  BY DEF Frames
<1>t. pc \in [Frames -> Labels] /\ back \in [Frames -> {"decr", "idle"}]
  BY DEF HookTypeOK
<1>o. ASSUME NEW g \in Frames, g # f
      PROVE  InsideHook(g)' <=> InsideHook(g)
  BY <1>o, OthersStay DEF InsideHook
<1>i. IsFiniteSet(Inside) /\ depth = Cardinality(Inside)
  BY FramesFinite, FS_Subset DEF Inside, DepthIsActivations
<1>r. DepthIsActivations' <=> depth' = Cardinality(Inside')
  BY DEF DepthIsActivations, Inside
<1>u. ASSUME depth' = depth, InsideHook(f)' <=> InsideHook(f)
      PROVE  DepthIsActivations'
  <2>1. Inside' = Inside
    BY <1>o, <1>u DEF Inside
  <2> QED
    BY <2>1, <1>i, <1>r, <1>u
<1> HIDE DEF f
<1> USE <1>f, <1>t DEF Goto, InsideHook, Counted, Blowing
<1>1. CASE Dispatch(t, k)
  BY <1>1, <1>u DEF Dispatch, CanEnter, f
<1>2. CASE CheckOwner(t, k)
  BY <1>2, <1>u DEF CheckOwner, f
<1>3. CASE FlagRecursion(t, k)
  BY <1>3, <1>u DEF FlagRecursion, f
<1>4. CASE StoreOwner(t, k)
  BY <1>4, <1>u DEF StoreOwner, f
<1>5. CASE IncrDepth(t, k)
  <2>1. ~InsideHook(f) /\ InsideHook(f)' /\ depth' = depth + 1
    BY <1>5 DEF IncrDepth, f
  <2>2. Inside' = Inside \cup {f} /\ f \notin Inside
    BY <1>o, <2>1 DEF Inside
  <2>3. Cardinality(Inside') = Cardinality(Inside) + 1
    BY <1>i, <2>2, FS_AddElement
  <2> QED
    BY <1>i, <1>r, <2>1, <2>3
<1>6. CASE ReadMaxdepth(t, k)
  BY <1>6, <1>u DEF ReadMaxdepth, f
<1>7. CASE RaiseMaxdepth(t, k)
  BY <1>7, <1>u DEF RaiseMaxdepth, f
<1>8. CASE IncrCount(t, k)
  BY <1>8, <1>u DEF IncrCount, f
<1>9. CASE CheckTrace(t, k)
  BY <1>9, <1>u DEF CheckTrace, f
<1>10. CASE LeaveTrace(t, k)
  BY <1>10, <1>u DEF LeaveTrace, f
<1>11. CASE FusePositive(t, k)
  BY <1>11, <1>u DEF FusePositive, f
<1>12. CASE FuseReached(t, k)
  BY <1>12, <1>u DEF FuseReached, BackInv, f
<1>13. CASE BlowSlot(t, k)
  BY <1>13, <1>u DEF BlowSlot, f
<1>14. CASE BlowLoad(t, k)
  BY <1>14, <1>u DEF BlowLoad, f
<1>15. CASE BlowStore(t, k)
  BY <1>15, <1>u DEF BlowStore, f
<1>16. CASE DecrDepth(t, k)
  <2>1. InsideHook(f) /\ ~InsideHook(f)' /\ depth' = depth - 1
    BY <1>16 DEF DecrDepth, f
  <2>2. Inside' = Inside \ {f} /\ f \in Inside
    BY <1>o, <2>1 DEF Inside
  <2>3. Cardinality(Inside') = Cardinality(Inside) - 1
    BY <1>i, <2>2, FS_RemoveElement
  <2> QED
    BY <1>i, <1>r, <2>1, <2>3
<1>17. CASE Disown(t, k)
  BY <1>17, <1>u DEF Disown, f
<1> QED
  BY <1>1, <1>2, <1>3, <1>4, <1>5, <1>6, <1>7, <1>8, <1>9, <1>10, <1>11,
     <1>12, <1>13, <1>14, <1>15, <1>16, <1>17 DEF Body

-----------------------------------------------------------------------------
\* The activations that may still count themselves.
Pending == {f \in Frames :
            pc[f] \in {"entry", "own", "incr", "peak", "raise", "count"}}

\* While the slot is armed, every dispatch from the fuse-th on is still in the
\* hook, on its way to clearing the slot.  Once it is cleared, nothing joins
\* the activations that may still count.  So the count does not wrap.
FuseInv ==
    /\ fuse \in Nat \ {0}
    /\ fuse - 1 + Cardinality(Frames) < UIntMod
    /\ slot[Lookup] => count <= fuse - 1 + Cardinality(Late)
    /\ ~slot[Lookup] =>
            count + Cardinality(Pending) <= fuse - 1 + Cardinality(Frames)

\* The frames that are late and those that are pending are finitely many.
LEMMA LateAndPending ==
    /\ IsFiniteSet(Late) /\ IsFiniteSet(Pending)
    /\ Cardinality(Late) \in Nat /\ Cardinality(Pending) \in Nat
    /\ Cardinality(Late) + Cardinality(Pending) <= Cardinality(Frames)
<1>1. Late \subseteq Frames /\ Pending \subseteq Frames /\ Late \cap Pending = {}
  BY DEF Late, Pending
<1>2. IsFiniteSet(Late) /\ IsFiniteSet(Pending)
  BY <1>1, FramesFinite, FS_Subset
<1>3. IsFiniteSet(Late \cup Pending)
      /\ Cardinality(Late \cup Pending)
            = Cardinality(Late) + Cardinality(Pending) - Cardinality(Late \cap Pending)
  BY <1>2, FS_Union
<1>4. Cardinality(Late \cap Pending) = 0
  BY <1>1, FS_EmptySet
<1>5. Cardinality(Late \cup Pending) <= Cardinality(Frames)
  BY <1>1, FramesFinite, FS_Subset
<1>6. Cardinality(Late) \in Nat /\ Cardinality(Pending) \in Nat
  BY <1>2, FS_CardinalityType
<1> QED
  BY <1>2, <1>3, <1>4, <1>5, <1>6

\* A frame that counts itself in the armed phase does not make the count wrap.
LEMMA CountDoesNotWrap ==
    ASSUME NEW t \in Threads, NEW k \in 1..MaxNest, HookTypeOK, FuseInv,
           IncrCount(t, k)
    PROVE  count + 1 < UIntMod /\ Incremented(count) = count + 1
<1>1. <<t, k>> \in Pending
  BY DEF Pending, IncrCount, Goto, Frames
<1>2. Cardinality(Pending) - 1 \in Nat
  <2>1. Cardinality(Pending \ {<<t, k>>}) = Cardinality(Pending) - 1
    BY <1>1, LateAndPending, FS_RemoveElement
  <2>2. IsFiniteSet(Pending \ {<<t, k>>})
    BY LateAndPending, FS_Subset
  <2> QED
    BY <2>1, <2>2, FS_CardinalityType
<1>3. count \in Nat /\ fuse \in Nat
  BY UIntModAssumption DEF HookTypeOK, StateTypeOK, FuseInv
<1>4. count + 1 < UIntMod
  BY <1>2, <1>3, LateAndPending, FramesFinite, UIntModAssumption DEF FuseInv
<1> QED
  BY <1>3, <1>4, UIntModAssumption DEF Incremented

\* Every step of the hook keeps the bound on the count: a frame that counts
\* itself leaves the set of those that still may.
LEMMA FuseStep == HookTypeOK /\ FuseInv /\ HookNext => FuseInv'
<1> SUFFICES ASSUME HookTypeOK, FuseInv,
                    NEW t \in Threads, NEW k \in 1..MaxNest,
                    Dispatch(t, k) \/ Body(t, k)
             PROVE  FuseInv'
  BY DEF HookNext
<1> DEFINE f == <<t, k>>
<1>f. f \in Frames
  BY DEF Frames
<1>t. /\ pc \in [Frames -> Labels] /\ n \in [Frames -> Nat] /\ count \in Nat
      /\ slot \in [Hooks -> BOOLEAN] /\ Lookup \in Hooks
      /\ fuse \in Nat \ {0}
  BY SlotOrderAssumption, UIntModAssumption
  DEF HookTypeOK, StateTypeOK, FuseInv
<1>o. ASSUME NEW g \in Frames, g # f
      PROVE  pc'[g] = pc[g] /\ n'[g] = n[g]
  BY <1>o, OthersStay
<1>c. /\ IsFiniteSet(Late) /\ IsFiniteSet(Pending)
      /\ Cardinality(Late) \in Nat /\ Cardinality(Pending) \in Nat
      /\ Cardinality(Late) + Cardinality(Pending) <= Cardinality(Frames)
      /\ Cardinality(Frames) \in Nat
  BY LateAndPending, FramesFinite
\* The step neither lets a late activation go nor adds a pending one.
<1>k. ASSUME fuse' = fuse, count' = count, slot' = slot,
             f \in Late => f \in Late', f \in Pending' => f \in Pending
      PROVE  FuseInv'
  <2>1. Late \subseteq Late' /\ Pending' \subseteq Pending
    BY <1>f, <1>o, <1>k DEF Late, Pending
  <2>2. IsFiniteSet(Late')
    BY FramesFinite, FS_Subset, <1>f DEF Late
  <2>3. /\ Cardinality(Late) <= Cardinality(Late') /\ Cardinality(Late') \in Nat
        /\ Cardinality(Pending') <= Cardinality(Pending)
        /\ Cardinality(Pending') \in Nat
    BY <1>c, <2>1, <2>2, FS_Subset, FS_CardinalityType
  <2> QED
    BY <1>c, <1>t, <1>k, <2>3 DEF FuseInv
<1> HIDE DEF f
<1> USE <1>f, <1>t DEF Goto
<1>1. CASE Dispatch(t, k)
  <2>1. /\ slot[Lookup] /\ slot' = slot /\ fuse' = fuse /\ count' = count
        /\ pc[f] = "idle"
    BY <1>1 DEF Dispatch, CanEnter, stateVars, f
  <2>2. Late \subseteq Late'
    BY <2>1, <1>o DEF Late
  <2>3. IsFiniteSet(Late')
    BY FramesFinite, FS_Subset DEF Late
  <2>4. Cardinality(Late) <= Cardinality(Late') /\ Cardinality(Late') \in Nat
    BY <2>2, <2>3, <1>c, FS_Subset, FS_CardinalityType
  <2> QED
    BY <2>1, <2>4, <1>c DEF FuseInv
<1>2. CASE CheckOwner(t, k)
  BY <1>2, <1>k DEF CheckOwner, stateVars, Late, Pending, f
<1>3. CASE FlagRecursion(t, k)
  BY <1>3, <1>k DEF FlagRecursion, Late, Pending, f
<1>4. CASE StoreOwner(t, k)
  BY <1>4, <1>k DEF StoreOwner, stateVars, Late, Pending, f
<1>5. CASE IncrDepth(t, k)
  BY <1>5, <1>k DEF IncrDepth, stateVars, Late, Pending, f
<1>6. CASE ReadMaxdepth(t, k)
  BY <1>6, <1>k DEF ReadMaxdepth, stateVars, Late, Pending, f
<1>7. CASE RaiseMaxdepth(t, k)
  BY <1>7, <1>k DEF RaiseMaxdepth, Late, Pending, f
<1>8. CASE IncrCount(t, k)
  <2>1. /\ pc[f] = "count" /\ pc'[f] = "trace" /\ n'[f] = count + 1
        /\ count' = count + 1 /\ slot' = slot /\ fuse' = fuse
    BY <1>8, CountDoesNotWrap DEF IncrCount, f
  <2>2. f \in Pending /\ f \notin Late /\ Pending' = Pending \ {f}
    BY <2>1, <1>o DEF Pending, Late
  <2>3. Cardinality(Pending') = Cardinality(Pending) - 1
    BY <2>2, <1>c, FS_RemoveElement
  <2>4. CASE slot[Lookup] /\ count + 1 >= fuse
    <3>1. Late' = Late \cup {f}
      BY <2>1, <2>4, <1>o DEF Late
    <3>2. Cardinality(Late') = Cardinality(Late) + 1
      BY <3>1, <2>2, <1>c, FS_AddElement
    <3> QED
      BY <2>1, <2>4, <3>2, <1>c DEF FuseInv
  <2>5. CASE slot[Lookup] /\ ~(count + 1 >= fuse)
    <3>1. IsFiniteSet(Late')
      BY FramesFinite, FS_Subset DEF Late
    <3>2. Cardinality(Late') \in Nat
      BY <3>1, FS_CardinalityType
    <3> QED
      BY <2>1, <2>5, <3>2 DEF FuseInv
  <2>6. CASE ~slot[Lookup]
    BY <2>1, <2>3, <2>6, <1>c DEF FuseInv
  <2> QED
    BY <2>4, <2>5, <2>6
<1>9. CASE CheckTrace(t, k)
  BY <1>9, <1>k DEF CheckTrace, stateVars, Late, Pending, f
<1>10. CASE LeaveTrace(t, k)
  BY <1>10, <1>k DEF LeaveTrace, stateVars, Late, Pending, f
<1>11. CASE FusePositive(t, k)
  BY <1>11, <1>k DEF FusePositive, stateVars, Late, Pending, f
<1>12. CASE FuseReached(t, k)
  BY <1>12, <1>k DEF FuseReached, Unsigned, stateVars, Late, Pending, f
<1>13. CASE BlowSlot(t, k)
  <2>1. /\ pc[f] = "null" /\ pc'[f] = "load" /\ ~slot'[Lookup]
        /\ count' = count /\ fuse' = fuse
    BY <1>13 DEF BlowSlot, f
  <2>2. Pending' = Pending
    BY <2>1, <1>o DEF Pending
  <2> QED
    BY <2>1, <2>2, <1>c DEF FuseInv
<1>14. CASE BlowLoad(t, k)
  BY <1>14, <1>k DEF BlowLoad, stateVars, Late, Pending, f
<1>15. CASE BlowStore(t, k)
  <2>1. back[f] \in {"decr", "idle"}
    BY DEF HookTypeOK
  <2> QED
    BY <1>15, <1>k, <2>1 DEF BlowStore, Late, Pending, f
<1>16. CASE DecrDepth(t, k)
  BY <1>16, <1>k DEF DecrDepth, stateVars, Late, Pending, f
<1>17. CASE Disown(t, k)
  BY <1>17, <1>k DEF Disown, stateVars, Late, Pending, f
<1> QED
  BY <1>1, <1>2, <1>3, <1>4, <1>5, <1>6, <1>7, <1>8, <1>9, <1>10, <1>11,
     <1>12, <1>13, <1>14, <1>15, <1>16, <1>17 DEF Body

-----------------------------------------------------------------------------
\* A frame has a count of its own only once it has counted itself, and it
\* clears the slot only for one of the two reasons there are.
CountInv ==
    \A f \in Frames :
        /\ pc[f] = "idle" \/ f \in Uncounted \/ back[f] = "idle" => n[f] = 0
        /\ pc[f] = "null" => n[f] >= fuse \/ recursed

\* Every step of the hook keeps it.
LEMMA CountStep ==
    HookTypeOK /\ BackInv /\ FuseInv /\ CountInv /\ HookNext => CountInv'
<1> SUFFICES ASSUME HookTypeOK, BackInv, FuseInv, CountInv,
                    NEW t \in Threads, NEW k \in 1..MaxNest,
                    Dispatch(t, k) \/ Body(t, k)
             PROVE  CountInv'
  BY DEF HookNext
<1> DEFINE f == <<t, k>>
<1>f. f \in Frames
  BY DEF Frames
<1>t. /\ pc \in [Frames -> Labels] /\ n \in [Frames -> Nat]
      /\ back \in [Frames -> {"decr", "idle"}]
      /\ fuse \in Nat \ {0}
  BY DEF HookTypeOK, FuseInv
<1>o. ASSUME NEW g \in Frames, g # f
      PROVE  pc'[g] = pc[g] /\ n'[g] = n[g] /\ back'[g] = back[g]
  BY <1>o, OthersStay
<1>1. fuse' = fuse /\ (recursed => recursed')
  BY DEF Dispatch, Body, CheckOwner, FlagRecursion, StoreOwner, IncrDepth,
     ReadMaxdepth, RaiseMaxdepth, IncrCount, CheckTrace, LeaveTrace,
     FusePositive, FuseReached, BlowSlot, BlowLoad, BlowStore, DecrDepth,
     Disown, stateVars
<1>2. /\ pc'[f] = "idle" \/ f \in Uncounted' \/ back'[f] = "idle" => n'[f] = 0
      /\ pc'[f] = "null" => n'[f] >= fuse \/ recursed'
  <2> HIDE DEF f
  <2> USE <1>f, <1>t DEF Goto, CountInv, Uncounted
  <2>1. CASE Dispatch(t, k)
    BY <2>1 DEF Dispatch, CanEnter, f
  <2>2. CASE CheckOwner(t, k) \/ StoreOwner(t, k) \/ IncrDepth(t, k)
             \/ ReadMaxdepth(t, k) \/ RaiseMaxdepth(t, k)
    BY <2>2 DEF CheckOwner, StoreOwner, IncrDepth, ReadMaxdepth, RaiseMaxdepth,
       f
  <2>3. CASE FlagRecursion(t, k)
    BY <2>3 DEF FlagRecursion, f
  <2>4. CASE IncrCount(t, k)
    BY <2>4 DEF IncrCount, BackInv, Blowing, f
  <2>5. CASE CheckTrace(t, k) \/ LeaveTrace(t, k) \/ FusePositive(t, k)
             \/ DecrDepth(t, k) \/ BlowSlot(t, k) \/ BlowLoad(t, k)
    BY <2>5 DEF CheckTrace, LeaveTrace, FusePositive, DecrDepth, BlowSlot,
       BlowLoad, f
  <2>6. CASE FuseReached(t, k)
    BY <2>6 DEF FuseReached, Unsigned, f
  <2>7. CASE BlowStore(t, k)
    BY <2>7 DEF BlowStore, f
  <2>8. CASE Disown(t, k)
    BY <2>8 DEF Disown, f
  <2> QED
    BY <2>1, <2>2, <2>3, <2>4, <2>5, <2>6, <2>7, <2>8 DEF Body, f
<1> QED
  BY <1>o, <1>1, <1>2 DEF CountInv, Uncounted

\* Every step of the hook is a step of the one-shot fuse or leaves it alone.
LEMMA RefineStep ==
    HookTypeOK /\ FuseInv /\ CountInv /\ HookNext
        => [Fuse!FuseNext]_(Fuse!fuseVars)
<1> SUFFICES ASSUME HookTypeOK, FuseInv, CountInv,
                    NEW t \in Threads, NEW k \in 1..MaxNest,
                    Dispatch(t, k) \/ Body(t, k)
             PROVE  [Fuse!FuseNext]_(Fuse!fuseVars)
  BY DEF HookNext
<1> DEFINE f == <<t, k>>
<1>f. f \in Frames
  BY DEF Frames
<1>t. /\ pc \in [Frames -> Labels] /\ n \in [Frames -> Nat]
      /\ back \in [Frames -> {"decr", "idle"}]
      /\ fuse \in Nat \ {0} /\ slot \in [Hooks -> BOOLEAN]
      /\ Lookup \in Hooks
  BY SlotOrderAssumption DEF HookTypeOK, StateTypeOK, FuseInv
<1>c. /\ pc[f] = "idle" \/ f \in Uncounted \/ back[f] = "idle" => n[f] = 0
      /\ pc[f] = "null" => n[f] >= fuse \/ recursed
  BY <1>f DEF CountInv
<1>o. ASSUME NEW g \in Frames, g # f
      PROVE  pc'[g] = pc[g] /\ n'[g] = n[g]
  BY <1>o, OthersStay
<1>e. fuse' = fuse
  BY DEF Dispatch, Body, CheckOwner, FlagRecursion, StoreOwner, IncrDepth,
     ReadMaxdepth, RaiseMaxdepth, IncrCount, CheckTrace, LeaveTrace,
     FusePositive, FuseReached, BlowSlot, BlowLoad, BlowStore, DecrDepth,
     Disown, stateVars
\* What becomes of the two sets is what becomes of frame f in them.
<1>u. /\ Uncounted' = IF f \in Uncounted'
                      THEN Uncounted \cup {f} ELSE Uncounted \ {f}
      /\ Late' = IF f \in Late' THEN Late \cup {f} ELSE Late \ {f}
  <2>1. \A g \in Frames : g # f =>
            /\ g \in Uncounted' <=> g \in Uncounted
            /\ g \in Late' <=> g \in Late
    BY <1>o, <1>e DEF Uncounted, Late
  <2>2. /\ Uncounted' \subseteq Frames /\ Uncounted \subseteq Frames
        /\ Late' \subseteq Frames /\ Late \subseteq Frames
    BY DEF Uncounted, Late
  <2> HIDE DEF f
  <2> QED
    BY <1>f, <2>1, <2>2
<1>s. ASSUME slot' = slot, count' = count, recursed' = recursed,
             f \in Uncounted' <=> f \in Uncounted, f \in Late' <=> f \in Late
      PROVE  UNCHANGED Fuse!fuseVars
  <2>1. Uncounted' = Uncounted /\ Late' = Late
    <3> HIDE DEF f
    <3> QED
      BY <1>s, <1>u
  <2> QED
    BY <1>s, <1>e, <2>1 DEF Fuse!fuseVars
<1> HIDE DEF f
<1> USE <1>f, <1>t, <1>e DEF Goto
<1>1. CASE Dispatch(t, k)
  <2>1. /\ pc[f] = "idle" /\ pc'[f] = "entry" /\ slot[Lookup] /\ n' = n
        /\ slot' = slot /\ count' = count /\ recursed' = recursed
    BY <1>1 DEF Dispatch, CanEnter, stateVars, f
  <2>2. /\ f \notin Uncounted /\ f \notin Late
        /\ f \in Uncounted' /\ f \notin Late'
    BY <2>1, <1>c DEF Uncounted, Late
  <2>3. Fuse!Start(f)
    BY <2>1, <2>2, <1>u DEF Fuse!Start
  <2> QED
    BY <2>3 DEF Fuse!FuseNext
<1>2. CASE CheckOwner(t, k) \/ StoreOwner(t, k) \/ IncrDepth(t, k)
           \/ ReadMaxdepth(t, k)
  <2>1. /\ slot' = slot /\ count' = count /\ recursed' = recursed
        /\ f \in Uncounted' <=> f \in Uncounted
        /\ f \in Late' <=> f \in Late
    BY <1>2 DEF CheckOwner, StoreOwner, IncrDepth, ReadMaxdepth, stateVars,
       Uncounted, Late, f
  <2> QED
    BY <2>1, <1>s
<1>3. CASE FlagRecursion(t, k)
  <2>1. /\ pc[f] = "flag" /\ pc'[f] = "null" /\ n' = n
        /\ slot' = slot /\ count' = count /\ recursed'
    BY <1>3 DEF FlagRecursion, f
  <2>2. /\ f \in Uncounted /\ f \notin Late
        /\ f \notin Uncounted' /\ f \notin Late'
    BY <2>1, <1>c DEF Uncounted, Late
  <2>3. Fuse!Reenter(f)
    BY <1>3, <2>1, <2>2, <1>u DEF FlagRecursion, Fuse!Reenter
  <2> QED
    BY <2>3 DEF Fuse!FuseNext
<1>4. CASE IncrCount(t, k)
  <2>1. /\ pc[f] = "count" /\ pc'[f] = "trace" /\ n'[f] = count + 1
        /\ slot' = slot /\ count' = count + 1 /\ recursed' = recursed
    BY <1>4, CountDoesNotWrap DEF IncrCount, f
  <2>2. /\ f \in Uncounted /\ f \notin Late /\ f \notin Uncounted'
        /\ f \in Late' <=> count + 1 >= fuse
    BY <2>1, <1>c DEF Uncounted, Late
  <2>3. Fuse!Land(f)
    BY <2>1, <2>2, <1>u DEF Fuse!Land
  <2> QED
    BY <2>3 DEF Fuse!FuseNext
<1>5. CASE CheckTrace(t, k) \/ LeaveTrace(t, k) \/ FusePositive(t, k)
           \/ RaiseMaxdepth(t, k)
  <2>1. /\ slot' = slot /\ count' = count /\ recursed' = recursed
        /\ f \in Uncounted' <=> f \in Uncounted
        /\ f \in Late' <=> f \in Late
    BY <1>5 DEF CheckTrace, LeaveTrace, FusePositive, RaiseMaxdepth,
       stateVars, Uncounted, Late, f
  <2> QED
    BY <2>1, <1>s
<1>6. CASE FuseReached(t, k)
  <2>1. /\ slot' = slot /\ count' = count /\ recursed' = recursed
        /\ f \in Uncounted' <=> f \in Uncounted
        /\ f \in Late' <=> f \in Late
    BY <1>6 DEF FuseReached, Unsigned, stateVars, Uncounted, Late, f
  <2> QED
    BY <2>1, <1>s
<1>7. CASE BlowSlot(t, k)
  <2>1. /\ pc[f] = "null" /\ pc'[f] = "load" /\ n' = n
        /\ ~slot'[Lookup] /\ count' = count /\ recursed' = recursed
        /\ slot'[Lookup] = FALSE
    BY <1>7 DEF BlowSlot, f
  <2>2. /\ f \notin Uncounted /\ f \notin Uncounted' /\ f \notin Late'
        /\ f \in Late <=> n[f] >= fuse
    BY <2>1 DEF Uncounted, Late
  <2>3. Uncounted' = Uncounted /\ Late' = Late \ {f}
    BY <2>2, <1>u
  <2>4. CASE f \in Late
    BY <2>1, <2>3, <2>4 DEF Fuse!FuseNext, Fuse!Remove
  <2>5. CASE f \notin Late
    <3>1. recursed /\ Late' = Late
      BY <2>1, <2>2, <2>3, <2>5, <1>c
    <3> QED
      BY <2>1, <2>3, <3>1 DEF Fuse!FuseNext, Fuse!Remove
  <2> QED
    BY <2>4, <2>5
<1>8. CASE BlowLoad(t, k) \/ BlowStore(t, k) \/ DecrDepth(t, k)
           \/ Disown(t, k)
  <2>1. /\ slot' = slot /\ count' = count /\ recursed' = recursed
        /\ f \in Uncounted' <=> f \in Uncounted
        /\ f \in Late' <=> f \in Late
    BY <1>8 DEF BlowLoad, BlowStore, DecrDepth, Disown, stateVars, Uncounted,
       Late, f
  <2> QED
    BY <2>1, <1>s
<1> QED
  BY <1>1, <1>2, <1>3, <1>4, <1>5, <1>6, <1>7, <1>8 DEF Body

-----------------------------------------------------------------------------
\* In the armed phase only the lookup hook and its bit are there, and between
\* the two somebody is about to drop the bit.
MaskInv ==
    /\ \A h \in Hooks : slot[h] => h = Lookup
    /\ mask = {} \/ mask = {Lookup}
    /\ slot[Lookup] =>
            mask = {Lookup} /\ \A f \in Frames : pc[f] \notin {"load", "store"}
    /\ ~slot[Lookup] /\ mask = {Lookup} =>
            \E f \in Frames : pc[f] \in {"load", "store"}
    /\ \A f \in Frames : loaded[f] \subseteq {Lookup}

\* Every step of the hook keeps it.
LEMMA MaskStep == HookTypeOK /\ MaskInv /\ HookNext => MaskInv'
<1> SUFFICES ASSUME HookTypeOK, MaskInv,
                    NEW t \in Threads, NEW k \in 1..MaxNest,
                    Dispatch(t, k) \/ Body(t, k)
             PROVE  MaskInv'
  BY DEF HookNext
<1> DEFINE f == <<t, k>>
<1>f. f \in Frames
  BY DEF Frames
<1>t. /\ pc \in [Frames -> Labels] /\ loaded \in [Frames -> SUBSET Hooks]
      /\ back \in [Frames -> {"decr", "idle"}]
      /\ slot \in [Hooks -> BOOLEAN] /\ Lookup \in Hooks
  BY SlotOrderAssumption DEF HookTypeOK, StateTypeOK
<1>o. ASSUME NEW g \in Frames, g # f
      PROVE  pc'[g] = pc[g]
  BY <1>o, OthersStay
\* A step that is not one of the blow.
<1>k. ASSUME UNCHANGED <<slot, mask, loaded>>,
             pc[f] \notin {"load", "store"}, pc'[f] \notin {"load", "store"}
      PROVE  MaskInv'
  <2>1. \A g \in Frames :
            pc'[g] \in {"load", "store"} <=> pc[g] \in {"load", "store"}
    BY <1>o, <1>k
  <2> HIDE DEF f
  <2> QED
    BY <1>k, <2>1 DEF MaskInv
<1> HIDE DEF f
<1> USE <1>f, <1>t DEF Goto, stateVars
<1>1. CASE Dispatch(t, k)
  BY <1>1, <1>k DEF Dispatch, CanEnter, f
<1>2. CASE CheckOwner(t, k) \/ FlagRecursion(t, k) \/ StoreOwner(t, k)
           \/ IncrDepth(t, k)
  BY <1>2, <1>k DEF CheckOwner, FlagRecursion, StoreOwner, IncrDepth, f
<1>3. CASE ReadMaxdepth(t, k) \/ RaiseMaxdepth(t, k) \/ IncrCount(t, k)
           \/ CheckTrace(t, k) \/ LeaveTrace(t, k)
  BY <1>3, <1>k DEF ReadMaxdepth, RaiseMaxdepth, IncrCount, CheckTrace,
     LeaveTrace, f
<1>4. CASE FusePositive(t, k) \/ FuseReached(t, k) \/ DecrDepth(t, k)
           \/ Disown(t, k)
  BY <1>4, <1>k DEF FusePositive, FuseReached, DecrDepth, Disown, f
<1>5. CASE BlowSlot(t, k)
  <2>1. /\ pc'[f] = "load" /\ mask' = mask /\ loaded' = loaded
        /\ slot' = [slot EXCEPT ![Lookup] = FALSE]
    BY <1>5 DEF BlowSlot, f
  <2>2. ~slot'[Lookup] /\ \A h \in Hooks : slot'[h] => slot[h]
    BY <2>1
  <2> QED
    BY <2>1, <2>2 DEF MaskInv
<1>6. CASE BlowLoad(t, k)
  <2>1. /\ pc[f] = "load" /\ pc'[f] = "store" /\ mask' = mask /\ slot' = slot
        /\ loaded' = [loaded EXCEPT ![f] = mask]
    BY <1>6 DEF BlowLoad, f
  <2>2. mask \subseteq {Lookup} /\ ~slot[Lookup]
    BY <2>1 DEF MaskInv
  <2> QED
    BY <2>1, <2>2 DEF MaskInv
<1>7. CASE BlowStore(t, k)
  <2>1. /\ pc[f] = "store" /\ slot' = slot /\ mask' = loaded[f] \ {Lookup}
        /\ loaded' = [loaded EXCEPT ![f] = {}]
    BY <1>7 DEF BlowStore, f
  <2>2. mask' = {} /\ ~slot[Lookup]
    BY <2>1 DEF MaskInv
  <2> QED
    BY <2>1, <2>2 DEF MaskInv
<1> QED
  BY <1>1, <1>2, <1>3, <1>4, <1>5, <1>6, <1>7 DEF Body

-----------------------------------------------------------------------------
\* Frames begin outside the hook, whoever has armed the slot.
LEMMA HookInitInv ==
    HookInit /\ StateTypeOK => HookInv /\ DepthIsActivations
<1> SUFFICES ASSUME HookInit, StateTypeOK
             PROVE  HookInv /\ DepthIsActivations
  OBVIOUS
<1> USE DEF HookInit
<1>1. HookTypeOK
  BY DEF HookTypeOK, Labels
<1>2. \A f \in Frames : pc[f] = "idle" /\ back[f] = "decr"
  OBVIOUS
<1>3. \A t \in Threads, k \in 1..MaxNest : <<t, k>> \in Frames
  BY DEF Frames
<1>4. StackInv /\ BackInv
  BY <1>2, <1>3 DEF StackInv, BackInv
<1>5. OwnerInv
  BY ThreadsAssumption DEF OwnerInv
<1>6. OutermostInv
  BY <1>2, <1>3, MaxNestAssumption DEF OutermostInv, SawItself, Blowing
<1>7. {f \in Frames : InsideHook(f)} = {}
  BY <1>2 DEF InsideHook, Counted, Blowing
<1>8. DepthIsActivations
  BY <1>7, FS_EmptySet DEF DepthIsActivations
<1> QED
  BY <1>1, <1>4, <1>5, <1>6, <1>8 DEF HookInv

ArmedInv ==
    HookInv /\ DepthIsActivations /\ FuseInv /\ CountInv /\ MaskInv

\* The invariant of the armed phase holds in all its states.
LEMMA ArmedInductive ==
    /\ ArmedInit => ArmedInv
    /\ ArmedInv /\ [HookNext]_vars => ArmedInv'
<1>1. ASSUME ArmedInit PROVE ArmedInv
  <2>0. slot \in [Hooks -> BOOLEAN]
    <3>1. \A h \in Hooks : (h = Lookup) \in BOOLEAN
      OBVIOUS
    <3> QED
      BY <1>1, <3>1, Zenon DEF ArmedInit
  <2>a. unsafe \in BOOLEAN /\ trace \in BOOLEAN /\ recursed \in BOOLEAN
    BY <1>1, Zenon DEF ArmedInit
  <2>b. /\ mask \subseteq Hooks
        /\ fuse \in Int /\ count \in 0..(UIntMod - 1) /\ maxdepth \in Int
    BY <1>1, ArmedFusesAssumption, SlotOrderAssumption, UIntModAssumption
    DEF ArmedInit
  <2>1. StateTypeOK
    BY <2>0, <2>a, <2>b, Zenon DEF StateTypeOK
  <2>2. HookInv /\ DepthIsActivations
    BY <1>1, <2>1, HookInitInv DEF ArmedInit
  <2>3. /\ fuse \in Nat \ {0} /\ count = 0 /\ slot[Lookup]
        /\ fuse - 1 + Cardinality(Frames) < UIntMod
    BY <1>1, ArmedFusesAssumption, SlotOrderAssumption DEF ArmedInit
  <2>4. FuseInv
    BY <2>3, LateAndPending DEF FuseInv
  <2>5. CountInv
    BY <1>1 DEF ArmedInit, HookInit, CountInv
  <2>6. MaskInv
    BY <1>1, SlotOrderAssumption DEF ArmedInit, HookInit, MaskInv
  <2> QED
    BY <2>2, <2>4, <2>5, <2>6 DEF ArmedInv
<1>2. ASSUME ArmedInv, HookNext PROVE ArmedInv'
  BY <1>2, HookInvStep, DepthStep, FuseStep, CountStep, MaskStep
  DEF ArmedInv, HookInv
<1>3. ASSUME ArmedInv, UNCHANGED vars PROVE ArmedInv'
  <2> USE <1>3 DEF ArmedInv, vars, stateVars, hookVars
  <2>1. HookTypeOK'
    BY DEF HookInv, HookTypeOK, StateTypeOK
  <2>2. (StackInv /\ OwnerInv /\ BackInv /\ OutermostInv)'
    BY DEF HookInv, StackInv, OwnerInv, BackInv, OutermostInv, Owning,
           InsideHook, SawItself
  <2>3. DepthIsActivations'
    BY DEF DepthIsActivations, InsideHook
  <2>4. FuseInv'
    BY DEF FuseInv, Late, Pending
  <2>5. CountInv'
    BY DEF CountInv, Uncounted
  <2>6. MaskInv'
    BY DEF MaskInv
  <2> QED
    BY <2>1, <2>2, <2>3, <2>4, <2>5, <2>6 DEF HookInv
<1> QED
  BY <1>1, <1>2, <1>3

\* vnode.c:247-272: what FuseBlows promises of the end, at any time
\* when no thread is in the hook: the depth and the owner are back at rest.
RestsClean ==
    (\A f \in Frames : pc[f] = "idle") => depth = 0 /\ owner = NoThread

\* Each ++depth has met its --depth, and no owner is left behind.
LEMMA HookRestsClean ==
    ASSUME HookInv, DepthIsActivations
    PROVE  RestsClean
<1> SUFFICES ASSUME \A f \in Frames : pc[f] = "idle"
             PROVE  depth = 0 /\ owner = NoThread
  BY DEF RestsClean
<1>1. \A f \in Frames : ~Owning(f)
  BY DEF Owning, InsideHook, Counted, Blowing
<1>2. {f \in Frames : InsideHook(f)} = {}
  BY <1>1 DEF Owning
<1>3. depth = 0
  BY <1>2, FS_EmptySet DEF DepthIsActivations
<1>4. \A t \in Threads : owner # t
  <2> SUFFICES ASSUME NEW t \in Threads, owner = t
               PROVE  FALSE
    OBVIOUS
  <2>1. PICK k \in 1..MaxNest : Owning(<<t, k>>)
    BY DEF HookInv, OwnerInv
  <2>2. <<t, k>> \in Frames
    BY DEF Frames
  <2> QED
    BY <1>1, <2>1, <2>2
<1> QED
  BY <1>3, <1>4 DEF HookInv, HookTypeOK

\* Every state of the armed phase is of its type, depth is the number of
\* activations, and a frame takes the re-entry path only when it is nested.
THEOREM ArmedSafe ==
    ArmedSpec => [](HookTypeOK /\ NoFalsePositive /\ DepthIsActivations)
<1>1. ArmedInv => HookTypeOK /\ NoFalsePositive /\ DepthIsActivations
  BY HookInvImplies DEF ArmedInv, HookInv
<1> QED
  BY <1>1, ArmedInductive, PTL DEF ArmedSpec

\* Every state of the armed phase is of its type.
THEOREM ArmedTyped == ArmedSpec => []HookTypeOK
<1>1. ArmedInv => HookTypeOK
  BY DEF ArmedInv, HookInv
<1> QED
  BY <1>1, ArmedInductive, PTL DEF ArmedSpec

\* For any number of threads that blow the fuse at the same time, the mask
\* reports the slot whenever none of them is between the two.
THEOREM ArmedMaskReports == ArmedSpec => []MaskReportsLookup
<1>1. ArmedInv => MaskReportsLookup
  <2> SUFFICES ASSUME MaskInv, Lookup \in Hooks,
                      \A f \in Frames : pc[f] \notin {"load", "store"}
               PROVE  mask = Installed
    BY SlotOrderAssumption DEF ArmedInv, MaskReportsLookup
  <2> QED
    BY DEF MaskInv, Installed
<1> QED
  BY <1>1, ArmedInductive, PTL DEF ArmedSpec

\* When the slot has been cleared it stays so, and when the last thread has
\* left the hook then nothing of the armed phase is left.
LeavesNothing ==
    /\ RestsClean
    /\ ~slot[Lookup] /\ (\A f \in Frames : pc[f] = "idle")
            => mask = {} /\ Installed = {}

\* vnode.c:143-145, 265-272: the safety half of FuseBlows, for any number of
\* threads and any nesting, whichever of them have blown the fuse.
THEOREM ArmedLeavesNothing ==
    ArmedSpec => [][~slot[Lookup] => ~slot'[Lookup]]_vars /\ []LeavesNothing
<1>1. ArmedInv => LeavesNothing
  <2> SUFFICES ASSUME ArmedInv
               PROVE  LeavesNothing
    OBVIOUS
  <2>1. RestsClean
    BY HookRestsClean DEF ArmedInv
  <2>2. ASSUME ~slot[Lookup], \A f \in Frames : pc[f] = "idle"
        PROVE  mask = {} /\ Installed = {}
    BY <2>2 DEF ArmedInv, MaskInv, Installed
  <2> QED
    BY <2>1, <2>2 DEF LeavesNothing
<1>2. ArmedInv /\ [HookNext]_vars => [~slot[Lookup] => ~slot'[Lookup]]_vars
  <2> SUFFICES ASSUME ArmedInv, ~slot[Lookup],
                      NEW t \in Threads, NEW k \in 1..MaxNest,
                      Dispatch(t, k) \/ Body(t, k)
               PROVE  ~slot'[Lookup]
    BY DEF HookNext
  <2>1. slot \in [Hooks -> BOOLEAN] /\ Lookup \in Hooks
    BY SlotOrderAssumption DEF ArmedInv, HookInv, HookTypeOK, StateTypeOK
  <2> QED
    BY <2>1 DEF Dispatch, Body, CheckOwner, FlagRecursion, StoreOwner,
       IncrDepth, ReadMaxdepth, RaiseMaxdepth, IncrCount, CheckTrace,
       LeaveTrace, FusePositive, FuseReached, BlowSlot, BlowLoad, BlowStore,
       DecrDepth, Disown, stateVars
<1> QED
  BY <1>1, <1>2, ArmedInductive, PTL DEF ArmedSpec

\* For any number of threads, any nesting and any positive fuse, the number of
\* dispatches that land is less than the fuse plus the activations in flight.
THEOREM FuseBounded == ArmedSpec => []FuseOvershoot
<1>1. ArmedInv => FuseOvershoot
  BY LateAndPending, FramesFinite, UIntModAssumption
  DEF ArmedInv, FuseInv, FuseOvershoot, HookInv, HookTypeOK, StateTypeOK
<1> QED
  BY <1>1, ArmedInductive, PTL DEF ArmedSpec

\* For any number of threads, any nesting and any positive fuse, the hook of
\* the armed phase implements the fuse the operator was promised: it is not
\* removed early, and no activation that is to remove it leaves without.
THEOREM ArmedImplementsFuse == ArmedSpec => ImplementsFuse
<1>1. ArmedInit => Fuse!FuseInit
  <2> SUFFICES ASSUME ArmedInit PROVE Fuse!FuseInit
    OBVIOUS
  <2>1. slot[Lookup] = TRUE /\ count = 0 /\ recursed = FALSE
    BY SlotOrderAssumption DEF ArmedInit
  <2>2. fuse \in Nat \ {0}
    BY ArmedFusesAssumption DEF ArmedInit
  <2>3. Uncounted = {} /\ Late = {}
    BY DEF ArmedInit, HookInit, Uncounted, Late
  <2> QED
    BY <2>1, <2>2, <2>3 DEF Fuse!FuseInit
<1>2. ArmedInv /\ [HookNext]_vars => [Fuse!FuseNext]_(Fuse!fuseVars)
  <2>1. ArmedInv /\ HookNext => [Fuse!FuseNext]_(Fuse!fuseVars)
    BY RefineStep DEF ArmedInv, HookInv
  <2>2. UNCHANGED vars => UNCHANGED Fuse!fuseVars
    BY DEF vars, stateVars, hookVars, Fuse!fuseVars, Uncounted, Late
  <2> QED
    BY <2>1, <2>2
<1> QED
  BY <1>1, <1>2, ArmedInductive, PTL DEF ArmedSpec, ImplementsFuse, Fuse!FuseSpec

-----------------------------------------------------------------------------
(* The measurement of lookup_maxdepth, with the history variable peak      *)

\* A frame on its way to storing the peak has seen a depth that was reached,
\* and once there was one, some depth is stored or is on its way.
PeakInv ==
    /\ peak \in Int /\ depth <= peak /\ maxdepth <= peak
    /\ \A f \in Frames :
            pc[f] \in {"peak", "raise"} => 1 <= d[f] /\ d[f] <= peak
    /\ \/ peak <= 0
       \/ maxdepth > 0
       \/ \E f \in Frames : pc[f] \in {"peak", "raise"}

\* A count of frames is a natural number.
LEMMA FramesCount ==
    ASSUME NEW S \in SUBSET Frames
    PROVE  Cardinality(S) \in Nat
  BY FramesFinite, FS_Subset, FS_CardinalityType

\* The steps that are not about the depth.
LEMMA PeakKept ==
    ASSUME ArmedInv, PeakInv,
           depth' <= depth, depth' \in Int, maxdepth' = maxdepth, peak' = peak,
           \A f \in Frames :
                pc'[f] \in {"peak", "raise"} <=> pc[f] \in {"peak", "raise"},
           \A f \in Frames : pc[f] \in {"peak", "raise"} => d'[f] = d[f]
    PROVE  PeakInv'
<1>1. depth \in Int /\ maxdepth \in Int
  BY DEF ArmedInv, HookInv, HookTypeOK, StateTypeOK
<1>2. \A f \in Frames :
        pc'[f] \in {"peak", "raise"} => 1 <= d'[f] /\ d'[f] <= peak'
  BY DEF PeakInv
<1>3. \/ peak' <= 0 \/ maxdepth' > 0
      \/ \E f \in Frames : pc'[f] \in {"peak", "raise"}
  BY DEF PeakInv
<1> QED
  BY <1>1, <1>2, <1>3 DEF PeakInv

LEMMA PeakStep ==
    ArmedInv /\ PeakInv /\ ArmedInv' /\ [HistoryNext]_<<vars, peak>>
        => PeakInv'
<1> SUFFICES ASSUME ArmedInv, PeakInv, ArmedInv',
                    [HistoryNext]_<<vars, peak>>
             PROVE  PeakInv'
  OBVIOUS
<1>t. /\ depth \in Nat /\ depth' \in Nat
      /\ maxdepth \in Int
      /\ pc \in [Frames -> Labels] /\ d \in [Frames -> Int]
      /\ peak \in Int /\ depth <= peak /\ maxdepth <= peak
  <2>1. /\ Cardinality({f \in Frames : InsideHook(f)}) \in Nat
        /\ Cardinality({f \in Frames : InsideHook(f)'}) \in Nat
    BY FramesCount
  <2>2. depth \in Nat /\ depth' \in Nat
    BY <2>1 DEF ArmedInv, DepthIsActivations
  <2> QED
    BY <2>2 DEF ArmedInv, HookInv, HookTypeOK, StateTypeOK, PeakInv
<1>1. CASE UNCHANGED <<vars, peak>>
  BY <1>t, <1>1, PeakKept DEF vars, hookVars, stateVars
<1>2. ASSUME HistoryNext PROVE PeakInv'
  <2>1. peak' = IF depth' > peak THEN depth' ELSE peak
    BY <1>2 DEF HistoryNext
  <2>2. PICK t \in Threads, k \in 1..MaxNest : Dispatch(t, k) \/ Body(t, k)
    BY <1>2 DEF HistoryNext, HookNext
  <2> DEFINE g == <<t, k>>
  <2>3. g \in Frames
    BY DEF Frames
  <2> HIDE DEF g
  <2>4. ASSUME depth' <= depth, maxdepth' = maxdepth,
               \A f \in Frames : pc'[f] \in {"peak", "raise"}
                                    <=> pc[f] \in {"peak", "raise"},
               \A f \in Frames : pc[f] \in {"peak", "raise"} => d'[f] = d[f]
        PROVE  PeakInv'
    <3>1. peak' = peak
      BY <1>t, <2>1, <2>4
    <3> QED
      BY <1>t, <2>4, <3>1, PeakKept
  <2>5. CASE Dispatch(t, k)
    <3>1. /\ pc' = [pc EXCEPT ![g] = "entry"] /\ pc[g] = "idle"
          /\ UNCHANGED <<depth, maxdepth, d>>
      BY <2>5 DEF Dispatch, CanEnter, stateVars, g
    <3> QED
      BY <1>t, <2>3, <2>4, <3>1
  <2>6. CASE \/ CheckOwner(t, k) \/ FlagRecursion(t, k) \/ StoreOwner(t, k)
             \/ IncrCount(t, k) \/ CheckTrace(t, k) \/ LeaveTrace(t, k)
             \/ FusePositive(t, k) \/ FuseReached(t, k)
             \/ BlowSlot(t, k) \/ BlowLoad(t, k)
    <3>1. /\ pc[g] \notin {"peak", "raise"}
          /\ \E b \in Labels \ {"peak", "raise"} : pc' = [pc EXCEPT ![g] = b]
          /\ UNCHANGED <<depth, maxdepth, d>>
      BY <2>6
         DEF CheckOwner, FlagRecursion, StoreOwner, IncrCount, CheckTrace,
             LeaveTrace, FusePositive, FuseReached, BlowSlot, BlowLoad, Goto,
             Labels, stateVars, g
    <3> QED
      BY <1>t, <2>3, <2>4, <3>1
  <2>7. CASE BlowStore(t, k)
    <3>1. /\ pc[g] = "store" /\ pc' = [pc EXCEPT ![g] = back[g]]
          /\ UNCHANGED <<depth, maxdepth, d>>
      BY <2>7 DEF BlowStore, Goto, g
    <3>2. back[g] \in {"decr", "idle"}
      BY <2>3 DEF ArmedInv, HookInv, HookTypeOK
    <3> QED
      BY <1>t, <2>3, <2>4, <3>1, <3>2
  <2>8. CASE DecrDepth(t, k)
    <3>1. /\ pc[g] = "decr" /\ pc' = [pc EXCEPT ![g] = "disown"]
          /\ depth' = depth - 1 /\ UNCHANGED <<maxdepth, d>>
      BY <2>8 DEF DecrDepth, Goto, stateVars, g
    <3> QED
      BY <1>t, <2>3, <2>4, <3>1
  <2>9. CASE Disown(t, k)
    <3>1. /\ pc[g] = "disown" /\ pc' = [pc EXCEPT ![g] = "idle"]
          /\ d' = [d EXCEPT ![g] = 0] /\ UNCHANGED <<depth, maxdepth>>
      BY <2>9 DEF Disown, Goto, stateVars, g
    <3> QED
      BY <1>t, <2>3, <2>4, <3>1
  <2>10. CASE IncrDepth(t, k)
    <3>1. /\ pc' = [pc EXCEPT ![g] = "peak"]
          /\ depth' = depth + 1 /\ d' = [d EXCEPT ![g] = depth + 1]
          /\ maxdepth' = maxdepth
      BY <2>10 DEF IncrDepth, Goto, stateVars, g
    <3>2. peak' \in Int /\ depth' <= peak' /\ peak <= peak'
      BY <1>t, <2>1, <3>1
    <3>3. \A f \in Frames :
            pc'[f] \in {"peak", "raise"} => 1 <= d'[f] /\ d'[f] <= peak'
      <4> SUFFICES ASSUME NEW f \in Frames, pc'[f] \in {"peak", "raise"}
                   PROVE  1 <= d'[f] /\ d'[f] <= peak'
        OBVIOUS
      <4>1. CASE f = g
        BY <1>t, <3>1, <3>2, <4>1
      <4>2. CASE f # g
        BY <1>t, <3>1, <3>2, <4>2 DEF PeakInv
      <4> QED
        BY <4>1, <4>2
    <3>4. \E f \in Frames : pc'[f] \in {"peak", "raise"}
      BY <1>t, <2>3, <3>1
    <3> QED
      BY <1>t, <3>1, <3>2, <3>3, <3>4 DEF PeakInv
  <2>11. CASE ReadMaxdepth(t, k)
    <3>1. /\ pc[g] = "peak"
          /\ pc' = [pc EXCEPT ![g] = IF d[g] > maxdepth THEN "raise"
                                                        ELSE "count"]
          /\ UNCHANGED <<depth, maxdepth, d>>
      BY <2>11 DEF ReadMaxdepth, Goto, stateVars, g
    <3>2. peak' = peak
      BY <1>t, <2>1, <3>1
    <3>3. 1 <= d[g]
      BY <2>3, <3>1 DEF PeakInv
    <3>4. maxdepth' > 0 \/ \E f \in Frames : pc'[f] \in {"peak", "raise"}
      BY <1>t, <2>3, <3>1, <3>3
    <3>5. \A f \in Frames :
            pc'[f] \in {"peak", "raise"} => pc[f] \in {"peak", "raise"}
      BY <1>t, <2>3, <3>1
    <3>6. \A f \in Frames :
            pc'[f] \in {"peak", "raise"} => 1 <= d'[f] /\ d'[f] <= peak'
      BY <3>1, <3>2, <3>5 DEF PeakInv
    <3> QED
      BY <1>t, <3>1, <3>2, <3>4, <3>6 DEF PeakInv
  <2>12. CASE RaiseMaxdepth(t, k)
    <3>1. /\ pc[g] = "raise" /\ pc' = [pc EXCEPT ![g] = "count"]
          /\ maxdepth' = d[g] /\ UNCHANGED <<depth, d>>
      BY <2>12 DEF RaiseMaxdepth, Goto, g
    <3>2. peak' = peak
      BY <1>t, <2>1, <3>1
    <3>3. 1 <= d[g] /\ d[g] <= peak /\ d[g] \in Int
      BY <1>t, <2>3, <3>1 DEF PeakInv
    <3>4. \A f \in Frames :
            pc'[f] \in {"peak", "raise"} => pc[f] \in {"peak", "raise"}
      BY <1>t, <2>3, <3>1
    <3>5. \A f \in Frames :
            pc'[f] \in {"peak", "raise"} => 1 <= d'[f] /\ d'[f] <= peak'
      BY <3>1, <3>2, <3>4 DEF PeakInv
    <3> QED
      BY <1>t, <3>1, <3>2, <3>3, <3>5 DEF PeakInv
  <2> QED
    BY <2>2, <2>5, <2>6, <2>7, <2>8, <2>9, <2>10, <2>11, <2>12 DEF Body
<1> QED
  BY <1>1, <1>2

\* main.c:226, vnode.c:260-263: however the loads and stores of two cores
\* fall, maxdepth is never more than the true peak, and it is set once every
\* activation has passed its store.
THEOREM MaxdepthIsSound == HistorySpec => []MaxdepthSound
<1>1. HistoryInit => ArmedInv /\ PeakInv
  <2> SUFFICES ASSUME HistoryInit
               PROVE  ArmedInv /\ PeakInv
    OBVIOUS
  <2>1. ArmedInv
    BY ArmedInductive DEF HistoryInit
  <2>2. depth = 0 /\ maxdepth = 0 /\ peak = 0 /\ pc = [f \in Frames |-> "idle"]
    BY DEF HistoryInit, ArmedInit, HookInit
  <2> QED
    BY <2>1, <2>2 DEF PeakInv
<1>2. ArmedInv /\ PeakInv /\ [HistoryNext]_<<vars, peak>>
        => ArmedInv' /\ PeakInv'
  <2>1. [HistoryNext]_<<vars, peak>> => [HookNext]_vars
    BY DEF HistoryNext
  <2> QED
    BY <2>1, ArmedInductive, PeakStep
<1>3. ArmedInv /\ PeakInv => MaxdepthSound
  <2> SUFFICES ASSUME ArmedInv, PeakInv
               PROVE  MaxdepthSound
    OBVIOUS
  <2>1. maxdepth \in Int
    BY DEF ArmedInv, HookInv, HookTypeOK, StateTypeOK
  <2> QED
    BY <2>1 DEF PeakInv, MaxdepthSound
<1> QED
  BY <1>1, <1>2, <1>3, PTL DEF HistorySpec
=============================================================================
