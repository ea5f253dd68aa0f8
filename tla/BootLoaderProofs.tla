-------------------------- MODULE BootLoaderProofs --------------------------
(***************************************************************************)
(* sedarwin-load for any number of scripts, attempts and boots: the types, *)
(* when a script gives up, what its confirmation is worth, that a disarmed *)
(* machine hangs once more at most, and that a run only gets shorter.      *)
(***************************************************************************)
EXTENDS BootLoader, PolicyLifecycleProofs

\* The kext is only ever started here, and nobody else is in the kernel.
StartLabels == {"unloaded", "install", "link", "attach", "init", "mark",
                "running", "unlink", "wait", "stopped"}

StartOnly ==
    /\ lpc \in StartLabels
    /\ \A t \in Dispatchers : at[t] = "out"
    /\ \A w \in Writers : wpc[w] = "idle"
    /\ alone = {}

\* A script that may count another attempt has not used them up.
AttemptInv ==
    \A s \in Scripts : pc[s] \in {"load", "asked", "again"} => i[s] < Tries

\* A start that has failed is an excuse until the machine goes down.
FailureInv == lpc \in {"unlink", "wait", "stopped"} => excused

\* Without an excuse the bundle stays, and every attempt that a script has
\* counted, or is about to count, is one for which kmutil was not ready.
CountInv ==
    ~excused =>
        /\ making = "idle"
        /\ \A s \in Scripts :
            /\ pc[s] \in {"head", "load", "asked", "again", "final"}
                    => installed
            /\ i[s] <= notReady
            /\ pc[s] = "again" /\ ~loaded => i[s] + 1 <= notReady
            /\ pc[s] = "final" /\ ~loaded => Tries <= i[s]
            /\ pc[s] = "gaveup" => Tries <= Transient

BootInv ==
    /\ LifecycleInv /\ StartOnly /\ BootTypeOK
    /\ AttemptInv /\ FailureInv /\ CountInv

-----------------------------------------------------------------------------
\* What a step does to the kernel: nothing, a load, a step of the start
\* routine, or everything is lost.
LEMMA KernelSteps ==
    ASSUME LifecycleTypeOK, [BootNext]_bootLoaderVars
    PROVE  \/ UNCHANGED lifecycleVars
           \/ LoadNow
           \/ LoaderProceeds
           \/ LoseMemory
<1>1. CASE UNCHANGED bootLoaderVars
  BY <1>1 DEF bootLoaderVars
<1>2. ASSUME NEW s \in Scripts, AskLoad(s)
      PROVE  UNCHANGED lifecycleVars \/ LoadNow
  <2>1. CASE lpc = "unloaded"
    BY <1>2, <2>1 DEF AskLoad, LoadNow, LifecycleTypeOK
  <2>2. CASE lpc # "unloaded"
    BY <1>2, <2>2 DEF AskLoad, lifecycleVars, loaderVars
  <2> QED
    BY <2>1, <2>2
<1>3. ASSUME NEW s \in Scripts, ScriptStep(s), ~AskLoad(s)
      PROVE  UNCHANGED lifecycleVars
  BY <1>3 DEF ScriptStep, ScriptProceeds, Gate, TestLoop, AskInVain,
     AskUnapproved, Again, Final, Verify, Quietly
<1>4. CASE LaunchStep \/ OperatorStep
  BY <1>4 DEF LaunchStep, OperatorStep, RunAtLoad, MakeLoad, SetFlag,
     InstallRemove, InstallCopy, Bootstrap, ShutDown, Quietly
<1>5. CASE KextStep \/ (power = "up" /\ Freeze) \/ Boot
  BY <1>5 DEF KextStep, KextProceeds, Freeze, Boot
<1> QED
  BY <1>1, <1>2, <1>3, <1>4, <1>5 DEF BootNext

\* A start goes from one label of StartLabels to another: nothing stops a
\* kext that runs.
LEMMA StartStep ==
    ASSUME StartOnly, LifecycleInv,
           LoadNow \/ LoaderProceeds
    PROVE  StartOnly' /\ LifecycleInv'
<1>1. LifecycleInv'
  BY LifecycleStepInv DEF LifecycleStep, LoaderStep
<1>2. UNCHANGED <<controlVars, at>>
  BY LoaderLeaves DEF LoaderStep
<1>3. lpc' \in StartLabels /\ alone' = {}
  BY DEF StartOnly, StartLabels, LoadNow, Load, LoaderProceeds,
     InstallAtStart, LinkOid, Attach, PolicyInit, MarkRegistered, ClearSlot,
     Detach, Drained, PolicyDestroy, MarkUnregistered, UnlinkOid, OidDrained,
     Free, historyVars
<1> QED
  BY <1>1, <1>2, <1>3 DEF StartOnly, controlVars

\* A machine that goes down leaves a kernel that has not loaded the kext.
LEMMA LostMemory ==
    ASSUME StartOnly, LifecycleInv, LoseMemory
    PROVE  StartOnly' /\ LifecycleInv'
<1>t. LifecycleTypeOK /\ WriterInv
  BY DEF LifecycleInv
<1>u. UNCHANGED <<wpc, value, next, writes, loads, at, asked, alone>>
  BY DEF LoseMemory, controlVars, historyVars
<1>k. /\ lpc' = "unloaded" /\ index' = 1 /\ ~loaded' /\ ~registered'
      /\ ~attached' /\ ~inited' /\ oids' = {} /\ MapData
  BY DEF LoseMemory
<1>1. StartOnly'
  BY <1>u, <1>k DEF StartOnly, StartLabels
<1>2. LifecycleTypeOK'
  <2>1. StateTypeOK'
    <3>1. /\ slot' \in [Hooks -> BOOLEAN] /\ mask' \subseteq Hooks
          /\ fuse' \in Int /\ count' \in 0..(UIntMod - 1) /\ maxdepth' \in Int
      BY <1>k, LifecycleAssumption, UIntModAssumption DEF MapData
    <3>2. unsafe' \in BOOLEAN /\ trace' \in BOOLEAN /\ recursed' \in BOOLEAN
      BY <1>k, Zenon DEF MapData
    <3> QED
      BY <3>1, <3>2 DEF StateTypeOK
  <2>2. ControlTypeOK' /\ loads' \in 0..MaxLoads /\ alone' \subseteq Writers
        /\ at' \in [Dispatchers -> {"out", "busy", "body"}]
        /\ asked' \in BOOLEAN
    BY <1>t, <1>u DEF LifecycleTypeOK, ControlTypeOK
  <2>3. /\ loaded' \in BOOLEAN /\ registered' \in BOOLEAN
        /\ attached' \in BOOLEAN /\ inited' \in BOOLEAN
    BY Zenon DEF LoseMemory
  <2>4. lpc' \in LoaderLabels /\ index' \in Nat /\ oids' \subseteq Oids
    BY <1>k DEF LoaderLabels
  <2> QED
    BY <2>1, <2>2, <2>3, <2>4 DEF LifecycleTypeOK
<1>3. FlagsInv' /\ OidsInv'
  BY <1>k, UpToEnds DEF FlagsInv, OidsInv, Attached, Complete
<1>4. InsideInv' /\ AskedInv'
  BY <1>u, <1>k DEF StartOnly, InsideInv, AskedInv
<1>5. WriterInv' /\ LoneInv'
  BY <1>t, <1>u DEF StartOnly, WriterInv, LoneInv
<1> QED
  BY <1>1, <1>2, <1>3, <1>4, <1>5 DEF LifecycleInv

\* Whatever the scripts, the operator and the machine do, the kernel's part of
\* the invariant stays.
LEMMA BootKeepsKernel ==
    ASSUME StartOnly, LifecycleInv, [BootNext]_bootLoaderVars
    PROVE  StartOnly' /\ LifecycleInv'
<1>1. CASE UNCHANGED lifecycleVars
  <2>1. LifecycleInv'
    BY <1>1, LifecycleInductive
  <2>2. UNCHANGED <<lpc, at, wpc, alone>>
    BY <1>1 DEF lifecycleVars, loaderVars, controlVars, historyVars
  <2> QED
    BY <2>1, <2>2 DEF StartOnly
<1> QED
  BY <1>1, KernelSteps, StartStep, LostMemory DEF LifecycleInv

-----------------------------------------------------------------------------
\* What is left of BootTypeOK beside the kernel's part of it.
ScriptTypeOK ==
    /\ pc \in [Scripts -> AtRest \cup Running]
    /\ i \in [Scripts -> 0..Tries]
    /\ making \in {"idle", "copy", "bootstrap"}
    /\ notReady \in 0..Transient
    /\ power \in {"up", "off", "hung"}
    /\ {flag, installed, approved, excused} \subseteq BOOLEAN

\* One script goes on, and has not counted an attempt that it had not left.
LEMMA OneScriptTypes ==
    ASSUME ScriptTypeOK, NEW s \in Scripts, NEW b \in AtRest \cup Running,
           NEW n \in 0..Tries,
           pc' = [pc EXCEPT ![s] = b], i' = [i EXCEPT ![s] = n],
           UNCHANGED <<diskVars, approved, power, excused>>,
           notReady' \in 0..Transient
    PROVE  ScriptTypeOK'
  BY DEF ScriptTypeOK, diskVars

\* Script s goes to label b with n attempts counted, having earned it.
Earned(s, b, n) ==
    /\ pc' = [pc EXCEPT ![s] = b] /\ i' = [i EXCEPT ![s] = n]
    /\ UNCHANGED <<flag, installed, making, approved, power, excused>>
    /\ notReady' \in 0..Transient /\ notReady <= notReady'
    /\ pc[s] # "verify" => b # "registered"
    /\ b \in {"load", "asked", "again"} => n < Tries
    /\ loaded => loaded'
    /\ ~excused =>
        /\ b \in {"head", "load", "asked", "again", "final"} => installed
        /\ n <= notReady'
        /\ b = "again" /\ ~loaded' => n + 1 <= notReady'
        /\ b = "final" /\ ~loaded' => Tries <= n
        /\ b = "gaveup" => Tries <= Transient

\* Every step of a script is of this kind.
LEMMA ScriptStepCases ==
    ASSUME BootInv, NEW s \in Scripts, ScriptProceeds(s)
    PROVE  \E b \in AtRest \cup Running, n \in 0..Tries : Earned(s, b, n)
<1>t. /\ ScriptTypeOK /\ pc[s] \in AtRest \cup Running /\ i[s] \in 0..Tries
      /\ notReady \in 0..Transient /\ i = [i EXCEPT ![s] = i[s]]
      /\ excused \in BOOLEAN /\ installed \in BOOLEAN
  BY DEF BootInv, BootTypeOK, ScriptTypeOK
<1>n. Tries \in Nat \ {0} /\ Transient \in Nat
  BY BootAssumption
<1>i. /\ pc[s] \in {"load", "asked", "again"} => i[s] < Tries
      /\ ~excused =>
            /\ pc[s] \in {"head", "load", "asked", "again", "final"}
                    => installed
            /\ i[s] <= notReady
            /\ pc[s] = "again" /\ ~loaded => i[s] + 1 <= notReady
            /\ pc[s] = "final" /\ ~loaded => Tries <= i[s]
  BY DEF BootInv, AttemptInv, CountInv
<1>f. (loaded <=> lpc # "unloaded") /\ lpc \in StartLabels
  BY DEF BootInv, LifecycleInv, FlagsInv, StartOnly
<1>l. Quietly => loaded' = loaded /\ UNCHANGED <<notReady, excused>>
  BY DEF Quietly, lifecycleVars, kernelVars
<1>g. ASSUME NEW a, NEW b, Goes(s, a, b)
      PROVE  /\ pc[s] = a
             /\ pc' = [pc EXCEPT ![s] = b]
             /\ b \notin AtRest => i' = [i EXCEPT ![s] = i[s]]
             /\ b \in AtRest => i' = [i EXCEPT ![s] = 0]
             /\ UNCHANGED <<flag, installed, making, approved, power>>
  BY <1>g, <1>t, <1>n DEF Goes, diskVars
<1>r. /\ AtRest = {"off", "due", "disarmed", "missing", "unapproved",
                   "gaveup", "registered", "warned"}
      /\ Running = {"gate", "head", "load", "asked", "again", "final",
                    "verify"}
  BY DEF AtRest, Verdicts, Running
<1>e. (\E b \in AtRest \cup Running :
            Earned(s, b, i[s]) \/ Earned(s, b, 0) \/
            (i[s] < Tries /\ Earned(s, b, i[s] + 1)))
        => \E b \in AtRest \cup Running, n \in 0..Tries : Earned(s, b, n)
  <2>1. i[s] \in 0..Tries /\ 0 \in 0..Tries
        /\ (i[s] < Tries => i[s] + 1 \in 0..Tries)
    BY <1>t, <1>n
  <2> QED
    BY <2>1
<1>q. ASSUME NEW a, NEW b \in AtRest \cup Running, Goes(s, a, b), Quietly,
             b = "registered" => pc[s] = "verify",
             b \in {"load", "asked", "again"} => i[s] < Tries,
             ~excused =>
                /\ b \in {"head", "load", "asked", "again", "final"}
                        => installed
                /\ b = "again" => loaded
                /\ b = "final" /\ ~loaded => Tries <= i[s]
                /\ b = "gaveup" => Tries <= Transient
      PROVE  \E c \in AtRest \cup Running, n \in 0..Tries : Earned(s, c, n)
  <2>1. /\ pc' = [pc EXCEPT ![s] = b]
        /\ UNCHANGED <<flag, installed, making, approved, power>>
        /\ loaded' = loaded /\ UNCHANGED <<notReady, excused>>
    BY <1>q, <1>g, <1>l
  <2>2. CASE b \in AtRest
    <3>1. i' = [i EXCEPT ![s] = 0]
      BY <1>q, <1>g, <2>2
    <3>2. b \notin Running
      BY <1>r, <2>2
    <3>3. Earned(s, b, 0)
      BY <1>q, <1>t, <1>r, <2>1, <3>1, <3>2 DEF Earned
    <3> QED
      BY <3>3, <1>e
  <2>3. CASE b \notin AtRest
    <3>1. i' = [i EXCEPT ![s] = i[s]]
      BY <1>q, <1>g, <2>3
    <3>2. Earned(s, b, i[s])
      BY <1>q, <1>t, <1>i, <2>1, <3>1 DEF Earned
    <3> QED
      BY <3>2, <1>e
  <2> QED
    BY <2>2, <2>3
<1>1. CASE Gate(s)
  BY <1>1, <1>q, <1>r DEF Gate
<1>2. CASE TestLoop(s)
  <2>1. CASE i[s] < Tries /\ ~loaded
    <3>1. Goes(s, "head", "load") /\ Quietly /\ pc[s] = "head"
      BY <1>2, <2>1 DEF TestLoop, kext_loaded, Goes
    <3> QED
      BY <2>1, <3>1, <1>q, <1>r, <1>i
  <2>2. CASE ~(i[s] < Tries /\ ~loaded)
    <3>1. Goes(s, "head", "final") /\ Quietly /\ pc[s] = "head"
      BY <1>2, <2>2 DEF TestLoop, kext_loaded, Goes
    <3>2. ~loaded => Tries <= i[s]
      BY <2>2, <1>t, <1>n
    <3> QED
      BY <3>1, <3>2, <1>q, <1>r, <1>i
  <2> QED
    BY <2>1, <2>2
<1>3. CASE AskInVain(s)
  <2>1. Goes(s, "load", "again") /\ UNCHANGED <<lifecycleVars, excused>>
        /\ pc[s] = "load" /\ pc' = [pc EXCEPT ![s] = "again"]
    BY <1>3 DEF AskInVain, Goes
  <2>2. /\ i' = [i EXCEPT ![s] = i[s]]
        /\ UNCHANGED <<flag, installed, making, approved, power>>
        /\ loaded' = loaded /\ excused' = excused
    BY <2>1, <1>g, <1>r DEF lifecycleVars, kernelVars
  <2>3. \/ notReady < Transient /\ notReady' = notReady + 1
        \/ excused /\ notReady' = notReady
    BY <1>3, <1>i, <2>1 DEF AskInVain
  <2>4. notReady' \in 0..Transient /\ notReady <= notReady'
    BY <2>3, <1>t, <1>n
  <2>5. Earned(s, "again", i[s])
    BY <2>1, <2>2, <2>3, <2>4, <1>t, <1>i DEF Earned
  <2> QED
    BY <2>5, <1>e, <1>r
<1>4. CASE AskUnapproved(s)
  BY <1>4, <1>q, <1>r DEF AskUnapproved, Goes
<1>5. CASE AskLoad(s)
  <2> DEFINE b == IF lpc = "running" THEN "again" ELSE "asked"
  <2>1. /\ pc[s] = "load" /\ pc' = [pc EXCEPT ![s] = b]
        /\ i' = [i EXCEPT ![s] = i[s]]
        /\ UNCHANGED <<flag, installed, making, approved, power>>
        /\ UNCHANGED <<notReady, excused>> /\ installed
    BY <1>5, <1>t DEF AskLoad, diskVars
  <2>2. (loaded => loaded') /\ (b = "again" => loaded')
    BY <1>5, <1>f DEF AskLoad, Load, kernelVars
  <2>3. b \in {"again", "asked"}
    OBVIOUS
  <2> HIDE DEF b
  <2>4. Earned(s, b, i[s])
    BY <2>1, <2>2, <2>3, <1>t, <1>i DEF Earned
  <2> QED
    BY <2>3, <2>4, <1>e, <1>r
<1>6. CASE Again(s)
  <2>1. CASE loaded
    <3>1. Goes(s, "again", "final") /\ Quietly /\ pc[s] = "again"
      BY <1>6, <2>1 DEF Again, kext_loaded
    <3> QED
      BY <2>1, <3>1, <1>q, <1>r, <1>i
  <2>2. CASE ~loaded
    <3>1. /\ pc[s] = "again" /\ pc' = [pc EXCEPT ![s] = "head"]
          /\ i' = [i EXCEPT ![s] = i[s] + 1]
          /\ UNCHANGED <<flag, installed, making, approved, power>>
          /\ Quietly
      BY <1>6, <2>2 DEF Again, kext_loaded, diskVars
    <3>2. Earned(s, "head", i[s] + 1) /\ i[s] < Tries
      BY <2>2, <3>1, <1>t, <1>l, <1>i DEF Earned
    <3> QED
      BY <3>2, <1>e, <1>r
  <2> QED
    BY <2>1, <2>2
<1>7. CASE Final(s)
  <2>1. CASE loaded
    <3>1. Goes(s, "final", "verify") /\ Quietly /\ pc[s] = "final"
      BY <1>7, <2>1 DEF Final, kext_loaded, Goes
    <3> QED
      BY <2>1, <3>1, <1>q, <1>r
  <2>2. CASE ~loaded
    <3>1. Goes(s, "final", "gaveup") /\ Quietly /\ pc[s] = "final"
      BY <1>7, <2>2 DEF Final, kext_loaded, Goes
    <3>2. ~excused => Tries <= Transient
      BY <2>2, <3>1, <1>i, <1>t, <1>n
    <3> QED
      BY <3>1, <3>2, <1>q, <1>r
  <2> QED
    BY <2>1, <2>2
<1>8. CASE Verify(s)
  <2>1. CASE Linked(HooksOid)
    <3>1. Goes(s, "verify", "registered") /\ Quietly /\ pc[s] = "verify"
      BY <1>8, <2>1 DEF Verify, Goes
    <3> QED
      BY <3>1, <1>q, <1>r
  <2>2. CASE ~Linked(HooksOid)
    <3>1. Goes(s, "verify", "warned") /\ Quietly
      BY <1>8, <2>2 DEF Verify
    <3> QED
      BY <3>1, <1>q, <1>r
  <2> QED
    BY <2>1, <2>2
<1> QED
  BY <1>1, <1>2, <1>3, <1>4, <1>5, <1>6, <1>7, <1>8 DEF ScriptProceeds

-----------------------------------------------------------------------------
ScriptInv == ScriptTypeOK /\ AttemptInv /\ FailureInv /\ CountInv

\* A step of one script keeps the scripts' part of the invariant.
LEMMA EarnedKeeps ==
    ASSUME BootInv, NEW s \in Scripts, NEW b \in AtRest \cup Running,
           NEW n \in 0..Tries, Earned(s, b, n),
           lpc' \in {"unlink", "wait", "stopped"} =>
                lpc \in {"unlink", "wait", "stopped"}
    PROVE  ScriptInv'
<1>t. /\ pc \in [Scripts -> AtRest \cup Running] /\ i \in [Scripts -> 0..Tries]
      /\ notReady \in 0..Transient /\ loaded \in BOOLEAN
      /\ Tries \in Nat /\ Transient \in Nat
  BY BootAssumption DEF BootInv, BootTypeOK, LifecycleTypeOK
<1>1. ScriptTypeOK'
  BY DEF Earned, BootInv, BootTypeOK, ScriptTypeOK
<1>2. AttemptInv'
  BY <1>t DEF Earned, BootInv, AttemptInv
<1>3. FailureInv'
  BY DEF Earned, BootInv, FailureInv
<1>4. CountInv'
  <2> SUFFICES ASSUME ~excused' PROVE CountInv'
    BY DEF CountInv
  <2>1. ~excused /\ making' = making /\ installed' = installed
    BY DEF Earned
  <2>2. ASSUME NEW r \in Scripts
        PROVE  /\ pc'[r] \in {"head", "load", "asked", "again", "final"}
                        => installed'
               /\ i'[r] <= notReady'
               /\ pc'[r] = "again" /\ ~loaded' => i'[r] + 1 <= notReady'
               /\ pc'[r] = "final" /\ ~loaded' => Tries <= i'[r]
               /\ pc'[r] = "gaveup" => Tries <= Transient
    <3>1. CASE r = s
      <4>1. pc'[r] = b /\ i'[r] = n
        BY <3>1, <1>t DEF Earned
      <4> QED
        BY <2>1, <4>1 DEF Earned
    <3>2. CASE r # s
      <4>1. /\ pc'[r] = pc[r] /\ i'[r] = i[r] /\ i[r] \in 0..Tries
            /\ notReady <= notReady' /\ notReady' \in 0..Transient
            /\ (loaded => loaded')
        BY <3>2, <1>t DEF Earned
      <4>2. /\ pc[r] \in {"head", "load", "asked", "again", "final"}
                        => installed
            /\ i[r] <= notReady
            /\ pc[r] = "again" /\ ~loaded => i[r] + 1 <= notReady
            /\ pc[r] = "final" /\ ~loaded => Tries <= i[r]
            /\ pc[r] = "gaveup" => Tries <= Transient
        BY <2>1 DEF BootInv, CountInv
      <4> QED
        BY <1>t, <2>1, <4>1, <4>2
    <3> QED
      BY <3>1, <3>2
  <2> QED
    BY <2>1, <2>2 DEF CountInv, BootInv
<1> QED
  BY <1>1, <1>2, <1>3, <1>4 DEF ScriptInv

\* The start routine goes on: a script that waited for it is answered.
LEMMA KextKeepsScripts ==
    ASSUME BootInv, KextProceeds
    PROVE  ScriptInv'
<1>t. /\ pc \in [Scripts -> AtRest \cup Running] /\ i \in [Scripts -> 0..Tries]
      /\ excused \in BOOLEAN
  BY DEF BootInv, BootTypeOK
<1>u. /\ UNCHANGED <<i, flag, installed, making, approved, power, notReady>>
      /\ excused' = (excused \/ lpc' = "unlink")
      /\ pc' = [r \in Scripts |->
                    IF pc[r] = "asked" /\ lpc' \in {"running", "unloaded"}
                        THEN "again" ELSE pc[r]]
  BY DEF KextProceeds, diskVars
<1>1. ScriptTypeOK'
  <2>1. excused' \in BOOLEAN
    BY <1>u, Zenon
  <2>2. pc' \in [Scripts -> AtRest \cup Running]
    BY <1>t, <1>u DEF Running
  <2> QED
    BY <1>u, <2>1, <2>2 DEF BootInv, BootTypeOK, ScriptTypeOK
<1>2. AttemptInv'
  BY <1>u DEF BootInv, AttemptInv
<1>3. FailureInv'
  <2>1. lpc' \in {"wait", "stopped"} => lpc \in {"unlink", "wait"}
    BY DEF KextProceeds, LoaderProceeds, InstallAtStart, LinkOid, Attach,
       PolicyInit, MarkRegistered, ClearSlot, Detach, Drained, PolicyDestroy,
       MarkUnregistered, UnlinkOid, OidDrained, Free
  <2> QED
    BY <1>u, <2>1 DEF BootInv, FailureInv
<1>4. CountInv'
  <2> SUFFICES ASSUME ~excused' PROVE CountInv'
    BY DEF CountInv
  <2>1. ~excused /\ lpc \notin {"unlink", "wait", "stopped"}
    BY <1>u DEF BootInv, FailureInv
  <2>2. loaded /\ loaded'
    <3>1. lpc # "unloaded"
      BY DEF KextProceeds, LoaderProceeds, InstallAtStart, LinkOid, Attach,
         PolicyInit, MarkRegistered, ClearSlot, Detach, Drained,
         PolicyDestroy, MarkUnregistered, UnlinkOid, OidDrained, Free
    <3>2. loaded
      BY <3>1 DEF BootInv, LifecycleInv, FlagsInv
    <3>3. ~Free
      BY <2>1 DEF Free
    <3>4. loaded' = loaded
      BY <3>3 DEF KextProceeds, LoaderProceeds, InstallAtStart, LinkOid,
         Attach, PolicyInit, MarkRegistered, ClearSlot, Detach, Drained,
         PolicyDestroy, MarkUnregistered, UnlinkOid, OidDrained, kernelVars
    <3> QED
      BY <3>2, <3>4
  <2> QED
    BY <1>u, <2>1, <2>2 DEF BootInv, CountInv
<1> QED
  BY <1>1, <1>2, <1>3, <1>4 DEF ScriptInv

\* launchd, the operator and the machine start scripts, end them all, or take
\* the bundle away.
LEMMA RestKeepsScripts ==
    ASSUME BootInv,
           \/ LaunchStep \/ OperatorStep \/ Boot
           \/ power = "up" /\ Freeze
    PROVE  ScriptInv'
<1>t. /\ pc \in [Scripts -> AtRest \cup Running] /\ i \in [Scripts -> 0..Tries]
      /\ making \in {"idle", "copy", "bootstrap"}
      /\ notReady \in 0..Transient
      /\ power \in {"up", "off", "hung"}
      /\ flag \in BOOLEAN /\ installed \in BOOLEAN /\ approved \in BOOLEAN
      /\ excused \in BOOLEAN
      /\ Tries \in Nat \ {0} /\ Transient \in Nat /\ Daemon \in Scripts
  BY BootAssumption DEF BootInv, BootTypeOK, Scripts
<1>i. AttemptInv /\ FailureInv /\ CountInv
  BY DEF BootInv
<1>r. /\ AtRest = {"off", "due", "disarmed", "missing", "unapproved",
                   "gaveup", "registered", "warned"}
      /\ Running = {"gate", "head", "load", "asked", "again", "final",
                    "verify"}
  BY DEF AtRest, Verdicts, Running
<1>1. ASSUME NEW s \in Scripts, NEW a, Goes(s, a, "gate"), Quietly
      PROVE  ScriptInv'
  <2>1. /\ pc' = [pc EXCEPT ![s] = "gate"] /\ i' = i
        /\ UNCHANGED <<flag, installed, making, approved, power>>
        /\ UNCHANGED <<lpc, loaded, notReady, excused>>
    BY <1>1, <1>t, <1>r DEF Goes, Quietly, diskVars, lifecycleVars,
       loaderVars, kernelVars
  <2> QED
    BY <2>1, <1>t, <1>i, <1>r
    DEF ScriptInv, ScriptTypeOK, AttemptInv, FailureInv, CountInv
<1>2. ASSUME NEW v \in BOOLEAN, SetFlag(v)
      PROVE  ScriptInv'
  <2>1. /\ UNCHANGED <<pc, i, installed, making, approved, power, notReady>>
        /\ UNCHANGED <<lpc, loaded, excused>> /\ flag' \in BOOLEAN
    BY <1>2 DEF SetFlag, scriptVars, bootVars, lifecycleVars, loaderVars,
       kernelVars
  <2> QED
    BY <2>1, <1>t, <1>i
    DEF ScriptInv, ScriptTypeOK, AttemptInv, FailureInv, CountInv
<1>3. CASE InstallRemove
  <2>1. /\ UNCHANGED <<pc, i, flag, approved, power, notReady>>
        /\ making' = "copy" /\ installed' = FALSE /\ excused' = TRUE
    BY <1>3 DEF InstallRemove, scriptVars
  <2> QED
    BY <2>1, <1>t, <1>i
    DEF ScriptInv, ScriptTypeOK, AttemptInv, FailureInv, CountInv
<1>4. CASE InstallCopy
  <2>1. /\ UNCHANGED <<pc, i, flag, power, notReady, excused, lpc>>
        /\ making = "copy" /\ making' = "bootstrap"
        /\ installed' = TRUE /\ approved' = FALSE
    BY <1>4 DEF InstallCopy, scriptVars, lifecycleVars, loaderVars
  <2>2. excused
    BY <2>1, <1>i DEF CountInv
  <2> QED
    BY <2>1, <2>2, <1>t, <1>i
    DEF ScriptInv, ScriptTypeOK, AttemptInv, FailureInv, CountInv
<1>5. CASE Bootstrap
  <2>1. /\ UNCHANGED <<flag, installed, approved, power, notReady, excused>>
        /\ lpc' = lpc /\ making = "bootstrap" /\ making' = "idle"
        /\ pc' = [pc EXCEPT ![Daemon] = "due"]
        /\ i' = [i EXCEPT ![Daemon] = 0]
    BY <1>5 DEF Bootstrap, bootVars, lifecycleVars, loaderVars
  <2>2. excused
    BY <2>1, <1>i DEF CountInv
  <2> QED
    BY <2>1, <2>2, <1>t, <1>i, <1>r
    DEF ScriptInv, ScriptTypeOK, AttemptInv, FailureInv, CountInv
<1>6. CASE LoseMemory /\ approved' = approved /\ power' \in {"off", "hung"}
  <2>1. /\ pc' = [s \in Scripts |-> "off"] /\ i' = [s \in Scripts |-> 0]
        /\ UNCHANGED <<flag, installed>> /\ making' = "idle"
        /\ notReady' = 0 /\ ~excused' /\ lpc' = "unloaded"
        /\ excused' \in BOOLEAN
    <3>1. excused' = FALSE
      BY <1>6 DEF LoseMemory
    <3> QED
      BY <1>6, <3>1, Zenon DEF LoseMemory
  <2>2. \A s \in Scripts : pc'[s] = "off" /\ i'[s] = 0
    BY <2>1
  <2>3. ScriptTypeOK'
    BY <1>6, <2>1, <1>t, <1>r DEF ScriptTypeOK
  <2> QED
    BY <2>1, <2>2, <2>3
    DEF ScriptInv, AttemptInv, FailureInv, CountInv
<1>7. CASE Boot
  <2>1. /\ UNCHANGED <<i, flag, installed, making, notReady, excused, lpc>>
        /\ loaded' = loaded /\ power' = "up" /\ approved' \in BOOLEAN
        /\ pc' = [pc EXCEPT ![Daemon] = "due"]
    BY <1>7 DEF Boot, diskVars, lifecycleVars, loaderVars, kernelVars
  <2> QED
    BY <2>1, <1>t, <1>i, <1>r
    DEF ScriptInv, ScriptTypeOK, AttemptInv, FailureInv, CountInv
<1>8. CASE LaunchStep
  BY <1>8, <1>1, <1>t DEF LaunchStep, RunAtLoad
<1>9. CASE OperatorStep
  BY <1>9, <1>1, <1>2, <1>3, <1>4, <1>5, <1>6
  DEF OperatorStep, MakeLoad, ShutDown, Scripts
<1>10. CASE Freeze
  BY <1>10, <1>6 DEF Freeze
<1> QED
  BY <1>7, <1>8, <1>9, <1>10

\* The invariant holds from the first boot on.
LEMMA BootInductive ==
    /\ BootInit => BootInv
    /\ BootInv /\ [BootNext]_bootLoaderVars => BootInv'
<1>1. ASSUME BootInit PROVE BootInv
  <2> USE <1>1 DEF BootInit
  <2>1. LifecycleInv
    BY LifecycleInductive
  <2>2. StartOnly
    BY DEF LifecycleInit, ControlInit, StartOnly, StartLabels
  <2>3. ScriptTypeOK
    <3>1. /\ pc \in [Scripts -> AtRest \cup Running]
          /\ i \in [Scripts -> 0..Tries] /\ notReady \in 0..Transient
          /\ making \in {"idle", "copy", "bootstrap"}
          /\ power \in {"up", "off", "hung"}
      BY BootAssumption DEF AtRest
    <3>2. flag \in BOOLEAN /\ excused \in BOOLEAN
      BY Zenon
    <3> QED
      BY <3>1, <3>2 DEF ScriptTypeOK
  <2>4. AttemptInv /\ FailureInv /\ CountInv
    BY DEF LifecycleInit, AttemptInv, FailureInv, CountInv
  <2> QED
    BY <2>1, <2>2, <2>3, <2>4
    DEF BootInv, BootTypeOK, ScriptTypeOK, LifecycleInv
<1>2. ASSUME BootInv, [BootNext]_bootLoaderVars PROVE BootInv'
  <2>1. LifecycleInv' /\ StartOnly'
    BY <1>2, BootKeepsKernel DEF BootInv
  <2>2. ScriptInv'
    <3>1. ASSUME NEW s \in Scripts, ScriptStep(s) PROVE ScriptInv'
      <4>1. PICK b \in AtRest \cup Running, n \in 0..Tries : Earned(s, b, n)
        BY <1>2, <3>1, ScriptStepCases DEF ScriptStep
      <4>2. lpc' \in {"unlink", "wait", "stopped"} =>
                lpc \in {"unlink", "wait", "stopped"}
        BY <3>1 DEF ScriptStep, ScriptProceeds, Gate, TestLoop, AskInVain,
           AskUnapproved, AskLoad, Load, Again, Final, Verify, Quietly,
           lifecycleVars, loaderVars
      <4> QED
        BY <1>2, <4>1, <4>2, EarnedKeeps
    <3>2. CASE UNCHANGED bootLoaderVars
      BY <1>2, <3>2
      DEF BootInv, BootTypeOK, ScriptInv, ScriptTypeOK, AttemptInv,
          FailureInv, CountInv, bootLoaderVars, lifecycleVars, loaderVars,
          kernelVars, scriptVars, diskVars, bootVars
    <3> QED
      BY <1>2, <3>1, <3>2, KextKeepsScripts, RestKeepsScripts
      DEF BootNext, KextStep
  <2> QED
    BY <2>1, <2>2
    DEF BootInv, ScriptInv, BootTypeOK, ScriptTypeOK, LifecycleInv
<1> QED
  BY <1>1, <1>2

\* Every state of the boots is of its type, for any number of scripts,
\* attempts and failures of kmutil.
THEOREM BootTyped == BootSpec => []BootTypeOK
<1>1. BootInv => BootTypeOK
  BY DEF BootInv
<1> QED
  BY <1>1, BootInductive, PTL DEF BootSpec

\* sedarwin-load:60-61, for any TRIES and any number of scripts that share the
\* times at which kmutil is not ready: nobody gives up without a cause.
THEOREM BootGivesUpForCause == BootSpec => []GivesUpForCause
<1>1. BootInv => GivesUpForCause
  BY BootAssumption DEF BootInv, CountInv, GivesUpForCause
<1> QED
  BY <1>1, BootInductive, PTL DEF BootSpec

\* sedarwin-load:103-105: a script that says "registered" while no start is
\* under way is right, on any boot and whoever asked for the start.
THEOREM BootConfirmationTrue == BootSpec => ConfirmationTrue
<1> DEFINE Confirms(s) == /\ pc[s] = "verify" /\ pc'[s] = "registered"
                          /\ lpc \in {"unloaded", "running"}
<1>1. ASSUME BootInv, BootNext, NEW s \in Scripts, Confirms(s)
      PROVE  attached /\ registered
  <2>t. pc \in [Scripts -> AtRest \cup Running] /\ Daemon \in Scripts
    BY <1>1 DEF BootInv, BootTypeOK, Scripts
  <2>1. CASE Linked(HooksOid)
    <3>1. oids # {}
      BY <2>1 DEF Linked
    <3>2. lpc = "running"
      BY <1>1, <3>1, QuietOutside DEF BootInv
    <3> QED
      BY <1>1, <3>2, LifecycleInvImplies DEF BootInv, RunningIsComplete
  <2>2. ASSUME ~Linked(HooksOid) PROVE FALSE
    <3>1. ASSUME NEW r \in Scripts, ScriptStep(r) PROVE FALSE
      <4>1. PICK b \in AtRest \cup Running, n \in 0..Tries : Earned(r, b, n)
        BY <1>1, <3>1, ScriptStepCases DEF ScriptStep
      <4>2. r = s /\ b = "registered"
        BY <1>1, <2>t, <4>1 DEF Earned
      <4>3. pc[s] = "verify" /\ pc'[s] = "registered"
        BY <1>1
      <4>4. Verify(s)
        BY <3>1, <4>2, <4>3 DEF ScriptStep, ScriptProceeds, Gate, TestLoop,
           AskInVain, AskUnapproved, AskLoad, Again, Final, Goes
      <4>5. pc' = [pc EXCEPT ![s] = "warned"]
        BY <2>2, <4>4 DEF Verify, Goes
      <4> QED
        BY <2>t, <4>3, <4>5
    <3>2. CASE LaunchStep \/ OperatorStep
      BY <1>1, <2>t, <3>2 DEF LaunchStep, OperatorStep, RunAtLoad, MakeLoad,
         SetFlag, InstallRemove, InstallCopy, Bootstrap, ShutDown, LoseMemory,
         Goes, scriptVars
    <3>3. CASE KextStep
      BY <1>1, <3>3 DEF KextStep, KextProceeds
    <3>4. CASE Freeze \/ Boot
      BY <1>1, <2>t, <3>4 DEF Freeze, Boot, LoseMemory
    <3> QED
      BY <1>1, <3>1, <3>2, <3>3, <3>4 DEF BootNext
  <2> QED
    BY <2>1, <2>2
<1>2. ASSUME BootInv, [BootNext]_bootLoaderVars
      PROVE  [\A s \in Scripts : Confirms(s) => attached /\ registered
             ]_bootLoaderVars
  BY <1>1, <1>2
<1> QED
  BY <1>2, BootInductive, PTL DEF BootSpec, ConfirmationTrue

-----------------------------------------------------------------------------
(* A build that wedges the machine, once the operator has removed the flag. *)

\* Nobody has armed the daemon, and no forced load is under way.
Disarmed == ~flag /\ \A s \in Operators : pc[s] \in AtRest

\* Nor has the daemon passed its gate, and the kext is not in the kernel.
Dormant == Disarmed /\ pc[Daemon] \in AtRest \cup {"gate"} /\ ~loaded

\* sedarwin-load:27-31, 49-53: "a power cycle comes back to a working system".
\* A machine that hangs while disarmed has lost whatever was under way, and
\* from then on, for as long as it stays disarmed, nothing loads the kext and
\* it does not hang again.
HangsOnceMore ==
    [][/\ Disarmed' /\ power' = "hung" /\ power # "hung" => Dormant'
       /\ Dormant /\ Disarmed' => Dormant' /\ (power' = "hung" => power = "hung")
      ]_bootLoaderVars

\* The start routine never puts the kext into the kernel anew.
LEMMA StaysOut ==
    ASSUME LoaderProceeds, ~loaded
    PROVE  ~loaded'
  BY DEF LoaderProceeds, InstallAtStart, LinkOid, Attach, PolicyInit,
     MarkRegistered, ClearSlot, Detach, Drained, PolicyDestroy,
     MarkUnregistered, UnlinkOid, OidDrained, Free, kernelVars

\* In a dormant machine only the daemon may be at its gate, which is closed.
LEMMA DormantScript ==
    ASSUME BootTypeOK, Dormant, NEW s \in Scripts, ScriptStep(s), Disarmed'
    PROVE  Dormant' /\ power' = power
<1>t. pc \in [Scripts -> AtRest \cup Running] /\ Daemon \in Scripts
  BY DEF BootTypeOK, Scripts
<1>1. pc[s] \in AtRest \cup {"gate"}
  BY DEF Dormant, Disarmed, Scripts
<1>2. Gate(s)
  BY <1>1 DEF ScriptStep, ScriptProceeds, TestLoop, AskInVain, AskUnapproved,
     AskLoad, Again, Final, Verify, Goes, AtRest, Verdicts
<1>3. s = Daemon
  BY <1>2 DEF Dormant, Disarmed, Scripts, Gate, Goes, AtRest, Verdicts
<1>4. pc' = [pc EXCEPT ![s] = "disarmed"]
  BY <1>2, <1>3 DEF Dormant, Disarmed, Gate, Goes
<1>5. loaded' = loaded /\ power' = power
  BY <1>2 DEF Gate, Goes, Quietly, lifecycleVars, loaderVars, kernelVars
<1> QED
  BY <1>t, <1>3, <1>4, <1>5 DEF Dormant, AtRest, Verdicts

\* Nor does anything else wake it.
LEMMA DormantStep ==
    ASSUME BootTypeOK, Dormant, [BootNext]_bootLoaderVars, Disarmed'
    PROVE  Dormant' /\ (power' = "hung" => power = "hung")
<1>t. pc \in [Scripts -> AtRest \cup Running] /\ Daemon \in Scripts
  BY DEF BootTypeOK, Scripts
<1>1. ASSUME NEW s \in Scripts, ScriptStep(s)
      PROVE  Dormant' /\ (power' = "hung" => power = "hung")
  BY <1>1, DormantScript
<1>2. CASE LaunchStep
  BY <1>t, <1>2
     DEF LaunchStep, RunAtLoad, Goes, Quietly, lifecycleVars, loaderVars,
         kernelVars, Dormant
<1>3. CASE KextStep
  <2>1. ~loaded' /\ power' = power
    BY <1>3, StaysOut DEF KextStep, KextProceeds, Dormant
  <2>2. pc[Daemon] # "asked"
    BY DEF Dormant, AtRest, Verdicts
  <2>3. pc'[Daemon] = pc[Daemon]
    BY <1>t, <1>3, <2>2 DEF KextStep, KextProceeds
  <2> QED
    BY <2>1, <2>3 DEF Dormant
<1>4. ASSUME NEW s \in Operators, MakeLoad(s)
      PROVE  FALSE
  <2>1. s \in Scripts /\ pc' = [pc EXCEPT ![s] = "gate"]
    BY <1>4 DEF MakeLoad, Goes, Scripts
  <2>2. pc'[s] = "gate"
    BY <1>t, <2>1
  <2> QED
    BY <2>2 DEF Disarmed, AtRest, Verdicts
<1>5. CASE \/ \E v \in BOOLEAN : SetFlag(v)
           \/ InstallRemove \/ InstallCopy
  BY <1>5
     DEF SetFlag, InstallRemove, InstallCopy, lifecycleVars, loaderVars,
         kernelVars, scriptVars, bootVars, Dormant
<1>6. CASE Bootstrap
  <2>1. pc'[Daemon] = "due" /\ loaded' = loaded /\ power' = power
    BY <1>t, <1>6
       DEF Bootstrap, lifecycleVars, loaderVars, kernelVars, bootVars
  <2> QED
    BY <2>1 DEF Dormant, AtRest
<1>7. CASE ShutDown
  BY <1>t, <1>7 DEF ShutDown, LoseMemory, Dormant, AtRest
<1>8. CASE Freeze
  BY <1>8 DEF Freeze, Dormant
<1>9. CASE Boot
  BY <1>t, <1>9
     DEF Boot, lifecycleVars, loaderVars, kernelVars, Dormant, AtRest
<1>10. CASE UNCHANGED bootLoaderVars
  BY <1>10
     DEF bootLoaderVars, lifecycleVars, loaderVars, kernelVars, scriptVars,
         bootVars, Dormant
<1> QED
  BY <1>1, <1>2, <1>3, <1>4, <1>5, <1>6, <1>7, <1>8, <1>9, <1>10
     DEF BootNext, OperatorStep

\* A hang takes with it what was under way.
LEMMA HangLeavesDormant ==
    ASSUME BootTypeOK, [BootNext]_bootLoaderVars, Disarmed', power' = "hung",
           power # "hung"
    PROVE  Dormant'
<1>1. Freeze
  <2>1. ASSUME NEW s \in Scripts, ScriptStep(s)
        PROVE  power' = power
    BY <2>1 DEF ScriptStep, ScriptProceeds, Gate, TestLoop, AskInVain,
       AskUnapproved, AskLoad, Again, Final, Verify, Goes
  <2>2. CASE LaunchStep \/ KextStep
    BY <2>2 DEF LaunchStep, RunAtLoad, Goes, KextStep, KextProceeds
  <2>3. CASE OperatorStep
    BY <2>3 DEF OperatorStep, MakeLoad, Goes, SetFlag, InstallRemove,
       InstallCopy, Bootstrap, ShutDown, bootVars
  <2> QED
    BY <2>1, <2>2, <2>3 DEF BootNext, Boot, bootLoaderVars, bootVars
<1>2. ~loaded' /\ pc' = [s \in Scripts |-> "off"]
  BY <1>1 DEF Freeze, LoseMemory
<1> QED
  BY <1>2 DEF Dormant, AtRest, Scripts

\* sedarwin-load:27-31, for any number of scripts, attempts and boots: the
\* safety half of DisarmedRecovers.
THEOREM BootHangsOnceMore == BootSpec => HangsOnceMore
<1>1. BootInv /\ [BootNext]_bootLoaderVars =>
        /\ Disarmed' /\ power' = "hung" /\ power # "hung" => Dormant'
        /\ Dormant /\ Disarmed' =>
              Dormant' /\ (power' = "hung" => power = "hung")
  BY DormantStep, HangLeavesDormant DEF BootInv
<1> QED
  BY <1>1, BootInductive, PTL DEF BootSpec, HangsOnceMore

-----------------------------------------------------------------------------
(* How long a run of the script is.                                        *)

\* The steps that a run of script s has left, at most.
RunLeft(s) ==
    LET tries == 4 * (Tries - i[s])
    IN  IF pc[s] = "gate" THEN tries + 4
        ELSE IF pc[s] = "head" THEN tries + 3
        ELSE IF pc[s] = "load" THEN tries + 2
        ELSE IF pc[s] = "asked" THEN tries + 1
        ELSE IF pc[s] = "again" THEN tries
        ELSE IF pc[s] = "final" THEN 2
        ELSE IF pc[s] = "verify" THEN 1
        ELSE 0

\* It is counted, and until the run has ended there is something left.
RunCounted ==
    \A s \in Scripts :
        RunLeft(s) \in Nat /\ (pc[s] \in Running => RunLeft(s) # 0)

\* sedarwin-load:68-93: whatever kmutil answers, and whatever the other
\* scripts, the operator and the machine do meanwhile, a run that has begun
\* only ever gets shorter: it asks kmutil TRIES times at most.
RunsShorten ==
    [][\A s \in Scripts : pc[s] \in Running =>
        /\ RunLeft(s) \in Nat \ {0} /\ RunLeft(s)' \in Nat
        /\ \/ RunLeft(s)' < RunLeft(s)
           \/ pc'[s] = pc[s] /\ i'[s] = i[s]]_bootLoaderVars

LEMMA RunCounts ==
    ASSUME BootInv
    PROVE  RunCounted
<1> SUFFICES ASSUME NEW s \in Scripts
             PROVE  RunLeft(s) \in Nat /\ (pc[s] \in Running => RunLeft(s) # 0)
  BY DEF RunCounted
<1>1. i[s] \in 0..Tries /\ Tries \in Nat
  BY BootAssumption DEF BootInv, BootTypeOK
<1>2. pc[s] \in {"load", "asked", "again"} => i[s] < Tries
  BY DEF BootInv, AttemptInv
<1> DEFINE n == 4 * (Tries - i[s])
<1>3. n \in Nat /\ (i[s] < Tries => n >= 4)
  BY <1>1
<1> HIDE DEF n
<1>4. RunLeft(s) = IF pc[s] = "gate" THEN n + 4
                   ELSE IF pc[s] = "head" THEN n + 3
                   ELSE IF pc[s] = "load" THEN n + 2
                   ELSE IF pc[s] = "asked" THEN n + 1
                   ELSE IF pc[s] = "again" THEN n
                   ELSE IF pc[s] = "final" THEN 2
                   ELSE IF pc[s] = "verify" THEN 1
                   ELSE 0
  BY DEF RunLeft, n
<1> QED
  BY <1>2, <1>3, <1>4 DEF Running

\* The label after label a, as long as no failed attempt is counted.
Follows(a, b) ==
    \/ a = "gate" /\ b = "head"
    \/ a = "head" /\ b = "load"
    \/ a = "head" /\ b = "final"
    \/ a = "load" /\ b = "again"
    \/ a = "load" /\ b = "asked"
    \/ a = "asked" /\ b = "again"
    \/ a = "again" /\ b = "final"
    \/ a = "final" /\ b = "verify"

\* How a run moves: not at all, to its end, one label further, or into the
\* next attempt.
Shortens(s) ==
    \/ pc'[s] = pc[s] /\ i'[s] = i[s]
    \/ pc'[s] \in AtRest
    \/ i'[s] = i[s] /\ Follows(pc[s], pc'[s])
    \/ i'[s] = i[s] + 1 /\ pc[s] = "again" /\ pc'[s] = "head"

LEMMA RunShorter ==
    ASSUME BootInv, NEW s \in Scripts, Shortens(s), pc[s] \in Running
    PROVE  RunLeft(s)' < RunLeft(s) \/ (pc'[s] = pc[s] /\ i'[s] = i[s])
<1>1. i[s] \in 0..Tries /\ Tries \in Nat
  BY BootAssumption DEF BootInv, BootTypeOK
<1>2. pc[s] \in {"load", "asked", "again"} => i[s] < Tries
  BY DEF BootInv, AttemptInv
<1>3. RunLeft(s) \in Nat /\ RunLeft(s) # 0
  BY RunCounts DEF RunCounted
<1>4. CASE pc'[s] \in AtRest
  <2>1. RunLeft(s)' = 0
    BY <1>4 DEF RunLeft, AtRest, Verdicts
  <2> QED
    BY <1>3, <2>1
<1>5. CASE i'[s] = i[s] /\ Follows(pc[s], pc'[s])
  BY <1>1, <1>2, <1>5 DEF RunLeft, Follows
<1>6. CASE i'[s] = i[s] + 1 /\ pc[s] = "again" /\ pc'[s] = "head"
  BY <1>1, <1>2, <1>6 DEF RunLeft
<1> QED
  BY <1>4, <1>5, <1>6 DEF Shortens

LEMMA GoesShortens ==
    ASSUME BootInv, NEW s \in Scripts, NEW a, NEW b, Goes(s, a, b),
           b \in AtRest \/ Follows(a, b)
    PROVE  Shortens(s)
<1>1. pc[s] = a /\ pc'[s] = b
  BY DEF Goes, BootInv, BootTypeOK
<1>2. b \notin AtRest => i'[s] = i[s]
  BY DEF Goes, BootInv, BootTypeOK
<1> QED
  BY <1>1, <1>2 DEF Shortens

\* A script's own step.
LEMMA OwnStepShortens ==
    ASSUME BootInv, NEW s \in Scripts, ScriptProceeds(s)
    PROVE  Shortens(s)
<1>t. pc \in [Scripts -> AtRest \cup Running] /\ i \in [Scripts -> 0..Tries]
  BY DEF BootInv, BootTypeOK
<1>1. CASE Gate(s)
  <2>1. PICK b \in {"disarmed", "head", "missing"} : Goes(s, "gate", b)
    BY <1>1 DEF Gate
  <2>2. b \in AtRest \/ Follows("gate", b)
    BY DEF AtRest, Verdicts, Follows
  <2> QED
    BY <2>1, <2>2, GoesShortens
<1>2. CASE TestLoop(s)
  <2>1. PICK b \in {"load", "final"} : Goes(s, "head", b)
    BY <1>2 DEF TestLoop
  <2>2. Follows("head", b)
    BY DEF Follows
  <2> QED
    BY <2>1, <2>2, GoesShortens
<1>3. CASE AskInVain(s)
  <2>1. Goes(s, "load", "again") /\ Follows("load", "again")
    BY <1>3 DEF AskInVain, Follows
  <2> QED
    BY <2>1, GoesShortens
<1>4. CASE AskUnapproved(s)
  <2>1. Goes(s, "load", "unapproved") /\ "unapproved" \in AtRest
    BY <1>4 DEF AskUnapproved, AtRest, Verdicts
  <2> QED
    BY <2>1, GoesShortens
<1>5. CASE AskLoad(s)
  <2>1. pc[s] = "load" /\ i'[s] = i[s]
    BY <1>5 DEF AskLoad
  <2>2. pc'[s] = "again" \/ pc'[s] = "asked"
    BY <1>t, <1>5 DEF AskLoad
  <2> QED
    BY <2>1, <2>2 DEF Shortens, Follows
<1>6. CASE Again(s)
  <2>1. CASE kext_loaded
    <3>1. Goes(s, "again", "final") /\ Follows("again", "final")
      BY <1>6, <2>1 DEF Again, Follows
    <3> QED
      BY <3>1, GoesShortens
  <2>2. CASE ~kext_loaded
    <3>1. pc[s] = "again" /\ pc'[s] = "head" /\ i'[s] = i[s] + 1
      BY <1>t, <1>6, <2>2 DEF Again
    <3> QED
      BY <3>1 DEF Shortens
  <2> QED
    BY <2>1, <2>2
<1>7. CASE Final(s)
  <2>1. PICK b \in {"verify", "gaveup"} : Goes(s, "final", b)
    BY <1>7 DEF Final
  <2>2. b \in AtRest \/ Follows("final", b)
    BY DEF AtRest, Verdicts, Follows
  <2> QED
    BY <2>1, <2>2, GoesShortens
<1>8. CASE Verify(s)
  <2>1. PICK b \in {"registered", "warned"} : Goes(s, "verify", b)
    BY <1>8 DEF Verify
  <2>2. b \in AtRest
    BY DEF AtRest, Verdicts
  <2> QED
    BY <2>1, <2>2, GoesShortens
<1> QED
  BY <1>1, <1>2, <1>3, <1>4, <1>5, <1>6, <1>7, <1>8 DEF ScriptProceeds

\* What the others and the machine do to a run.
LEMMA StepShortens ==
    ASSUME BootInv, [BootNext]_bootLoaderVars, NEW s \in Scripts,
           pc[s] \in Running
    PROVE  Shortens(s)
<1>t. /\ pc \in [Scripts -> AtRest \cup Running] /\ i \in [Scripts -> 0..Tries]
      /\ Daemon \in Scripts /\ pc[s] \notin AtRest
  BY DEF BootInv, BootTypeOK, Scripts, AtRest, Verdicts, Running
<1>1. ASSUME NEW r \in Scripts, ScriptStep(r)
      PROVE  Shortens(s)
  <2>1. CASE r = s
    BY <1>1, <2>1, OwnStepShortens DEF ScriptStep
  <2>2. CASE r # s
    <3>1. PICK b \in AtRest \cup Running, n \in 0..Tries : Earned(r, b, n)
      BY <1>1, ScriptStepCases DEF ScriptStep
    <3>2. pc'[s] = pc[s] /\ i'[s] = i[s]
      BY <1>t, <2>2, <3>1 DEF Earned
    <3> QED
      BY <3>2 DEF Shortens
  <2> QED
    BY <2>1, <2>2
<1>2. CASE LaunchStep
  <2>1. pc[Daemon] = "due"
    BY <1>2 DEF LaunchStep, RunAtLoad, Goes
  <2>2. s # Daemon
    BY <1>t, <2>1 DEF AtRest
  <2>3. pc'[s] = pc[s] /\ i'[s] = i[s]
    BY <1>t, <1>2, <2>2 DEF LaunchStep, RunAtLoad, Goes
  <2> QED
    BY <2>3 DEF Shortens
<1>3. CASE KextStep
  <2>1. i'[s] = i[s]
    BY <1>3 DEF KextStep, KextProceeds
  <2>2. pc'[s] = pc[s] \/ (pc[s] = "asked" /\ pc'[s] = "again")
    BY <1>3 DEF KextStep, KextProceeds
  <2> QED
    BY <2>1, <2>2 DEF Shortens, Follows
<1>4. ASSUME NEW r \in Operators, MakeLoad(r)
      PROVE  Shortens(s)
  <2>1. pc[r] \in AtRest
    BY <1>4 DEF MakeLoad
  <2>2. s # r
    BY <1>t, <2>1
  <2>3. pc'[s] = pc[s] /\ i'[s] = i[s]
    BY <1>t, <1>4, <2>2 DEF MakeLoad, Goes, Scripts
  <2> QED
    BY <2>3 DEF Shortens
<1>5. CASE \/ \E v \in BOOLEAN : SetFlag(v)
           \/ InstallRemove \/ InstallCopy
           \/ UNCHANGED bootLoaderVars
  <2>1. pc' = pc /\ i' = i
    BY <1>5 DEF SetFlag, InstallRemove, InstallCopy, scriptVars, bootLoaderVars
  <2> QED
    BY <2>1 DEF Shortens
<1>6. CASE Bootstrap \/ Boot
  <2>1. CASE s = Daemon
    <3>1. pc'[s] = "due"
      BY <1>t, <1>6, <2>1 DEF Bootstrap, Boot
    <3> QED
      BY <3>1 DEF Shortens, AtRest
  <2>2. CASE s # Daemon
    <3>1. pc'[s] = pc[s] /\ i'[s] = i[s]
      BY <1>t, <1>6, <2>2 DEF Bootstrap, Boot
    <3> QED
      BY <3>1 DEF Shortens
  <2> QED
    BY <2>1, <2>2
<1>7. CASE ShutDown \/ Freeze
  <2>1. pc'[s] = "off"
    BY <1>7 DEF ShutDown, Freeze, LoseMemory
  <2> QED
    BY <2>1 DEF Shortens, AtRest
<1> QED
  BY <1>1, <1>2, <1>3, <1>4, <1>5, <1>6, <1>7 DEF BootNext, OperatorStep

\* sedarwin-load:68-93: the safety half of RunsEnd, for any number of scripts
\* and attempts and whatever kmutil answers.
THEOREM BootRunsShorten == BootSpec => RunsShorten
<1>1. BootInv => RunCounted
  BY RunCounts
<1>2. BootInv /\ RunCounted /\ RunCounted' /\ [BootNext]_bootLoaderVars =>
        \A s \in Scripts : pc[s] \in Running =>
            /\ RunLeft(s) \in Nat \ {0} /\ RunLeft(s)' \in Nat
            /\ \/ RunLeft(s)' < RunLeft(s)
               \/ pc'[s] = pc[s] /\ i'[s] = i[s]
  <2> SUFFICES ASSUME BootInv, RunCounted, RunCounted',
                      [BootNext]_bootLoaderVars,
                      NEW s \in Scripts, pc[s] \in Running
               PROVE  /\ RunLeft(s) \in Nat \ {0} /\ RunLeft(s)' \in Nat
                      /\ \/ RunLeft(s)' < RunLeft(s)
                         \/ pc'[s] = pc[s] /\ i'[s] = i[s]
    OBVIOUS
  <2>1. RunLeft(s) \in Nat /\ RunLeft(s) # 0 /\ RunLeft(s)' \in Nat
    BY DEF RunCounted
  <2>2. RunLeft(s)' < RunLeft(s) \/ (pc'[s] = pc[s] /\ i'[s] = i[s])
    BY StepShortens, RunShorter
  <2> QED
    BY <2>1, <2>2
<1> QED
  BY <1>1, <1>2, BootInductive, PTL DEF BootSpec, RunsShorten
=============================================================================
