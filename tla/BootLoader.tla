----------------------------- MODULE BootLoader -----------------------------
(***************************************************************************)
(* tools/sedarwin-load, run by launchd at boot and by `make load`, on a    *)
(* machine whose kext may wedge it.  The kext is PolicyLifecycle, without  *)
(* unloads and with no hook traffic.  A reboot clears the kernel and the   *)
(* running scripts; the arm flag and the installed bundle survive it.      *)
(*                                                                         *)
(* Outside this repository, and modelled from how the script uses it:      *)
(* `kmutil load` may not be ready yet, refuses a bundle that the user has  *)
(* not approved, and otherwise returns when the start routine has; a user's*)
(* approval of a bundle takes effect at a boot; `kmutil showloaded` lists  *)
(* a kext from the moment its module is mapped.                            *)
(***************************************************************************)
EXTENDS PolicyLifecycle

CONSTANTS
    Daemon,     \* the script as launchd runs it
    Operators,  \* the scripts that `make load` runs, with --force
    Tries,      \* TRIES
    Transient   \* bound: how often kmutil is not ready in one boot

ASSUME BootAssumption ==
    Tries \in Nat \ {0} /\ Transient \in Nat /\ Daemon \notin Operators

Scripts == {Daemon} \cup Operators

VARIABLES
    pc,         \* where each script is, or how its last run ended
    i,          \* the script's local: failed attempts so far
    flag,       \* /var/db/sedarwin.enabled exists
    installed,  \* the bundle is in /Library/Extensions
    making,     \* where `make install` is
    approved,   \* the installed build is approved and in the collection
    power,      \* "up", "off", or "hung" until it is switched off
    notReady,   \* times kmutil was not ready since the boot
    excused     \* history: since the boot a start failed or the bundle went

scriptVars == <<pc, i>>
diskVars == <<flag, installed, making>>
bootVars == <<approved, power, notReady, excused>>
bootLoaderVars == <<lifecycleVars, scriptVars, diskVars, bootVars>>

Verdicts == {"disarmed", "missing", "unapproved", "gaveup", "registered",
             "warned"}
AtRest == {"off", "due"} \cup Verdicts
Running == {"gate", "head", "load", "asked", "again", "final", "verify"}

BootTypeOK ==
    /\ LifecycleTypeOK
    /\ pc \in [Scripts -> AtRest \cup Running]
    /\ i \in [Scripts -> 0..Tries]
    /\ making \in {"idle", "copy", "bootstrap"}
    /\ notReady \in 0..Transient
    /\ power \in {"up", "off", "hung"}
    /\ {flag, installed, approved, excused} \subseteq BOOLEAN

\* launchd is about to run the daemon; nobody has armed it yet.
BootInit ==
    /\ LifecycleInit
    /\ pc = [s \in Scripts |-> IF s = Daemon THEN "due" ELSE "off"]
    /\ i = [s \in Scripts |-> 0]
    /\ flag = FALSE
    /\ making = "idle"
    /\ installed \in BOOLEAN /\ approved \in BOOLEAN
    /\ power = "up" /\ excused = FALSE
    /\ notReady = 0

-----------------------------------------------------------------------------
(* The script                                                              *)

\* Script s goes from label a to label b; a run that ends forgets its locals.
Goes(s, a, b) ==
    /\ pc[s] = a
    /\ pc' = [pc EXCEPT ![s] = b]
    /\ i' = [i EXCEPT ![s] = IF b \in AtRest THEN 0 ELSE @]
    /\ UNCHANGED <<diskVars, approved, power>>

Quietly == UNCHANGED <<lifecycleVars, notReady, excused>>

\* kmutil showloaded | grep
kext_loaded == loaded

\* RunAtLoad: once per boot and per bootstrap, KeepAlive is false.
RunAtLoad == Goes(Daemon, "due", "gate") /\ Quietly

MakeLoad(s) ==
    /\ s \in Operators
    /\ Goes(s, pc[s], "gate") /\ pc[s] \in AtRest
    /\ Quietly

\* Mutant: the arm flag is not looked at.
GateOpen(s) ==
    /\ Goes(s, "gate", IF installed THEN "head" ELSE "missing")
    /\ Quietly

\* The arm flag, which --force skips, and the bundle.
Gate(s) ==
    /\ Goes(s, "gate", IF s = Daemon /\ ~flag THEN "disarmed"
                       ELSE IF installed THEN "head" ELSE "missing")
    /\ Quietly

\* Mutant: one attempt less.
TestLoopOneShort(s) ==
    /\ Goes(s, "head",
            IF i[s] < Tries - 1 /\ ~kext_loaded THEN "load" ELSE "final")
    /\ Quietly

\* Mutant: -le where -lt should be.
TestLoopOneMore(s) ==
    /\ Goes(s, "head",
            IF i[s] <= Tries /\ ~kext_loaded THEN "load" ELSE "final")
    /\ Quietly

\* while [ "$i" -lt "$TRIES" ]; do if kext_loaded; then break
TestLoop(s) ==
    /\ Goes(s, "head",
            IF i[s] < Tries /\ ~kext_loaded THEN "load" ELSE "final")
    /\ Quietly

\* kmutil cannot serve the request: not ready yet, or no bundle to load.
AskInVain(s) ==
    /\ Goes(s, "load", "again")
    /\ \/ notReady < Transient /\ notReady' = notReady + 1
       \/ ~installed /\ UNCHANGED notReady
    /\ UNCHANGED <<lifecycleVars, excused>>

\* The answer says "not approved": the script stops at once.
AskUnapproved(s) ==
    /\ installed /\ ~approved
    /\ Goes(s, "load", "unapproved")
    /\ Quietly

\* The kernel loads the kext, unless it has it or another request is loading
\* it; kmutil returns when the start routine has.
AskLoad(s) ==
    /\ installed /\ approved
    /\ pc[s] = "load"
    /\ pc' = [pc EXCEPT ![s] = IF lpc = "running" THEN "again" ELSE "asked"]
    /\ IF lpc = "unloaded"
         THEN Load
         ELSE UNCHANGED <<lpc, index, kernelVars, stateVars, controlVars, at,
                          historyVars>>
    /\ UNCHANGED <<loads, i, diskVars, approved, power, notReady, excused>>

\* Mutant: a failed attempt is not counted.
AgainForever(s) ==
    /\ Goes(s, "again", IF kext_loaded THEN "final" ELSE "head")
    /\ Quietly

\* kext_loaded && break; i=$((i + 1)); sleep 1
Again(s) ==
    /\ pc[s] = "again"
    /\ IF kext_loaded
         THEN Goes(s, "again", "final")
         ELSE /\ pc' = [pc EXCEPT ![s] = "head"]
              /\ i' = [i EXCEPT ![s] = @ + 1]
              /\ UNCHANGED <<diskVars, approved, power>>
    /\ Quietly

Final(s) ==
    /\ Goes(s, "final", IF kext_loaded THEN "verify" ELSE "gaveup")
    /\ Quietly

\* Mutant: a kext that has been seen loaded is taken for registered.
VerifyNothing(s) == Goes(s, "verify", "registered") /\ Quietly

\* sysctl -n sedarwin.hooks
Verify(s) ==
    /\ Goes(s, "verify", IF Linked(HooksOid) THEN "registered" ELSE "warned")
    /\ Quietly

ScriptProceeds(s) ==
    \/ Gate(s) \/ TestLoop(s)
    \/ AskInVain(s) \/ AskUnapproved(s) \/ AskLoad(s)
    \/ Again(s) \/ Final(s) \/ Verify(s)

-----------------------------------------------------------------------------
(* The operator, `make install` and the machine                            *)

\* touch or rm /var/db/sedarwin.enabled
SetFlag(v) ==
    /\ flag' = v
    /\ UNCHANGED <<lifecycleVars, scriptVars, bootVars>>
    /\ UNCHANGED <<installed, making>>

\* The old bundle is removed first ...
InstallRemove ==
    /\ making = "idle" /\ making' = "copy"
    /\ installed' = FALSE
    /\ excused' = TRUE
    /\ UNCHANGED <<lifecycleVars, scriptVars, flag>>
    /\ UNCHANGED <<approved, power, notReady>>

\* ... the new one copied, which no approval covers ...
InstallCopy ==
    /\ making = "copy" /\ making' = "bootstrap"
    /\ installed' = TRUE /\ approved' = FALSE
    /\ UNCHANGED <<lifecycleVars, scriptVars, flag>>
    /\ UNCHANGED <<power, notReady, excused>>

\* ... and the daemon booted out and bootstrapped again, which runs it: an arm
\* flag left from the build before is not removed.
Bootstrap ==
    /\ making = "bootstrap" /\ making' = "idle"
    /\ pc' = [pc EXCEPT ![Daemon] = "due"]
    /\ i' = [i EXCEPT ![Daemon] = 0]
    /\ UNCHANGED <<lifecycleVars, flag, installed, bootVars>>

\* The start routine of PolicyLifecycle runs on; at its end every kmutil that
\* waits for it returns.
KextProceeds ==
    /\ LoaderProceeds
    /\ excused' = (excused \/ lpc' = "unlink")
    /\ pc' = [s \in Scripts |->
                IF pc[s] = "asked" /\ lpc' \in {"running", "unloaded"}
                  THEN "again" ELSE pc[s]]
    /\ UNCHANGED <<i, diskVars, approved, power, notReady>>

\* What a machine that goes down loses: the kernel and every process.
LoseMemory ==
    /\ lpc' = "unloaded" /\ index' = 1
    /\ loaded' = FALSE /\ registered' = FALSE /\ attached' = FALSE
    /\ oids' = {} /\ inited' = FALSE
    /\ MapData
    /\ pc' = [s \in Scripts |-> "off"]
    /\ i' = [s \in Scripts |-> 0]
    /\ making' = "idle"
    /\ notReady' = 0 /\ excused' = FALSE
    /\ UNCHANGED <<controlVars, loads, at, historyVars>>
    /\ UNCHANGED <<flag, installed>>

\* A fault in the kext hangs the machine, at any time from its start on.
Freeze ==
    /\ loaded
    /\ power' = "hung"
    /\ LoseMemory
    /\ UNCHANGED approved

ShutDown == power' = "off" /\ LoseMemory /\ UNCHANGED approved

\* A boot: what is on disk has stayed, an approval takes effect or is lost,
\* and launchd is about to run the daemon.
Boot ==
    /\ power # "up"
    /\ power' = "up"
    /\ approved' \in BOOLEAN
    /\ pc' = [pc EXCEPT ![Daemon] = "due"]
    /\ UNCHANGED <<lifecycleVars, i, diskVars, notReady, excused>>

-----------------------------------------------------------------------------
\* What happens on a machine that is up.
ScriptStep(s) == power = "up" /\ ScriptProceeds(s)
LaunchStep == power = "up" /\ RunAtLoad
KextStep == power = "up" /\ KextProceeds

OperatorStep ==
    /\ power = "up"
    /\ \/ \E s \in Operators : MakeLoad(s)
       \/ \E v \in BOOLEAN : SetFlag(v)
       \/ InstallRemove \/ InstallCopy \/ Bootstrap
       \/ ShutDown

BootNext ==
    \/ \E s \in Scripts : ScriptStep(s)
    \/ LaunchStep \/ KextStep \/ OperatorStep
    \/ power = "up" /\ Freeze
    \/ Boot

\* launchd, the scripts and a start routine go on; a machine that is off or
\* hangs is switched on again.
BootFairness ==
    /\ \A s \in Scripts : WF_bootLoaderVars(ScriptStep(s))
    /\ WF_bootLoaderVars(LaunchStep)
    /\ WF_bootLoaderVars(KextStep)
    /\ WF_bootLoaderVars(Boot)

BootSpec == BootInit /\ [][BootNext]_bootLoaderVars /\ BootFairness

-----------------------------------------------------------------------------
\* sedarwin-load:27-31: once the flag is gone and no forced load is under way,
\* a build that wedges the machine does so at most once more: "a power cycle
\* comes back to a working system".  Reboots are not counted, so a boot loop
\* is a behaviour of this model.
DisarmedRecovers ==
    <>[](~flag /\ \A s \in Operators : pc[s] \in AtRest) => <>[](power # "hung")

\* sedarwin-load:68-93: whatever kmutil answers, a run ends or the machine
\* goes down under it.
RunsEnd == \A s \in Scripts : pc[s] \in Running ~> pc[s] \in AtRest

\* sedarwin-load:60-61, "retrying in case kernelmanagement was not ready": when
\* TRIES is more than the times it is not ready, two scripts that share them
\* do not give up unless a start failed or the bundle was taken away.
GivesUpForCause ==
    Transient < Tries => \A s \in Scripts : pc[s] = "gaveup" => excused

\* sedarwin-load:103-105, the sysctl "doubles as confirmation that registration
\* succeeded": so it does when no start routine is under way, whichever script
\* or killed daemon asked for it.  (The oids are linked before
\* mac_policy_register() is called: during a start they confirm nothing.)
ConfirmationTrue ==
    [][\A s \in Scripts :
        /\ pc[s] = "verify" /\ pc'[s] = "registered"
        /\ lpc \in {"unloaded", "running"}
        => attached /\ registered]_bootLoaderVars

=============================================================================
