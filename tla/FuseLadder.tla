----------------------------- MODULE FuseLadder -----------------------------
(***************************************************************************)
(* tools/sedarwin-fuse-ladder against the kext: the script arms the lookup *)
(* hook with one fuse after another and logs each attempt to disk first,   *)
(* because the machine may freeze at any dispatch past a threshold nobody  *)
(* knows.  A freeze loses what has been written and not yet synced.        *)
(***************************************************************************)
EXTENDS Integers, Sequences, FiniteSets

CONSTANTS
    Ladder,     \* the fuses to try, in order
    Thresholds, \* the counts at which the machine may turn out to freeze
    InFlight    \* dispatches that may land after the slot is cleared

ASSUME LadderAssumption ==
    /\ Ladder \in Seq(Nat \ {0}) /\ Ladder # <<>>
    /\ Thresholds \subseteq Nat \ {0}
    /\ InFlight \in Nat

VARIABLES
    step,       \* the script's position in the loop body
    rung,       \* the index in Ladder
    cache,      \* log lines written and not yet on disk
    disk,       \* log lines that survive a freeze
    armed,      \* the lookup slot is installed
    late,       \* dispatches that can still land on a cleared slot
    fuse,       \* sedarwin.lookup_fuse
    count,      \* sedarwin.lookup_count
    settles,    \* SETTLE is long enough for every fuse to be used up
    threshold,  \* the dispatch count that wedges this machine
    alive,      \* the machine runs
    culprit     \* history: the fuse the slot was last armed with

kextVars == <<armed, late, fuse, count>>
logVars == <<cache, disk>>
machineVars == <<settles, threshold, alive>>
vars == <<step, rung, logVars, kextVars, machineVars, culprit>>

Steps == {"try", "synctry", "reset", "fuse", "arm", "sleep", "survive",
          "syncsurvive", "finished"}
Line == {"trying", "survived"} \X {Ladder[k] : k \in 1..Len(Ladder)}

TypeOK ==
    /\ step \in Steps
    /\ rung \in 1..Len(Ladder)
    /\ cache \in Seq(Line) /\ disk \in Seq(Line)
    /\ armed \in BOOLEAN /\ late \in 0..InFlight
    /\ fuse \in Nat /\ count \in Nat
    /\ settles \in BOOLEAN /\ threshold \in Thresholds /\ alive \in BOOLEAN
    /\ culprit \in Nat

\* The kext is loaded and nothing is armed; 16 is the default fuse.
Init ==
    /\ step = "try" /\ rung = 1
    /\ cache = <<>> /\ disk = <<>>
    /\ armed = FALSE /\ late = 0 /\ fuse = 16 /\ count = 0
    /\ settles \in BOOLEAN /\ threshold \in Thresholds
    /\ alive = TRUE /\ culprit = 0

-----------------------------------------------------------------------------
Goto(a, b) == alive /\ step = a /\ step' = b

\* note(): the line is appended to the log ...
Write(line) == cache' = Append(cache, line) /\ UNCHANGED disk

\* Mutant: note() without the sync.
SyncForgotten == UNCHANGED <<cache, disk>>

\* ... and sync puts the log on disk.
Sync == disk' = disk \o cache /\ cache' = <<>>

NoteTrying ==
    /\ Goto("try", "synctry")
    /\ Write(<<"trying", Ladder[rung]>>)
    /\ UNCHANGED <<rung, kextVars, machineVars, culprit>>

\* Mutant: the attempt is not synced before the hook is armed.
SyncTryingSkipped ==
    /\ Goto("synctry", "reset")
    /\ UNCHANGED <<rung, logVars, kextVars, machineVars, culprit>>

SyncTrying ==
    /\ Goto("synctry", "reset")
    /\ Sync
    /\ UNCHANGED <<rung, kextVars, machineVars, culprit>>

\* sysctl -w takes its arguments one after the other: the counters first ...
ResetCounters ==
    /\ Goto("reset", "fuse")
    /\ count' = 0
    /\ UNCHANGED <<rung, logVars, armed, late, fuse, machineVars, culprit>>

\* Mutant: the fuse keeps its old value.
SetFuseForgotten ==
    /\ Goto("fuse", "arm")
    /\ UNCHANGED <<rung, logVars, kextVars, machineVars, culprit>>

\* ... then the fuse, and the second key.
SetFuse ==
    /\ Goto("fuse", "arm")
    /\ fuse' = Ladder[rung]
    /\ UNCHANGED <<rung, logVars, armed, late, count, machineVars, culprit>>

\* sysctl -w sedarwin.hooks=0x10.  Dispatches that the rung before left in
\* flight count as dispatches of the armed slot from now on: `late` is for those
\* that land on a cleared slot.
Arm ==
    /\ Goto("arm", "sleep")
    /\ armed' = TRUE /\ late' = 0
    /\ culprit' = Ladder[rung]
    /\ UNCHANGED <<rung, logVars, fuse, count, machineVars>>

\* Mutant: poll until the count is the fuse, instead of a fixed time.
SettleByCount ==
    /\ Goto("sleep", "survive")
    /\ count = fuse
    /\ UNCHANGED <<rung, logVars, kextVars, machineVars, culprit>>

\* sleep "$SETTLE": the script does not look whether the fuse is used up.
Settle ==
    /\ Goto("sleep", "survive")
    /\ settles => ~armed /\ late = 0
    /\ UNCHANGED <<rung, logVars, kextVars, machineVars, culprit>>

NoteSurvived ==
    /\ Goto("survive", "syncsurvive")
    /\ Write(<<"survived", Ladder[rung]>>)
    /\ UNCHANGED <<rung, kextVars, machineVars, culprit>>

SyncSurvived ==
    /\ alive /\ step = "syncsurvive"
    /\ Sync
    /\ IF rung = Len(Ladder)
         THEN step' = "finished" /\ UNCHANGED rung
         ELSE step' = "try" /\ rung' = rung + 1
    /\ UNCHANGED <<kextVars, machineVars, culprit>>

Script ==
    \/ NoteTrying \/ SyncTrying \/ ResetCounters \/ SetFuse \/ Arm \/ Settle
    \/ NoteSurvived \/ SyncSurvived

-----------------------------------------------------------------------------
\* A dispatch lands: the slot is armed, or was when the framework loaded it.
\* At the threshold the machine freezes, with any part of the cache written
\* back; below it the fuse clears the slot, with some dispatches in flight.
Lookup ==
    /\ alive
    /\ armed \/ late > 0
    /\ count' = count + 1
    /\ IF count + 1 >= threshold
         THEN /\ alive' = FALSE
              /\ \E k \in 0..Len(cache) : disk' = disk \o SubSeq(cache, 1, k)
              /\ cache' = <<>>
              /\ UNCHANGED <<armed, late>>
         ELSE /\ armed' = (armed /\ count + 1 < fuse)
              /\ late' \in IF armed' THEN {0}
                            ELSE IF armed THEN 0..InFlight ELSE {late - 1}
              /\ UNCHANGED <<alive, disk, cache>>
    /\ UNCHANGED <<step, rung, fuse, settles, threshold, culprit>>

Next == Script \/ Lookup

\* The script is run to its end unless the machine freezes, and lookups go on.
Spec == Init /\ [][Next]_vars /\ WF_vars(Script) /\ WF_vars(Lookup)

-----------------------------------------------------------------------------
Tried == {disk[k][2] : k \in {j \in 1..Len(disk) : disk[j][1] = "trying"}}

\* sedarwin-fuse-ladder:8-9: each attempt is "flushed to disk BEFORE arming".
\* When the machine has frozen, the fuse it froze with is in the log.
CulpritLogged == ~alive => culprit \in Tried

\* A ladder that stays clear of the threshold does not freeze the machine.  A
\* slot left armed by the rung before may use up the new fuse ahead of the new
\* arming, which does not reset the count: then one more dispatch lands before
\* the fuse blows again, and both times some are in flight.
ClearLadderSurvives ==
    (\A k \in 1..Len(Ladder) : Ladder[k] + 2 * InFlight + 1 < threshold)
        => alive

\* The log ends with the last rung or with the freeze.
LadderEnds == <>(step = "finished" \/ ~alive)

\* sedarwin-fuse-ladder:14-15: 'The last "trying fuse=N" with no matching
\* "survived" line is the value that killed it'.
UnmatchedIsCulprit ==
    ~alive => \E k \in 1..Len(disk) :
        /\ disk[k] = <<"trying", culprit>>
        /\ \A j \in (k + 1)..Len(disk) :
                disk[j][1] # "trying" /\ disk[j] # <<"survived", culprit>>

\* The same for a machine that uses up every fuse within SETTLE: then the log
\* can be read the way the script's header says.
SettledNamesCulprit == settles => UnmatchedIsCulprit
=============================================================================
