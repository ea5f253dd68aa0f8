-------------------------- MODULE FuseLadderProofs --------------------------
(***************************************************************************)
(* For every ladder, every threshold and every number of dispatches in     *)
(* flight: the log names the fuse the machine froze with, names it in its  *)
(* last line when every fuse is used up within SETTLE, and a ladder that   *)
(* stays clear of the threshold does not freeze the machine.               *)
(***************************************************************************)
EXTENDS FuseLadder, SequenceTheorems, TLAPS

\* Where the attempt in hand is: in the cache, then on disk, and then it may
\* be what the slot is armed with.
LogInv ==
    /\ alive /\ step = "synctry" =>
            \E k \in 1..Len(cache) : cache[k] = <<"trying", Ladder[rung]>>
    /\ step \in {"reset", "fuse", "arm"} => Ladder[rung] \in Tried
    /\ armed \/ late > 0 \/ ~alive => culprit \in Tried

\* The threshold is out of reach of the ladder.
Clear == \A k \in 1..Len(Ladder) : Ladder[k] + 2 * InFlight + 1 < threshold

\* The largest fuse that a clear ladder can hold.
Reach == threshold - 2 * InFlight - 2

\* What the count can grow to before the slot is cleared for good.
CountInv ==
    /\ alive
    /\ armed \/ step = "arm" => fuse <= Reach
    /\ step \in {"fuse", "arm"} =>
        /\ armed => count < Reach
        /\ ~armed => count + late <= Reach + InFlight
    /\ step \notin {"fuse", "arm"} =>
        /\ armed => count <= Reach + InFlight
        /\ ~armed => count + late <= Reach + 2 * InFlight + 1

\* The last line on disk.
Ends(line) == disk # <<>> /\ disk[Len(disk)] = line

\* Where every fuse is used up within SETTLE, lookups land during the sleep
\* only, when the cache is on disk and the attempt in hand is its last line.
SettledInv ==
    /\ alive /\ step # "sleep" => ~armed /\ late = 0
    /\ alive /\ step \notin {"synctry", "syncsurvive"} => cache = <<>>
    /\ alive /\ step = "synctry" => cache = <<(<<"trying", Ladder[rung]>>)>>
    /\ alive /\ step \in {"reset", "fuse", "arm", "sleep"} =>
            Ends(<<"trying", Ladder[rung]>>)
    /\ alive /\ step = "sleep" => culprit = Ladder[rung]
    /\ ~alive => Ends(<<"trying", culprit>>)

-----------------------------------------------------------------------------
\* The rung in hand is a fuse of the ladder.
LEMMA RungIsFuse ==
    ASSUME TypeOK
    PROVE  Ladder[rung] \in Nat \ {0}
  BY LadderAssumption DEF TypeOK

\* What goes to disk stays there, and each line of it is found again.
LEMMA DiskGrows ==
    ASSUME disk \in Seq(Line), NEW s \in Seq(Line), disk' = disk \o s
    PROVE  /\ disk' \in Seq(Line)
           /\ Tried \subseteq Tried'
           /\ \A k \in 1..Len(s) : s[k][1] = "trying" => s[k][2] \in Tried'
<1>1. /\ disk' \in Seq(Line) /\ Len(disk') = Len(disk) + Len(s)
      /\ \A k \in 1..(Len(disk) + Len(s)) :
            disk'[k] = IF k <= Len(disk) THEN disk[k] ELSE s[k - Len(disk)]
  BY ConcatProperties
<1>2. Len(disk) \in Nat /\ Len(s) \in Nat
  OBVIOUS
<1>3. ASSUME NEW k \in 1..Len(disk), disk[k][1] = "trying"
      PROVE  disk[k][2] \in Tried'
  <2>1. k \in 1..Len(disk') /\ disk'[k] = disk[k]
    BY <1>1, <1>2, <1>3
  <2> QED
    BY <1>3, <2>1 DEF Tried
<1>4. ASSUME NEW k \in 1..Len(s), s[k][1] = "trying"
      PROVE  s[k][2] \in Tried'
  <2>1. Len(disk) + k \in 1..Len(disk') /\ disk'[Len(disk) + k] = s[k]
    BY <1>1, <1>2, <1>4
  <2> QED
    BY <1>4, <2>1 DEF Tried
<1> QED
  BY <1>1, <1>3, <1>4 DEF Tried

\* Every step keeps the types.
LEMMA TypeStep == TypeOK /\ [Next]_vars => TypeOK'
<1> SUFFICES ASSUME TypeOK, [Next]_vars
             PROVE  TypeOK'
  OBVIOUS
<1> USE LadderAssumption
<1>r. Ladder[rung] \in Nat \ {0} /\ rung \in 1..Len(Ladder)
      /\ \A kind \in {"trying", "survived"} : <<kind, Ladder[rung]>> \in Line
  BY RungIsFuse DEF TypeOK, Line
<1>1. ASSUME NEW kind \in {"trying", "survived"},
             Write(<<kind, Ladder[rung]>>)
      PROVE  cache' \in Seq(Line) /\ disk' \in Seq(Line)
  <2>1. <<kind, Ladder[rung]>> \in Line
    BY <1>r
  <2>2. cache' = Append(cache, <<kind, Ladder[rung]>>) /\ disk' = disk
    BY <1>1 DEF Write
  <2>3. cache \in Seq(Line) /\ disk \in Seq(Line)
    BY DEF TypeOK
  <2> HIDE DEF Line
  <2> QED
    BY <2>1, <2>2, <2>3
<1>2. ASSUME Sync
      PROVE  cache' \in Seq(Line) /\ disk' \in Seq(Line)
  BY <1>2 DEF Sync, TypeOK
<1>3. CASE NoteTrying
  BY <1>1, <1>3
     DEF NoteTrying, Goto, TypeOK, Steps, kextVars, machineVars
<1>4. CASE SyncTrying
  BY <1>2, <1>4 DEF SyncTrying, Goto, TypeOK, Steps, kextVars, machineVars
<1>5. CASE ResetCounters
  BY <1>5 DEF ResetCounters, Goto, TypeOK, Steps, logVars, machineVars
<1>6. CASE SetFuse
  BY <1>r, <1>6 DEF SetFuse, Goto, TypeOK, Steps, logVars, machineVars
<1>7. CASE Arm
  BY <1>r, <1>7 DEF Arm, Goto, TypeOK, Steps, logVars, machineVars
<1>8. CASE Settle
  BY <1>8 DEF Settle, Goto, TypeOK, Steps, logVars, kextVars, machineVars
<1>9. CASE NoteSurvived
  BY <1>1, <1>9
     DEF NoteSurvived, Goto, TypeOK, Steps, kextVars, machineVars
<1>10. CASE SyncSurvived
  BY <1>r, <1>2, <1>10
     DEF SyncSurvived, TypeOK, Steps, kextVars, machineVars
<1>11. CASE Lookup
  <2>1. count' \in Nat /\ step' = step /\ rung' = rung /\ fuse' = fuse
        /\ settles' = settles /\ threshold' = threshold /\ culprit' = culprit
    BY <1>11 DEF Lookup, TypeOK
  <2>2. CASE count + 1 >= threshold
    <3>1. PICK k \in 0..Len(cache) : disk' = disk \o SubSeq(cache, 1, k)
      BY <1>11, <2>2 DEF Lookup
    <3>2. SubSeq(cache, 1, k) \in Seq(Line)
      BY SubSeqProperties DEF TypeOK
    <3>3. disk' \in Seq(Line)
      BY <3>1, <3>2 DEF TypeOK
    <3>4. /\ cache' = <<>> /\ alive' = FALSE
          /\ armed' = armed /\ late' = late
      BY <1>11, <2>2 DEF Lookup
    <3>5. alive' \in BOOLEAN
      BY <3>4, Zenon
    <3> QED
      BY <2>1, <3>3, <3>4, <3>5 DEF TypeOK
  <2>3. CASE ~(count + 1 >= threshold)
    <3>1. /\ cache' = cache /\ disk' = disk /\ alive' = alive
          /\ armed' = (armed /\ count + 1 < fuse)
          /\ late' \in IF armed' THEN {0}
                         ELSE IF armed THEN 0..InFlight ELSE {late - 1}
          /\ armed \/ late > 0
      BY <1>11, <2>3 DEF Lookup
    <3>2. late' \in 0..InFlight
      BY <3>1, LadderAssumption DEF TypeOK
    <3>3. armed' \in BOOLEAN
      BY <3>1
    <3> QED
      BY <2>1, <3>1, <3>2, <3>3 DEF TypeOK
  <2> QED
    BY <2>2, <2>3
<1>12. CASE UNCHANGED vars
  BY <1>12 DEF vars, kextVars, logVars, machineVars, TypeOK
<1> QED
  BY <1>3, <1>4, <1>5, <1>6, <1>7, <1>8, <1>9, <1>10, <1>11, <1>12
     DEF Next, Script

-----------------------------------------------------------------------------
\* Every step keeps the attempt in hand in the log.
LEMMA LogStep == TypeOK /\ LogInv /\ [Next]_vars => LogInv'
<1> SUFFICES ASSUME TypeOK, LogInv, [Next]_vars
             PROVE  LogInv'
  OBVIOUS
<1> USE LadderAssumption
<1>r. <<"trying", Ladder[rung]>> \in Line
  BY RungIsFuse DEF TypeOK, Line
<1>t. cache \in Seq(Line) /\ disk \in Seq(Line)
  BY DEF TypeOK
<1>1. CASE NoteTrying
  <2>1. /\ cache' = Append(cache, <<"trying", Ladder[rung]>>)
        /\ Tried' = Tried
        /\ UNCHANGED <<rung, armed, late, alive, culprit>>
        /\ step' = "synctry"
    BY <1>1 DEF NoteTrying, Goto, Write, kextVars, machineVars, Tried
  <2>2. /\ Len(cache) + 1 \in 1..Len(cache')
        /\ cache'[Len(cache) + 1] = <<"trying", Ladder[rung]>>
    BY <1>r, <1>t, <2>1
  <2> QED
    BY <2>1, <2>2 DEF LogInv
<1>2. CASE SyncTrying
  <2>1. /\ disk' = disk \o cache
        /\ UNCHANGED <<rung, armed, late, alive, culprit>>
        /\ alive /\ step = "synctry" /\ step' = "reset"
    BY <1>2 DEF SyncTrying, Goto, Sync, kextVars, machineVars
  <2>2. /\ Tried \subseteq Tried'
        /\ \A k \in 1..Len(cache) :
                cache[k][1] = "trying" => cache[k][2] \in Tried'
    BY <1>t, <2>1, DiskGrows
  <2>3. PICK k \in 1..Len(cache) : cache[k] = <<"trying", Ladder[rung]>>
    BY <2>1 DEF LogInv
  <2>4. Ladder[rung] \in Tried'
    BY <2>2, <2>3
  <2> QED
    BY <2>1, <2>2, <2>4 DEF LogInv
<1>3. CASE ResetCounters
  <2>1. /\ UNCHANGED <<rung, armed, late, alive, culprit>>
        /\ step = "reset" /\ step' = "fuse" /\ Tried' = Tried
    BY <1>3 DEF ResetCounters, Goto, logVars, machineVars, Tried
  <2> QED
    BY <2>1 DEF LogInv
<1>4. CASE SetFuse
  <2>1. /\ UNCHANGED <<rung, armed, late, alive, culprit>>
        /\ step = "fuse" /\ step' = "arm" /\ Tried' = Tried
    BY <1>4 DEF SetFuse, Goto, logVars, machineVars, Tried
  <2> QED
    BY <2>1 DEF LogInv
<1>5. CASE Arm
  <2>1. /\ UNCHANGED <<rung, alive>> /\ culprit' = Ladder[rung]
        /\ step = "arm" /\ step' = "sleep" /\ Tried' = Tried
    BY <1>5 DEF Arm, Goto, logVars, machineVars, Tried
  <2> QED
    BY <2>1 DEF LogInv
<1>6. CASE Settle
  <2>1. /\ UNCHANGED <<rung, armed, late, alive, culprit>>
        /\ step' = "survive" /\ Tried' = Tried
    BY <1>6 DEF Settle, Goto, logVars, kextVars, machineVars, Tried
  <2> QED
    BY <2>1 DEF LogInv
<1>7. CASE NoteSurvived
  <2>1. /\ UNCHANGED <<rung, armed, late, alive, culprit>>
        /\ step' = "syncsurvive" /\ Tried' = Tried
    BY <1>7 DEF NoteSurvived, Write, Goto, kextVars, machineVars, Tried
  <2> QED
    BY <2>1 DEF LogInv
<1>8. CASE SyncSurvived
  <2>1. /\ disk' = disk \o cache
        /\ UNCHANGED <<armed, late, alive, culprit>>
        /\ step' \in {"finished", "try"}
    BY <1>8 DEF SyncSurvived, Sync, kextVars, machineVars
  <2>2. Tried \subseteq Tried'
    BY <1>t, <2>1, DiskGrows
  <2> QED
    BY <2>1, <2>2 DEF LogInv
<1>9. CASE Lookup
  <2>1. /\ UNCHANGED <<step, rung, culprit>>
        /\ culprit \in Tried
    BY <1>9 DEF Lookup, LogInv
  <2>2. CASE count + 1 >= threshold
    <3>1. PICK k \in 0..Len(cache) : disk' = disk \o SubSeq(cache, 1, k)
      BY <1>9, <2>2 DEF Lookup
    <3>2. SubSeq(cache, 1, k) \in Seq(Line)
      BY <1>t, SubSeqProperties
    <3>3. Tried \subseteq Tried'
      BY <1>t, <3>1, <3>2, DiskGrows
    <3>4. ~alive'
      BY <1>9, <2>2 DEF Lookup
    <3> QED
      BY <2>1, <3>3, <3>4 DEF LogInv
  <2>3. CASE ~(count + 1 >= threshold)
    <3>1. UNCHANGED <<cache, alive>> /\ Tried' = Tried
      BY <1>9, <2>3 DEF Lookup, Tried
    <3> QED
      BY <2>1, <3>1 DEF LogInv
  <2> QED
    BY <2>2, <2>3
<1>10. CASE UNCHANGED vars
  BY <1>10 DEF vars, kextVars, logVars, machineVars, LogInv, Tried
<1> QED
  BY <1>1, <1>2, <1>3, <1>4, <1>5, <1>6, <1>7, <1>8, <1>9, <1>10
     DEF Next, Script

-----------------------------------------------------------------------------
\* A clear ladder holds fuses within Reach only.
LEMMA ClearReach ==
    ASSUME TypeOK, Clear
    PROVE  /\ Reach \in Int /\ Reach >= 1
           /\ Ladder[rung] \in Nat \ {0} /\ Ladder[rung] <= Reach
           /\ threshold \in Nat
<1>1. rung \in 1..Len(Ladder) /\ threshold \in Nat /\ InFlight \in Nat
  BY LadderAssumption DEF TypeOK
<1>2. Ladder[rung] \in Nat \ {0}
  BY RungIsFuse
<1>3. Ladder[rung] + 2 * InFlight + 1 < threshold
  BY <1>1 DEF Clear
<1> QED
  BY <1>1, <1>2, <1>3 DEF Reach

\* One dispatch more and those in flight, past a bound on the count.
LEMMA Overshoot ==
    ASSUME NEW c \in Nat, NEW l \in Nat, NEW f \in Nat, NEW b \in Int, l <= f
    PROVE  /\ c < b => c + 1 + l <= b + f
           /\ c <= b + f => c + 1 + l <= b + 2 * f + 1
  OBVIOUS

\* Every step of a clear ladder keeps the count within bounds.
LEMMA CountStep ==
    TypeOK /\ (Clear => CountInv) /\ [Next]_vars => (Clear' => CountInv')
<1> SUFFICES ASSUME TypeOK, Clear => CountInv, [Next]_vars, Clear'
             PROVE  CountInv'
  OBVIOUS
<1>0. threshold' = threshold
  BY DEF Next, Script, NoteTrying, SyncTrying, ResetCounters, SetFuse, Arm,
         Settle, NoteSurvived, SyncSurvived, Lookup, machineVars, vars
<1>1. Clear /\ CountInv /\ Reach' = Reach
  BY <1>0 DEF Clear, Reach
<1>2. /\ Reach \in Int /\ Reach >= 1
      /\ Ladder[rung] \in Nat \ {0} /\ Ladder[rung] <= Reach
      /\ threshold \in Nat /\ threshold = Reach + 2 * InFlight + 2
  BY <1>1, ClearReach, LadderAssumption DEF Reach
<1>3. /\ InFlight \in Nat /\ count \in Nat /\ fuse \in Nat
      /\ late \in 0..InFlight
  BY LadderAssumption DEF TypeOK
<1> HIDE DEF Reach
<1>4. ASSUME UNCHANGED <<kextVars, machineVars>>,
             step \notin {"fuse", "arm"}, step' \notin {"fuse", "arm"}
      PROVE  CountInv'
  BY <1>1, <1>4 DEF CountInv, kextVars, machineVars
<1>5. CASE NoteTrying
  BY <1>4, <1>5 DEF NoteTrying, Goto
<1>6. CASE SyncTrying
  BY <1>4, <1>6 DEF SyncTrying, Goto
<1>7. CASE ResetCounters
  <2>1. /\ UNCHANGED <<armed, late, fuse, alive>> /\ count' = 0
        /\ step = "reset" /\ step' = "fuse"
    BY <1>7 DEF ResetCounters, Goto, machineVars
  <2> QED
    BY <1>1, <1>2, <1>3, <2>1 DEF CountInv
<1>8. CASE SetFuse
  <2>1. /\ UNCHANGED <<armed, late, count, alive>> /\ fuse' = Ladder[rung]
        /\ step = "fuse" /\ step' = "arm"
    BY <1>8 DEF SetFuse, Goto, machineVars
  <2> QED
    BY <1>1, <1>2, <1>3, <2>1 DEF CountInv
<1>9. CASE Arm
  <2>1. /\ UNCHANGED <<fuse, count, alive>> /\ armed' /\ late' = 0
        /\ step = "arm" /\ step' = "sleep"
    BY <1>9 DEF Arm, Goto, machineVars
  <2>2. count <= Reach + InFlight
    BY <1>1, <1>2, <1>3, <2>1 DEF CountInv
  <2> QED
    BY <1>1, <1>2, <1>3, <2>1, <2>2 DEF CountInv
<1>10. CASE Settle
  BY <1>4, <1>10 DEF Settle, Goto
<1>11. CASE NoteSurvived
  BY <1>4, <1>11 DEF NoteSurvived, Goto
<1>12. CASE SyncSurvived
  BY <1>4, <1>12 DEF SyncSurvived
<1>13. CASE Lookup
  <2>1. count + 1 < threshold
    BY <1>1, <1>2, <1>3, <1>13 DEF CountInv, Lookup
  <2>a. ~(count + 1 >= threshold)
    BY <1>2, <1>3, <2>1
  <2>b. armed' = (armed /\ count + 1 < fuse)
    BY <1>13, <2>a DEF Lookup
  <2>2. /\ UNCHANGED <<step, fuse, alive>> /\ count' = count + 1
        /\ armed' <=> (armed /\ count + 1 < fuse)
        /\ late' \in IF armed' THEN {0}
                       ELSE IF armed THEN 0..InFlight ELSE {late - 1}
        /\ armed \/ late > 0
    BY <1>13, <2>a, <2>b DEF Lookup
  <2>3. CASE armed /\ armed'
    BY <1>1, <1>2, <1>3, <2>2, <2>3 DEF CountInv
  <2>4. CASE armed /\ ~armed'
    <3>0. count' = count + 1
      BY <2>2
    <3>1. late' \in Nat /\ late' <= InFlight
      BY <1>3, <2>2, <2>4
    <3>2. CASE step \in {"fuse", "arm"}
      <4>1. count < Reach
        BY <1>1, <2>4, <3>2 DEF CountInv
      <4>2. count' + late' <= Reach + InFlight
        BY <1>2, <1>3, <3>0, <3>1, <4>1, Overshoot
      <4> QED
        BY <1>1, <2>2, <2>4, <3>2, <4>2 DEF CountInv
    <3>3. CASE step \notin {"fuse", "arm"}
      <4>1. count <= Reach + InFlight
        BY <1>1, <2>4, <3>3 DEF CountInv
      <4>2. count' + late' <= Reach + 2 * InFlight + 1
        BY <1>2, <1>3, <3>0, <3>1, <4>1, Overshoot
      <4> QED
        BY <1>1, <2>2, <2>4, <3>3, <4>2 DEF CountInv
    <3> QED
      BY <3>2, <3>3
  <2>5. CASE ~armed
    <3>1. ~armed' /\ late' = late - 1
      BY <2>2, <2>5
    <3> QED
      BY <1>1, <1>2, <1>3, <2>2, <2>5, <3>1 DEF CountInv
  <2> QED
    BY <2>3, <2>4, <2>5
<1>14. CASE UNCHANGED vars
  BY <1>1, <1>14 DEF vars, kextVars, machineVars, CountInv
<1> QED
  BY <1>5, <1>6, <1>7, <1>8, <1>9, <1>10, <1>11, <1>12, <1>13, <1>14
     DEF Next, Script

-----------------------------------------------------------------------------
\* Every step of a machine that settles keeps the attempt in hand last.
LEMMA SettledStep ==
    TypeOK /\ (settles => SettledInv) /\ [Next]_vars
        => (settles' => SettledInv')
<1> SUFFICES ASSUME TypeOK, settles => SettledInv, [Next]_vars, settles'
             PROVE  SettledInv'
  OBVIOUS
<1>0. settles' = settles
  BY DEF Next, Script, NoteTrying, SyncTrying, ResetCounters, SetFuse, Arm,
         Settle, NoteSurvived, SyncSurvived, Lookup, machineVars, vars
<1>1. settles /\ SettledInv
  BY <1>0
<1>2. ASSUME UNCHANGED disk, NEW line, Ends(line)
      PROVE  Ends(line)'
  BY <1>2 DEF Ends
<1>3. CASE NoteTrying
  <2> DEFINE line == <<"trying", Ladder[rung]>>
  <2>1. /\ alive /\ step = "try" /\ step' = "synctry"
        /\ cache' = Append(cache, line)
        /\ UNCHANGED <<rung, disk, armed, late, alive, culprit>>
    BY <1>3 DEF NoteTrying, Goto, Write, kextVars, machineVars
  <2>2. cache = <<>> /\ ~armed /\ late = 0
    BY <1>1, <2>1 DEF SettledInv
  <2>3. cache' = <<line>>
    BY <2>1, <2>2
  <2> QED
    BY <2>1, <2>2, <2>3 DEF SettledInv
<1>4. CASE SyncTrying
  <2> DEFINE line == <<"trying", Ladder[rung]>>
  <2>1. /\ alive /\ step = "synctry" /\ step' = "reset"
        /\ disk' = disk \o cache /\ cache' = <<>>
        /\ UNCHANGED <<rung, armed, late, alive, culprit>>
    BY <1>4 DEF SyncTrying, Goto, Sync, kextVars, machineVars
  <2>2. cache = <<line>> /\ ~armed /\ late = 0
    BY <1>1, <2>1 DEF SettledInv
  <2>3. disk' # <<>> /\ disk'[Len(disk')] = line
    <3> HIDE DEF line
    <3>1. disk \in Seq(Line) /\ cache \in Seq(Line)
      BY DEF TypeOK
    <3>2. Len(cache) = 1 /\ cache[1] = line
      BY <2>2
    <3>3. /\ disk \o cache \in Seq(Line)
          /\ Len(disk \o cache) = Len(disk) + Len(cache)
          /\ \A k \in 1..(Len(disk) + Len(cache)) : (disk \o cache)[k] =
                IF k <= Len(disk) THEN disk[k] ELSE cache[k - Len(disk)]
      BY <3>1, ConcatProperties
    <3>4. Len(disk) \in Nat
      BY <3>1
    <3>5. Len(disk') = Len(disk) + 1 /\ disk'[Len(disk) + 1] = line
      BY <2>1, <3>2, <3>3, <3>4
    <3>6. disk' # <<>>
      BY <3>4, <3>5
    <3> QED
      BY <3>5, <3>6
  <2> QED
    BY <2>1, <2>2, <2>3 DEF SettledInv, Ends
<1>5. CASE ResetCounters \/ SetFuse
  <2>1. /\ alive /\ step \in {"reset", "fuse"} /\ step' \in {"fuse", "arm"}
        /\ UNCHANGED <<rung, cache, disk, armed, late, alive, culprit>>
    BY <1>5 DEF ResetCounters, SetFuse, Goto, logVars, machineVars
  <2> QED
    BY <1>1, <2>1 DEF SettledInv, Ends
<1>6. CASE Arm
  <2>1. /\ alive /\ step = "arm" /\ step' = "sleep"
        /\ culprit' = Ladder[rung]
        /\ UNCHANGED <<rung, cache, disk, alive>>
    BY <1>6 DEF Arm, Goto, logVars, machineVars
  <2> QED
    BY <1>1, <2>1 DEF SettledInv, Ends
<1>7. CASE Settle
  <2>1. /\ alive /\ step = "sleep" /\ step' = "survive"
        /\ ~armed /\ late = 0
        /\ UNCHANGED <<rung, cache, disk, armed, late, alive, culprit>>
    BY <1>1, <1>7 DEF Settle, Goto, logVars, kextVars, machineVars
  <2> QED
    BY <1>1, <2>1 DEF SettledInv, Ends
<1>8. CASE NoteSurvived
  <2>1. /\ alive /\ step = "survive" /\ step' = "syncsurvive"
        /\ UNCHANGED <<rung, disk, armed, late, alive, culprit>>
    BY <1>8 DEF NoteSurvived, Goto, Write, kextVars, machineVars
  <2> QED
    BY <1>1, <2>1 DEF SettledInv
<1>9. CASE SyncSurvived
  <2>1. /\ alive /\ step = "syncsurvive" /\ step' \in {"finished", "try"}
        /\ cache' = <<>>
        /\ UNCHANGED <<armed, late, alive, culprit>>
    BY <1>9 DEF SyncSurvived, Sync, kextVars, machineVars
  <2> QED
    BY <1>1, <2>1 DEF SettledInv
<1>10. CASE Lookup
  <2>1. alive /\ (armed \/ late > 0) /\ UNCHANGED <<step, rung, culprit>>
    BY <1>10 DEF Lookup
  <2>2. /\ step = "sleep" /\ cache = <<>> /\ culprit = Ladder[rung]
        /\ Ends(<<"trying", Ladder[rung]>>)
    BY <1>1, <2>1 DEF SettledInv, TypeOK
  <2>3. CASE count + 1 >= threshold
    <3>1. PICK k \in 0..Len(cache) : disk' = disk \o SubSeq(cache, 1, k)
      BY <1>10, <2>3 DEF Lookup
    <3>2. ~alive'
      BY <1>10, <2>3 DEF Lookup
    <3>3. SubSeq(cache, 1, k) = <<>>
      <4>1. k = 0
        BY <2>2, <3>1
      <4>2. SubSeq(cache, 1, 0) = <<>>
        BY <2>2
      <4> QED
        BY <4>1, <4>2
    <3>4. disk' = disk
      BY <3>1, <3>3, ConcatEmptySeq DEF TypeOK
    <3> QED
      BY <2>1, <2>2, <3>2, <3>4 DEF SettledInv, Ends
  <2>4. CASE ~(count + 1 >= threshold)
    <3>1. UNCHANGED <<alive, disk, cache>>
      BY <1>10, <2>4 DEF Lookup
    <3> QED
      BY <2>1, <2>2, <3>1 DEF SettledInv, Ends
  <2> QED
    BY <2>3, <2>4
<1>11. CASE UNCHANGED vars
  BY <1>1, <1>11 DEF vars, kextVars, logVars, machineVars, SettledInv, Ends
<1> QED
  BY <1>3, <1>4, <1>5, <1>6, <1>7, <1>8, <1>9, <1>10, <1>11
     DEF Next, Script

-----------------------------------------------------------------------------
\* The four parts hold together.
LEMMA LadderInductive ==
    Spec => [](/\ TypeOK /\ LogInv /\ (Clear => CountInv)
               /\ (settles => SettledInv))
<1>1. Init => /\ TypeOK /\ LogInv /\ (Clear => CountInv)
              /\ (settles => SettledInv)
  <2> SUFFICES ASSUME Init
               PROVE  /\ TypeOK /\ LogInv /\ (Clear => CountInv)
                      /\ (settles => SettledInv)
    OBVIOUS
  <2>0. armed \in BOOLEAN /\ alive \in BOOLEAN
    BY Zenon DEF Init
  <2>1. TypeOK
    BY <2>0, LadderAssumption DEF Init, TypeOK, Steps
  <2>2. LogInv
    BY DEF Init, LogInv
  <2>3. ASSUME Clear PROVE CountInv
    BY <2>1, <2>3, ClearReach, LadderAssumption DEF Init, CountInv
  <2>4. SettledInv
    BY DEF Init, SettledInv
  <2> QED
    BY <2>1, <2>2, <2>3, <2>4
<1> QED
  BY <1>1, TypeStep, LogStep, CountStep, SettledStep, PTL DEF Spec

\* The log and the counters keep their types.
THEOREM LadderTyped == Spec => []TypeOK
  BY LadderInductive, PTL

\* sedarwin-fuse-ladder:8-9, 38-47: whenever the machine freezes and whatever
\* part of the cache is lost, the fuse it froze with is on disk.
THEOREM LadderCulpritLogged == Spec => []CulpritLogged
<1>1. LogInv => CulpritLogged
  BY DEF LogInv, CulpritLogged
<1> QED
  BY <1>1, LadderInductive, PTL

\* vnode.c:250-275, sedarwin-fuse-ladder:38-47: with every fuse far enough
\* below the threshold, no order of rungs and dispatches freezes the machine.
THEOREM LadderClearSurvives == Spec => []ClearLadderSurvives
<1>1. (Clear => CountInv) => ClearLadderSurvives
  BY DEF Clear, CountInv, ClearLadderSurvives
<1> QED
  BY <1>1, LadderInductive, PTL

\* sedarwin-fuse-ladder:14-15, 48: on a machine that uses up every fuse within
\* SETTLE, the last "trying" line has no "survived" line after it and names
\* the fuse that the machine froze with.
THEOREM LadderSettledNamesCulprit == Spec => []SettledNamesCulprit
<1>1. TypeOK /\ (settles => SettledInv) => SettledNamesCulprit
  <2> SUFFICES ASSUME TypeOK, SettledInv, ~alive
               PROVE  UnmatchedIsCulprit
    BY DEF SettledNamesCulprit, UnmatchedIsCulprit
  <2>1. disk # <<>> /\ disk[Len(disk)] = <<"trying", culprit>>
    BY DEF SettledInv, Ends
  <2>2. Len(disk) \in 1..Len(disk) /\ (Len(disk) + 1)..Len(disk) = {}
    BY <2>1, EmptySeq DEF TypeOK
  <2> QED
    BY <2>1, <2>2 DEF UnmatchedIsCulprit
<1> QED
  BY <1>1, LadderInductive, PTL

-----------------------------------------------------------------------------
(* How long the script and the fuse have to go.                            *)

\* The steps that the script has left.
StepsLeft ==
    LET rungs == 8 * (Len(Ladder) - rung)
    IN  IF step = "try" THEN rungs + 8
        ELSE IF step = "synctry" THEN rungs + 7
        ELSE IF step = "reset" THEN rungs + 6
        ELSE IF step = "fuse" THEN rungs + 5
        ELSE IF step = "arm" THEN rungs + 4
        ELSE IF step = "sleep" THEN rungs + 3
        ELSE IF step = "survive" THEN rungs + 2
        ELSE IF step = "syncsurvive" THEN rungs + 1
        ELSE 0

\* The dispatches that may land before a fuse that nobody sets anew has
\* cleared the slot and the last one in flight is through.  A slot that is
\* armed with its fuse used up is cleared by the next dispatch.
DispatchesLeft ==
    IF armed THEN (IF count < fuse THEN fuse - count ELSE 1) + InFlight
             ELSE late

\* sedarwin-fuse-ladder:38-54: until the machine freezes, a step of the script
\* brings its end nearer, and a dispatch brings nearer the end of the fuse
\* that the sleep waits for.
LadderShortens ==
    [][alive /\ alive' =>
        /\ StepsLeft \in Nat /\ StepsLeft' \in Nat
        /\ DispatchesLeft \in Nat /\ DispatchesLeft' \in Nat
        /\ \/ StepsLeft' < StepsLeft
           \/ StepsLeft' = StepsLeft /\ DispatchesLeft' < DispatchesLeft
       ]_vars

LadderCounted == StepsLeft \in Nat /\ DispatchesLeft \in Nat

LEMMA LadderCounts ==
    ASSUME TypeOK
    PROVE  LadderCounted
<1>1. rung \in 1..Len(Ladder) /\ Len(Ladder) \in Nat
  BY LadderAssumption DEF TypeOK
<1>2. StepsLeft \in Nat
  BY <1>1 DEF StepsLeft
<1>3. fuse \in Nat /\ count \in Nat /\ InFlight \in Nat /\ late \in Nat
  BY LadderAssumption DEF TypeOK
<1>4. DispatchesLeft \in Nat
  BY <1>3 DEF DispatchesLeft
<1> QED
  BY <1>2, <1>4 DEF LadderCounted

\* A step of the script.
LEMMA ScriptShortens ==
    ASSUME TypeOK, Script
    PROVE  StepsLeft' < StepsLeft
<1>1. rung \in 1..Len(Ladder) /\ Len(Ladder) \in Nat
  BY LadderAssumption DEF TypeOK
<1>2. CASE SyncSurvived
  <2>1. step = "syncsurvive"
    BY <1>2 DEF SyncSurvived
  <2>2. CASE rung = Len(Ladder)
    <3>1. step' = "finished"
      BY <1>2, <2>2 DEF SyncSurvived
    <3> QED
      BY <1>1, <2>1, <3>1 DEF StepsLeft
  <2>3. CASE rung # Len(Ladder)
    <3>1. step' = "try" /\ rung' = rung + 1
      BY <1>2, <2>3 DEF SyncSurvived
    <3> QED
      BY <1>1, <2>1, <3>1 DEF StepsLeft
  <2> QED
    BY <2>2, <2>3
<1>3. CASE Script /\ ~SyncSurvived
  <2>1. /\ rung' = rung
        /\ \/ step = "try" /\ step' = "synctry"
           \/ step = "synctry" /\ step' = "reset"
           \/ step = "reset" /\ step' = "fuse"
           \/ step = "fuse" /\ step' = "arm"
           \/ step = "arm" /\ step' = "sleep"
           \/ step = "sleep" /\ step' = "survive"
           \/ step = "survive" /\ step' = "syncsurvive"
    BY <1>3 DEF Script, NoteTrying, SyncTrying, ResetCounters, SetFuse, Arm,
       Settle, NoteSurvived, Goto
  <2> QED
    BY <1>1, <2>1 DEF StepsLeft
<1> QED
  BY <1>2, <1>3

\* A dispatch that the machine survives.
LEMMA DispatchShortens ==
    ASSUME TypeOK, Lookup, alive'
    PROVE  StepsLeft' = StepsLeft /\ DispatchesLeft' < DispatchesLeft
<1>1. StepsLeft' = StepsLeft
  BY DEF Lookup, StepsLeft
<1>2. fuse \in Nat /\ count \in Nat /\ InFlight \in Nat /\ late \in Nat
  BY LadderAssumption DEF TypeOK
<1>3. /\ count' = count + 1 /\ fuse' = fuse
      /\ armed' = (armed /\ count + 1 < fuse)
      /\ late' \in IF armed' THEN {0}
                    ELSE IF armed THEN 0..InFlight ELSE {late - 1}
      /\ armed \/ late > 0
  BY DEF Lookup
<1>4. CASE armed'
  <2>1. armed /\ count + 1 < fuse
    BY <1>3, <1>4
  <2>2. DispatchesLeft' = fuse - (count + 1) + InFlight
    BY <1>2, <1>3, <1>4, <2>1 DEF DispatchesLeft
  <2>3. DispatchesLeft = fuse - count + InFlight
    BY <1>2, <2>1 DEF DispatchesLeft
  <2> QED
    BY <1>1, <1>2, <2>2, <2>3
<1>5. CASE ~armed' /\ armed
  <2>1. DispatchesLeft' \in 0..InFlight
    BY <1>3, <1>5 DEF DispatchesLeft
  <2>2. DispatchesLeft > InFlight
    BY <1>2, <1>5 DEF DispatchesLeft
  <2>3. DispatchesLeft \in Nat
    BY LadderCounts DEF LadderCounted
  <2> QED
    BY <1>1, <1>2, <2>1, <2>2, <2>3
<1>6. CASE ~armed' /\ ~armed
  <2>1. DispatchesLeft' = late - 1 /\ DispatchesLeft = late
    BY <1>3, <1>6 DEF DispatchesLeft
  <2> QED
    BY <1>1, <1>2, <2>1
<1> QED
  BY <1>4, <1>5, <1>6

\* sedarwin-fuse-ladder:38-54: the safety half of LadderEnds, for every ladder
\* and every threshold.
THEOREM LadderOnlyShortens == Spec => LadderShortens
<1>1. TypeOK => LadderCounted
  BY LadderCounts
<1>2. TypeOK /\ LadderCounted /\ LadderCounted' /\ [Next]_vars =>
        [alive /\ alive' =>
            /\ StepsLeft \in Nat /\ StepsLeft' \in Nat
            /\ DispatchesLeft \in Nat /\ DispatchesLeft' \in Nat
            /\ \/ StepsLeft' < StepsLeft
               \/ StepsLeft' = StepsLeft /\ DispatchesLeft' < DispatchesLeft
           ]_vars
  BY ScriptShortens, DispatchShortens DEF LadderCounted, Next
<1> QED
  BY <1>1, <1>2, LadderTyped, PTL DEF Spec, LadderShortens
=============================================================================
