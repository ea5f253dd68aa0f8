--------------------------- MODULE LookupHistory ----------------------------
(***************************************************************************)
(* The armed phase with a history variable for what lookup_maxdepth is     *)
(* meant to measure, so that the measurement can be compared with it.      *)
(***************************************************************************)
EXTENDS LookupHook

VARIABLE peak   \* the largest value depth has had

HistoryInit == ArmedInit /\ peak = 0

HistoryNext ==
    /\ HookNext
    /\ peak' = IF depth' > peak THEN depth' ELSE peak

HistorySpec ==
    /\ HistoryInit
    /\ [][HistoryNext]_<<vars, peak>>
    /\ HookFairness

\* main.c:226, "peak simultaneous entries into the lookup hook".  The load and
\* the store of maxdepth race between cores, so the peak itself can be lost;
\* what remains is that maxdepth is never more than the true peak, and that it
\* is set as soon as no activation is on its way to storing it.
MaxdepthSound ==
    /\ maxdepth <= peak
    /\ peak > 0 /\ (\A f \in Frames : pc[f] \notin {"peak", "raise"})
            => maxdepth > 0
=============================================================================
