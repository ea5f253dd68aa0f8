------------------------------ MODULE SbufSpec ------------------------------
(***************************************************************************)
(* What an sbuf promises its client, without buffers, sizes or allocation: *)
(* a string that grows by whole pieces, and a sticky overflow mark that    *)
(* says a piece did not fit.                                               *)
(***************************************************************************)
EXTENDS Integers, Sequences

CONSTANTS Pieces, Space, NUL

VARIABLES
    open,   \* the client has an sbuf
    data,   \* what it holds
    length, \* what it tells the client its length is
    over,   \* a piece has been lost
    done,   \* sbuf_finish() was called
    ret     \* what the last call returned

Init ==
    /\ open = FALSE /\ data = <<>> /\ over = FALSE /\ done = FALSE
    /\ ret = 0 /\ length = 0

\* The length is only told while no piece is missing.
Told == length' = IF over' THEN -1 ELSE Len(data')

\* sbuf_new() returns an empty string, or nothing.
New ==
    /\ ~open
    /\ open' \in BOOLEAN
    /\ data' = <<>> /\ over' = FALSE /\ done' = FALSE
    /\ ret' = IF open' THEN 0 ELSE -1

\* A call that returns 0 has appended all of p, one that returns -1 none.
Add(p) ==
    /\ open
    /\ \/ ~over /\ data' = data \o p /\ over' = FALSE /\ ret' = 0
       \/ data' = data /\ over' = TRUE /\ ret' = -1
    /\ UNCHANGED <<open, done>>

\* A conversion error, or a position past the end: the call has no effect.
Refused == open /\ ret' = -1 /\ UNCHANGED <<open, data, over, done>>

\* Setting the string forgets an earlier overflow.
Replace(p) ==
    /\ open
    /\ \/ data' = p /\ over' = FALSE /\ ret' = 0
       \/ data' = <<>> /\ over' = TRUE /\ ret' = -1
    /\ done' = FALSE
    /\ UNCHANGED open

Clear ==
    /\ open
    /\ data' = <<>> /\ over' = FALSE /\ done' = FALSE /\ ret' = 0
    /\ UNCHANGED open

\* sbuf_setpos() only ever shortens the string.
Cut(k) ==
    /\ open
    /\ data' = SubSeq(data, 1, k) /\ ret' = 0
    /\ UNCHANGED <<open, over, done>>

\* The longest prefix that does not end in white space.
Trim ==
    /\ open
    /\ IF over
         THEN data' = data /\ ret' = -1
         ELSE \E k \in 0..Len(data) :
                /\ k = 0 \/ data[k] # Space
                /\ \A i \in (k + 1)..Len(data) : data[i] = Space
                /\ data' = SubSeq(data, 1, k) /\ ret' = 0
    /\ UNCHANGED <<open, over, done>>

Finish ==
    /\ open
    /\ over' = FALSE /\ done' = TRUE /\ ret' = 0
    /\ UNCHANGED <<open, data>>

Delete ==
    /\ open' = FALSE
    /\ data' = <<>> /\ over' = FALSE /\ done' = FALSE /\ ret' = 0

Next ==
    /\ \/ New \/ Refused \/ Clear \/ Trim \/ Finish \/ Delete
       \/ \E p \in Pieces : Add(p) \/ Replace(p)
       \/ \E k \in 0..Len(data) : Cut(k)
    /\ Told

Spec == Init /\ [][Next]_<<open, data, length, over, done, ret>>
=============================================================================
