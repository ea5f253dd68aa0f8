-------------------------------- MODULE Sbuf --------------------------------
(***************************************************************************)
(* lib/libkern-bsd/sbuf.c: one sbuf, its backing buffer and the allocator. *)
(* Each routine is an operator from an sbuf to the sbuf it leaves and the  *)
(* value it returns; whether an allocation succeeds is an argument.  The   *)
(* sizes that the code takes from the machine are constants.               *)
(***************************************************************************)
EXTENDS Integers, Sequences, FiniteSets

CONSTANTS
    MinExtend,      \* SBUF_MINEXTENDSIZE
    PageSize,       \* PAGE_SIZE, also SBUF_MAXEXTENDSIZE
    IntMax,         \* INT_MAX
    SizeMod,        \* 2 ^ the width of size_t
    NUL, Space,     \* the bytes that the code tells apart
    Junk,           \* an uninitialised byte
    Pieces,         \* data a client appends
    NewSizes,       \* lengths passed to sbuf_new() without a buffer
    CallerSizes     \* lengths of the buffers passed to sbuf_new()

ASSUME SizesAssumption ==
    /\ MinExtend \in Nat \ {0} /\ PageSize \in Nat \ {0} /\ IntMax \in Nat
    /\ SizeMod \in Nat /\ 2 * IntMax + PageSize < SizeMod
    /\ NewSizes \subseteq (-IntMax - 1)..IntMax /\ CallerSizes \subseteq 0..IntMax
    /\ \A p \in Pieces : p \in Seq({p[i] : i \in 1..Len(p)})
    \* No object is as long as the address space less INT_MAX.
    /\ \A p \in Pieces : Len(p) + IntMax < SizeMod

VARIABLES
    open,       \* the client has got an sbuf and not deleted it
    sb,         \* the sbuf
    ret,        \* what the last call returned: 0 or -1
    struct      \* the struct sbuf is a heap block that has not been freed

\* s_buf is the sequence sb.buf, empty for NULL.  Two fields are not in the
\* struct: sb.heap, the sizes of the data blocks the allocator has given and
\* not got back, and sb.wild, whether an access or a free has missed its block.
NoSbuf == [buf |-> <<>>, size |-> 0, len |-> 0, extend |-> FALSE,
           dynamic |-> FALSE, dynstruct |-> FALSE, finished |-> FALSE,
           overflowed |-> FALSE, heap |-> {}, wild |-> FALSE]

Fill(byte, size) == [i \in 1..size |-> byte]
Result(s, r) == [sb |-> s, ret |-> r]

-----------------------------------------------------------------------------
\* sbuf_extendsize(): double up from the minimum, from a page on round up to
\* pages; -1 stands for its failure.
Doubling[i \in 0..PageSize] ==
    IF i = 0 THEN MinExtend ELSE 2 * Doubling[i - 1]
Doublings == {Doubling[i] : i \in 0..PageSize}

RoundedSize(target) ==
    IF target < PageSize
      THEN CHOOSE x \in Doublings :
            /\ x >= target
            /\ \A y \in Doublings : y >= target => x <= y
      ELSE ((target + PageSize - 1) \div PageSize) * PageSize

\* Mutant: only the size asked for is compared with INT_MAX.
ExtendsizeUnchecked(target) == IF target > IntMax THEN -1 ELSE RoundedSize(target)

sbuf_extendsize(target) ==
    IF target > IntMax \/ RoundedSize(target) > IntMax
      THEN -1 ELSE RoundedSize(target)

\* Mutant: no byte is reserved.
CapacityUnreserved(s) == (s.size - s.len) % SizeMod

\* One byte is reserved for the terminator; the result is a size_t.
sbuf_capacity(s) == (s.size - s.len - 1) % SizeMod

\* kfree_data(s_buf, s_size): the block freed has to be one that is allocated.
kfree_data(s) ==
    [s EXCEPT !.heap = @ \ {s.size}, !.wild = @ \/ s.size \notin s.heap]

\* Mutant: the old block is not freed.
ExtendLeaks(s, addlen, got) ==
    LET size == sbuf_extendsize(s.size + addlen)
    IN  IF addlen = 0 THEN Result(s, 0)
        ELSE IF ~s.extend \/ s.size + addlen >= SizeMod \/ size = -1 \/ ~got
          THEN Result(s, -1)
          ELSE Result([s EXCEPT
                        !.buf = [i \in 1..size |->
                                    IF i <= s.size THEN s.buf[i] ELSE Junk],
                        !.size = size,
                        !.dynamic = TRUE,
                        !.heap = @ \cup {size}], 0)

\* sbuf_extend(): the old bytes move to a larger heap block, and the old
\* buffer is freed when it came from the heap.
sbuf_extend(s, addlen, got) ==
    LET size == sbuf_extendsize(s.size + addlen)
        freed == IF s.dynamic THEN kfree_data(s) ELSE s
    IN  IF addlen = 0 THEN Result(s, 0)
        ELSE IF ~s.extend \/ s.size + addlen >= SizeMod \/ size = -1 \/ ~got
          THEN Result(s, -1)
          ELSE Result([freed EXCEPT
                        !.buf = [i \in 1..size |->
                                    IF i <= s.size THEN s.buf[i] ELSE Junk],
                        !.size = size,
                        !.dynamic = TRUE,
                        !.heap = @ \cup {size}], 0)

sbuf_ensure_capacity(s, wanted, got) ==
    IF sbuf_capacity(s) >= wanted
      THEN Result(s, 0)
      ELSE sbuf_extend(s, wanted - sbuf_capacity(s), got)

\* bcopy() of p to &s_buf[s_len]; a byte past the buffer is noted.
Poke(s, p) ==
    [s EXCEPT !.buf = [i \in DOMAIN s.buf |->
                        IF i \in (s.len + 1)..(s.len + Len(p))
                          THEN p[i - s.len] ELSE s.buf[i]],
              !.wild = s.wild \/ (p # <<>> /\ s.len + Len(p) > Len(s.buf))]

-----------------------------------------------------------------------------
\* Mutant: the overflow mark survives.
ClearKeepsOverflow(s) == [s EXCEPT !.finished = FALSE, !.len = 0]

sbuf_clear(s) == [s EXCEPT !.finished = FALSE, !.overflowed = FALSE, !.len = 0]

sbuf_setpos(s, pos) ==
    IF pos < 0 \/ pos > s.len THEN Result(s, -1)
    ELSE Result([s EXCEPT !.len = pos], 0)

sbuf_bcat(s, p, got) ==
    LET e == sbuf_ensure_capacity(s, Len(p), got)
    IN  IF s.overflowed THEN Result(s, -1)
        ELSE IF e.ret = -1 THEN Result([s EXCEPT !.overflowed = TRUE], -1)
        ELSE Result([Poke(e.sb, p) EXCEPT !.len = @ + Len(p)], 0)

sbuf_bcpy(s, p, got) == sbuf_bcat(sbuf_clear(s), p, got)

\* The string up to its first NUL, which is what strlen() measures.
CString(p) ==
    LET ends == {i \in 1..Len(p) : p[i] = NUL}
    IN  IF ends = {} THEN p
        ELSE SubSeq(p, 1, (CHOOSE i \in ends : \A j \in ends : i <= j) - 1)

sbuf_cat(s, p, got) == sbuf_bcat(s, CString(p), got)
sbuf_cpy(s, p, got) == sbuf_cat(sbuf_clear(s), p, got)

\* Mutant: vsnprintf() is told of one byte more than there is.
FormatWide(s, p) ==
    LET room == (sbuf_capacity(s) + 2) % SizeMod
        fits == IF Len(p) < room THEN p ELSE SubSeq(p, 1, room - 1)
    IN  IF room = 0 THEN s ELSE Poke(s, Append(fits, NUL))

\* vsnprintf(&s_buf[s_len], capacity + 1, ...) of a text p: what fits of it,
\* and a terminator; nothing when the size_t has wrapped to 0.
Format(s, p) ==
    LET room == (sbuf_capacity(s) + 1) % SizeMod
        fits == IF Len(p) < room THEN p ELSE SubSeq(p, 1, room - 1)
    IN  IF room = 0 THEN s ELSE Poke(s, Append(fits, NUL))

\* The loop of sbuf_vprintf() runs at most twice: after a successful
\* sbuf_ensure_capacity() the text fits.
sbuf_vprintf(s, p, got) ==
    LET once == Format(s, p)
        e == sbuf_ensure_capacity(once, Len(p), got)
    IN  IF s.overflowed THEN Result(s, -1)
        ELSE IF Len(p) <= sbuf_capacity(s)
          THEN Result([once EXCEPT !.len = @ + Len(p)], 0)
        ELSE IF e.ret = -1
          THEN Result([once EXCEPT !.overflowed = TRUE], -1)
          ELSE Result([Format(e.sb, p) EXCEPT !.len = @ + Len(p)], 0)

\* A NUL is not stored, but room is made for it first.
sbuf_putc(s, c, got) ==
    LET e == sbuf_ensure_capacity(s, 1, got)
    IN  IF s.overflowed THEN Result(s, -1)
        ELSE IF e.ret = -1 THEN Result([s EXCEPT !.overflowed = TRUE], -1)
        ELSE IF c = NUL THEN e
        ELSE Result([Poke(e.sb, <<c>>) EXCEPT !.len = @ + 1], 0)

\* The loop stops at the last byte that is not white space; it reads the byte
\* at s_len, wherever that is.
sbuf_trim(s) ==
    LET solid == {i \in 1..s.len : i <= Len(s.buf) /\ s.buf[i] # Space}
        last == IF solid = {} THEN 0
                ELSE CHOOSE i \in solid : \A j \in solid : j <= i
    IN  IF s.overflowed THEN Result(s, -1)
        ELSE Result([s EXCEPT !.len = last,
                              !.wild = @ \/ s.len > Len(s.buf)], 0)

sbuf_finish(s) ==
    [Poke(s, <<NUL>>) EXCEPT !.overflowed = FALSE, !.finished = TRUE]

\* What a client can see of an sbuf; the length of an overflowed one is -1.
sbuf_data(s) == s.buf
sbuf_overflowed(s) == s.overflowed
sbuf_done(s) == s.finished
sbuf_len(s) == IF s.overflowed THEN -1 ELSE s.len

\* Freeing what sbuf_new() or sbuf_extend() took from the heap.
sbuf_delete(s) ==
    IF s.dynamic /\ s.buf # <<>>
      THEN [kfree_data(s) EXCEPT !.buf = <<>>]
      ELSE s

\* sbuf_new() without a buffer: s is the zeroed struct, with its flags.
WithHeapBuffer(s, length, got) ==
    LET size == IF s.extend THEN sbuf_extendsize(length) ELSE length
    IN  IF size \in {-1, 0} \/ ~got
          THEN Result(sbuf_delete(s), -1)
          ELSE Result([s EXCEPT !.buf = Fill(NUL, size), !.size = size,
                                !.dynamic = TRUE, !.heap = {size}], 0)

\* sbuf_new() with the client's buffer, of exactly the length it gives.  The
\* test for 0 is on the other path only: s_size is 0 for an empty buffer.
WithCallerBuffer(s, length) ==
    Result([s EXCEPT !.buf = Fill(Junk, length), !.size = length], 0)

-----------------------------------------------------------------------------
(* One action per call.  got: every allocation in the call succeeds.       *)

Init == open = FALSE /\ sb = NoSbuf /\ ret = 0 /\ struct = FALSE

\* What sbuf_new() leaves: r for the sbuf, the struct freed on failure.
Created(r, onheap) ==
    /\ sb' = r.sb /\ ret' = r.ret
    /\ open' = (r.ret = 0)
    /\ struct' = (onheap /\ r.ret = 0)

\* An invalid length, or no memory for the struct: NULL, nothing is touched.
NewRefused ==
    /\ ~open
    /\ ret' = -1
    /\ UNCHANGED <<open, sb, struct>>

NewOnHeap(length, extend, onheap, got) ==
    /\ ~open /\ length >= 0
    /\ Created(WithHeapBuffer([NoSbuf EXCEPT !.extend = extend,
                                    !.dynstruct = onheap], length, got), onheap)

NewOnCaller(length, extend, onheap) ==
    /\ ~open
    /\ Created(WithCallerBuffer([NoSbuf EXCEPT !.extend = extend,
                                    !.dynstruct = onheap], length), onheap)

\* Nothing is known after an access outside the blocks: the calls end there.
Call(r) ==
    /\ open /\ ~sb.wild
    /\ sb' = r.sb /\ ret' = r.ret
    /\ UNCHANGED <<open, struct>>

Clear == Call(Result(sbuf_clear(sb), 0))
SetPos(pos) == Call(sbuf_setpos(sb, pos))
Bcat(p, got) == Call(sbuf_bcat(sb, p, got))
Bcpy(p, got) == Call(sbuf_bcpy(sb, p, got))
Cat(p, got) == Call(sbuf_cat(sb, p, got))
Cpy(p, got) == Call(sbuf_cpy(sb, p, got))
Vprintf(p, got) ==
    /\ Len(CString(p)) <= IntMax
    /\ Call(sbuf_vprintf(sb, CString(p), got))
Putc(c, got) == Call(sbuf_putc(sb, c, got))
Trim == Call(sbuf_trim(sb))
Finish == Call(Result(sbuf_finish(sb), 0))

\* vsnprintf() returns a negative value, as it does for a text longer than
\* INT_MAX: -1, and no mark.
VprintfFails == ~sb.overflowed /\ Call(Result(sb, -1))

\* A struct that the client owns may be deleted again.
Delete ==
    /\ (open \/ ~sb.dynstruct) /\ ~sb.wild
    /\ sb' = sbuf_delete(sb) /\ ret' = 0
    /\ open' = FALSE
    /\ struct' = (struct /\ ~sb.dynstruct)

\* What a machine does after an access outside the blocks is not modelled.
Undefined == sb.wild /\ UNCHANGED <<open, sb, ret, struct>>

Bytes == {NUL} \cup UNION {{p[i] : i \in 1..Len(p)} : p \in Pieces}

Next ==
    \/ NewRefused \/ Clear \/ VprintfFails \/ Trim \/ Finish \/ Delete
    \/ Undefined
    \/ \E extend, onheap, got \in BOOLEAN :
        \/ \E length \in NewSizes : NewOnHeap(length, extend, onheap, got)
        \/ \E length \in CallerSizes : NewOnCaller(length, extend, onheap)
    \/ \E pos \in -1..IntMax : SetPos(pos)
    \/ \E p \in Pieces, got \in BOOLEAN :
        \/ Bcat(p, got) \/ Bcpy(p, got) \/ Cat(p, got) \/ Cpy(p, got)
        \/ Vprintf(p, got)
    \/ \E c \in Bytes, got \in BOOLEAN : Putc(c, got)

vars == <<open, sb, ret, struct>>
Spec == Init /\ [][Next]_vars

-----------------------------------------------------------------------------
\* The sizes stay in an int and s_len is a number, in every sbuf, those of a
\* failed sbuf_new() and of the roundings of sbuf_extendsize() included.
SbufTypeOK ==
    /\ open \in BOOLEAN /\ struct \in BOOLEAN /\ ret \in {0, -1}
    /\ sb.size \in 0..IntMax /\ sb.len \in Nat
    /\ \A x \in {sb.extend, sb.dynamic, sb.dynstruct, sb.finished,
                 sb.overflowed, sb.wild} : x \in BOOLEAN

\* sbuf.c:350, 673: "we always reserve a byte at the end for \0".  The string
\* of an sbuf in use leaves room for its terminator, in a buffer that is as
\* large as s_size says.  The exception is a buffer of length 0, which has no
\* byte to reserve: sbuf_new() takes one from the client and makes none itself.
ReservedByte ==
    open => IF sb.size = 0 THEN ~sb.dynamic
            ELSE sb.len \in 0..(sb.size - 1) /\ Len(sb.buf) = sb.size

\* No bcopy(), vsnprintf() or terminator is written outside the buffer, and
\* no block is freed twice or with another size than it was allocated with,
\* unless the client has handed sbuf_new() a buffer of length 0.
InBounds == sb.wild => sb.size = 0

\* sbuf.c:673, of the terminator of sbuf_finish(): "safe because we always
\* reserve a byte at the end for \0".  This is without the exception above.
FinishIsSafe == [][Finish => ~sb'.wild]_vars

\* The heap holds exactly the blocks an sbuf in use owns: none is leaked by a
\* failed sbuf_new(), a reallocation or sbuf_delete().
HeapIsOwned ==
    /\ sb.heap = IF open /\ sb.dynamic THEN {sb.size} ELSE {}
    /\ struct = (open /\ sb.dynstruct)

\* An sbuf with a byte in its buffer, the one the terminator needs.
inuse == open /\ sb.size > 0

Abstract == INSTANCE SbufSpec WITH
    Pieces <- Pieces \cup {CString(p) : p \in Pieces}
                \cup {<<c>> : c \in Bytes} \cup {<<>>},
    data <- IF inuse THEN SubSeq(sbuf_data(sb), 1, sb.len) ELSE <<>>,
    length <- IF inuse THEN sbuf_len(sb) ELSE 0,
    over <- inuse /\ sbuf_overflowed(sb),
    done <- inuse /\ sbuf_done(sb),
    open <- inuse,
    ret <- IF open /\ ~inuse THEN -1 ELSE ret

\* The buffer, the sizes and the reallocations together implement the string
\* of SbufSpec: a call appends its whole piece or none of it, a reallocation
\* loses no byte, a truncated vsnprintf() is not seen, and the return value
\* says which.  sbuf_new() of an empty client's buffer counts as a failed one:
\* that sbuf can hold no string, and no call on it is claimed to do anything.
ImplementsString == Abstract!Spec
=============================================================================
