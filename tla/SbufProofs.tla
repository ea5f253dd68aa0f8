------------------------------ MODULE SbufProofs -----------------------------
(***************************************************************************)
(* An sbuf stays inside its buffer, keeps room for its terminator, owns    *)
(* its heap block and implements the string of SbufSpec, for every page    *)
(* size, INT_MAX, piece and length, unless the client has handed           *)
(* sbuf_new() a buffer of length 0: such an sbuf is followed to its first  *)
(* access outside that buffer.                                             *)
(***************************************************************************)
EXTENDS Sbuf, TLAPS, SequenceTheorems, WellFoundedInduction

\* A non-empty set of natural numbers has a least element.
LEMMA Least ==
    ASSUME NEW S \in SUBSET Nat, S # {}
    PROVE  \E x \in S : \A y \in S : x <= y
<1> DEFINE R == OpToRel(<, Nat)
<1>1. IsWellFoundedOn(R, Nat)
  BY NatLessThanWellFounded
<1>2. \A x, y \in Nat : <<y, x>> \in R <=> y < x
  BY DEF OpToRel
<1> HIDE DEF R
<1>3. PICK x \in S : \A y \in S : <<y, x>> \notin R
  BY <1>1, WFMin, Zenon
<1>4. S \subseteq Nat
  OBVIOUS
<1>5. \A y \in S : x <= y
  <2>1. \A y \in S : ~(y < x)
    BY <1>2, <1>3
  <2> QED
    BY <1>4, <2>1
<1> QED
  BY <1>5

\* So has one that is bounded, a greatest.
LEMMA Greatest ==
    ASSUME NEW n \in Nat, NEW S \in SUBSET (1..n), S # {}
    PROVE  \E x \in S : \A y \in S : y <= x
<1> DEFINE T == {n - x : x \in S}
<1>1. T \in SUBSET Nat /\ T # {}
  <2>1. \A x \in S : n - x \in Nat
    OBVIOUS
  <2>2. T \subseteq Nat
    BY <2>1
  <2>3. T # {}
    OBVIOUS
  <2> QED
    BY <2>2, <2>3
<1>2. PICK t \in T : \A u \in T : t <= u
  BY <1>1, Least, Zenon
<1>3. PICK x \in S : t = n - x
  OBVIOUS
<1>4. \A y \in S : n - x <= n - y
  BY <1>2, <1>3
<1>5. \A y \in S : y <= x
  BY <1>4
<1> QED
  BY <1>5

\* A function from 1..n is a sequence of length n.
LEMMA FunctionIsSeq ==
    ASSUME NEW n \in Nat, NEW S, NEW f \in [1..n -> S]
    PROVE  f \in Seq(S) /\ Len(f) = n
<1>1. f \in Seq(S)
  BY SeqDef
<1>2. DOMAIN f = 1..n /\ Len(f) \in Nat /\ DOMAIN f = 1..Len(f)
  BY <1>1, LenProperties
<1> QED
  BY <1>1, <1>2

-----------------------------------------------------------------------------
\* The recursive definition of Doubling has a solution.
LEMMA DoublingEquation ==
    Doubling = [i \in 0..PageSize |->
                    IF i = 0 THEN MinExtend ELSE 2 * Doubling[i - 1]]
<1> DEFINE Solves(f, n) ==
            f = [i \in 0..n |-> IF i = 0 THEN MinExtend ELSE 2 * f[i - 1]]
           S == {n \in Nat : ~\E f : Solves(f, n)}
<1>1. S = {}
  <2> SUFFICES ASSUME S # {} PROVE FALSE
    OBVIOUS
  <2>1. PICK n \in S : \A m \in S : n <= m
    <3>1. S \in SUBSET Nat
      OBVIOUS
    <3> HIDE DEF S
    <3> QED
      BY <3>1, Least, Zenon
  <2>2. n \in Nat /\ ~\E f : Solves(f, n)
    OBVIOUS
  <2>3. CASE n = 0
    <3>1. Solves([i \in 0..0 |-> MinExtend], 0)
      OBVIOUS
    <3> QED
      BY <2>2, <2>3, <3>1
  <2>4. CASE n # 0
    <3>0. n - 1 \in Nat /\ ~(n <= n - 1)
      BY <2>2, <2>4
    <3>1. n - 1 \notin S
      BY <2>1, <3>0
    <3>2. PICK f : Solves(f, n - 1)
      BY <3>0, <3>1
    <3> DEFINE g == [i \in 0..n |->
                        IF i = n THEN 2 * f[n - 1] ELSE f[i]]
    <3>3. \A i \in 0..n : i # 0 => g[i - 1] = f[i - 1]
      BY <2>2
    <3>4. \A i \in 0..(n - 1) :
            f[i] = IF i = 0 THEN MinExtend ELSE 2 * f[i - 1]
      BY <3>2
    <3>5. \A i \in 0..n :
            g[i] = IF i = 0 THEN MinExtend ELSE 2 * g[i - 1]
      BY <2>2, <2>4, <3>3, <3>4
    <3>6. Solves(g, n)
      BY <3>5
    <3> QED
      BY <2>2, <3>6
  <2> QED
    BY <2>3, <2>4
<1>2. PageSize \in Nat
  BY SizesAssumption
<1>3. \E f : Solves(f, PageSize)
  BY <1>1, <1>2
<1> QED
  BY <1>3 DEF Doubling

\* Each doubling is a number larger than its index.
LEMMA DoublingGrows == \A i \in 0..PageSize : Doubling[i] \in Nat /\ Doubling[i] > i
<1> DEFINE S == {i \in 0..PageSize : ~(Doubling[i] \in Nat /\ Doubling[i] > i)}
<1> SUFFICES ASSUME S # {} PROVE FALSE
  OBVIOUS
<1>0. PageSize \in Nat /\ MinExtend \in Nat \ {0}
  BY SizesAssumption
<1>1. PICK n \in S : \A m \in S : n <= m
  <2>1. S \in SUBSET Nat
    BY <1>0
  <2> HIDE DEF S
  <2> QED
    BY <2>1, Least, Zenon
<1>2. n \in 0..PageSize /\ ~(Doubling[n] \in Nat /\ Doubling[n] > n)
  OBVIOUS
<1>3. Doubling[n] = IF n = 0 THEN MinExtend ELSE 2 * Doubling[n - 1]
  BY <1>2, DoublingEquation
<1>4. CASE n = 0
  BY <1>0, <1>2, <1>3, <1>4
<1>5. CASE n # 0
  <2>1. n - 1 \in 0..PageSize /\ n - 1 \notin S
    BY <1>0, <1>1, <1>2, <1>5
  <2>2. Doubling[n - 1] \in Nat /\ Doubling[n - 1] > n - 1
    BY <2>1
  <2> QED
    BY <1>0, <1>2, <1>3, <1>5, <2>2
<1> QED
  BY <1>4, <1>5

\* Rounding to pages does not make a size smaller.
LEMMA PagesCover ==
    ASSUME NEW target \in Nat
    PROVE  /\ ((target + PageSize - 1) \div PageSize) * PageSize \in Nat
           /\ ((target + PageSize - 1) \div PageSize) * PageSize >= target
<1> DEFINE a == target + PageSize - 1
           q == a \div PageSize
           r == a % PageSize
<1>1. PageSize \in Nat /\ PageSize > 0 /\ a \in Nat
  BY SizesAssumption
<1>2. q \in Int /\ r \in 0..(PageSize - 1) /\ a = PageSize * q + r
  BY <1>1
<1> HIDE DEF q, r
<1>3. q * PageSize = PageSize * q
  BY <1>1, <1>2
<1>4. q * PageSize \in Int /\ q * PageSize = a - r
  BY <1>1, <1>2, <1>3
<1>5. q * PageSize >= target
  BY <1>1, <1>2, <1>4
<1>6. q * PageSize \in Nat
  BY <1>4, <1>5
<1> QED
  BY <1>5, <1>6 DEF q

\* The size that an sbuf is extended to holds what was asked for.
LEMMA ExtendsizeCovers ==
    ASSUME NEW target \in Nat
    PROVE  sbuf_extendsize(target) = -1 \/ sbuf_extendsize(target) \in target..IntMax
<1>0. PageSize \in Nat /\ IntMax \in Nat
  BY SizesAssumption
<1>1. RoundedSize(target) \in Nat /\ RoundedSize(target) >= target
  <2>1. CASE target < PageSize
    <3> DEFINE S == {x \in Doublings : x >= target}
    <3>1. Doublings \subseteq Nat
      BY DoublingGrows DEF Doublings
    <3>2. Doubling[PageSize] \in S
      BY <1>0, <2>1, DoublingGrows DEF Doublings
    <3>3. PICK x \in S : \A y \in S : x <= y
      <4>1. S \in SUBSET Nat /\ S # {}
        BY <3>1, <3>2
      <4> HIDE DEF S
      <4> QED
        BY <4>1, Least, Zenon
    <3>4. \E z \in Doublings :
            z >= target /\ \A y \in Doublings : y >= target => z <= y
      BY <3>3
    <3>5. RoundedSize(target) \in Doublings /\ RoundedSize(target) >= target
      BY <2>1, <3>4 DEF RoundedSize
    <3> QED
      BY <3>1, <3>5
  <2>2. CASE ~(target < PageSize)
    BY <2>2, PagesCover DEF RoundedSize
  <2> QED
    BY <2>1, <2>2
<1> QED
  BY <1>0, <1>1 DEF sbuf_extendsize

-----------------------------------------------------------------------------
\* What an sbuf in use is at every call.
Byte == Bytes \cup {Junk}

Sbufs == [buf : Seq(Byte), size : 0..IntMax, len : Nat, extend : BOOLEAN,
          dynamic : BOOLEAN, dynstruct : BOOLEAN, finished : BOOLEAN,
          overflowed : BOOLEAN, heap : SUBSET (0..IntMax), wild : BOOLEAN]

Sound(s) ==
    /\ s \in Sbufs
    /\ s.len \in 0..(s.size - 1)
    /\ Len(s.buf) = s.size
    /\ ~s.wild
    /\ s.heap = IF s.dynamic THEN {s.size} ELSE {}

\* What a call makes of s: a sound sbuf in the same struct.
Keeps(s, r) ==
    Sound(r.sb) /\ r.sb.dynstruct = s.dynstruct /\ r.ret \in {0, -1}

\* The data that a client appends.
Data == {p \in Seq(Byte) : Len(p) + IntMax < SizeMod}

\* What the code itself writes is a byte too.
LEMMA NulIsByte == NUL \in Byte
  BY DEF Byte, Bytes

\* Pieces, and pieces up to their first NUL, are data.
LEMMA PiecesAreData ==
    ASSUME NEW p \in Pieces
    PROVE  p \in Data /\ CString(p) \in Data
<1> DEFINE B == {p[i] : i \in 1..Len(p)}
           ends == {i \in 1..Len(p) : p[i] = NUL}
<1>1. p \in Seq(B) /\ Len(p) + IntMax < SizeMod
  BY SizesAssumption
<1>2. B \subseteq Byte
  BY DEF Byte, Bytes
<1>3. p \in Seq(Byte)
  <2> HIDE DEF B
  <2> QED
    BY <1>1, <1>2, SeqMonotonic
<1>4. Len(p) \in Nat /\ SizeMod \in Nat /\ IntMax \in Nat
  BY <1>3, LenProperties, SizesAssumption
<1>5. CASE ends = {}
  BY <1>1, <1>3, <1>5 DEF CString, Data
<1>6. CASE ends # {}
  <2> DEFINE k == CHOOSE i \in ends : \A j \in ends : i <= j
  <2>1. ends \in SUBSET Nat
    OBVIOUS
  <2>2. \E i \in ends : \A j \in ends : i <= j
    <3> HIDE DEF ends
    <3> QED
      BY <1>6, <2>1, Least, Zenon
  <2>3. k \in ends
    BY <2>2
  <2> HIDE DEF k
  <2>4. k \in 1..Len(p)
    BY <2>3
  <2>5. \A i \in 1..(k - 1) : p[i] \in Byte
    BY <1>3, <1>4, <2>4, ElementOfSeq
  <2>6. /\ SubSeq(p, 1, k - 1) \in Seq(Byte)
        /\ Len(SubSeq(p, 1, k - 1)) = IF 1 <= k - 1 THEN k - 1 - 1 + 1 ELSE 0
    BY <1>4, <2>4, <2>5, SubSeqProperties
  <2>7. Len(SubSeq(p, 1, k - 1)) + IntMax < SizeMod
    BY <1>1, <1>4, <2>4, <2>6
  <2>8. CString(p) = SubSeq(p, 1, k - 1)
    BY <1>6 DEF CString, k
  <2> QED
    BY <1>1, <1>3, <2>6, <2>7, <2>8 DEF Data
<1> QED
  BY <1>5, <1>6

\* The fields of an sbuf and of one that differs in its length and flags.
LEMMA SoundFields ==
    ASSUME NEW s, Sound(s)
    PROVE  /\ s.buf \in Seq(Byte) /\ Len(s.buf) = s.size
           /\ DOMAIN s.buf = 1..s.size
           /\ s.size \in 1..IntMax /\ s.len \in 0..(s.size - 1)
           /\ s.extend \in BOOLEAN /\ s.dynamic \in BOOLEAN
           /\ s.dynstruct \in BOOLEAN /\ s.finished \in BOOLEAN
           /\ s.overflowed \in BOOLEAN
           /\ s.wild = FALSE
           /\ s.heap = IF s.dynamic THEN {s.size} ELSE {}
<1>0. IntMax \in Nat
  BY SizesAssumption
<1>1. /\ s.buf \in Seq(Byte) /\ s.size \in 0..IntMax /\ s.len \in Nat
      /\ s.extend \in BOOLEAN /\ s.dynamic \in BOOLEAN
      /\ s.dynstruct \in BOOLEAN /\ s.finished \in BOOLEAN
      /\ s.overflowed \in BOOLEAN /\ s.wild \in BOOLEAN
  BY DEF Sound, Sbufs
<1>2. DOMAIN s.buf = 1..Len(s.buf)
  BY <1>1, LenProperties
<1>3. /\ s.len \in 0..(s.size - 1) /\ Len(s.buf) = s.size /\ ~s.wild
      /\ s.heap = IF s.dynamic THEN {s.size} ELSE {}
  BY DEF Sound
<1>4. s.size \in 1..IntMax
  BY <1>0, <1>1, <1>3
<1> QED
  BY <1>1, <1>2, <1>3, <1>4

\* A shorter or longer string within the buffer, and the overflow mark, keep
\* an sbuf sound.
LEMMA SetLen ==
    ASSUME NEW s, Sound(s), NEW n \in 0..(s.size - 1)
    PROVE  /\ Sound([s EXCEPT !.len = n])
           /\ [s EXCEPT !.len = n].dynstruct = s.dynstruct
<1>1. IntMax \in Nat
  BY SizesAssumption
<1>2. s.size \in 1..IntMax
  BY SoundFields, Zenon
<1>3. n \in Nat
  BY <1>1, <1>2
<1> QED
  BY <1>3 DEF Sound, Sbufs

LEMMA SetOverflowed ==
    ASSUME NEW s, Sound(s)
    PROVE  /\ Sound([s EXCEPT !.overflowed = TRUE])
           /\ [s EXCEPT !.overflowed = TRUE].dynstruct = s.dynstruct
  BY SizesAssumption DEF Sound, Sbufs

\* sbuf_clear() leaves a sound, empty sbuf.
LEMMA ClearSound ==
    ASSUME NEW s, Sound(s)
    PROVE  Sound(sbuf_clear(s)) /\ sbuf_clear(s).dynstruct = s.dynstruct
<1>0. s.size \in 1..IntMax /\ IntMax \in Nat
  BY SoundFields, SizesAssumption, Zenon
<1>1. 0 \in 0..(s.size - 1)
  BY <1>0
<1> DEFINE t == [s EXCEPT !.finished = FALSE, !.overflowed = FALSE, !.len = 0]
<1>2. s \in Sbufs
  BY DEF Sound
<1>3. t \in Sbufs
  <2>1. 0 \in Nat
    OBVIOUS
  <2> QED
    BY <1>2, <2>1, Zenon DEF Sbufs
<1>4. /\ t.len = 0 /\ t.size = s.size /\ t.buf = s.buf /\ t.wild = s.wild
      /\ t.heap = s.heap /\ t.dynamic = s.dynamic /\ t.dynstruct = s.dynstruct
  BY <1>2 DEF Sbufs
<1>5. sbuf_clear(s) = t
  BY DEF sbuf_clear
<1> HIDE DEF t
<1> QED
  BY <1>1, <1>3, <1>4, <1>5 DEF Sound

\* The capacity of an sbuf in use does not wrap.
LEMMA CapacityExact ==
    ASSUME NEW s, Sound(s)
    PROVE  /\ sbuf_capacity(s) = s.size - s.len - 1
           /\ sbuf_capacity(s) \in Nat
<1>0. s.size \in 1..IntMax /\ s.len \in 0..(s.size - 1)
  BY SoundFields, Zenon
<1>1. /\ s.size - s.len - 1 \in Nat /\ s.size - s.len - 1 < SizeMod
      /\ SizeMod \in Nat
  BY <1>0, SizesAssumption
<1>2. \A x \in Nat : x < SizeMod => x % SizeMod = x
  BY <1>1
<1> QED
  BY <1>1, <1>2 DEF sbuf_capacity

\* A string that fits, its terminator included, is stored inside the buffer.
LEMMA PokeInside ==
    ASSUME NEW s, Sound(s), NEW p \in Seq(Byte), s.len + Len(p) <= s.size
    PROVE  /\ Sound(Poke(s, p)) /\ Poke(s, p).len = s.len
           /\ Poke(s, p).size = s.size /\ Poke(s, p).dynstruct = s.dynstruct
<1> DEFINE f == [i \in DOMAIN s.buf |->
                    IF i \in (s.len + 1)..(s.len + Len(p))
                      THEN p[i - s.len] ELSE s.buf[i]]
<1>0. /\ s.buf \in Seq(Byte) /\ Len(s.buf) = s.size
      /\ DOMAIN s.buf = 1..s.size
      /\ s.size \in 1..IntMax /\ s.len \in 0..(s.size - 1) /\ s.wild = FALSE
  BY SoundFields, Zenon
<1>1. /\ s.buf \in Seq(Byte) /\ Len(s.buf) = s.size
      /\ DOMAIN s.buf = 1..s.size
      /\ s.size \in Nat /\ s.len \in Nat /\ Len(p) \in Nat /\ s.wild = FALSE
  BY <1>0, LenProperties, SizesAssumption
<1>2. \A i \in 1..s.size : f[i] \in Byte
  <2> SUFFICES ASSUME NEW i \in 1..s.size
               PROVE  f[i] \in Byte
    OBVIOUS
  <2>1. CASE i \in (s.len + 1)..(s.len + Len(p))
    <3>1. i - s.len \in 1..Len(p)
      BY <1>1, <2>1
    <3>2. p[i - s.len] \in Byte
      BY <3>1, ElementOfSeq
    <3> QED
      BY <1>1, <2>1, <3>2
  <2>2. CASE i \notin (s.len + 1)..(s.len + Len(p))
    <3>1. s.buf[i] \in Byte
      BY <1>1, ElementOfSeq
    <3> QED
      BY <1>1, <2>2, <3>1
  <2> QED
    BY <2>1, <2>2
<1>3. f \in [1..s.size -> Byte]
  BY <1>1, <1>2
<1>4. f \in Seq(Byte) /\ Len(f) = s.size
  <2> HIDE DEF f
  <2> QED
    BY <1>1, <1>3, FunctionIsSeq
<1>5. Poke(s, p) = [s EXCEPT !.buf = f, !.wild = FALSE]
  <2>1. (s.wild \/ (p # <<>> /\ s.len + Len(p) > Len(s.buf))) = FALSE
    BY <1>1
  <2> QED
    BY <2>1 DEF Poke
<1> HIDE DEF f
<1> QED
  BY <1>1, <1>4, <1>5 DEF Sound, Sbufs

\* A reallocation keeps the sbuf sound, its length and its struct, and makes
\* room for what was asked for.
LEMMA ExtendMakesRoom ==
    ASSUME NEW s, Sound(s), NEW addlen \in Nat, NEW got \in BOOLEAN,
           NEW e, e = sbuf_extend(s, addlen, got)
    PROVE  /\ e.ret \in {0, -1}
           /\ e.ret = 0 => /\ Sound(e.sb)
                           /\ e.sb.len = s.len
                           /\ e.sb.size >= s.size + addlen
                           /\ e.sb.dynstruct = s.dynstruct
<1> DEFINE size == sbuf_extendsize(s.size + addlen)
           freed == IF s.dynamic THEN kfree_data(s) ELSE s
           fail == ~s.extend \/ s.size + addlen >= SizeMod \/ size = -1 \/ ~got
           f == [i \in 1..size |-> IF i <= s.size THEN s.buf[i] ELSE Junk]
           n == [freed EXCEPT !.buf = f, !.size = size, !.dynamic = TRUE,
                              !.heap = @ \cup {size}]
<1>0. /\ s.buf \in Seq(Byte) /\ Len(s.buf) = s.size
      /\ s.size \in 1..IntMax /\ s.len \in 0..(s.size - 1)
      /\ s.dynamic \in BOOLEAN /\ s.wild = FALSE
      /\ s.heap = IF s.dynamic THEN {s.size} ELSE {}
  BY SoundFields, Zenon
<1>1. CASE addlen = 0
  <2>1. e = Result(s, 0)
    BY <1>1 DEF sbuf_extend
  <2>2. e.sb = s /\ e.ret = 0
    BY <2>1 DEF Result
  <2> QED
    BY <1>0, <1>1, <2>2
<1>2. CASE addlen # 0 /\ fail
  <2>1. e = Result(s, -1)
    BY <1>2 DEF sbuf_extend
  <2>2. e.ret = -1
    BY <2>1 DEF Result
  <2> QED
    BY <2>2
<1>3. CASE addlen # 0 /\ ~fail
  <2>1. e = Result(n, 0)
    BY <1>3 DEF sbuf_extend
  <2>2. e.sb = n /\ e.ret = 0
    BY <2>1 DEF Result
  <2>3. s.size + addlen \in Nat /\ size # -1
    BY <1>0, <1>3
  <2>4. size \in (s.size + addlen)..IntMax
    BY <2>3, ExtendsizeCovers
  <2>5. size \in 1..IntMax /\ size \in 0..IntMax /\ size >= s.size + addlen
    BY <1>0, <2>4, SizesAssumption
  <2> HIDE DEF size
  <2>6. f \in Seq(Byte) /\ Len(f) = size
    <3>1. \A i \in 1..size : f[i] \in Byte
      <4> SUFFICES ASSUME NEW i \in 1..size PROVE f[i] \in Byte
        OBVIOUS
      <4>1. CASE i <= s.size
        <5>1. i \in 1..Len(s.buf)
          BY <1>0, <4>1, <2>5
        <5>2. s.buf[i] \in Byte
          BY <1>0, <5>1, ElementOfSeq
        <5> QED
          BY <4>1, <5>2
      <4>2. CASE ~(i <= s.size)
        BY <4>2 DEF Byte
      <4> QED
        BY <4>1, <4>2
    <3>2. f \in [1..size -> Byte]
      BY <3>1
    <3> HIDE DEF f
    <3> QED
      BY <2>5, <3>2, FunctionIsSeq
  <2> HIDE DEF f
  <2>7. /\ freed \in Sbufs /\ freed.len = s.len /\ freed.heap = {}
        /\ freed.wild = FALSE /\ freed.dynstruct = s.dynstruct
    <3>1. s \in Sbufs
      BY DEF Sound
    <3>2. CASE s.dynamic
      <4>1. freed = [s EXCEPT !.heap = {}, !.wild = FALSE]
        <5>1. s.heap \ {s.size} = {} /\ (s.wild \/ s.size \notin s.heap) = FALSE
          BY <1>0, <3>2
        <5> QED
          BY <3>2, <5>1 DEF kfree_data
      <4> HIDE DEF freed
      <4> QED
        BY <3>1, <4>1 DEF Sbufs
    <3>3. CASE ~s.dynamic
      BY <1>0, <3>1, <3>3
    <3> QED
      BY <3>2, <3>3
  <2> HIDE DEF freed
  <2>8. n = [freed EXCEPT !.buf = f, !.size = size, !.dynamic = TRUE,
                          !.heap = {size}]
    BY <2>7
  <2> HIDE DEF n
  <2>9. /\ n.buf = f /\ n.size = size /\ n.dynamic = TRUE /\ n.heap = {size}
        /\ n.len = s.len /\ n.wild = FALSE /\ n.dynstruct = s.dynstruct
    BY <2>7, <2>8 DEF Sbufs
  <2>10. n \in Sbufs
    <3>1. {size} \in SUBSET (0..IntMax)
      BY <2>5
    <3> QED
      BY <2>5, <2>6, <2>7, <2>8, <3>1, Zenon DEF Sbufs
  <2>11. s.len \in 0..(size - 1)
    BY <1>0, <2>5
  <2>12. Sound(n)
    BY <2>6, <2>9, <2>10, <2>11 DEF Sound
  <2> QED
    BY <2>2, <2>5, <2>9, <2>12
<1> QED
  BY <1>1, <1>2, <1>3

\* After it has succeeded, wanted bytes and a terminator fit.
LEMMA EnsureCapacity ==
    ASSUME NEW s, Sound(s), NEW wanted \in Nat, NEW got \in BOOLEAN,
           NEW e, e = sbuf_ensure_capacity(s, wanted, got)
    PROVE  /\ e.ret \in {0, -1}
           /\ e.ret = 0 => /\ Sound(e.sb)
                           /\ e.sb.len = s.len
                           /\ s.len + wanted < e.sb.size
                           /\ e.sb.dynstruct = s.dynstruct
<1> DEFINE cap == sbuf_capacity(s)
<1>1. cap = s.size - s.len - 1 /\ cap \in Nat
  BY CapacityExact, Zenon
<1>2. s.size \in 1..IntMax /\ s.len \in 0..(s.size - 1)
  BY SoundFields, Zenon
<1> HIDE DEF cap
<1>3. CASE cap >= wanted
  <2>1. e = Result(s, 0)
    BY <1>3 DEF sbuf_ensure_capacity, cap
  <2>2. e.sb = s /\ e.ret = 0
    BY <2>1 DEF Result
  <2> QED
    BY <1>1, <1>2, <1>3, <2>2
<1>4. CASE ~(cap >= wanted)
  <2>1. e = sbuf_extend(s, wanted - cap, got)
    BY <1>4 DEF sbuf_ensure_capacity, cap
  <2> DEFINE more == wanted - cap
  <2>2. more \in Nat
    BY <1>1, <1>4
  <2>3. e = sbuf_extend(s, more, got)
    BY <2>1
  <2> HIDE DEF more
  <2>4. /\ e.ret \in {0, -1}
        /\ e.ret = 0 => /\ Sound(e.sb) /\ e.sb.len = s.len
                        /\ e.sb.size >= s.size + more
                        /\ e.sb.dynstruct = s.dynstruct
    BY <2>2, <2>3, ExtendMakesRoom
  <2>5. ASSUME e.ret = 0 PROVE s.len + wanted < e.sb.size
    <3>1. e.sb.size \in Int
      <4>1. Sound(e.sb)
        BY <2>4, <2>5
      <4>2. e.sb.size \in 1..IntMax
        BY <4>1, SoundFields, Zenon
      <4> QED
        BY <4>2
    <3> QED
      BY <1>1, <1>2, <2>4, <2>5, <3>1 DEF more
  <2> QED
    BY <2>4, <2>5
<1> QED
  BY <1>3, <1>4

-----------------------------------------------------------------------------
(* One lemma per routine: it leaves a sound sbuf.                          *)

LEMMA KeepsResult ==
    ASSUME NEW s, NEW t, NEW v \in {0, -1}, Sound(t), t.dynstruct = s.dynstruct
    PROVE  Keeps(s, Result(t, v))
  BY DEF Keeps, Result

LEMMA BcatKeeps ==
    ASSUME NEW s, Sound(s), NEW p \in Data, NEW got \in BOOLEAN
    PROVE  Keeps(s, sbuf_bcat(s, p, got))
<1> DEFINE e == sbuf_ensure_capacity(s, Len(p), got)
           r == sbuf_bcat(s, p, got)
<1> SUFFICES Keeps(s, r)
  OBVIOUS
<1>0. p \in Seq(Byte) /\ Len(p) \in Nat
  BY LenProperties DEF Data
<1>1. /\ e.ret \in {0, -1}
      /\ e.ret = 0 => /\ Sound(e.sb) /\ e.sb.len = s.len
                      /\ s.len + Len(p) < e.sb.size
                      /\ e.sb.dynstruct = s.dynstruct
  BY <1>0, EnsureCapacity
<1>2. s.len \in Nat
  <2>1. s.len \in 0..(s.size - 1) /\ s.size \in 1..IntMax
    BY SoundFields, Zenon
  <2> QED
    BY <2>1
<1>3. CASE s.overflowed
  <2>1. r = Result(s, -1)
    BY <1>3 DEF sbuf_bcat
  <2> QED
    BY <2>1, KeepsResult
<1>4. CASE ~s.overflowed /\ e.ret = -1
  <2>1. r = Result([s EXCEPT !.overflowed = TRUE], -1)
    BY <1>4 DEF sbuf_bcat
  <2>2. /\ Sound([s EXCEPT !.overflowed = TRUE])
        /\ [s EXCEPT !.overflowed = TRUE].dynstruct = s.dynstruct
    BY SetOverflowed, Zenon
  <2> DEFINE t == [s EXCEPT !.overflowed = TRUE]
  <2>3. r = Result(t, -1) /\ Sound(t) /\ t.dynstruct = s.dynstruct
    BY <2>1, <2>2
  <2> HIDE DEF r, t
  <2> QED
    BY <2>3, KeepsResult
<1>5. CASE ~s.overflowed /\ e.ret = 0
  <2> DEFINE w == Poke(e.sb, p)
  <2>1. r = Result([w EXCEPT !.len = @ + Len(p)], 0)
    BY <1>5 DEF sbuf_bcat
  <2>2. /\ Sound(e.sb) /\ e.sb.len = s.len /\ s.len + Len(p) < e.sb.size
        /\ e.sb.dynstruct = s.dynstruct
    BY <1>1, <1>5
  <2> HIDE DEF e, r
  <2>3. e.sb.size \in 1..IntMax
    BY <2>2, SoundFields, Zenon
  <2>4. e.sb.len + Len(p) <= e.sb.size
    BY <1>0, <1>2, <2>2, <2>3
  <2>5. /\ Sound(w) /\ w.len = e.sb.len /\ w.size = e.sb.size
        /\ w.dynstruct = e.sb.dynstruct
    BY <1>0, <2>2, <2>4, PokeInside
  <2> HIDE DEF w
  <2> DEFINE n == w.len + Len(p)
  <2>6. n \in 0..(w.size - 1)
    BY <1>0, <1>2, <2>2, <2>3, <2>5
  <2> HIDE DEF n
  <2>7. /\ Sound([w EXCEPT !.len = n])
        /\ [w EXCEPT !.len = n].dynstruct = w.dynstruct
    BY <2>5, <2>6, SetLen
  <2> DEFINE t == [w EXCEPT !.len = n]
  <2>8. r = Result(t, 0) /\ Sound(t) /\ t.dynstruct = s.dynstruct
    BY <2>1, <2>2, <2>5, <2>7 DEF n
  <2> HIDE DEF t
  <2> QED
    BY <2>8, KeepsResult
<1> QED
  BY <1>1, <1>3, <1>4, <1>5

\* sbuf_bcpy() is sbuf_bcat() on a cleared sbuf.
LEMMA BcpyKeeps ==
    ASSUME NEW s, Sound(s), NEW p \in Data, NEW got \in BOOLEAN
    PROVE  Keeps(s, sbuf_bcpy(s, p, got))
<1>1. Sound(sbuf_clear(s)) /\ sbuf_clear(s).dynstruct = s.dynstruct
  BY ClearSound, Zenon
<1>2. Keeps(sbuf_clear(s), sbuf_bcat(sbuf_clear(s), p, got))
  BY <1>1, BcatKeeps
<1> QED
  BY <1>1, <1>2 DEF sbuf_bcpy, Keeps

\* The size that vsnprintf() is told does not wrap either.
LEMMA FormatIs ==
    ASSUME NEW s, Sound(s), NEW p \in Data, NEW cap, cap = sbuf_capacity(s)
    PROVE  Format(s, p) =
             Poke(s, Append(IF Len(p) <= cap THEN p ELSE SubSeq(p, 1, cap), NUL))
<1> DEFINE room == (cap + 1) % SizeMod
<1>0. s.size \in 1..IntMax /\ s.len \in 0..(s.size - 1)
  BY SoundFields, Zenon
<1>1. cap = s.size - s.len - 1 /\ cap \in Nat
  BY CapacityExact, Zenon
<1>2. Len(p) \in Nat
  BY LenProperties DEF Data
<1>3. cap + 1 \in Nat /\ cap + 1 < SizeMod /\ SizeMod \in Nat
  BY <1>0, <1>1, SizesAssumption
<1>4. \A x \in Nat : x < SizeMod => x % SizeMod = x
  BY <1>3
<1>5. room = cap + 1
  BY <1>3, <1>4
<1>6. /\ room # 0 /\ room - 1 = cap
      /\ Len(p) < room <=> Len(p) <= cap
  BY <1>1, <1>2, <1>5
<1>7. Format(s, p) =
        IF room = 0 THEN s
        ELSE Poke(s, Append(IF Len(p) < room THEN p ELSE SubSeq(p, 1, room - 1), NUL))
  BY Zenon DEF Format
<1> HIDE DEF room
<1> QED
  BY <1>6, <1>7, Zenon

\* What vsnprintf() is given of the text, terminator included, fits.
LEMMA FormatInside ==
    ASSUME NEW s, Sound(s), NEW p \in Data
    PROVE  /\ Sound(Format(s, p)) /\ Format(s, p).len = s.len
           /\ Format(s, p).size = s.size
           /\ Format(s, p).dynstruct = s.dynstruct
<1> DEFINE cap == sbuf_capacity(s)
           fits == IF Len(p) <= cap THEN p ELSE SubSeq(p, 1, cap)
<1>0. p \in Seq(Byte) /\ Len(p) \in Nat /\ NUL \in Byte
  BY LenProperties, NulIsByte DEF Data
<1>1. /\ cap = s.size - s.len - 1 /\ cap \in Nat
      /\ s.size \in 1..IntMax /\ s.len \in 0..(s.size - 1)
  BY CapacityExact, SoundFields, Zenon
<1> HIDE DEF cap
<1>2. fits \in Seq(Byte) /\ Len(fits) \in Nat /\ Len(fits) <= cap
  <2>1. CASE Len(p) <= cap
    BY <1>0, <2>1
  <2>2. CASE ~(Len(p) <= cap)
    <3>1. \A i \in 1..cap : p[i] \in Byte
      BY <1>0, <1>1, <2>2, ElementOfSeq
    <3>2. /\ SubSeq(p, 1, cap) \in Seq(Byte)
          /\ Len(SubSeq(p, 1, cap)) = IF 1 <= cap THEN cap - 1 + 1 ELSE 0
      BY <1>1, <3>1, SubSeqProperties
    <3> QED
      BY <1>1, <2>2, <3>2
  <2> QED
    BY <2>1, <2>2
<1> HIDE DEF fits
<1> DEFINE text == Append(fits, NUL)
<1>3. text \in Seq(Byte) /\ Len(text) = Len(fits) + 1
  BY <1>0, <1>2, AppendProperties
<1> HIDE DEF text
<1>4. s.len + Len(text) <= s.size
  BY <1>1, <1>2, <1>3
<1>5. Format(s, p) = Poke(s, text)
  BY FormatIs, Zenon DEF cap, fits, text
<1> QED
  BY <1>3, <1>4, <1>5, PokeInside

\* Both rounds of the loop write inside the buffer they find.
LEMMA VprintfKeeps ==
    ASSUME NEW s, Sound(s), NEW p \in Data, NEW got \in BOOLEAN
    PROVE  Keeps(s, sbuf_vprintf(s, p, got))
<1> DEFINE once == Format(s, p)
           e == sbuf_ensure_capacity(once, Len(p), got)
           r == sbuf_vprintf(s, p, got)
<1> SUFFICES Keeps(s, r)
  OBVIOUS
<1>0. p \in Seq(Byte) /\ Len(p) \in Nat
  BY LenProperties DEF Data
<1>1. /\ Sound(once) /\ once.len = s.len /\ once.size = s.size
      /\ once.dynstruct = s.dynstruct
  BY FormatInside
<1>2. /\ s.size \in 1..IntMax /\ s.len \in 0..(s.size - 1)
      /\ sbuf_capacity(s) = s.size - s.len - 1
  BY CapacityExact, SoundFields, Zenon
<1>3. CASE s.overflowed
  <2>1. r = Result(s, -1)
    BY <1>3 DEF sbuf_vprintf
  <2> QED
    BY <2>1, KeepsResult
<1>4. CASE ~s.overflowed /\ Len(p) <= sbuf_capacity(s)
  <2>1. r = Result([once EXCEPT !.len = @ + Len(p)], 0)
    BY <1>4 DEF sbuf_vprintf
  <2> HIDE DEF once, r
  <2> DEFINE n == once.len + Len(p)
  <2>2. n \in 0..(once.size - 1)
    BY <1>0, <1>1, <1>2, <1>4
  <2> HIDE DEF n
  <2>3. /\ Sound([once EXCEPT !.len = n])
        /\ [once EXCEPT !.len = n].dynstruct = once.dynstruct
    BY <1>1, <2>2, SetLen
  <2> DEFINE t == [once EXCEPT !.len = n]
  <2>4. r = Result(t, 0) /\ Sound(t) /\ t.dynstruct = s.dynstruct
    BY <1>1, <2>1, <2>3 DEF n
  <2> HIDE DEF t
  <2> QED
    BY <2>4, KeepsResult
<1>5. CASE ~s.overflowed /\ ~(Len(p) <= sbuf_capacity(s))
  <2>0. /\ e.ret \in {0, -1}
        /\ e.ret = 0 => /\ Sound(e.sb) /\ e.sb.len = once.len
                        /\ once.len + Len(p) < e.sb.size
                        /\ e.sb.dynstruct = once.dynstruct
    <3> HIDE DEF once
    <3> QED
      BY <1>0, <1>1, EnsureCapacity
  <2>1. CASE e.ret = -1
    <3>1. r = Result([once EXCEPT !.overflowed = TRUE], -1)
      BY <1>5, <2>1 DEF sbuf_vprintf
    <3> HIDE DEF once, r
    <3>2. /\ Sound([once EXCEPT !.overflowed = TRUE])
          /\ [once EXCEPT !.overflowed = TRUE].dynstruct = once.dynstruct
      BY <1>1, SetOverflowed
    <3> DEFINE t == [once EXCEPT !.overflowed = TRUE]
    <3>3. r = Result(t, -1) /\ Sound(t) /\ t.dynstruct = s.dynstruct
      BY <1>1, <3>1, <3>2
    <3> HIDE DEF t
    <3> QED
      BY <3>3, KeepsResult
  <2>2. CASE e.ret = 0
    <3> DEFINE w == Format(e.sb, p)
    <3>1. r = Result([w EXCEPT !.len = @ + Len(p)], 0)
      BY <1>5, <2>2 DEF sbuf_vprintf
    <3> HIDE DEF e, once, r
    <3>2. /\ Sound(w) /\ w.len = e.sb.len /\ w.size = e.sb.size
          /\ w.dynstruct = e.sb.dynstruct
      BY <2>0, <2>2, FormatInside
    <3>3. e.sb.size \in 1..IntMax
      BY <2>0, <2>2, SoundFields, Zenon
    <3> HIDE DEF w
    <3> DEFINE n == w.len + Len(p)
    <3>4. n \in 0..(w.size - 1)
      BY <1>0, <1>1, <1>2, <2>0, <2>2, <3>2, <3>3
    <3> HIDE DEF n
    <3>5. /\ Sound([w EXCEPT !.len = n])
          /\ [w EXCEPT !.len = n].dynstruct = w.dynstruct
      BY <3>2, <3>4, SetLen
    <3> DEFINE t == [w EXCEPT !.len = n]
    <3>6. r = Result(t, 0) /\ Sound(t) /\ t.dynstruct = s.dynstruct
      BY <1>1, <2>0, <2>2, <3>1, <3>2, <3>5 DEF n
    <3> HIDE DEF t
    <3> QED
      BY <3>6, KeepsResult
  <2> QED
    BY <2>0, <2>1, <2>2
<1> QED
  BY <1>3, <1>4, <1>5

\* One byte, or the room for one.
LEMMA PutcKeeps ==
    ASSUME NEW s, Sound(s), NEW c \in Bytes, NEW got \in BOOLEAN
    PROVE  Keeps(s, sbuf_putc(s, c, got))
<1> DEFINE e == sbuf_ensure_capacity(s, 1, got)
           r == sbuf_putc(s, c, got)
<1> SUFFICES Keeps(s, r)
  OBVIOUS
<1>1. /\ e.ret \in {0, -1}
      /\ e.ret = 0 => /\ Sound(e.sb) /\ e.sb.len = s.len
                      /\ s.len + 1 < e.sb.size
                      /\ e.sb.dynstruct = s.dynstruct
  BY EnsureCapacity
<1>2. s.len \in 0..(s.size - 1) /\ s.size \in 1..IntMax
  BY SoundFields, Zenon
<1>3. CASE s.overflowed
  <2>1. r = Result(s, -1)
    BY <1>3 DEF sbuf_putc
  <2> QED
    BY <2>1, KeepsResult
<1>4. CASE ~s.overflowed /\ e.ret = -1
  <2> DEFINE t == [s EXCEPT !.overflowed = TRUE]
  <2>1. r = Result(t, -1)
    BY <1>4 DEF sbuf_putc
  <2>2. Sound(t) /\ t.dynstruct = s.dynstruct
    BY SetOverflowed, Zenon
  <2> HIDE DEF r, t
  <2> QED
    BY <2>1, <2>2, KeepsResult
<1>5. CASE ~s.overflowed /\ e.ret = 0 /\ c = NUL
  <2>1. r = e
    BY <1>5 DEF sbuf_putc
  <2> HIDE DEF e, r
  <2> QED
    BY <1>1, <1>5, <2>1 DEF Keeps
<1>6. CASE ~s.overflowed /\ e.ret = 0 /\ c # NUL
  <2> DEFINE w == Poke(e.sb, <<c>>)
             n == w.len + 1
             t == [w EXCEPT !.len = n]
  <2>1. r = Result(t, 0)
    BY <1>6 DEF sbuf_putc
  <2>2. <<c>> \in Seq(Byte) /\ Len(<<c>>) = 1
    BY DEF Byte
  <2> HIDE DEF e, r
  <2>3. /\ Sound(e.sb) /\ e.sb.len = s.len /\ s.len + 1 < e.sb.size
        /\ e.sb.dynstruct = s.dynstruct
    BY <1>1, <1>6
  <2>4. e.sb.size \in 1..IntMax
    BY <2>3, SoundFields, Zenon
  <2>5. e.sb.len + Len(<<c>>) <= e.sb.size
    BY <1>2, <2>2, <2>3, <2>4
  <2>6. /\ Sound(w) /\ w.len = e.sb.len /\ w.size = e.sb.size
        /\ w.dynstruct = e.sb.dynstruct
    BY <2>2, <2>3, <2>5, PokeInside
  <2> HIDE DEF w
  <2>7. n \in 0..(w.size - 1)
    BY <1>2, <2>3, <2>4, <2>6
  <2> HIDE DEF n
  <2>8. Sound(t) /\ t.dynstruct = w.dynstruct
    BY <2>6, <2>7, SetLen
  <2> HIDE DEF t
  <2> QED
    BY <2>1, <2>3, <2>6, <2>8, KeepsResult
<1> QED
  BY <1>1, <1>3, <1>4, <1>5, <1>6

\* A position beyond the string is refused.
LEMMA SetPosKeeps ==
    ASSUME NEW s, Sound(s), NEW pos \in Int
    PROVE  Keeps(s, sbuf_setpos(s, pos))
<1> DEFINE r == sbuf_setpos(s, pos)
           t == [s EXCEPT !.len = pos]
<1> SUFFICES Keeps(s, r)
  OBVIOUS
<1>1. s.len \in 0..(s.size - 1) /\ s.size \in 1..IntMax
  BY SoundFields, Zenon
<1>2. CASE pos < 0 \/ pos > s.len
  <2>1. r = Result(s, -1)
    BY <1>2 DEF sbuf_setpos
  <2> QED
    BY <2>1, KeepsResult
<1>3. CASE ~(pos < 0 \/ pos > s.len)
  <2>1. r = Result(t, 0)
    BY <1>3 DEF sbuf_setpos
  <2>2. pos \in 0..(s.size - 1)
    BY <1>1, <1>3
  <2>3. Sound(t) /\ t.dynstruct = s.dynstruct
    BY <2>2, SetLen
  <2> HIDE DEF r, t
  <2> QED
    BY <2>1, <2>3, KeepsResult
<1> QED
  BY <1>2, <1>3

\* The loop of sbuf_trim() reads the string only.
LEMMA TrimIs ==
    ASSUME NEW s, Sound(s), ~s.overflowed,
           NEW solid, solid = {i \in 1..s.len : s.buf[i] # Space}
    PROVE  sbuf_trim(s) =
             Result([s EXCEPT !.len =
                        IF solid = {} THEN 0
                        ELSE CHOOSE i \in solid : \A j \in solid : j <= i], 0)
<1> DEFINE read == {i \in 1..s.len : i <= Len(s.buf) /\ s.buf[i] # Space}
           last == IF solid = {} THEN 0
                   ELSE CHOOSE i \in solid : \A j \in solid : j <= i
           v == s.wild \/ s.len > Len(s.buf)
<1>1. /\ s.len \in 0..(s.size - 1) /\ s.size \in 1..IntMax
      /\ Len(s.buf) = s.size /\ s.wild = FALSE /\ s \in Sbufs
  BY SoundFields, Zenon DEF Sound
<1>2. read = solid
  BY <1>1
<1>3. sbuf_trim(s) = Result([s EXCEPT !.len = last, !.wild = v], 0)
  <2>1. sbuf_trim(s) =
          Result([s EXCEPT !.len = IF read = {} THEN 0
                     ELSE CHOOSE i \in read : \A j \in read : j <= i,
                           !.wild = v], 0)
    BY Zenon DEF sbuf_trim
  <2> HIDE DEF v, read
  <2> QED
    BY <1>2, <2>1
<1>4. v = s.wild
  <2>1. ~(s.len > Len(s.buf))
    BY <1>1
  <2> QED
    BY <1>1, <2>1
<1> HIDE DEF v, last
<1>5. [s EXCEPT !.len = last, !.wild = v] = [s EXCEPT !.len = last]
  BY <1>1, <1>4 DEF Sbufs
<1> QED
  BY <1>3, <1>5 DEF last

\* Trimming ends at a byte of the string, or at none.
LEMMA TrimKeeps ==
    ASSUME NEW s, Sound(s)
    PROVE  Keeps(s, sbuf_trim(s))
<1> DEFINE solid == {i \in 1..s.len : s.buf[i] # Space}
           last == IF solid = {} THEN 0
                   ELSE CHOOSE i \in solid : \A j \in solid : j <= i
           r == sbuf_trim(s)
           t == [s EXCEPT !.len = last]
<1> SUFFICES Keeps(s, r)
  OBVIOUS
<1>1. s.len \in 0..(s.size - 1) /\ s.size \in 1..IntMax
  BY SoundFields, Zenon
<1>2. last \in 0..(s.size - 1)
  <2>1. CASE solid = {}
    BY <1>1, <2>1
  <2>2. CASE solid # {}
    <3>1. solid \in SUBSET (1..s.len) /\ s.len \in Nat
      BY <1>1
    <3> HIDE DEF solid
    <3>2. \E i \in solid : \A j \in solid : j <= i
      BY <2>2, <3>1, Greatest, Zenon
    <3>3. last \in solid
      BY <2>2, <3>2
    <3> HIDE DEF last
    <3> QED
      BY <1>1, <3>1, <3>3
  <2> QED
    BY <2>1, <2>2
<1>3. CASE s.overflowed
  <2>1. r = Result(s, -1)
    BY <1>3 DEF sbuf_trim
  <2> QED
    BY <2>1, KeepsResult
<1>4. CASE ~s.overflowed
  <2>1. r = Result(t, 0)
    BY <1>4, TrimIs, Zenon
  <2> HIDE DEF last
  <2>2. Sound(t) /\ t.dynstruct = s.dynstruct
    BY <1>2, SetLen
  <2> HIDE DEF r, t
  <2> QED
    BY <2>1, <2>2, KeepsResult
<1> QED
  BY <1>3, <1>4

\* The terminator is written into the reserved byte.
LEMMA FinishSound ==
    ASSUME NEW s, Sound(s)
    PROVE  Sound(sbuf_finish(s)) /\ sbuf_finish(s).dynstruct = s.dynstruct
<1> DEFINE w == Poke(s, <<NUL>>)
           t == [w EXCEPT !.overflowed = FALSE, !.finished = TRUE]
<1>1. <<NUL>> \in Seq(Byte) /\ Len(<<NUL>>) = 1
  BY NulIsByte
<1>2. s.len \in 0..(s.size - 1) /\ s.size \in 1..IntMax
  BY SoundFields, Zenon
<1>3. s.len + Len(<<NUL>>) <= s.size
  BY <1>1, <1>2
<1>4. Sound(w) /\ w.dynstruct = s.dynstruct
  BY <1>1, <1>3, PokeInside
<1>5. sbuf_finish(s) = t
  BY DEF sbuf_finish
<1> HIDE DEF w
<1>6. w \in Sbufs
  BY <1>4 DEF Sound
<1>7. t \in Sbufs
  BY <1>6, Zenon DEF Sbufs
<1>8. /\ t.len = w.len /\ t.size = w.size /\ t.buf = w.buf /\ t.wild = w.wild
      /\ t.heap = w.heap /\ t.dynamic = w.dynamic /\ t.dynstruct = w.dynstruct
  BY <1>6 DEF Sbufs
<1> HIDE DEF t
<1> QED
  BY <1>4, <1>5, <1>7, <1>8 DEF Sound

-----------------------------------------------------------------------------
(* An sbuf on a client's buffer of length 0: no byte for the terminator.   *)
(* Its capacity wraps, so that no call ever moves it to a larger buffer.   *)
Bare(s) ==
    /\ s \in Sbufs
    /\ s.size = 0 /\ Len(s.buf) = 0
    /\ s.dynamic = FALSE /\ s.heap = {}
    /\ ~s.wild => s.len <= IntMax

\* What a call makes of it: the same, or an access outside the buffer.
Stays(s, r) ==
    Bare(r.sb) /\ r.sb.dynstruct = s.dynstruct /\ r.ret \in {0, -1}

LEMMA StaysResult ==
    ASSUME NEW s, NEW t, NEW v \in {0, -1}, Bare(t), t.dynstruct = s.dynstruct
    PROVE  Stays(s, Result(t, v))
  BY DEF Stays, Result

\* Another length.
LEMMA BareLen ==
    ASSUME NEW s, Bare(s), NEW n \in Nat, s.wild \/ n <= IntMax,
           NEW t, t = [s EXCEPT !.len = n]
    PROVE  Bare(t) /\ t.dynstruct = s.dynstruct
<1>1. s \in Sbufs
  BY DEF Bare
<1>2. t \in Sbufs
  BY <1>1, Zenon DEF Sbufs
<1>3. /\ t.size = s.size /\ t.buf = s.buf /\ t.dynamic = s.dynamic
      /\ t.heap = s.heap /\ t.len = n /\ t.wild = s.wild
      /\ t.dynstruct = s.dynstruct
  BY <1>1 DEF Sbufs
<1> QED
  BY <1>2, <1>3 DEF Bare

\* sbuf.c:351: the capacity is that of almost the whole address space.
LEMMA BareCapacity ==
    ASSUME NEW s, Bare(s), ~s.wild
    PROVE  /\ s.len \in 0..IntMax
           /\ sbuf_capacity(s) = SizeMod - s.len - 1
           /\ sbuf_capacity(s) \in Nat /\ sbuf_capacity(s) >= 1
           /\ \A n \in Nat : n + IntMax < SizeMod => n <= sbuf_capacity(s)
<1>1. s.len \in 0..IntMax /\ s.size = 0 /\ IntMax \in Nat
  BY SizesAssumption DEF Bare, Sbufs
<1>2. SizeMod \in Nat /\ 2 * IntMax < SizeMod - 1
  BY SizesAssumption
<1>3. \A x \in Int : x < 0 /\ x + SizeMod >= 0 => x % SizeMod = x + SizeMod
  BY <1>2
<1> DEFINE x == s.size - s.len - 1
<1>4. x \in Int /\ x = 0 - s.len - 1 /\ x < 0 /\ x + SizeMod >= 0
  BY <1>1, <1>2
<1>5. sbuf_capacity(s) = x + SizeMod
  BY <1>3, <1>4 DEF sbuf_capacity
<1> QED
  BY <1>1, <1>2, <1>4, <1>5

\* Every request seems to be met by the buffer as it is.
LEMMA BareEnsured ==
    ASSUME NEW s, Bare(s), ~s.wild, NEW wanted \in Nat,
           wanted + IntMax < SizeMod \/ wanted = 1, NEW got
    PROVE  sbuf_ensure_capacity(s, wanted, got) = Result(s, 0)
<1>1. sbuf_capacity(s) >= wanted
  BY BareCapacity
<1> QED
  BY <1>1 DEF sbuf_ensure_capacity

\* There is no byte to store into: storing any is an access outside.
LEMMA BarePoke ==
    ASSUME NEW s, Bare(s), NEW p \in Seq(Byte), NEW t, t = Poke(s, p)
    PROVE  /\ Bare(t) /\ t.dynstruct = s.dynstruct /\ t.len = s.len
           /\ t.finished = s.finished /\ t.overflowed = s.overflowed
           /\ t.wild = (s.wild \/ p # <<>>)
<1> DEFINE f == [i \in DOMAIN s.buf |->
                    IF i \in (s.len + 1)..(s.len + Len(p))
                      THEN p[i - s.len] ELSE s.buf[i]]
           v == s.wild \/ (p # <<>> /\ s.len + Len(p) > Len(s.buf))
<1>0. /\ s \in Sbufs /\ s.buf \in Seq(Byte) /\ Len(s.buf) = 0 /\ s.len \in Nat
      /\ s.wild \in BOOLEAN
  BY DEF Bare, Sbufs
<1>1. DOMAIN s.buf = 1..0 /\ Len(p) \in Nat /\ (p # <<>> => Len(p) > 0)
  BY <1>0, LenProperties, EmptySeq
<1>2. f \in [1..0 -> Byte]
  BY <1>1
<1>3. v = (s.wild \/ p # <<>>) /\ v \in BOOLEAN
  BY <1>0, <1>1
<1>4. t = [s EXCEPT !.buf = f, !.wild = v]
  BY DEF Poke
<1> HIDE DEF f, v
<1>5. f \in Seq(Byte) /\ Len(f) = 0
  BY <1>2, FunctionIsSeq
<1>6. t \in Sbufs
  BY <1>0, <1>3, <1>4, <1>5, Zenon DEF Sbufs
<1>7. /\ t.buf = f /\ t.wild = v /\ t.size = s.size /\ t.len = s.len
      /\ t.dynamic = s.dynamic /\ t.heap = s.heap
      /\ t.dynstruct = s.dynstruct /\ t.finished = s.finished
      /\ t.overflowed = s.overflowed
  BY <1>0, <1>4 DEF Sbufs
<1> QED
  BY <1>3, <1>5, <1>6, <1>7 DEF Bare

\* One lemma per routine, as above.
LEMMA BareClear ==
    ASSUME NEW s, Bare(s), ~s.wild
    PROVE  /\ Bare(sbuf_clear(s)) /\ ~sbuf_clear(s).wild
           /\ sbuf_clear(s).dynstruct = s.dynstruct
<1> DEFINE t == sbuf_clear(s)
<1>1. s \in Sbufs
  BY DEF Bare
<1>2. t = [s EXCEPT !.finished = FALSE, !.overflowed = FALSE, !.len = 0]
  BY DEF sbuf_clear
<1>3. t \in Sbufs
  <2>1. 0 \in Nat
    OBVIOUS
  <2> QED
    BY <1>1, <1>2, <2>1, Zenon DEF Sbufs
<1>4. /\ t.size = s.size /\ t.buf = s.buf /\ t.dynamic = s.dynamic
      /\ t.heap = s.heap /\ t.len = 0 /\ t.wild = s.wild
      /\ t.dynstruct = s.dynstruct
  BY <1>1, <1>2 DEF Sbufs
<1>5. 0 <= IntMax
  BY SizesAssumption
<1> HIDE DEF t
<1>6. Bare(t) /\ ~t.wild /\ t.dynstruct = s.dynstruct
  BY <1>3, <1>4, <1>5 DEF Bare
<1> QED
  BY <1>6 DEF t

LEMMA BcatStays ==
    ASSUME NEW s, Bare(s), ~s.wild, NEW p \in Data, NEW got \in BOOLEAN
    PROVE  Stays(s, sbuf_bcat(s, p, got))
<1> DEFINE r == sbuf_bcat(s, p, got)
           w == Poke(s, p)
           n == w.len + Len(p)
           t == [w EXCEPT !.len = n]
<1> SUFFICES Stays(s, r)
  OBVIOUS
<1>0. p \in Seq(Byte) /\ Len(p) \in Nat /\ Len(p) + IntMax < SizeMod
  BY LenProperties DEF Data
<1>1. sbuf_ensure_capacity(s, Len(p), got) = Result(s, 0)
  BY <1>0, BareEnsured
<1>2. CASE s.overflowed
  <2>1. r = Result(s, -1)
    BY <1>2 DEF sbuf_bcat
  <2> HIDE DEF r
  <2> QED
    BY <2>1, StaysResult
<1>3. CASE ~s.overflowed
  <2>1. r = Result(t, 0)
    BY <1>1, <1>3 DEF sbuf_bcat, Result
  <2>2. /\ Bare(w) /\ w.len = s.len /\ w.dynstruct = s.dynstruct
        /\ w.wild = (s.wild \/ p # <<>>)
    BY <1>0, BarePoke
  <2>3. s.len \in 0..IntMax
    BY BareCapacity, Zenon
  <2> HIDE DEF w
  <2>4. n \in Nat /\ (~w.wild => n <= IntMax)
    <3>1. n \in Nat /\ IntMax \in Nat
      BY <1>0, <2>2, <2>3, SizesAssumption
    <3>2. ASSUME ~w.wild PROVE n <= IntMax
      <4>1. p = <<>>
        BY <2>2, <3>2, Zenon
      <4> QED
        BY <2>2, <2>3, <4>1
    <3> QED
      BY <3>1, <3>2
  <2>5. t = [w EXCEPT !.len = n]
    OBVIOUS
  <2> HIDE DEF n, t
  <2>6. w.wild \/ n <= IntMax
    BY <2>4
  <2>7. Bare(t) /\ t.dynstruct = w.dynstruct
    BY <2>2, <2>4, <2>5, <2>6, BareLen
  <2> HIDE DEF r
  <2> QED
    BY <2>1, <2>2, <2>7, StaysResult
<1> QED
  BY <1>2, <1>3

LEMMA BcpyStays ==
    ASSUME NEW s, Bare(s), ~s.wild, NEW p \in Data, NEW got \in BOOLEAN
    PROVE  Stays(s, sbuf_bcpy(s, p, got))
<1> DEFINE t == sbuf_clear(s)
<1>1. Bare(t) /\ ~t.wild /\ t.dynstruct = s.dynstruct
  BY BareClear, Zenon
<1>2. sbuf_bcpy(s, p, got) = sbuf_bcat(t, p, got)
  BY DEF sbuf_bcpy
<1> HIDE DEF t
<1>3. Stays(t, sbuf_bcat(t, p, got))
  BY <1>1, BcatStays
<1> QED
  BY <1>1, <1>2, <1>3 DEF Stays

\* vsnprintf() is told of no room at all before the first text, and of almost
\* the whole address space after it.
LEMMA BareFormat ==
    ASSUME NEW s, Bare(s), ~s.wild, NEW p \in Data, NEW t, t = Format(s, p)
    PROVE  /\ Bare(t) /\ t.dynstruct = s.dynstruct /\ t.len = s.len
           /\ t.wild \/ s.len = 0
<1> DEFINE room == (sbuf_capacity(s) + 1) % SizeMod
           text == Append(p, NUL)
<1>0. /\ p \in Seq(Byte) /\ Len(p) \in Nat /\ Len(p) + IntMax < SizeMod
      /\ NUL \in Byte
  BY LenProperties, NulIsByte DEF Data
<1>1. s.len \in 0..IntMax /\ sbuf_capacity(s) = SizeMod - s.len - 1
  BY BareCapacity, Zenon
<1>2. t = IF room = 0 THEN s
          ELSE Poke(s, Append(IF Len(p) < room THEN p
                              ELSE SubSeq(p, 1, room - 1), NUL))
  BY Zenon DEF Format
<1>3. CASE s.len = 0
  <2>1. SizeMod \in Nat /\ SizeMod > 0 /\ sbuf_capacity(s) + 1 = SizeMod
    BY <1>1, <1>3, SizesAssumption
  <2>2. SizeMod % SizeMod = 0
    BY <2>1
  <2>3. room = 0
    BY <2>1, <2>2
  <2> QED
    BY <1>2, <1>3, <2>3
<1>4. CASE s.len # 0
  <2>1. /\ sbuf_capacity(s) + 1 \in Nat /\ sbuf_capacity(s) + 1 < SizeMod
        /\ SizeMod \in Nat /\ sbuf_capacity(s) + 1 = SizeMod - s.len
    BY <1>1, <1>4, SizesAssumption
  <2>2. \A x \in Nat : x < SizeMod => x % SizeMod = x
    BY <2>1
  <2>3. room = SizeMod - s.len
    BY <2>1, <2>2
  <2>4. room # 0 /\ Len(p) < room
    <3> HIDE DEF room
    <3>1. IntMax \in Nat /\ 2 * IntMax < SizeMod
      BY SizesAssumption
    <3> QED
      BY <1>0, <1>1, <2>1, <2>3, <3>1
  <2> HIDE DEF room
  <2>5. t = Poke(s, text)
    BY <1>2, <2>4, Zenon
  <2>6. text \in Seq(Byte) /\ Len(text) = Len(p) + 1
    BY <1>0, AppendProperties
  <2> HIDE DEF text
  <2>7. text # <<>>
    BY <1>0, <2>6
  <2>8. /\ Bare(t) /\ t.dynstruct = s.dynstruct /\ t.len = s.len
        /\ t.wild = (s.wild \/ text # <<>>)
    BY <2>5, <2>6, BarePoke
  <2> QED
    BY <2>7, <2>8
<1> QED
  BY <1>3, <1>4

LEMMA VprintfStays ==
    ASSUME NEW s, Bare(s), ~s.wild, NEW p \in Data, Len(p) <= IntMax,
           NEW got \in BOOLEAN
    PROVE  Stays(s, sbuf_vprintf(s, p, got))
<1> DEFINE r == sbuf_vprintf(s, p, got)
           w == Format(s, p)
           n == w.len + Len(p)
           t == [w EXCEPT !.len = n]
<1> SUFFICES Stays(s, r)
  OBVIOUS
<1>0. p \in Seq(Byte) /\ Len(p) \in Nat /\ Len(p) + IntMax < SizeMod
  BY LenProperties DEF Data
<1>1. Len(p) <= sbuf_capacity(s) /\ s.len \in 0..IntMax
  BY <1>0, BareCapacity
<1>2. CASE s.overflowed
  <2>1. r = Result(s, -1)
    BY <1>2 DEF sbuf_vprintf
  <2> HIDE DEF r
  <2> QED
    BY <2>1, StaysResult
<1>3. CASE ~s.overflowed
  <2>1. r = Result(t, 0)
    BY <1>1, <1>3 DEF sbuf_vprintf
  <2>2. /\ Bare(w) /\ w.len = s.len /\ w.dynstruct = s.dynstruct
        /\ w.wild \/ s.len = 0
    BY BareFormat
  <2> HIDE DEF w
  <2>4. n \in Nat /\ (~w.wild => n <= IntMax)
    BY <1>0, <1>1, <2>2, SizesAssumption
  <2>5. t = [w EXCEPT !.len = n]
    OBVIOUS
  <2> HIDE DEF n, t
  <2>6. w.wild \/ n <= IntMax
    BY <2>4
  <2>7. Bare(t) /\ t.dynstruct = w.dynstruct
    BY <2>2, <2>4, <2>5, <2>6, BareLen
  <2> HIDE DEF r
  <2> QED
    BY <2>1, <2>2, <2>7, StaysResult
<1> QED
  BY <1>2, <1>3

LEMMA PutcStays ==
    ASSUME NEW s, Bare(s), ~s.wild, NEW c \in Bytes, NEW got \in BOOLEAN
    PROVE  Stays(s, sbuf_putc(s, c, got))
<1> DEFINE r == sbuf_putc(s, c, got)
           p == <<c>>
           w == Poke(s, p)
           n == w.len + 1
           t == [w EXCEPT !.len = n]
<1> SUFFICES Stays(s, r)
  OBVIOUS
<1>0. p \in Seq(Byte) /\ p # <<>>
  BY DEF Byte
<1>1. sbuf_ensure_capacity(s, 1, got) = Result(s, 0)
  BY BareEnsured
<1>2. CASE s.overflowed
  <2>1. r = Result(s, -1)
    BY <1>2 DEF sbuf_putc
  <2> HIDE DEF r
  <2> QED
    BY <2>1, StaysResult
<1>3. CASE ~s.overflowed /\ c = NUL
  <2>1. r = Result(s, 0)
    BY <1>1, <1>3 DEF sbuf_putc, Result
  <2> HIDE DEF r
  <2> QED
    BY <2>1, StaysResult
<1>4. CASE ~s.overflowed /\ c # NUL
  <2>1. r = Result(t, 0)
    BY <1>1, <1>4 DEF sbuf_putc, Result
  <2> HIDE DEF p
  <2>2. /\ Bare(w) /\ w.len = s.len /\ w.dynstruct = s.dynstruct
        /\ w.wild = (s.wild \/ p # <<>>)
    BY <1>0, BarePoke
  <2>3. s.len \in 0..IntMax
    BY BareCapacity, Zenon
  <2> HIDE DEF w
  <2>4. n \in Nat /\ w.wild
    <3>1. w.wild
      BY <1>0, <2>2, Zenon
    <3>2. n \in Nat
      BY <2>2, <2>3, SizesAssumption
    <3> QED
      BY <3>1, <3>2
  <2>5. t = [w EXCEPT !.len = n]
    OBVIOUS
  <2> HIDE DEF n, t
  <2>6. w.wild \/ n <= IntMax
    BY <2>4
  <2>7. Bare(t) /\ t.dynstruct = w.dynstruct
    BY <2>2, <2>4, <2>5, <2>6, BareLen
  <2> HIDE DEF r
  <2> QED
    BY <2>1, <2>2, <2>7, StaysResult
<1> QED
  BY <1>2, <1>3, <1>4

LEMMA SetPosStays ==
    ASSUME NEW s, Bare(s), ~s.wild, NEW pos \in Int
    PROVE  Stays(s, sbuf_setpos(s, pos))
<1> DEFINE r == sbuf_setpos(s, pos)
           t == [s EXCEPT !.len = pos]
<1> SUFFICES Stays(s, r)
  OBVIOUS
<1>0. s.len \in 0..IntMax
  BY BareCapacity, Zenon
<1>1. CASE pos < 0 \/ pos > s.len
  <2>1. r = Result(s, -1)
    BY <1>1 DEF sbuf_setpos
  <2> HIDE DEF r
  <2> QED
    BY <2>1, StaysResult
<1>2. CASE ~(pos < 0 \/ pos > s.len)
  <2>1. r = Result(t, 0)
    BY <1>2 DEF sbuf_setpos
  <2>2. pos \in Nat /\ pos <= IntMax
    BY <1>0, <1>2, SizesAssumption
  <2>3. Bare(t) /\ t.dynstruct = s.dynstruct
    BY <2>2, BareLen
  <2> HIDE DEF t
  <2> HIDE DEF r
  <2> QED
    BY <2>1, <2>3, StaysResult
<1> QED
  BY <1>1, <1>2

LEMMA TrimStays ==
    ASSUME NEW s, Bare(s), ~s.wild
    PROVE  Stays(s, sbuf_trim(s))
<1> DEFINE r == sbuf_trim(s)
           solid == {i \in 1..s.len : i <= Len(s.buf) /\ s.buf[i] # Space}
           v == s.wild \/ s.len > Len(s.buf)
           t == [s EXCEPT !.len = 0, !.wild = v]
<1> SUFFICES Stays(s, r)
  OBVIOUS
<1>0. s.len \in 0..IntMax /\ Len(s.buf) = 0
  BY BareCapacity, Zenon DEF Bare
<1>1. CASE s.overflowed
  <2>1. r = Result(s, -1)
    BY <1>1 DEF sbuf_trim
  <2> HIDE DEF r
  <2> QED
    BY <2>1, StaysResult
<1>2. CASE ~s.overflowed
  <2>1. solid = {}
    BY <1>0
  <2>2. r = Result(t, 0)
    BY <1>2, <2>1, Zenon DEF sbuf_trim
  <2>3. 0 \in Nat /\ 0 <= IntMax
    BY SizesAssumption
  <2>4. s \in Sbufs /\ s.wild \in BOOLEAN
    BY DEF Bare, Sbufs
  <2>5. v \in BOOLEAN
    BY <2>4
  <2> HIDE DEF v
  <2>6. t \in Sbufs
    BY <2>3, <2>4, <2>5, Zenon DEF Sbufs
  <2>7. /\ t.size = s.size /\ t.buf = s.buf /\ t.dynamic = s.dynamic
        /\ t.heap = s.heap /\ t.len = 0 /\ t.dynstruct = s.dynstruct
    BY <2>4 DEF Sbufs
  <2> HIDE DEF t
  <2>8. Bare(t)
    BY <2>3, <2>6, <2>7 DEF Bare
  <2> HIDE DEF r
  <2> QED
    BY <2>2, <2>7, <2>8, StaysResult
<1> QED
  BY <1>1, <1>2

LEMMA FinishStays ==
    ASSUME NEW s, Bare(s), ~s.wild
    PROVE  Stays(s, Result(sbuf_finish(s), 0))
<1> DEFINE p == <<NUL>>
           w == Poke(s, p)
           t == [w EXCEPT !.overflowed = FALSE, !.finished = TRUE]
<1>0. p \in Seq(Byte) /\ p # <<>>
  BY NulIsByte
<1>1. sbuf_finish(s) = t
  BY DEF sbuf_finish
<1> HIDE DEF p
<1>2. /\ Bare(w) /\ w.len = s.len /\ w.dynstruct = s.dynstruct
      /\ w.wild = (s.wild \/ p # <<>>)
  BY <1>0, BarePoke
<1> HIDE DEF w
<1>3. w \in Sbufs
  BY <1>2 DEF Bare
<1>4. t \in Sbufs
  BY <1>3, Zenon DEF Sbufs
<1>5. /\ t.size = w.size /\ t.buf = w.buf /\ t.dynamic = w.dynamic
      /\ t.heap = w.heap /\ t.len = w.len /\ t.wild = w.wild
      /\ t.dynstruct = w.dynstruct
  BY <1>3 DEF Sbufs
<1> HIDE DEF t
<1>6. Bare(t)
  BY <1>2, <1>4, <1>5 DEF Bare
<1> QED
  BY <1>1, <1>2, <1>5, <1>6, StaysResult
-----------------------------------------------------------------------------
\* What is left of an sbuf that is deleted, or was never made.
Closed(s) ==
    s \in Sbufs /\ s.wild = FALSE /\ s.heap = {} /\ (s.dynamic => s.buf = <<>>)

\* Deleting frees what there is to free, once.
LEMMA DeleteCloses ==
    ASSUME NEW s, Sound(s) \/ (Bare(s) /\ ~s.wild) \/ Closed(s)
    PROVE  Closed(sbuf_delete(s))
<1>1. CASE Closed(s)
  <2>1. sbuf_delete(s) = s
    BY <1>1 DEF Closed, sbuf_delete
  <2> QED
    BY <1>1, <2>1
<1>2. CASE Sound(s)
  <2>0. /\ s \in Sbufs /\ s.dynamic \in BOOLEAN /\ s.wild = FALSE
        /\ s.heap = IF s.dynamic THEN {s.size} ELSE {}
        /\ Len(s.buf) = s.size /\ s.size \in 1..IntMax
    BY <1>2, SoundFields, Zenon DEF Sound
  <2>1. CASE ~s.dynamic
    <3>1. sbuf_delete(s) = s
      BY <2>1 DEF sbuf_delete
    <3> QED
      BY <2>0, <2>1, <3>1 DEF Closed
  <2>2. CASE s.dynamic
    <3> DEFINE t == [s EXCEPT !.heap = {}, !.wild = FALSE, !.buf = <<>>]
    <3>1. s.buf # <<>>
      BY <2>0
    <3>2. s.heap = {s.size}
      BY <2>0, <2>2
    <3>3. kfree_data(s) = [s EXCEPT !.heap = {}, !.wild = FALSE]
      <4>1. s.heap \ {s.size} = {} /\ (s.wild \/ s.size \notin s.heap) = FALSE
        BY <2>0, <3>2
      <4> QED
        BY <4>1 DEF kfree_data
    <3>4. sbuf_delete(s) = t
      BY <2>2, <3>1, <3>3 DEF sbuf_delete
    <3>5. t \in Sbufs
      <4>1. <<>> \in Seq(Byte) /\ {} \in SUBSET (0..IntMax)
        BY EmptySeq
      <4> QED
        BY <2>0, <4>1, Zenon DEF Sbufs
    <3>6. t.wild = FALSE /\ t.heap = {} /\ t.buf = <<>>
      BY <2>0 DEF Sbufs
    <3> HIDE DEF t
    <3> QED
      BY <3>4, <3>5, <3>6 DEF Closed
  <2> QED
    BY <2>1, <2>2
<1>3. CASE Bare(s) /\ ~s.wild
  <2>1. s \in Sbufs /\ s.wild = FALSE /\ s.heap = {} /\ s.dynamic = FALSE
    BY <1>3 DEF Bare, Sbufs
  <2>2. sbuf_delete(s) = s
    BY <2>1 DEF sbuf_delete
  <2> QED
    BY <2>1, <2>2 DEF Closed
<1> QED
  BY <1>1, <1>2, <1>3

\* The zeroed struct with its flags, and what it is with a buffer.
LEMMA FreshClosed ==
    ASSUME NEW extend \in BOOLEAN, NEW onheap \in BOOLEAN
    PROVE  LET s == [NoSbuf EXCEPT !.extend = extend, !.dynstruct = onheap]
           IN  /\ Closed(NoSbuf) /\ Closed(s)
               /\ s.extend = extend /\ s.dynstruct = onheap /\ s.len = 0
               /\ s.dynamic = FALSE /\ s.size = 0
<1> DEFINE s == [NoSbuf EXCEPT !.extend = extend, !.dynstruct = onheap]
<1>1. <<>> \in Seq(Byte) /\ {} \in SUBSET (0..IntMax) /\ 0 \in 0..IntMax /\ 0 \in Nat
  BY EmptySeq, SizesAssumption
<1>2. NoSbuf \in Sbufs
  BY <1>1, Zenon DEF Sbufs, NoSbuf
<1>3. s \in Sbufs
  BY <1>2, Zenon DEF Sbufs
<1>4. /\ NoSbuf.wild = FALSE /\ NoSbuf.heap = {} /\ NoSbuf.dynamic = FALSE
      /\ NoSbuf.len = 0 /\ NoSbuf.size = 0
  BY DEF NoSbuf
<1>5. /\ s.extend = extend /\ s.dynstruct = onheap /\ s.wild = NoSbuf.wild
      /\ s.heap = NoSbuf.heap /\ s.dynamic = NoSbuf.dynamic
      /\ s.len = NoSbuf.len /\ s.size = NoSbuf.size
  BY <1>2 DEF Sbufs
<1> HIDE DEF s
<1>6. Closed(NoSbuf) /\ Closed(s)
  BY <1>2, <1>3, <1>4, <1>5 DEF Closed
<1> QED
  BY <1>4, <1>5, <1>6 DEF s

\* A fresh buffer, and a struct that has got one.
LEMMA FillIsSeq ==
    ASSUME NEW byte \in Byte, NEW size \in 1..IntMax
    PROVE  Fill(byte, size) \in Seq(Byte) /\ Len(Fill(byte, size)) = size
<1> DEFINE f == Fill(byte, size)
<1>1. size \in Nat
  BY SizesAssumption
<1>2. f \in [1..size -> Byte]
  BY DEF Fill
<1> HIDE DEF f
<1>3. f \in Seq(Byte) /\ Len(f) = size
  BY <1>1, <1>2, FunctionIsSeq
<1> QED
  BY <1>3 DEF f

LEMMA FilledSound ==
    ASSUME NEW s, Closed(s), s.len = 0,
           NEW size \in 1..IntMax, NEW f \in Seq(Byte), Len(f) = size,
           NEW t \in Sbufs, t.buf = f, t.size = size, t.len = 0,
           t.wild = s.wild,
           t.heap = IF t.dynamic THEN {size} ELSE {}
    PROVE  Sound(t)
<1>1. s.wild = FALSE
  BY DEF Closed
<1>2. 0 \in 0..(size - 1)
  BY SizesAssumption
<1> QED
  BY <1>1, <1>2 DEF Sound

\* sbuf_new() without a buffer gives a sound sbuf or none.
LEMMA HeapBufferSound ==
    ASSUME NEW s, Closed(s), s.len = 0, s.dynamic = FALSE, s.extend \in BOOLEAN,
           NEW length \in 0..IntMax, NEW got \in BOOLEAN,
           NEW r, r = WithHeapBuffer(s, length, got)
    PROVE  \/ r.ret = 0 /\ Sound(r.sb) /\ r.sb.dynstruct = s.dynstruct
           \/ r.ret = -1 /\ Closed(r.sb)
<1> DEFINE size == IF s.extend THEN sbuf_extendsize(length) ELSE length
           t == [s EXCEPT !.buf = Fill(NUL, size), !.size = size,
                          !.dynamic = TRUE, !.heap = {size}]
<1>0. length \in Nat /\ IntMax \in Nat
  BY SizesAssumption
<1>1. CASE size \in {-1, 0} \/ ~got
  <2>1. r = Result(sbuf_delete(s), -1)
    BY <1>1 DEF WithHeapBuffer
  <2>2. r.sb = sbuf_delete(s) /\ r.ret = -1
    BY <2>1 DEF Result
  <2> QED
    BY <2>2, DeleteCloses
<1>2. CASE ~(size \in {-1, 0} \/ ~got)
  <2>1. r = Result(t, 0)
    BY <1>2 DEF WithHeapBuffer
  <2>2. r.sb = t /\ r.ret = 0
    BY <2>1 DEF Result
  <2>3. size \in 1..IntMax
    <3>1. size = length \/ size \in length..IntMax
      BY <1>0, <1>2, ExtendsizeCovers
    <3> HIDE DEF size
    <3> QED
      BY <1>0, <1>2, <3>1
  <2> HIDE DEF size
  <2> DEFINE f == Fill(NUL, size)
             h == {size}
  <2>4. f \in Seq(Byte) /\ Len(f) = size /\ size \in 0..IntMax
    BY <1>0, <2>3, FillIsSeq, NulIsByte
  <2>5. s \in Sbufs /\ h \in SUBSET (0..IntMax)
    BY <2>4 DEF Closed
  <2> HIDE DEF f, h
  <2>6. t = [s EXCEPT !.buf = f, !.size = size, !.dynamic = TRUE, !.heap = h]
    BY DEF f, h
  <2>7. t \in Sbufs
    BY <2>4, <2>5, <2>6, Zenon DEF Sbufs
  <2>8. /\ t.buf = f /\ t.size = size /\ t.dynamic = TRUE /\ t.heap = h
        /\ t.len = s.len /\ t.wild = s.wild /\ t.dynstruct = s.dynstruct
    BY <2>5, <2>6 DEF Sbufs
  <2> HIDE DEF t
  <2>9. t.heap = IF t.dynamic THEN {size} ELSE {}
    BY <2>8 DEF h
  <2>10. Sound(t)
    BY <2>3, <2>4, <2>7, <2>8, <2>9, FilledSound
  <2> QED
    BY <2>2, <2>8, <2>10
<1> QED
  BY <1>1, <1>2

\* With the client's buffer sbuf_new() cannot fail any more.
LEMMA CallerBufferSound ==
    ASSUME NEW s, Closed(s), s.len = 0, s.dynamic = FALSE,
           NEW length \in 1..IntMax,
           NEW r, r = WithCallerBuffer(s, length)
    PROVE  r.ret = 0 /\ Sound(r.sb) /\ r.sb.dynstruct = s.dynstruct
<1> DEFINE t == [s EXCEPT !.buf = Fill(Junk, length), !.size = length]
           f == Fill(Junk, length)
<1>1. s \in Sbufs /\ s.heap = {}
  BY DEF Closed
<1>2. f \in Seq(Byte) /\ Len(f) = length /\ length \in 0..IntMax
  <2>1. Junk \in Byte /\ length \in 0..IntMax
    BY SizesAssumption DEF Byte
  <2> QED
    BY <2>1, FillIsSeq, Zenon
<1>3. r.sb = t /\ r.ret = 0
  BY DEF WithCallerBuffer, Result
<1> HIDE DEF f
<1>4. t = [s EXCEPT !.buf = f, !.size = length]
  BY DEF f
<1>5. t \in Sbufs
  BY <1>1, <1>2, <1>4, Zenon DEF Sbufs
<1>6. /\ t.buf = f /\ t.size = length /\ t.dynamic = FALSE /\ t.heap = {}
      /\ t.len = s.len /\ t.wild = s.wild /\ t.dynstruct = s.dynstruct
  BY <1>1, <1>4 DEF Sbufs
<1> HIDE DEF t
<1>7. t.heap = IF t.dynamic THEN {length} ELSE {}
  BY <1>6
<1>8. Sound(t)
  BY <1>2, <1>5, <1>6, <1>7, FilledSound
<1> QED
  BY <1>3, <1>6, <1>8

\* sbuf.c:204: an empty buffer of the client's is taken too.
LEMMA EmptyBufferBare ==
    ASSUME NEW s, Closed(s), s.len = 0, s.size = 0, s.dynamic = FALSE,
           NEW r, r = WithCallerBuffer(s, 0)
    PROVE  r.ret = 0 /\ Bare(r.sb) /\ r.sb.dynstruct = s.dynstruct
<1> DEFINE f == Fill(Junk, 0)
           t == [s EXCEPT !.buf = f, !.size = 0]
<1>1. s \in Sbufs /\ s.heap = {}
  BY DEF Closed
<1>2. r.sb = t /\ r.ret = 0
  BY DEF WithCallerBuffer, Result
<1>3. f \in Seq(Byte) /\ Len(f) = 0
  <2>1. f \in [1..0 -> Byte]
    BY DEF Fill
  <2> HIDE DEF f
  <2> QED
    BY <2>1, FunctionIsSeq
<1>4. 0 \in 0..IntMax /\ 0 <= IntMax
  BY SizesAssumption
<1> HIDE DEF f
<1>5. t \in Sbufs
  BY <1>1, <1>3, <1>4, Zenon DEF Sbufs
<1>6. /\ t.buf = f /\ t.size = 0 /\ t.dynamic = s.dynamic /\ t.heap = s.heap
      /\ t.len = s.len /\ t.dynstruct = s.dynstruct
  BY <1>1 DEF Sbufs
<1> HIDE DEF t
<1> QED
  BY <1>1, <1>2, <1>3, <1>4, <1>5, <1>6 DEF Bare

-----------------------------------------------------------------------------
(* The sbuf of a client is sound until it is deleted, unless it was made   *)
(* on an empty buffer; nothing of it is left on the heap then.             *)
SbufInv ==
    /\ open \in BOOLEAN /\ ret \in {0, -1}
    /\ open => Sound(sb) \/ Bare(sb)
    /\ ~open => Closed(sb)
    /\ struct = (open /\ sb.dynstruct)

\* A call leaves a sound sbuf sound, and one without a byte as it is.
Outcome(r) ==
    /\ Sound(sb) => Keeps(sb, r)
    /\ Bare(sb) /\ ~sb.wild => Stays(sb, r)

\* SbufInv holds at first and is kept by every step.
LEMMA InitInv == Init => SbufInv
<1>1. Closed(NoSbuf)
  BY FreshClosed
<1> QED
  BY <1>1 DEF Init, SbufInv

\* A call on an sbuf in use.
LEMMA CallInv ==
    ASSUME SbufInv, NEW r, Outcome(r), Call(r)
    PROVE  SbufInv'
<1>1. /\ open /\ sb' = r.sb /\ ret' = r.ret /\ open' = open
      /\ struct' = struct /\ ~sb.wild
  BY DEF Call
<1>2. Sound(sb) \/ Bare(sb)
  BY <1>1 DEF SbufInv
<1>3. /\ Sound(r.sb) \/ Bare(r.sb)
      /\ r.sb.dynstruct = sb.dynstruct /\ r.ret \in {0, -1}
  BY <1>1, <1>2 DEF Outcome, Keeps, Stays
<1>4. open /\ open \in BOOLEAN /\ struct = (open /\ sb.dynstruct)
  BY <1>1 DEF SbufInv
<1> HIDE DEF SbufInv
<1> QED
  BY <1>1, <1>3, <1>4 DEF SbufInv

\* The remaining actions: sbuf_new(), refused or not, and sbuf_delete().
LEMMA NewInv ==
    ASSUME SbufInv, NewRefused
    PROVE  SbufInv'
  BY DEF SbufInv, NewRefused

LEMMA NewOnHeapInv ==
    ASSUME SbufInv, NEW length \in NewSizes, NEW extend \in BOOLEAN,
           NEW onheap \in BOOLEAN, NEW got \in BOOLEAN,
           NewOnHeap(length, extend, onheap, got)
    PROVE  SbufInv'
<1> DEFINE s == [NoSbuf EXCEPT !.extend = extend, !.dynstruct = onheap]
           r == WithHeapBuffer(s, length, got)
<1>1. length \in 0..IntMax
  BY SizesAssumption DEF NewOnHeap
<1>2. /\ Closed(s) /\ s.extend = extend /\ s.dynstruct = onheap
      /\ s.len = 0 /\ s.dynamic = FALSE
  BY FreshClosed
<1>3. Created(r, onheap)
  BY DEF NewOnHeap
<1> HIDE DEF s
<1>4. \/ r.ret = 0 /\ Sound(r.sb) /\ r.sb.dynstruct = s.dynstruct
      \/ r.ret = -1 /\ Closed(r.sb)
  BY <1>1, <1>2, HeapBufferSound
<1> HIDE DEF r
<1>5. CASE r.ret = 0 /\ Sound(r.sb) /\ r.sb.dynstruct = s.dynstruct
  <2>1. sb' = r.sb /\ ret' = 0 /\ open' = TRUE /\ struct' = onheap
    BY <1>3, <1>5 DEF Created
  <2> QED
    BY <1>2, <1>5, <2>1 DEF SbufInv
<1>6. CASE r.ret = -1 /\ Closed(r.sb)
  <2>0. r.ret = -1 /\ r.ret # 0
    BY <1>6
  <2>1. sb' = r.sb /\ ret' = -1 /\ open' = FALSE /\ struct' = FALSE
    BY <1>3, <2>0, Zenon DEF Created
  <2> QED
    BY <1>6, <2>1 DEF SbufInv
<1> QED
  BY <1>4, <1>5, <1>6

LEMMA NewOnCallerInv ==
    ASSUME SbufInv, NEW length \in CallerSizes, NEW extend \in BOOLEAN,
           NEW onheap \in BOOLEAN, NewOnCaller(length, extend, onheap)
    PROVE  SbufInv'
<1> DEFINE s == [NoSbuf EXCEPT !.extend = extend, !.dynstruct = onheap]
           r == WithCallerBuffer(s, length)
<1>1. length = 0 \/ length \in 1..IntMax
  BY SizesAssumption
<1>2. /\ Closed(s) /\ s.dynstruct = onheap /\ s.len = 0 /\ s.dynamic = FALSE
      /\ s.size = 0
  BY FreshClosed
<1>3. Created(r, onheap)
  BY DEF NewOnCaller
<1> HIDE DEF s
<1>4. /\ r.ret = 0 /\ r.sb.dynstruct = s.dynstruct
      /\ Sound(r.sb) \/ Bare(r.sb)
  <2>1. CASE length = 0
    BY <1>2, <2>1, EmptyBufferBare
  <2>2. CASE length \in 1..IntMax
    BY <1>2, <2>2, CallerBufferSound
  <2> QED
    BY <1>1, <2>1, <2>2
<1> HIDE DEF r
<1>5. sb' = r.sb /\ ret' = 0 /\ open' = TRUE /\ struct' = onheap
  BY <1>3, <1>4 DEF Created
<1> QED
  BY <1>2, <1>4, <1>5 DEF SbufInv

LEMMA DeleteInv ==
    ASSUME SbufInv, Delete
    PROVE  SbufInv'
<1>1. Sound(sb) \/ (Bare(sb) /\ ~sb.wild) \/ Closed(sb)
  BY DEF SbufInv, Delete
<1>2. Closed(sbuf_delete(sb))
  BY <1>1, DeleteCloses, Zenon
<1>3. /\ sb' = sbuf_delete(sb) /\ ret' = 0 /\ open' = FALSE
      /\ struct' = (struct /\ ~sb.dynstruct)
  BY DEF Delete
<1>4. struct = (open /\ sb.dynstruct)
  BY DEF SbufInv
<1>5. struct' = FALSE
  BY <1>3, <1>4
<1> QED
  BY <1>2, <1>3, <1>5 DEF SbufInv

\* Every call but sbuf_new() and sbuf_delete() has such an outcome.
LEMMA CallOutcome ==
    ASSUME Next, open, ~Delete, ~Undefined
    PROVE  \E r : Call(r) /\ Outcome(r)
<1> DEFINE Fine == \E r : Call(r) /\ Outcome(r)
<1> SUFFICES Fine
  OBVIOUS
<1>1. ASSUME Clear PROVE Fine
  <2> DEFINE r == Result(sbuf_clear(sb), 0)
  <2>1. Call(r)
    BY <1>1 DEF Clear
  <2>2. r.sb = sbuf_clear(sb) /\ r.ret = 0
    BY DEF Result
  <2> HIDE DEF r
  <2>3. Outcome(r)
    BY <2>2, ClearSound, BareClear DEF Outcome, Keeps, Stays
  <2> QED
    BY <2>1, <2>3
<1>2. ASSUME NEW pos \in Int, SetPos(pos) PROVE Fine
  <2> DEFINE r == sbuf_setpos(sb, pos)
  <2>1. Call(r)
    BY <1>2 DEF SetPos
  <2>2. Outcome(r)
    BY SetPosKeeps, SetPosStays, Zenon DEF Outcome
  <2> HIDE DEF r
  <2> QED
    BY <2>1, <2>2
<1>3. ASSUME NEW p \in Pieces, NEW got \in BOOLEAN,
             Bcat(p, got) \/ Bcpy(p, got) \/ Cat(p, got) \/ Cpy(p, got)
               \/ Vprintf(p, got)
      PROVE  Fine
  <2> DEFINE c == CString(p)
  <2>0. p \in Data /\ c \in Data
    BY PiecesAreData, Zenon
  <2>1. CASE Bcat(p, got)
    <3> DEFINE r == sbuf_bcat(sb, p, got)
    <3>1. Call(r)
      BY <2>1 DEF Bcat
    <3>3. Outcome(r)
      BY <2>0, BcatKeeps, BcatStays, Zenon DEF Outcome
    <3> HIDE DEF r
    <3> QED
      BY <3>1, <3>3
  <2>2. CASE Bcpy(p, got)
    <3> DEFINE r == sbuf_bcpy(sb, p, got)
    <3>1. Call(r)
      BY <2>2 DEF Bcpy
    <3>3. Outcome(r)
      BY <2>0, BcpyKeeps, BcpyStays, Zenon DEF Outcome
    <3> HIDE DEF r
    <3> QED
      BY <3>1, <3>3
  <2>3. CASE Cat(p, got)
    <3> DEFINE r == sbuf_bcat(sb, c, got)
    <3>1. Call(r)
      BY <2>3 DEF Cat, sbuf_cat
    <3> HIDE DEF c
    <3>3. Outcome(r)
      BY <2>0, BcatKeeps, BcatStays, Zenon DEF Outcome
    <3> HIDE DEF r
    <3> QED
      BY <3>1, <3>3
  <2>4. CASE Cpy(p, got)
    <3> DEFINE r == sbuf_bcpy(sb, c, got)
    <3>1. Call(r)
      BY <2>4 DEF Cpy, sbuf_cpy, sbuf_cat, sbuf_bcpy
    <3> HIDE DEF c
    <3>3. Outcome(r)
      BY <2>0, BcpyKeeps, BcpyStays, Zenon DEF Outcome
    <3> HIDE DEF r
    <3> QED
      BY <3>1, <3>3
  <2>5. CASE Vprintf(p, got)
    <3> DEFINE r == sbuf_vprintf(sb, c, got)
    <3>1. Call(r)
      BY <2>5 DEF Vprintf
    <3>2. Len(c) <= IntMax
      BY <2>5 DEF Vprintf
    <3> HIDE DEF c
    <3>3. Outcome(r)
      BY <2>0, <3>2, VprintfKeeps, VprintfStays, Zenon DEF Outcome
    <3> HIDE DEF r
    <3> QED
      BY <3>1, <3>3
  <2> QED
    BY <1>3, <2>1, <2>2, <2>3, <2>4, <2>5
<1>4. ASSUME NEW c \in Bytes, NEW got \in BOOLEAN, Putc(c, got) PROVE Fine
  <2> DEFINE r == sbuf_putc(sb, c, got)
  <2>1. Call(r)
    BY <1>4 DEF Putc
  <2>2. Outcome(r)
    BY PutcKeeps, PutcStays, Zenon DEF Outcome
  <2> HIDE DEF r
  <2> QED
    BY <2>1, <2>2
<1>5. ASSUME VprintfFails PROVE Fine
  <2> DEFINE r == Result(sb, -1)
  <2>1. Call(r)
    BY <1>5 DEF VprintfFails
  <2>2. Outcome(r)
    BY DEF Outcome, Keeps, Stays, Result
  <2> HIDE DEF r
  <2> QED
    BY <2>1, <2>2
<1>6. ASSUME Trim PROVE Fine
  <2> DEFINE r == sbuf_trim(sb)
  <2>1. Call(r)
    BY <1>6 DEF Trim
  <2>2. Outcome(r)
    BY TrimKeeps, TrimStays, Zenon DEF Outcome
  <2> HIDE DEF r
  <2> QED
    BY <2>1, <2>2
<1>7. ASSUME Finish PROVE Fine
  <2> DEFINE r == Result(sbuf_finish(sb), 0)
  <2>1. Call(r)
    BY <1>7 DEF Finish
  <2>2. r.sb = sbuf_finish(sb) /\ r.ret = 0
    BY DEF Result
  <2>3. Bare(sb) /\ ~sb.wild => Stays(sb, r)
    BY FinishStays, Zenon
  <2> HIDE DEF r
  <2>4. Outcome(r)
    BY <2>2, <2>3, FinishSound DEF Outcome, Keeps
  <2> QED
    BY <2>1, <2>4
<1>8. \A pos \in -1..IntMax : pos \in Int
  BY SizesAssumption
<1>9. ~NewRefused /\ \A length, extend, onheap, got :
            ~NewOnHeap(length, extend, onheap, got) /\ ~NewOnCaller(length, extend, onheap)
  BY DEF NewRefused, NewOnHeap, NewOnCaller
<1> QED
  BY <1>1, <1>2, <1>3, <1>4, <1>5, <1>6, <1>7, <1>8, <1>9, Zenon DEF Next

LEMMA StepInv == SbufInv /\ [Next]_vars => SbufInv'
<1> SUFFICES ASSUME SbufInv, [Next]_vars PROVE SbufInv'
  OBVIOUS
<1>1. CASE UNCHANGED vars
  BY <1>1 DEF vars, SbufInv
<1>2. CASE Next /\ Undefined
  BY <1>2 DEF Undefined, SbufInv
<1>3. CASE Next /\ Delete
  BY <1>3, DeleteInv
<1>4. CASE Next /\ open /\ ~Delete /\ ~Undefined
  <2>1. PICK r : Call(r) /\ Outcome(r)
    BY <1>4, CallOutcome
  <2> QED
    BY <2>1, CallInv
<1>5. CASE Next /\ ~open /\ ~Delete /\ ~Undefined
  <2>1. \A r : ~Call(r)
    BY <1>5 DEF Call
  <2>2. /\ ~Clear /\ ~VprintfFails /\ ~Trim /\ ~Finish
        /\ \A pos : ~SetPos(pos)
        /\ \A p, got : /\ ~Bcat(p, got) /\ ~Bcpy(p, got) /\ ~Cat(p, got)
                       /\ ~Cpy(p, got) /\ ~Vprintf(p, got) /\ ~Putc(p, got)
    BY <2>1 DEF Clear, VprintfFails, Trim, Finish, SetPos, Bcat, Bcpy, Cat,
                Cpy, Vprintf, Putc
  <2>3. NewRefused => SbufInv'
    BY NewInv
  <2>4. ASSUME NEW extend \in BOOLEAN, NEW onheap \in BOOLEAN,
               NEW got \in BOOLEAN, NEW length \in NewSizes,
               NewOnHeap(length, extend, onheap, got)
        PROVE  SbufInv'
    BY <2>4, NewOnHeapInv
  <2>5. ASSUME NEW extend \in BOOLEAN, NEW onheap \in BOOLEAN,
               NEW length \in CallerSizes, NewOnCaller(length, extend, onheap)
        PROVE  SbufInv'
    BY <2>5, NewOnCallerInv
  <2> QED
    BY <1>5, <2>2, <2>3, <2>4, <2>5, Zenon DEF Next
<1> QED
  BY <1>1, <1>2, <1>3, <1>4, <1>5

\* The invariant in every reachable state.
LEMMA SbufInvariant == Spec => []SbufInv
  BY InitInv, StepInv, PTL DEF Spec

\* sbuf.c:145: a size that passes INT_MAX only by rounding is refused, so
\* that s_size never overflows, and the flags and results stay in their types.
THEOREM SbufTyped == Spec => []SbufTypeOK
<1>1. SbufInv => SbufTypeOK
  <2> SUFFICES ASSUME SbufInv PROVE SbufTypeOK
    OBVIOUS
  <2>1. sb \in Sbufs
    BY DEF SbufInv, Sound, Bare, Closed
  <2>2. /\ sb.size \in 0..IntMax /\ sb.len \in Nat
        /\ sb.extend \in BOOLEAN /\ sb.dynamic \in BOOLEAN
        /\ sb.dynstruct \in BOOLEAN /\ sb.finished \in BOOLEAN
        /\ sb.overflowed \in BOOLEAN /\ sb.wild \in BOOLEAN
    BY <2>1 DEF Sbufs
  <2>3. open \in BOOLEAN /\ ret \in {0, -1} /\ struct \in BOOLEAN
    BY <2>2 DEF SbufInv
  <2> QED
    BY <2>2, <2>3 DEF SbufTypeOK
<1> QED
  BY <1>1, SbufInvariant, PTL

\* sbuf.c:350, 673: whatever a client appends, trims or positions, the string
\* leaves room for the terminator that sbuf_finish() writes, in a buffer of
\* s_size bytes; s_size is 0 for no buffer that sbuf_new() itself allocates.
THEOREM SbufReservedByte == Spec => []ReservedByte
<1>1. SbufInv => ReservedByte
  <2> SUFFICES ASSUME SbufInv, open PROVE ReservedByte
    BY DEF ReservedByte
  <2>1. CASE Sound(sb)
    <3>1. sb.size \in 1..IntMax
      BY <2>1, SoundFields, Zenon
    <3> QED
      BY <2>1, <3>1 DEF Sound, ReservedByte
  <2>2. CASE Bare(sb)
    BY <2>2 DEF Bare, ReservedByte
  <2> QED
    BY <2>1, <2>2 DEF SbufInv
<1> QED
  BY <1>1, SbufInvariant, PTL

\* sbuf.c:414, 528, 605, 674: no call accesses a byte outside the buffer or
\* frees a block that is not allocated, however the sizes and pieces are
\* chosen, on any sbuf but one whose s_size is 0.
THEOREM SbufInBounds == Spec => []InBounds
<1>1. SbufInv => InBounds
  BY DEF SbufInv, Sound, Bare, Sbufs, Closed, InBounds
<1> QED
  BY <1>1, SbufInvariant, PTL

\* sbuf.c:101, 106, 317: whichever allocation fails, the heap holds the data
\* block and the struct of the sbuf in use and no other block.
THEOREM SbufHeapIsOwned == Spec => []HeapIsOwned
<1>1. SbufInv => HeapIsOwned
  BY DEF SbufInv, Sound, Bare, Closed, HeapIsOwned
<1> QED
  BY <1>1, SbufInvariant, PTL

-----------------------------------------------------------------------------
(* The string that an sbuf holds, and what each routine makes of it.       *)
Str(s) == SubSeq(s.buf, 1, s.len)

\* The string of a sound sbuf, byte by byte.
LEMMA StrBytes ==
    ASSUME NEW s, Sound(s)
    PROVE  /\ Str(s) \in Seq(Byte) /\ Len(Str(s)) = s.len /\ s.len \in Nat
           /\ \A i \in 1..s.len : Str(s)[i] = s.buf[i]
<1>0. /\ s.buf \in Seq(Byte) /\ Len(s.buf) = s.size
      /\ s.size \in 1..IntMax /\ s.len \in 0..(s.size - 1)
  BY SoundFields, Zenon
<1>1. s.len \in Nat /\ s.len \in Int /\ 1 \in Int /\ s.len <= s.size
  BY <1>0, SizesAssumption
<1>2. \A i \in 1..s.len : s.buf[i] \in Byte
  BY <1>0, <1>1, ElementOfSeq
<1> DEFINE b == s.buf
           n == s.len
<1>3. /\ SubSeq(b, 1, n) \in Seq(Byte)
      /\ Len(SubSeq(b, 1, n)) = IF 1 <= n THEN n - 1 + 1 ELSE 0
      /\ \A i \in 1..(n - 1 + 1) : SubSeq(b, 1, n)[i] = b[1 + i - 1]
  <2>1. n \in Int /\ 1 \in Int /\ \A i \in 1..n : b[i] \in Byte
    BY <1>1, <1>2
  <2> HIDE DEF b, n
  <2> QED
    BY <2>1, SubSeqProperties
<1> QED
  BY <1>1, <1>3 DEF Str

\* Two sbufs that agree up to their length hold the same string.
LEMMA StrSame ==
    ASSUME NEW s, Sound(s), NEW t, Sound(t), t.len = s.len,
           \A i \in 1..s.len : t.buf[i] = s.buf[i]
    PROVE  Str(t) = Str(s)
<1>1. /\ Str(s) \in Seq(Byte) /\ Len(Str(s)) = s.len /\ s.len \in Nat
      /\ \A i \in 1..s.len : Str(s)[i] = s.buf[i]
  BY StrBytes, Zenon
<1>2. /\ Str(t) \in Seq(Byte) /\ Len(Str(t)) = t.len
      /\ \A i \in 1..t.len : Str(t)[i] = t.buf[i]
  BY StrBytes, Zenon
<1>3. \A i \in 1..Len(Str(t)) : Str(t)[i] = Str(s)[i]
  BY <1>1, <1>2
<1> QED
  BY <1>1, <1>2, <1>3, SeqEqual

\* One that goes on with p holds the string and p.
LEMMA StrLonger ==
    ASSUME NEW s, Sound(s), NEW t, Sound(t), NEW p \in Seq(Byte),
           t.len = s.len + Len(p),
           \A i \in 1..s.len : t.buf[i] = s.buf[i],
           \A i \in 1..Len(p) : t.buf[s.len + i] = p[i]
    PROVE  Str(t) = Str(s) \o p
<1>1. /\ Str(s) \in Seq(Byte) /\ Len(Str(s)) = s.len /\ s.len \in Nat
      /\ \A i \in 1..s.len : Str(s)[i] = s.buf[i]
  BY StrBytes, Zenon
<1>2. /\ Str(t) \in Seq(Byte) /\ Len(Str(t)) = t.len
      /\ \A i \in 1..t.len : Str(t)[i] = t.buf[i]
  BY StrBytes, Zenon
<1>3. /\ Str(s) \o p \in Seq(Byte) /\ Len(Str(s) \o p) = s.len + Len(p)
      /\ \A i \in 1..(s.len + Len(p)) :
            (Str(s) \o p)[i] = IF i <= s.len THEN Str(s)[i] ELSE p[i - s.len]
  <2> DEFINE u == Str(s)
  <2>1. u \in Seq(Byte) /\ Len(u) = s.len
    BY <1>1
  <2> HIDE DEF u
  <2>2. /\ u \o p \in Seq(Byte) /\ Len(u \o p) = Len(u) + Len(p)
        /\ \A i \in 1..(Len(u) + Len(p)) :
            (u \o p)[i] = IF i <= Len(u) THEN u[i] ELSE p[i - Len(u)]
    BY <2>1, ConcatProperties, Zenon
  <2> QED
    BY <2>1, <2>2 DEF u
<1>4. Len(p) \in Nat
  BY LenProperties
<1>5. \A i \in 1..Len(Str(t)) : Str(t)[i] = (Str(s) \o p)[i]
  <2> SUFFICES ASSUME NEW i \in 1..(s.len + Len(p))
               PROVE  t.buf[i] = (Str(s) \o p)[i]
    BY <1>2
  <2>1. CASE i <= s.len
    BY <1>1, <1>3, <1>4, <2>1
  <2>2. CASE ~(i <= s.len)
    <3>1. i - s.len \in 1..Len(p) /\ s.len + (i - s.len) = i
      BY <1>1, <1>4, <2>2
    <3>2. t.buf[s.len + (i - s.len)] = p[i - s.len]
      BY <3>1
    <3> QED
      BY <1>1, <1>3, <1>4, <2>2, <3>1, <3>2
  <2> QED
    BY <2>1, <2>2
<1> DEFINE u == Str(t)
           w == Str(s) \o p
<1>6. /\ u \in Seq(Byte) /\ w \in Seq(Byte) /\ Len(u) = Len(w)
      /\ \A i \in 1..Len(u) : u[i] = w[i]
  BY <1>2, <1>3, <1>5
<1> HIDE DEF u, w
<1>7. u = w
  BY <1>6, SeqEqual
<1> QED
  BY <1>7 DEF u, w

\* Writing p at the end changes nothing before it, and no flag.
LEMMA PokeWrites ==
    ASSUME NEW s, Sound(s), NEW p \in Seq(Byte), s.len + Len(p) <= s.size
    PROVE  /\ Poke(s, p).overflowed = s.overflowed
           /\ Poke(s, p).finished = s.finished
           /\ \A i \in 1..s.len : Poke(s, p).buf[i] = s.buf[i]
           /\ \A i \in 1..Len(p) : Poke(s, p).buf[s.len + i] = p[i]
<1> DEFINE f == [i \in DOMAIN s.buf |->
                    IF i \in (s.len + 1)..(s.len + Len(p))
                      THEN p[i - s.len] ELSE s.buf[i]]
           v == s.wild \/ (p # <<>> /\ s.len + Len(p) > Len(s.buf))
<1>0. /\ DOMAIN s.buf = 1..s.size
      /\ s.size \in 1..IntMax /\ s.len \in 0..(s.size - 1)
  BY SoundFields, Zenon
<1>1. /\ DOMAIN s.buf = 1..s.size
      /\ s.size \in Nat /\ s.len \in Nat /\ s.len < s.size /\ Len(p) \in Nat
  BY <1>0, LenProperties, SizesAssumption
<1>2. \A i \in 1..s.len : f[i] = s.buf[i]
  BY <1>1
<1>3. \A i \in 1..Len(p) : f[s.len + i] = p[i]
  <2> SUFFICES ASSUME NEW i \in 1..Len(p) PROVE f[s.len + i] = p[i]
    OBVIOUS
  <2>1. /\ s.len + i \in 1..s.size /\ s.len + i - s.len = i
        /\ s.len + i \in (s.len + 1)..(s.len + Len(p))
    BY <1>1
  <2> QED
    BY <1>1, <2>1
<1>4. Poke(s, p) = [s EXCEPT !.buf = f, !.wild = v]
  BY DEF Poke
<1>5. s \in Sbufs
  BY DEF Sound
<1> HIDE DEF f, v
<1>6. /\ Poke(s, p).overflowed = s.overflowed
      /\ Poke(s, p).finished = s.finished /\ Poke(s, p).buf = f
  BY <1>4, <1>5 DEF Sbufs
<1> QED
  BY <1>2, <1>3, <1>6

\* A reallocation loses no byte of the string and no flag.
LEMMA ExtendCopies ==
    ASSUME NEW s, Sound(s), NEW addlen \in Nat, NEW got \in BOOLEAN,
           NEW e, e = sbuf_extend(s, addlen, got), e.ret = 0
    PROVE  /\ e.sb.overflowed = s.overflowed /\ e.sb.finished = s.finished
           /\ \A i \in 1..s.len : e.sb.buf[i] = s.buf[i]
<1> DEFINE size == sbuf_extendsize(s.size + addlen)
           freed == IF s.dynamic THEN kfree_data(s) ELSE s
           fail == ~s.extend \/ s.size + addlen >= SizeMod \/ size = -1 \/ ~got
           f == [i \in 1..size |-> IF i <= s.size THEN s.buf[i] ELSE Junk]
           h == freed.heap \cup {size}
           n == [freed EXCEPT !.buf = f, !.size = size, !.dynamic = TRUE,
                              !.heap = h]
<1>0. s.size \in 1..IntMax /\ s.len \in 0..(s.size - 1)
  BY SoundFields, Zenon
<1>1. CASE addlen = 0
  <2>1. e = Result(s, 0)
    BY <1>1 DEF sbuf_extend
  <2> QED
    BY <2>1 DEF Result
<1>2. CASE addlen # 0 /\ fail
  <2>1. e = Result(s, -1)
    BY <1>2 DEF sbuf_extend
  <2>2. e.ret = -1
    BY <2>1 DEF Result
  <2> QED
    BY <2>2
<1>3. CASE addlen # 0 /\ ~fail
  <2>1. e = Result(n, 0)
    BY <1>3 DEF sbuf_extend
  <2>2. e.sb = n
    BY <2>1 DEF Result
  <2>3. s.size + addlen \in Nat /\ size # -1
    BY <1>0, <1>3
  <2>4. size \in (s.size + addlen)..IntMax
    BY <2>3, ExtendsizeCovers
  <2>5. \A i \in 1..s.len : f[i] = s.buf[i]
    BY <1>0, <2>4, SizesAssumption
  <2> HIDE DEF f, size, h
  <2>6. /\ freed \in Sbufs /\ freed.overflowed = s.overflowed
        /\ freed.finished = s.finished
    <3>1. s \in Sbufs
      BY DEF Sound
    <3>2. kfree_data(s).overflowed = s.overflowed
          /\ kfree_data(s).finished = s.finished
      BY <3>1 DEF kfree_data, Sbufs
    <3>3. kfree_data(s) \in Sbufs
      <4> DEFINE g == s.heap \ {s.size}
                 w == s.wild \/ s.size \notin s.heap
      <4>1. g \in SUBSET (0..IntMax)
        BY <3>1 DEF Sbufs
      <4>2. w \in BOOLEAN
        BY Zenon
      <4>3. kfree_data(s) = [s EXCEPT !.heap = g, !.wild = w]
        BY DEF kfree_data
      <4> HIDE DEF g, w
      <4> QED
        BY <3>1, <4>1, <4>2, <4>3, Zenon DEF Sbufs
    <3> QED
      BY <3>1, <3>2, <3>3
  <2> HIDE DEF freed
  <2>7. /\ n.buf = f /\ n.overflowed = freed.overflowed
        /\ n.finished = freed.finished
    BY <2>6 DEF Sbufs
  <2> QED
    BY <2>2, <2>5, <2>6, <2>7
<1> QED
  BY <1>1, <1>2, <1>3

\* Nor does making room.
LEMMA EnsureCopies ==
    ASSUME NEW s, Sound(s), NEW wanted \in Nat, NEW got \in BOOLEAN,
           NEW e, e = sbuf_ensure_capacity(s, wanted, got), e.ret = 0
    PROVE  /\ e.sb.overflowed = s.overflowed /\ e.sb.finished = s.finished
           /\ \A i \in 1..s.len : e.sb.buf[i] = s.buf[i]
<1> DEFINE cap == sbuf_capacity(s)
<1>1. cap \in Nat
  BY CapacityExact, Zenon
<1> HIDE DEF cap
<1>2. CASE cap >= wanted
  <2>1. e = Result(s, 0)
    BY <1>2 DEF sbuf_ensure_capacity, cap
  <2> QED
    BY <2>1 DEF Result
<1>3. CASE ~(cap >= wanted)
  <2> DEFINE more == wanted - cap
  <2>1. more \in Nat
    BY <1>1, <1>3
  <2>2. e = sbuf_extend(s, more, got)
    BY <1>3 DEF sbuf_ensure_capacity, cap
  <2> HIDE DEF more
  <2> QED
    BY <2>1, <2>2, ExtendCopies
<1> QED
  BY <1>2, <1>3

\* vsnprintf() writes behind the string, and all of a text that fits.
LEMMA FormatWrites ==
    ASSUME NEW s, Sound(s), NEW p \in Data
    PROVE  /\ Format(s, p).overflowed = s.overflowed
           /\ Format(s, p).finished = s.finished
           /\ \A i \in 1..s.len : Format(s, p).buf[i] = s.buf[i]
           /\ Len(p) <= sbuf_capacity(s) =>
                \A i \in 1..Len(p) : Format(s, p).buf[s.len + i] = p[i]
<1> DEFINE cap == sbuf_capacity(s)
           fits == IF Len(p) <= cap THEN p ELSE SubSeq(p, 1, cap)
<1>0. p \in Seq(Byte) /\ Len(p) \in Nat /\ NUL \in Byte
  BY LenProperties, NulIsByte DEF Data
<1>1. /\ cap = s.size - s.len - 1 /\ cap \in Nat
      /\ s.size \in 1..IntMax /\ s.len \in 0..(s.size - 1)
  BY CapacityExact, SoundFields, Zenon
<1> HIDE DEF cap
<1>2. fits \in Seq(Byte) /\ Len(fits) \in Nat /\ Len(fits) <= cap
  <2>1. CASE Len(p) <= cap
    BY <1>0, <2>1
  <2>2. CASE ~(Len(p) <= cap)
    <3>1. \A i \in 1..cap : p[i] \in Byte
      BY <1>0, <1>1, <2>2, ElementOfSeq
    <3>2. /\ SubSeq(p, 1, cap) \in Seq(Byte)
          /\ Len(SubSeq(p, 1, cap)) = IF 1 <= cap THEN cap - 1 + 1 ELSE 0
      BY <1>1, <3>1, SubSeqProperties
    <3> QED
      BY <1>1, <2>2, <3>2
  <2> QED
    BY <2>1, <2>2
<1>3. Len(p) <= cap => fits = p
  OBVIOUS
<1> HIDE DEF fits
<1> DEFINE text == Append(fits, NUL)
<1>4. /\ text \in Seq(Byte) /\ Len(text) = Len(fits) + 1
      /\ \A i \in 1..Len(fits) : text[i] = fits[i]
  BY <1>0, <1>2, AppendProperties
<1> HIDE DEF text
<1>5. s.len + Len(text) <= s.size
  BY <1>1, <1>2, <1>4
<1>6. Format(s, p) = Poke(s, text)
  BY FormatIs, Zenon DEF cap, fits, text
<1>7. /\ Poke(s, text).overflowed = s.overflowed
      /\ Poke(s, text).finished = s.finished
      /\ \A i \in 1..s.len : Poke(s, text).buf[i] = s.buf[i]
      /\ \A i \in 1..Len(text) : Poke(s, text).buf[s.len + i] = text[i]
  BY <1>4, <1>5, PokeWrites
<1>8. ASSUME Len(p) <= cap
      PROVE  \A i \in 1..Len(p) : Poke(s, text).buf[s.len + i] = p[i]
  BY <1>0, <1>2, <1>3, <1>4, <1>7, <1>8
<1> QED
  BY <1>6, <1>7, <1>8 DEF cap

-----------------------------------------------------------------------------
\* What a routine that appends p makes of s: it appends all of it and returns
\* 0, or nothing and returns -1, and then the overflow mark is set.
Adds(s, p, r) ==
    /\ r.sb.finished = s.finished
    /\ \/ /\ ~s.overflowed /\ r.sb.overflowed = FALSE /\ r.ret = 0
          /\ Str(r.sb) = Str(s) \o p
       \/ r.sb.overflowed = TRUE /\ r.ret = -1 /\ Str(r.sb) = Str(s)

\* The three ways in which such a routine ends.
LEMMA AddRefused ==
    ASSUME NEW s, Sound(s), s.overflowed, NEW p, NEW r, r = Result(s, -1)
    PROVE  Adds(s, p, r)
<1>1. r.sb = s /\ r.ret = -1
  BY DEF Result
<1>2. s.overflowed = TRUE
  BY DEF Sound, Sbufs
<1> QED
  BY <1>1, <1>2 DEF Adds

\* Making room failed: the mark is set and the string stays.
LEMMA AddFails ==
    ASSUME NEW s, Sound(s), NEW w, Sound(w), w.len = s.len,
           w.finished = s.finished, \A i \in 1..s.len : w.buf[i] = s.buf[i],
           NEW p, NEW r, r = Result([w EXCEPT !.overflowed = TRUE], -1)
    PROVE  Adds(s, p, r)
<1> DEFINE t == [w EXCEPT !.overflowed = TRUE]
<1>1. r.sb = t /\ r.ret = -1
  BY DEF Result
<1>2. w \in Sbufs
  BY DEF Sound
<1>3. /\ t.buf = w.buf /\ t.len = w.len /\ t.finished = w.finished
      /\ t.overflowed = TRUE
  BY <1>2 DEF Sbufs
<1> HIDE DEF t
<1>4. Str(t) = Str(w) /\ Str(w) = Str(s)
  BY <1>3, StrSame DEF Str
<1> QED
  BY <1>1, <1>3, <1>4 DEF Adds

\* The data were written behind the string.
LEMMA AddDone ==
    ASSUME NEW s, Sound(s), ~s.overflowed, NEW p \in Seq(Byte),
           NEW w, Sound(w), w.len = s.len, s.len + Len(p) < w.size,
           w.overflowed = s.overflowed, w.finished = s.finished,
           \A i \in 1..s.len : w.buf[i] = s.buf[i],
           \A i \in 1..Len(p) : w.buf[s.len + i] = p[i],
           NEW r, r = Result([w EXCEPT !.len = @ + Len(p)], 0)
    PROVE  Adds(s, p, r)
<1> DEFINE n == w.len + Len(p)
           t == [w EXCEPT !.len = n]
<1>0. /\ s.len \in 0..(s.size - 1) /\ s.size \in 1..IntMax
      /\ w.size \in 1..IntMax
  BY SoundFields, Zenon
<1>1. n \in 0..(w.size - 1) /\ n = s.len + Len(p)
  BY <1>0, LenProperties
<1>2. r.sb = t /\ r.ret = 0
  BY DEF Result
<1> HIDE DEF n
<1>3. Sound(t)
  BY <1>1, SetLen
<1>4. w \in Sbufs
  BY DEF Sound
<1>5. /\ t.buf = w.buf /\ t.len = n /\ t.finished = w.finished
      /\ t.overflowed = w.overflowed
  BY <1>4 DEF Sbufs
<1> HIDE DEF t
<1>6. Str(t) = Str(s) \o p
  BY <1>1, <1>3, <1>5, StrLonger
<1>7. t.overflowed = FALSE
  <2>1. s.overflowed \in BOOLEAN
    BY DEF Sound, Sbufs
  <2> QED
    BY <1>5, <2>1
<1> QED
  BY <1>2, <1>5, <1>6, <1>7 DEF Adds

\* sbuf_bcat() appends.
LEMMA BcatAdds ==
    ASSUME NEW s, Sound(s), NEW p \in Data, NEW got \in BOOLEAN
    PROVE  Adds(s, p, sbuf_bcat(s, p, got))
<1> DEFINE e == sbuf_ensure_capacity(s, Len(p), got)
           r == sbuf_bcat(s, p, got)
<1> SUFFICES Adds(s, p, r)
  OBVIOUS
<1>0. p \in Seq(Byte) /\ Len(p) \in Nat
  BY LenProperties DEF Data
<1>1. /\ e.ret \in {0, -1}
      /\ e.ret = 0 => /\ Sound(e.sb) /\ e.sb.len = s.len
                      /\ s.len + Len(p) < e.sb.size
                      /\ e.sb.overflowed = s.overflowed
                      /\ e.sb.finished = s.finished
                      /\ \A i \in 1..s.len : e.sb.buf[i] = s.buf[i]
  BY <1>0, EnsureCapacity, EnsureCopies
<1>2. s.len \in 0..(s.size - 1) /\ s.size \in 1..IntMax
  BY SoundFields, Zenon
<1>3. CASE s.overflowed
  <2>1. r = Result(s, -1)
    BY <1>3 DEF sbuf_bcat
  <2> HIDE DEF r
  <2> QED
    BY <1>3, <2>1, AddRefused
<1>4. CASE ~s.overflowed /\ e.ret = -1
  <2>1. r = Result([s EXCEPT !.overflowed = TRUE], -1)
    BY <1>4 DEF sbuf_bcat
  <2> HIDE DEF r
  <2> QED
    BY <2>1, AddFails
<1>5. CASE ~s.overflowed /\ e.ret = 0
  <2> DEFINE w == Poke(e.sb, p)
             x == e.sb
  <2>1. r = Result([w EXCEPT !.len = @ + Len(p)], 0)
    BY <1>5 DEF sbuf_bcat
  <2>2. /\ Sound(x) /\ x.len = s.len /\ s.len + Len(p) < x.size
        /\ x.overflowed = s.overflowed /\ x.finished = s.finished
        /\ \A i \in 1..s.len : x.buf[i] = s.buf[i]
    BY <1>1, <1>5
  <2>w. w = Poke(x, p)
    OBVIOUS
  <2> HIDE DEF e, r, x, w
  <2>3. x.size \in 1..IntMax
    BY <2>2, SoundFields, Zenon
  <2>4. x.len + Len(p) <= x.size
    BY <1>0, <1>2, <2>2, <2>3
  <2>5. /\ Sound(w) /\ w.len = x.len /\ w.size = x.size
        /\ w.overflowed = x.overflowed /\ w.finished = x.finished
        /\ \A i \in 1..x.len : w.buf[i] = x.buf[i]
        /\ \A i \in 1..Len(p) : w.buf[x.len + i] = p[i]
    BY <1>0, <2>2, <2>4, <2>w, PokeInside, PokeWrites
  <2>6. /\ w.len = s.len /\ s.len + Len(p) < w.size
        /\ w.overflowed = s.overflowed /\ w.finished = s.finished
        /\ \A i \in 1..s.len : w.buf[i] = s.buf[i]
        /\ \A i \in 1..Len(p) : w.buf[s.len + i] = p[i]
    BY <2>2, <2>5
  <2> QED
    BY <1>0, <1>5, <2>1, <2>5, <2>6, AddDone
<1> QED
  BY <1>1, <1>3, <1>4, <1>5

\* So does sbuf_vprintf(): a text that did not fit is formatted again.
LEMMA VprintfAdds ==
    ASSUME NEW s, Sound(s), NEW p \in Data, NEW got \in BOOLEAN
    PROVE  Adds(s, p, sbuf_vprintf(s, p, got))
<1> DEFINE once == Format(s, p)
           e == sbuf_ensure_capacity(once, Len(p), got)
           r == sbuf_vprintf(s, p, got)
<1> SUFFICES Adds(s, p, r)
  OBVIOUS
<1>0. p \in Seq(Byte) /\ Len(p) \in Nat
  BY LenProperties DEF Data
<1>1. /\ Sound(once) /\ once.len = s.len /\ once.size = s.size
      /\ once.overflowed = s.overflowed /\ once.finished = s.finished
      /\ \A i \in 1..s.len : once.buf[i] = s.buf[i]
      /\ Len(p) <= sbuf_capacity(s) =>
            \A i \in 1..Len(p) : once.buf[s.len + i] = p[i]
  BY FormatInside, FormatWrites
<1>2. /\ s.size \in 1..IntMax /\ s.len \in 0..(s.size - 1)
      /\ sbuf_capacity(s) = s.size - s.len - 1
  BY CapacityExact, SoundFields, Zenon
<1>3. CASE s.overflowed
  <2>1. r = Result(s, -1)
    BY <1>3 DEF sbuf_vprintf
  <2> HIDE DEF r
  <2> QED
    BY <1>3, <2>1, AddRefused
<1>4. CASE ~s.overflowed /\ Len(p) <= sbuf_capacity(s)
  <2>1. r = Result([once EXCEPT !.len = @ + Len(p)], 0)
    BY <1>4 DEF sbuf_vprintf
  <2> HIDE DEF once, r
  <2>2. s.len + Len(p) < once.size
    BY <1>0, <1>1, <1>2, <1>4
  <2> QED
    BY <1>0, <1>1, <1>4, <2>1, <2>2, AddDone
<1>5. CASE ~s.overflowed /\ ~(Len(p) <= sbuf_capacity(s))
  <2>0. /\ e.ret \in {0, -1}
        /\ e.ret = 0 => /\ Sound(e.sb) /\ e.sb.len = once.len
                        /\ once.len + Len(p) < e.sb.size
                        /\ e.sb.overflowed = once.overflowed
                        /\ e.sb.finished = once.finished
                        /\ \A i \in 1..once.len : e.sb.buf[i] = once.buf[i]
    <3> HIDE DEF once
    <3> QED
      BY <1>0, <1>1, EnsureCapacity, EnsureCopies
  <2>1. CASE e.ret = -1
    <3>1. r = Result([once EXCEPT !.overflowed = TRUE], -1)
      BY <1>5, <2>1 DEF sbuf_vprintf
    <3> HIDE DEF once, r
    <3> QED
      BY <1>1, <3>1, AddFails
  <2>2. CASE e.ret = 0
    <3> DEFINE x == e.sb
               w == Format(x, p)
    <3>1. r = Result([w EXCEPT !.len = @ + Len(p)], 0)
      BY <1>5, <2>2 DEF sbuf_vprintf
    <3>2. /\ Sound(x) /\ x.len = s.len /\ s.len + Len(p) < x.size
          /\ x.overflowed = s.overflowed /\ x.finished = s.finished
          /\ \A i \in 1..s.len : x.buf[i] = s.buf[i]
      <4> HIDE DEF e, once
      <4> QED
        BY <1>1, <2>0, <2>2
    <3>w. w = Format(x, p)
      OBVIOUS
    <3> HIDE DEF e, once, r, x, w
    <3>3. /\ Sound(w) /\ w.len = x.len /\ w.size = x.size
          /\ w.overflowed = x.overflowed /\ w.finished = x.finished
          /\ \A i \in 1..x.len : w.buf[i] = x.buf[i]
          /\ Len(p) <= sbuf_capacity(x) =>
                \A i \in 1..Len(p) : w.buf[x.len + i] = p[i]
      BY <3>2, <3>w, FormatInside, FormatWrites
    <3>4. x.size \in 1..IntMax /\ sbuf_capacity(x) = x.size - x.len - 1
      BY <3>2, SoundFields, CapacityExact, Zenon
    <3>5. Len(p) <= sbuf_capacity(x)
      BY <1>0, <1>2, <3>2, <3>4
    <3>6. /\ w.len = s.len /\ s.len + Len(p) < w.size
          /\ w.overflowed = s.overflowed /\ w.finished = s.finished
          /\ \A i \in 1..s.len : w.buf[i] = s.buf[i]
          /\ \A i \in 1..Len(p) : w.buf[s.len + i] = p[i]
      BY <3>2, <3>3, <3>5
    <3> QED
      BY <1>0, <1>5, <3>1, <3>3, <3>6, AddDone
  <2> QED
    BY <2>0, <2>1, <2>2
<1> QED
  BY <1>3, <1>4, <1>5

\* sbuf_putc() appends its byte; of a NUL it appends nothing.
LEMMA PutcAdds ==
    ASSUME NEW s, Sound(s), NEW c \in Bytes, NEW got \in BOOLEAN
    PROVE  \/ Adds(s, <<>>, sbuf_putc(s, c, got))
           \/ Adds(s, <<c>>, sbuf_putc(s, c, got))
<1> DEFINE e == sbuf_ensure_capacity(s, 1, got)
           r == sbuf_putc(s, c, got)
           p == <<c>>
<1> SUFFICES Adds(s, <<>>, r) \/ Adds(s, p, r)
  OBVIOUS
<1>0. p \in Seq(Byte) /\ Len(p) = 1
  BY DEF Byte
<1>1. /\ e.ret \in {0, -1}
      /\ e.ret = 0 => /\ Sound(e.sb) /\ e.sb.len = s.len
                      /\ s.len + 1 < e.sb.size
                      /\ e.sb.overflowed = s.overflowed
                      /\ e.sb.finished = s.finished
                      /\ \A i \in 1..s.len : e.sb.buf[i] = s.buf[i]
  BY EnsureCapacity, EnsureCopies
<1>2. s.len \in 0..(s.size - 1) /\ s.size \in 1..IntMax
      /\ s.overflowed \in BOOLEAN
  BY SoundFields, Zenon
<1>3. CASE s.overflowed
  <2>1. r = Result(s, -1)
    BY <1>3 DEF sbuf_putc
  <2> HIDE DEF r
  <2> QED
    BY <1>3, <2>1, AddRefused
<1>4. CASE ~s.overflowed /\ e.ret = -1
  <2>1. r = Result([s EXCEPT !.overflowed = TRUE], -1)
    BY <1>4 DEF sbuf_putc
  <2> HIDE DEF r
  <2> QED
    BY <2>1, AddFails
<1>5. CASE ~s.overflowed /\ e.ret = 0 /\ c = NUL
  <2>1. r = e
    BY <1>5 DEF sbuf_putc
  <2>2. Str(e.sb) = Str(s)
    <3> DEFINE x == e.sb
    <3>1. Sound(x) /\ x.len = s.len /\ \A i \in 1..s.len : x.buf[i] = s.buf[i]
      BY <1>1, <1>5
    <3> HIDE DEF x
    <3>2. Str(x) = Str(s)
      BY <3>1, StrSame
    <3> QED
      BY <3>2 DEF x
  <2>3. Str(s) = Str(s) \o <<>>
    BY StrBytes, ConcatEmptySeq
  <2> HIDE DEF e, r
  <2> QED
    BY <1>1, <1>2, <1>5, <2>1, <2>2, <2>3 DEF Adds
<1>6. CASE ~s.overflowed /\ e.ret = 0 /\ c # NUL
  <2> DEFINE x == e.sb
             w == Poke(x, p)
  <2>1. r = Result([w EXCEPT !.len = @ + Len(p)], 0)
    BY <1>0, <1>6 DEF sbuf_putc
  <2>2. /\ Sound(x) /\ x.len = s.len /\ s.len + Len(p) < x.size
        /\ x.overflowed = s.overflowed /\ x.finished = s.finished
        /\ \A i \in 1..s.len : x.buf[i] = s.buf[i]
    BY <1>0, <1>1, <1>6
  <2>w. w = Poke(x, p)
    OBVIOUS
  <2> HIDE DEF e, r, x, w, p
  <2>3. x.size \in 1..IntMax
    BY <2>2, SoundFields, Zenon
  <2>4. x.len + Len(p) <= x.size
    BY <1>0, <1>2, <2>2, <2>3
  <2>5. /\ Sound(w) /\ w.len = x.len /\ w.size = x.size
        /\ w.overflowed = x.overflowed /\ w.finished = x.finished
        /\ \A i \in 1..x.len : w.buf[i] = x.buf[i]
        /\ \A i \in 1..Len(p) : w.buf[x.len + i] = p[i]
    BY <1>0, <2>2, <2>4, <2>w, PokeInside, PokeWrites
  <2>6. /\ w.len = s.len /\ s.len + Len(p) < w.size
        /\ w.overflowed = s.overflowed /\ w.finished = s.finished
        /\ \A i \in 1..s.len : w.buf[i] = s.buf[i]
        /\ \A i \in 1..Len(p) : w.buf[s.len + i] = p[i]
    BY <2>2, <2>5
  <2> QED
    BY <1>0, <1>6, <2>1, <2>5, <2>6, AddDone
<1> QED
  BY <1>1, <1>3, <1>4, <1>5, <1>6

-----------------------------------------------------------------------------
(* The variables of SbufSpec, of which inuse is the first.                 *)
Held == IF inuse THEN SubSeq(sbuf_data(sb), 1, sb.len) ELSE <<>>
Tells == IF inuse THEN sbuf_len(sb) ELSE 0
Lost == inuse /\ sbuf_overflowed(sb)
Done == inuse /\ sbuf_done(sb)
Ret == IF open /\ ~inuse THEN -1 ELSE ret

\* What they are in a state of the invariant.
LEMMA ViewIs ==
    ASSUME SbufInv
    PROVE  /\ inuse => /\ Held = Str(sb) /\ Lost = sb.overflowed
                      /\ Done = sb.finished /\ Sound(sb)
           /\ ~inuse => Held = <<>> /\ Lost = FALSE /\ Done = FALSE
           /\ Tells = IF Lost THEN -1 ELSE Len(Held)
           /\ inuse \in BOOLEAN /\ Lost \in BOOLEAN /\ Done \in BOOLEAN
<1>0. inuse \in BOOLEAN
  BY DEF inuse
<1>1. CASE inuse
  <2>0. Sound(sb)
    <3>1. open /\ sb.size > 0
      BY <1>1 DEF inuse
    <3>2. ~Bare(sb)
      BY <3>1 DEF Bare
    <3> QED
      BY <3>1, <3>2 DEF SbufInv
  <2>1. sb.overflowed \in BOOLEAN /\ sb.finished \in BOOLEAN
    BY <2>0, SoundFields, Zenon
  <2>2. Len(Str(sb)) = sb.len
    BY <2>0, StrBytes, Zenon
  <2>3. /\ Held = Str(sb) /\ Lost = sb.overflowed /\ Done = sb.finished
        /\ Tells = IF sb.overflowed THEN -1 ELSE sb.len
    BY <1>1, <2>1 DEF Held, Tells, Lost, Done, Str, sbuf_data, sbuf_len,
                      sbuf_overflowed, sbuf_done
  <2> QED
    BY <1>0, <1>1, <2>0, <2>1, <2>2, <2>3
<1>2. CASE ~inuse
  <2>1. Held = <<>> /\ Lost = FALSE /\ Done = FALSE /\ Tells = 0
    BY <1>2 DEF Held, Tells, Lost, Done
  <2>2. Len(Held) = 0
    BY <1>2 DEF Held
  <2>3. Tells = IF Lost THEN -1 ELSE Len(Held)
    BY <1>2, <2>2 DEF Lost, Tells
  <2>4. Lost \in BOOLEAN /\ Done \in BOOLEAN
    BY <2>1, Zenon
  <2> QED
    BY <1>0, <1>2, <2>1, <2>3, <2>4, Zenon
<1> QED
  BY <1>0, <1>1, <1>2

\* The same, one step later.
LEMMA ViewNext ==
    ASSUME SbufInv'
    PROVE  /\ inuse' => /\ Held' = Str(sb') /\ Lost' = sb'.overflowed
                       /\ Done' = sb'.finished /\ Sound(sb')
           /\ ~inuse' => Held' = <<>> /\ Lost' = FALSE /\ Done' = FALSE
           /\ Tells' = IF Lost' THEN -1 ELSE Len(Held')
           /\ inuse' \in BOOLEAN /\ Lost' \in BOOLEAN /\ Done' \in BOOLEAN
<1>0. inuse' \in BOOLEAN
  BY DEF inuse
<1>1. CASE inuse'
  <2>0. Sound(sb')
    <3>1. open' /\ sb'.size > 0
      BY <1>1 DEF inuse
    <3>2. ~Bare(sb')
      BY <3>1 DEF Bare
    <3> QED
      BY <3>1, <3>2 DEF SbufInv
  <2>1. sb'.overflowed \in BOOLEAN /\ sb'.finished \in BOOLEAN
    BY <2>0, SoundFields, Zenon
  <2>2. Len(Str(sb')) = sb'.len
    BY <2>0, StrBytes, Zenon
  <2>3. /\ Held' = Str(sb') /\ Lost' = sb'.overflowed /\ Done' = sb'.finished
        /\ Tells' = IF sb'.overflowed THEN -1 ELSE sb'.len
    BY <1>1, <2>1 DEF Held, Tells, Lost, Done, Str, sbuf_data, sbuf_len,
                      sbuf_overflowed, sbuf_done
  <2> QED
    BY <1>0, <1>1, <2>0, <2>1, <2>2, <2>3
<1>2. CASE ~inuse'
  <2>1. Held' = <<>> /\ Lost' = FALSE /\ Done' = FALSE /\ Tells' = 0
    BY <1>2 DEF Held, Tells, Lost, Done
  <2>2. Len(Held') = 0
    BY <1>2 DEF Held
  <2>3. Tells' = IF Lost' THEN -1 ELSE Len(Held')
    BY <1>2, <2>2 DEF Lost, Tells
  <2>4. Lost' \in BOOLEAN /\ Done' \in BOOLEAN
    BY <2>1, Zenon
  <2> QED
    BY <1>0, <1>2, <2>1, <2>3, <2>4, Zenon
<1> QED
  BY <1>0, <1>1, <1>2

\* The length that the client is told is the abstract one.
LEMMA ToldHolds ==
    ASSUME SbufInv'
    PROVE  Abstract!Told
<1>1. Tells' = IF Lost' THEN -1 ELSE Len(Held')
  BY ViewNext
<1> QED
  BY <1>1 DEF Abstract!Told, Tells, Lost, Held

-----------------------------------------------------------------------------
(* Each call, as a step of SbufSpec.                                       *)

\* A call that appends p.
LEMMA AddMaps ==
    ASSUME SbufInv, SbufInv', inuse, inuse', NEW p, NEW r, Call(r), Adds(sb, p, r)
    PROVE  Abstract!Add(p)
<1>1. inuse /\ inuse' = inuse /\ sb' = r.sb /\ Ret' = r.ret
  BY DEF Call, Ret, inuse
<1>2. /\ Held = Str(sb) /\ Lost = sb.overflowed /\ Done = sb.finished
      /\ Held' = Str(sb') /\ Lost' = sb'.overflowed /\ Done' = sb'.finished
  BY <1>1, ViewIs, ViewNext, Zenon
<1>3. /\ Done' = Done
      /\ \/ ~Lost /\ Held' = Held \o p /\ Lost' = FALSE /\ Ret' = 0
         \/ Held' = Held /\ Lost' = TRUE /\ Ret' = -1
  BY <1>1, <1>2 DEF Adds
<1> QED
  BY <1>1, <1>3 DEF Abstract!Add, Held, Lost, Done, Ret

\* sbuf_clear() leaves the empty string and no mark.
LEMMA ClearEmpties ==
    ASSUME NEW s, Sound(s), NEW t, t = sbuf_clear(s)
    PROVE  /\ Sound(t) /\ Str(t) = <<>>
           /\ t.overflowed = FALSE /\ t.finished = FALSE
<1>1. Sound(t)
  BY ClearSound, Zenon
<1>2. s \in Sbufs
  BY DEF Sound
<1>3. t.len = 0 /\ t.overflowed = FALSE /\ t.finished = FALSE
  BY <1>2 DEF Sbufs, sbuf_clear
<1>4. Str(t) \in Seq(Byte) /\ Len(Str(t)) = 0
  BY <1>1, <1>3, StrBytes, Zenon
<1> DEFINE u == Str(t)
<1> HIDE DEF u
<1>5. u = <<>>
  <2>1. u \in Seq(Byte) /\ Len(u) = 0
    BY <1>4 DEF u
  <2> QED
    BY <2>1, EmptySeq
<1> QED
  BY <1>1, <1>3, <1>5 DEF u

\* sbuf_bcpy() appends to the empty string.
LEMMA ReplaceMaps ==
    ASSUME SbufInv, SbufInv', inuse, inuse', NEW p \in Data, NEW got \in BOOLEAN,
           NEW r, r = sbuf_bcpy(sb, p, got), Call(r)
    PROVE  Abstract!Replace(p)
<1> DEFINE t == sbuf_clear(sb)
<1>1. inuse /\ inuse' = inuse /\ sb' = r.sb /\ Ret' = r.ret
  BY DEF Call, Ret, inuse
<1>2. /\ Held' = Str(sb') /\ Lost' = sb'.overflowed /\ Done' = sb'.finished
      /\ Sound(sb)
  BY <1>1, ViewIs, ViewNext, Zenon
<1>3. /\ Sound(t) /\ Str(t) = <<>> /\ t.overflowed = FALSE
      /\ t.finished = FALSE
  BY <1>2, ClearEmpties
<1>4. r = sbuf_bcat(t, p, got)
  BY DEF sbuf_bcpy
<1> HIDE DEF t
<1>5. Adds(t, p, r)
  BY <1>3, <1>4, BcatAdds
<1>6. Str(t) \o p = p
  <2>1. p \in Seq(Byte)
    BY DEF Data
  <2> QED
    BY <1>3, <2>1, ConcatEmptySeq
<1>7. /\ Done' = FALSE
      /\ \/ Held' = p /\ Lost' = FALSE /\ Ret' = 0
         \/ Held' = <<>> /\ Lost' = TRUE /\ Ret' = -1
  BY <1>1, <1>2, <1>3, <1>5, <1>6 DEF Adds
<1> QED
  BY <1>1, <1>7 DEF Abstract!Replace, Held, Lost, Done, Ret

\* sbuf_clear() is the abstract one.
LEMMA ClearMaps ==
    ASSUME SbufInv, SbufInv', inuse, inuse', Clear
    PROVE  Abstract!Clear
<1> DEFINE t == sbuf_clear(sb)
<1>1. inuse /\ inuse' = inuse /\ sb' = t /\ Ret' = 0
  BY DEF Clear, Call, Result, Ret, inuse
<1> HIDE DEF t
<1>2. /\ Held' = Str(sb') /\ Lost' = sb'.overflowed /\ Done' = sb'.finished
      /\ Sound(sb)
  BY <1>1, ViewIs, ViewNext, Zenon
<1>3. Str(t) = <<>> /\ t.overflowed = FALSE /\ t.finished = FALSE
  BY <1>2, ClearEmpties DEF t
<1>4. Held' = <<>> /\ Lost' = FALSE /\ Done' = FALSE
  BY <1>1, <1>2, <1>3
<1> QED
  BY <1>1, <1>4 DEF Abstract!Clear, Held, Lost, Done, Ret

\* A call that leaves the sbuf alone and returns -1.
LEMMA RefusedMaps ==
    ASSUME SbufInv, SbufInv', inuse, inuse', Call(Result(sb, -1))
    PROVE  Abstract!Refused
<1>1. inuse /\ inuse' = inuse /\ sb' = sb /\ Ret' = -1
  BY DEF Call, Result, Ret, inuse
<1>2. Held' = Held /\ Lost' = Lost /\ Done' = Done
  BY <1>1 DEF Held, Lost, Done
<1> QED
  BY <1>1, <1>2 DEF Abstract!Refused, Held, Lost, Done, Ret

\* The string up to a position within it.
LEMMA Shorter ==
    ASSUME NEW s, Sound(s), NEW k \in 0..s.len,
           NEW t, t = [s EXCEPT !.len = k]
    PROVE  /\ Str(t) = SubSeq(Str(s), 1, k)
           /\ t.overflowed = s.overflowed /\ t.finished = s.finished
<1>0. s.len \in 0..(s.size - 1) /\ s.size \in 1..IntMax
  BY SoundFields, Zenon
<1>1. k \in 0..(s.size - 1)
  BY <1>0
<1>2. Sound(t)
  BY <1>1, SetLen
<1>3. s \in Sbufs
  BY DEF Sound
<1>4. /\ t.len = k /\ t.buf = s.buf /\ t.overflowed = s.overflowed
      /\ t.finished = s.finished
  BY <1>3 DEF Sbufs
<1>5. /\ Str(s) \in Seq(Byte) /\ Len(Str(s)) = s.len /\ s.len \in Nat
      /\ \A i \in 1..s.len : Str(s)[i] = s.buf[i]
  BY StrBytes, Zenon
<1>6. /\ Str(t) \in Seq(Byte) /\ Len(Str(t)) = k
      /\ \A i \in 1..k : Str(t)[i] = s.buf[i]
  <2>1. /\ Str(t) \in Seq(Byte) /\ Len(Str(t)) = t.len
        /\ \A i \in 1..t.len : Str(t)[i] = t.buf[i]
    BY <1>2, StrBytes, Zenon
  <2> QED
    BY <1>4, <2>1
<1> DEFINE u == Str(s)
           v == Str(t)
           w == SubSeq(u, 1, k)
<1> SUFFICES v = w
  BY <1>4
<1>7. /\ u \in Seq(Byte) /\ Len(u) = s.len /\ v \in Seq(Byte) /\ Len(v) = k
      /\ k \in Int /\ k \in Nat /\ k <= s.len
      /\ \A i \in 1..k : v[i] = u[i]
  BY <1>5, <1>6
<1> HIDE DEF u, v
<1>8. \A i \in 1..k : u[i] \in Byte
  BY <1>5, <1>7, ElementOfSeq
<1>9. /\ w \in Seq(Byte) /\ Len(w) = IF 1 <= k THEN k - 1 + 1 ELSE 0
      /\ \A i \in 1..(k - 1 + 1) : w[i] = u[1 + i - 1]
  BY <1>7, <1>8, SubSeqProperties
<1> HIDE DEF w
<1>10. Len(w) = Len(v) /\ \A i \in 1..Len(v) : v[i] = w[i]
  BY <1>7, <1>9
<1> QED
  BY <1>7, <1>9, <1>10, SeqEqual

\* sbuf_setpos() is refused, or cuts the string.
LEMMA SetPosMaps ==
    ASSUME SbufInv, SbufInv', inuse, inuse', NEW pos \in Int, SetPos(pos)
    PROVE  Abstract!Refused \/ \E k \in 0..Len(Held) : Abstract!Cut(k)
<1>1. inuse
  OBVIOUS
<1>2. /\ Held = Str(sb) /\ Lost = sb.overflowed /\ Done = sb.finished
      /\ Sound(sb)
  BY <1>1, ViewIs, Zenon
<1>3. Len(Held) = sb.len /\ sb.len \in Nat
  BY <1>2, StrBytes, Zenon
<1>4. CASE pos < 0 \/ pos > sb.len
  <2>1. Call(Result(sb, -1))
    BY <1>4 DEF SetPos, sbuf_setpos
  <2> QED
    BY <2>1, RefusedMaps
<1>5. CASE ~(pos < 0 \/ pos > sb.len)
  <2> DEFINE t == [sb EXCEPT !.len = pos]
  <2>1. inuse' = inuse /\ sb' = t /\ Ret' = 0
    BY <1>5 DEF SetPos, sbuf_setpos, Call, Result, Ret, inuse
  <2>2. pos \in 0..sb.len
    BY <1>3, <1>5
  <2>3. /\ Str(t) = SubSeq(Str(sb), 1, pos)
        /\ t.overflowed = sb.overflowed /\ t.finished = sb.finished
    BY <1>2, <2>2, Shorter
  <2> HIDE DEF t
  <2>4. /\ Held' = Str(sb') /\ Lost' = sb'.overflowed /\ Done' = sb'.finished
    BY <1>1, <2>1, ViewNext, Zenon
  <2>5. Held' = SubSeq(Held, 1, pos) /\ Lost' = Lost /\ Done' = Done
    BY <1>2, <2>1, <2>3, <2>4
  <2>6. Abstract!Cut(pos)
    BY <1>1, <2>1, <2>5 DEF Abstract!Cut, Held, Lost, Done, Ret
  <2> QED
    BY <1>3, <2>2, <2>6
<1> QED
  BY <1>4, <1>5

\* The loop of sbuf_trim() stops where SbufSpec says.
LEMMA TrimMaps ==
    ASSUME SbufInv, SbufInv', inuse, inuse', Trim
    PROVE  Abstract!Trim
<1> DEFINE solid == {i \in 1..sb.len : sb.buf[i] # Space}
           last == IF solid = {} THEN 0
                   ELSE CHOOSE i \in solid : \A j \in solid : j <= i
           t == [sb EXCEPT !.len = last]
<1>1. inuse /\ inuse' = inuse
  BY DEF inuse
<1>2. /\ Held = Str(sb) /\ Lost = sb.overflowed /\ Done = sb.finished
      /\ Sound(sb)
      /\ Held' = Str(sb') /\ Lost' = sb'.overflowed /\ Done' = sb'.finished
  BY <1>1, ViewIs, ViewNext, Zenon
<1>3. /\ Len(Str(sb)) = sb.len /\ sb.len \in Nat
      /\ \A i \in 1..sb.len : Str(sb)[i] = sb.buf[i]
  BY <1>2, StrBytes, Zenon
<1>4. CASE sb.overflowed
  <2>1. sb' = sb /\ Ret' = -1
    BY <1>4 DEF Trim, Call, sbuf_trim, Result, Ret
  <2>2. Held' = Held /\ Lost' = Lost /\ Done' = Done /\ Lost
    BY <1>2, <1>4, <2>1
  <2> QED
    BY <1>1, <2>1, <2>2 DEF Abstract!Trim, Held, Lost, Done, Ret
<1>5. CASE ~sb.overflowed
  <2>1. sb' = t /\ Ret' = 0
    <3>1. sbuf_trim(sb) = Result(t, 0)
      BY <1>2, <1>5, TrimIs, Zenon
    <3> HIDE DEF t
    <3> QED
      BY <3>1 DEF Trim, Call, Result, Ret
  <2>2. /\ last \in 0..sb.len
        /\ last = 0 \/ sb.buf[last] # Space
        /\ \A i \in (last + 1)..sb.len : sb.buf[i] = Space
    <3>1. CASE solid = {}
      BY <1>3, <3>1
    <3>2. CASE solid # {}
      <4>1. solid \in SUBSET (1..sb.len) /\ sb.len \in Nat
        BY <1>3
      <4>2. \E i \in solid : \A j \in solid : j <= i
        <5> HIDE DEF solid
        <5> QED
          BY <3>2, <4>1, Greatest, Zenon
      <4>3. last \in solid /\ \A j \in solid : j <= last
        <5> HIDE DEF solid
        <5> QED
          BY <3>2, <4>2
      <4> HIDE DEF last
      <4>4. last \in 1..sb.len /\ sb.buf[last] # Space
        BY <4>3
      <4>5. ASSUME NEW i \in (last + 1)..sb.len PROVE sb.buf[i] = Space
        <5>1. i \in 1..sb.len /\ ~(i <= last)
          BY <1>3, <4>4
        <5>2. i \notin solid
          BY <4>3, <5>1
        <5> QED
          BY <5>1, <5>2
      <4> QED
        BY <4>4, <4>5
    <3> QED
      BY <3>1, <3>2
  <2> HIDE DEF last
  <2>3. /\ Str(t) = SubSeq(Str(sb), 1, last)
        /\ t.overflowed = sb.overflowed /\ t.finished = sb.finished
    BY <1>2, <2>2, Shorter
  <2> HIDE DEF t
  <2>4. /\ Held' = SubSeq(Held, 1, last) /\ Lost' = Lost /\ Done' = Done
        /\ ~Lost
    BY <1>2, <1>5, <2>1, <2>3
  <2>5. /\ last \in 0..Len(Held)
        /\ last = 0 \/ Held[last] # Space
        /\ \A i \in (last + 1)..Len(Held) : Held[i] = Space
    BY <1>2, <1>3, <2>2
  <2>6. \E k \in 0..Len(Held) :
            /\ k = 0 \/ Held[k] # Space
            /\ \A i \in (k + 1)..Len(Held) : Held[i] = Space
            /\ Held' = SubSeq(Held, 1, k) /\ Ret' = 0
    BY <2>1, <2>4, <2>5
  <2> QED
    BY <1>1, <2>4, <2>6 DEF Abstract!Trim, Held, Lost, Done, Ret
<1> QED
  BY <1>4, <1>5

\* The terminator is written behind the string.
LEMMA FinishMaps ==
    ASSUME SbufInv, SbufInv', inuse, inuse', Finish
    PROVE  Abstract!Finish
<1> DEFINE z == <<NUL>>
           w == Poke(sb, z)
           t == [w EXCEPT !.overflowed = FALSE, !.finished = TRUE]
<1>1. inuse /\ inuse' = inuse /\ sb' = t /\ Ret' = 0
  BY DEF Finish, Call, Result, sbuf_finish, Ret, inuse
<1>2. /\ Held = Str(sb) /\ Sound(sb) /\ Sound(sb')
      /\ Held' = Str(sb') /\ Lost' = sb'.overflowed /\ Done' = sb'.finished
  BY <1>1, ViewIs, ViewNext, Zenon
<1>3. z \in Seq(Byte) /\ Len(z) = 1
  BY NulIsByte
<1> HIDE DEF z
<1>4. sb.len + Len(z) <= sb.size
  <2>1. sb.len \in 0..(sb.size - 1) /\ sb.size \in 1..IntMax
    BY <1>2, SoundFields, Zenon
  <2> QED
    BY <1>3, <2>1
<1>5. Sound(w) /\ w.len = sb.len /\ \A i \in 1..sb.len : w.buf[i] = sb.buf[i]
  BY <1>2, <1>3, <1>4, PokeInside, PokeWrites
<1> HIDE DEF w
<1>6. w \in Sbufs
  BY <1>5 DEF Sound
<1>7. /\ t.len = w.len /\ t.buf = w.buf /\ t.overflowed = FALSE
      /\ t.finished = TRUE
  BY <1>6 DEF Sbufs
<1> HIDE DEF t
<1>8. Str(t) = Str(w) /\ Str(w) = Str(sb)
  BY <1>2, <1>5, <1>7, StrSame DEF Str
<1>9. Held' = Held /\ Lost' = FALSE /\ Done' = TRUE
  BY <1>1, <1>2, <1>7, <1>8
<1> QED
  BY <1>1, <1>9 DEF Abstract!Finish, Held, Lost, Done, Ret

\* sbuf_new(): an sbuf without a string, or none.
LEMMA CreatedMaps ==
    ASSUME SbufInv, SbufInv', ~open, NEW r, NEW onheap,
           Created(r, onheap), r.ret \in {0, -1},
           r.ret = 0 => /\ r.sb.len = 0 /\ r.sb.overflowed = FALSE
                        /\ r.sb.finished = FALSE
    PROVE  Abstract!New
<1>1. /\ sb' = r.sb /\ ret' = r.ret /\ open' = (r.ret = 0)
      /\ ~inuse /\ (inuse' => open')
  BY DEF Created, inuse
<1>2. /\ inuse' => /\ Held' = Str(sb') /\ Lost' = sb'.overflowed
                   /\ Done' = sb'.finished /\ Sound(sb')
      /\ ~inuse' => Held' = <<>> /\ Lost' = FALSE /\ Done' = FALSE
      /\ inuse' \in BOOLEAN
  BY ViewNext
<1>3. Ret' = IF inuse' THEN 0 ELSE -1
  <2>1. Ret' = IF open' /\ ~inuse' THEN -1 ELSE ret'
    BY DEF Ret
  <2> QED
    BY <1>1, <2>1
<1>4. Held' = <<>> /\ Lost' = FALSE /\ Done' = FALSE
  <2>1. CASE inuse'
    <3>0. sb'.len = 0 /\ sb'.overflowed = FALSE /\ sb'.finished = FALSE
      BY <1>1, <2>1
    <3>1. Len(Str(sb')) = 0 /\ Str(sb') \in Seq(Byte)
      BY <1>2, <2>1, <3>0, StrBytes
    <3>2. Str(sb') = <<>>
      <4> DEFINE u == Str(sb')
      <4>1. u \in Seq(Byte) /\ Len(u) = 0
        BY <3>1
      <4> HIDE DEF u
      <4>2. u = <<>>
        BY <4>1, EmptySeq
      <4> QED
        BY <4>2 DEF u
    <3> QED
      BY <1>2, <2>1, <3>0, <3>2
  <2>2. CASE ~inuse'
    BY <1>2, <2>2
  <2> QED
    BY <2>1, <2>2
<1> QED
  BY <1>1, <1>2, <1>3, <1>4 DEF Abstract!New, Held, Lost, Done, Ret

\* What sbuf_new() makes holds no byte and carries no mark.
LEMMA FreshEmpty ==
    ASSUME NEW s \in Sbufs,
           s.len = 0, s.overflowed = FALSE, s.finished = FALSE
    PROVE  /\ \A length, got, r :
                r = WithHeapBuffer(s, length, got) /\ r.ret = 0 =>
                    /\ r.sb.len = 0 /\ r.sb.overflowed = FALSE
                    /\ r.sb.finished = FALSE
           /\ \A length, r :
                r = WithCallerBuffer(s, length) =>
                    /\ r.ret = 0 /\ r.sb.len = 0 /\ r.sb.overflowed = FALSE
                    /\ r.sb.finished = FALSE
<1>1. ASSUME NEW length, NEW got, NEW r, r = WithHeapBuffer(s, length, got),
             r.ret = 0
      PROVE  r.sb.len = 0 /\ r.sb.overflowed = FALSE /\ r.sb.finished = FALSE
  <2> DEFINE size == IF s.extend THEN sbuf_extendsize(length) ELSE length
             b == Fill(NUL, size)
             h == {size}
             t == [s EXCEPT !.buf = b, !.size = size, !.dynamic = TRUE,
                            !.heap = h]
  <2>1. CASE size \in {-1, 0} \/ ~got
    <3>1. r.ret = -1
      BY <1>1, <2>1 DEF WithHeapBuffer, Result
    <3> QED
      BY <1>1, <3>1
  <2>2. CASE ~(size \in {-1, 0} \/ ~got)
    <3>1. r.sb = t
      BY <1>1, <2>2 DEF WithHeapBuffer, Result
    <3> HIDE DEF size, b, h
    <3>2. /\ t.len = s.len /\ t.overflowed = s.overflowed
          /\ t.finished = s.finished
      BY DEF Sbufs
    <3> QED
      BY <3>1, <3>2
  <2> QED
    BY <2>1, <2>2
<1>2. ASSUME NEW length, NEW r, r = WithCallerBuffer(s, length)
      PROVE  /\ r.ret = 0 /\ r.sb.len = 0 /\ r.sb.overflowed = FALSE
             /\ r.sb.finished = FALSE
  <2> DEFINE b == Fill(Junk, length)
             t == [s EXCEPT !.buf = b, !.size = length]
  <2>1. r.sb = t /\ r.ret = 0
    BY <1>2 DEF WithCallerBuffer, Result
  <2> HIDE DEF b
  <2>2. t.len = s.len /\ t.overflowed = s.overflowed /\ t.finished = s.finished
    BY DEF Sbufs
  <2> QED
    BY <2>1, <2>2
<1> QED
  BY <1>1, <1>2

\* Whatever sbuf_new() returns is what SbufSpec lets it return.
LEMMA NewMaps ==
    ASSUME SbufInv, SbufInv', NEW extend \in BOOLEAN, NEW onheap \in BOOLEAN,
           \/ NewRefused
           \/ \E length \in NewSizes, got \in BOOLEAN :
                NewOnHeap(length, extend, onheap, got)
           \/ \E length \in CallerSizes : NewOnCaller(length, extend, onheap)
    PROVE  Abstract!New
<1> DEFINE s == [NoSbuf EXCEPT !.extend = extend, !.dynstruct = onheap]
<1>0. ret' \in {0, -1}
  BY DEF SbufInv
<1>1. /\ \A length, got, r :
            r = WithHeapBuffer(s, length, got) /\ r.ret = 0 =>
                /\ r.sb.len = 0 /\ r.sb.overflowed = FALSE
                /\ r.sb.finished = FALSE
      /\ \A length, r :
            r = WithCallerBuffer(s, length) =>
                /\ r.ret = 0 /\ r.sb.len = 0 /\ r.sb.overflowed = FALSE
                /\ r.sb.finished = FALSE
  <2>1. s \in Sbufs
    BY FreshClosed DEF Closed
  <2>2. s.len = 0 /\ s.overflowed = FALSE /\ s.finished = FALSE
    BY DEF NoSbuf
  <2> HIDE DEF s
  <2> QED
    BY <2>1, <2>2, FreshEmpty, Zenon
<1>2. CASE NewRefused
  <2>1. ~inuse /\ ~inuse' /\ Ret' = -1
    BY <1>2 DEF NewRefused, inuse, Ret
  <2>2. /\ Held' = <<>> /\ Lost' = FALSE /\ Done' = FALSE
        /\ inuse' \in BOOLEAN /\ Ret' = IF inuse' THEN 0 ELSE -1
    BY <2>1, ViewNext
  <2> QED
    BY <2>1, <2>2 DEF Abstract!New, Held, Lost, Done, Ret
<1>3. ASSUME NEW length \in NewSizes, NEW got \in BOOLEAN,
             NewOnHeap(length, extend, onheap, got)
      PROVE  Abstract!New
  <2> DEFINE r == WithHeapBuffer(s, length, got)
  <2>1. ~open /\ Created(r, onheap)
    BY <1>3 DEF NewOnHeap
  <2>2. r.ret = 0 => /\ r.sb.len = 0 /\ r.sb.overflowed = FALSE
                     /\ r.sb.finished = FALSE
    <3>1. r = WithHeapBuffer(s, length, got)
      OBVIOUS
    <3> HIDE DEF r, s
    <3> QED
      BY <1>1, <3>1
  <2>3. r.ret = ret'
    BY <2>1 DEF Created
  <2> HIDE DEF r
  <2> QED
    BY <1>0, <2>1, <2>2, <2>3, CreatedMaps
<1>4. ASSUME NEW length \in CallerSizes, NewOnCaller(length, extend, onheap)
      PROVE  Abstract!New
  <2> DEFINE r == WithCallerBuffer(s, length)
  <2>1. ~open /\ Created(r, onheap)
    BY <1>4 DEF NewOnCaller
  <2>2. /\ r.ret = 0 /\ r.sb.len = 0 /\ r.sb.overflowed = FALSE
        /\ r.sb.finished = FALSE
    <3>1. r = WithCallerBuffer(s, length)
      OBVIOUS
    <3> HIDE DEF r, s
    <3> QED
      BY <1>1, <3>1
  <2> HIDE DEF r
  <2> QED
    BY <2>1, <2>2, CreatedMaps
<1> QED
  BY <1>2, <1>3, <1>4

\* sbuf_delete() leaves nothing to see.
LEMMA DeleteMaps ==
    ASSUME SbufInv, SbufInv', Delete
    PROVE  Abstract!Delete
<1>1. inuse' = FALSE /\ Ret' = 0
  BY DEF Delete, inuse, Ret
<1>2. Held' = <<>> /\ Lost' = FALSE /\ Done' = FALSE
  BY <1>1, ViewNext
<1> QED
  BY <1>1, <1>2 DEF Abstract!Delete, Held, Lost, Done, Ret

-----------------------------------------------------------------------------
\* The pieces of SbufSpec: data, strings up to a NUL, single bytes, nothing.
AllPieces == Pieces \cup {CString(p) : p \in Pieces}
                \cup {<<c>> : c \in Bytes} \cup {<<>>}

\* A step on an sbuf in use is a step of SbufSpec.
LEMMA UseMaps ==
    ASSUME SbufInv, SbufInv', inuse, inuse', Next
    PROVE  Abstract!Next
<1> DEFINE Seen ==
            \/ Abstract!New \/ Abstract!Refused \/ Abstract!Clear
            \/ Abstract!Trim \/ Abstract!Finish \/ Abstract!Delete
            \/ \E p \in AllPieces : Abstract!Add(p) \/ Abstract!Replace(p)
            \/ \E k \in 0..Len(Held) : Abstract!Cut(k)
<1>0. Seen => Abstract!Next
  BY ToldHolds DEF Abstract!Next, Held, Lost, Done, Ret, AllPieces
<1>1. ASSUME NEW p \in Pieces, NEW got \in BOOLEAN,
             Bcat(p, got) \/ Bcpy(p, got) \/ Cat(p, got) \/ Cpy(p, got)
               \/ Vprintf(p, got)
      PROVE  Seen
  <2> DEFINE c == CString(p)
  <2>0. p \in Data /\ c \in Data /\ p \in AllPieces /\ c \in AllPieces
    BY PiecesAreData, Zenon DEF AllPieces
  <2> SUFFICES \E q \in {p, c} : Abstract!Add(q) \/ Abstract!Replace(q)
    BY <2>0
  <2> HIDE DEF c
  <2>9. Sound(sb)
    BY ViewIs
  <2>1. CASE Bcat(p, got)
    <3> DEFINE r == sbuf_bcat(sb, p, got)
    <3>1. Call(r)
      BY <2>1 DEF Bcat
    <3>2. Adds(sb, p, r)
      BY <2>0, <2>9, BcatAdds
    <3> HIDE DEF r
    <3> QED
      BY <3>1, <3>2, AddMaps
  <2>2. CASE Bcpy(p, got)
    <3> DEFINE r == sbuf_bcpy(sb, p, got)
    <3>1. Call(r)
      BY <2>2 DEF Bcpy
    <3>2. r = sbuf_bcpy(sb, p, got)
      OBVIOUS
    <3> HIDE DEF r
    <3> QED
      BY <2>0, <3>1, <3>2, ReplaceMaps
  <2>3. CASE Cat(p, got)
    <3> DEFINE r == sbuf_bcat(sb, c, got)
    <3>1. Call(r)
      BY <2>3 DEF Cat, sbuf_cat, c
    <3>2. Adds(sb, c, r)
      BY <2>0, <2>9, BcatAdds
    <3> HIDE DEF r
    <3> QED
      BY <3>1, <3>2, AddMaps
  <2>4. CASE Cpy(p, got)
    <3> DEFINE r == sbuf_bcpy(sb, c, got)
    <3>1. Call(r)
      BY <2>4 DEF Cpy, sbuf_cpy, sbuf_cat, sbuf_bcpy, c
    <3>2. r = sbuf_bcpy(sb, c, got)
      OBVIOUS
    <3> HIDE DEF r
    <3> QED
      BY <2>0, <3>1, <3>2, ReplaceMaps
  <2>5. CASE Vprintf(p, got)
    <3> DEFINE r == sbuf_vprintf(sb, c, got)
    <3>1. Call(r)
      BY <2>5 DEF Vprintf, c
    <3>2. Adds(sb, c, r)
      BY <2>0, <2>9, VprintfAdds
    <3> HIDE DEF r
    <3> QED
      BY <3>1, <3>2, AddMaps
  <2> QED
    BY <1>1, <2>1, <2>2, <2>3, <2>4, <2>5
<1>2. ASSUME NEW c \in Bytes, NEW got \in BOOLEAN, Putc(c, got)
      PROVE  Seen
  <2> DEFINE r == sbuf_putc(sb, c, got)
  <2>1. Call(r)
    BY <1>2 DEF Putc
  <2>2. Sound(sb)
    BY ViewIs
  <2>3. Adds(sb, <<>>, r) \/ Adds(sb, <<c>>, r)
    BY <2>2, PutcAdds
  <2>4. <<>> \in AllPieces /\ <<c>> \in AllPieces
    BY DEF AllPieces
  <2> HIDE DEF r
  <2>5. Abstract!Add(<<>>) \/ Abstract!Add(<<c>>)
    BY <2>1, <2>3, AddMaps
  <2> QED
    BY <2>4, <2>5
<1>3. ASSUME NEW pos \in -1..IntMax, SetPos(pos)
      PROVE  Seen
  <2>1. pos \in Int
    BY SizesAssumption
  <2> QED
    BY <1>3, <2>1, SetPosMaps
<1>4. VprintfFails => Seen
  BY RefusedMaps DEF VprintfFails
<1>5. (Clear => Seen) /\ (Trim => Seen) /\ (Finish => Seen)
  BY ClearMaps, TrimMaps, FinishMaps
<1>6. /\ ~Delete /\ ~Undefined /\ ~NewRefused
      /\ \A length, extend, onheap, got :
            /\ ~NewOnHeap(length, extend, onheap, got)
            /\ ~NewOnCaller(length, extend, onheap)
  <2>1. open /\ open' /\ ~sb.wild
    BY ViewIs, Zenon DEF inuse, Sound
  <2> QED
    BY <2>1 DEF Delete, Undefined, NewRefused, NewOnHeap, NewOnCaller
<1> HIDE DEF Seen
<1>7. Seen
  BY <1>1, <1>2, <1>3, <1>4, <1>5, <1>6, Zenon DEF Next
<1> QED
  BY <1>0, <1>7

\* A step of Sbuf is a step of SbufSpec, or is not seen.
LEMMA StepMaps ==
    ASSUME SbufInv, SbufInv', [Next]_vars
    PROVE  [Abstract!Next]_<<inuse, Held, Tells, Lost, Done, Ret>>
<1> DEFINE Unseen == UNCHANGED <<inuse, Held, Tells, Lost, Done, Ret>>
<1>0. Abstract!New \/ Abstract!Delete => Abstract!Next
  BY ToldHolds DEF Abstract!Next, Held, Lost, Done, Ret
<1>1. CASE UNCHANGED vars \/ Undefined
  BY <1>1 DEF vars, Undefined, inuse, Held, Tells, Lost, Done, Ret
<1>2. CASE Next /\ Delete
  BY <1>0, <1>2, DeleteMaps
<1>3. CASE Next /\ open /\ ~Delete /\ ~Undefined
  <2>1. PICK r : Call(r) /\ Outcome(r)
    BY <1>3, CallOutcome
  <2>2. sb' = r.sb /\ open' = open /\ ~sb.wild
    BY <2>1 DEF Call
  <2>3. CASE Sound(sb)
    <3>1. Sound(sb')
      BY <2>1, <2>2, <2>3 DEF Outcome, Keeps
    <3>2. sb.size \in 1..IntMax /\ sb'.size \in 1..IntMax
      BY <2>3, <3>1, SoundFields, Zenon
    <3>3. inuse /\ inuse'
      BY <1>3, <2>2, <3>2, SizesAssumption DEF inuse
    <3> QED
      BY <1>3, <3>3, UseMaps
  <2>4. CASE Bare(sb)
    <3>1. Bare(sb')
      BY <2>1, <2>2, <2>4 DEF Outcome, Stays
    <3>2. sb.size = 0 /\ sb'.size = 0
      BY <2>4, <3>1 DEF Bare
    <3>3. ~inuse /\ ~inuse'
      BY <3>2 DEF inuse
    <3>4. Unseen
      BY <1>3, <2>2, <3>3 DEF Held, Tells, Lost, Done, Ret, inuse
    <3> QED
      BY <3>4
  <2> QED
    BY <1>3, <2>3, <2>4 DEF SbufInv
<1>4. CASE Next /\ ~open /\ ~Delete /\ ~Undefined
  <2>1. \A r : ~Call(r)
    BY <1>4 DEF Call
  <2>2. /\ ~Clear /\ ~VprintfFails /\ ~Trim /\ ~Finish
        /\ \A pos : ~SetPos(pos)
        /\ \A p, got : /\ ~Bcat(p, got) /\ ~Bcpy(p, got) /\ ~Cat(p, got)
                       /\ ~Cpy(p, got) /\ ~Vprintf(p, got) /\ ~Putc(p, got)
    BY <2>1 DEF Clear, VprintfFails, Trim, Finish, SetPos, Bcat, Bcpy, Cat,
                Cpy, Vprintf, Putc
  <2>3. ASSUME NEW extend \in BOOLEAN, NEW onheap \in BOOLEAN,
               NEW got \in BOOLEAN, NEW length,
               \/ NewRefused
               \/ length \in NewSizes /\ NewOnHeap(length, extend, onheap, got)
               \/ length \in CallerSizes /\ NewOnCaller(length, extend, onheap)
        PROVE  Abstract!New
    BY <2>3, NewMaps
  <2>4. Abstract!New
    BY <1>4, <2>2, <2>3, Zenon DEF Next
  <2> QED
    BY <1>0, <2>4
<1> QED
  BY <1>1, <1>2, <1>3, <1>4

\* lib/libkern-bsd/sbuf.c: whatever is allocated, moved, truncated or cut off,
\* a client of an sbuf sees a string that grows by whole pieces, is told its
\* length, and is told when a piece was lost.  The sbuf on a client's empty
\* buffer is no string: its sbuf_new() counts as a failed one.
THEOREM SbufImplementsString == Spec => ImplementsString
<1>1. Init => Abstract!Init
  BY DEF Init, Abstract!Init, inuse
<1>2. SbufInv /\ SbufInv' /\ [Next]_vars =>
        [Abstract!Next]_<<inuse, Held, Tells, Lost, Done, Ret>>
  BY StepMaps
<1> QED
  BY <1>1, <1>2, SbufInvariant, PTL
     DEF Spec, ImplementsString, Abstract!Spec, Held, Tells, Lost, Done, Ret
=============================================================================
