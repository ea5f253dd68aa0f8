----------------------------- MODULE MachOProofs ----------------------------
(***************************************************************************)
(* For every set of images and every size of the headers: the parser stays *)
(* inside the image, takes the self-test image, and finds the signature    *)
(* exactly where the commands that follow each other have one.             *)
(***************************************************************************)
EXTENDS MachO, TLAPS

\* Reversing the bytes of a word gives a word.
LEMMA SwapIsWord == ASSUME NEW w \in Word PROVE Swap(w) \in Word
<1> USE SizesAssumption DEF Word, Swap
<1> DEFINE q == w \div Digit
           r == w % Digit
<1>1. w \in Nat /\ Digit \in Nat /\ Digit > 1
  OBVIOUS
<1>2. q \in Int /\ r \in 0..(Digit - 1) /\ w = Digit * q + r
  BY <1>1
<1> HIDE DEF q, r
<1>3. q \in 0..(Digit - 1)
  <2>1. q >= 0
    <3> SUFFICES ASSUME q <= -1 PROVE FALSE
      BY <1>2
    <3>1. Digit * q <= -Digit
      BY <1>1, <1>2
    <3> QED
      BY <1>1, <1>2, <3>1
  <2>2. q < Digit
    <3> SUFFICES ASSUME q >= Digit PROVE FALSE
      BY <1>1, <1>2
    <3>1. Digit * q >= Digit * Digit
      BY <1>1, <1>2
    <3> QED
      BY <1>1, <1>2, <3>1
  <2> QED
    BY <1>1, <1>2, <2>1, <2>2
<1>4. r * Digit \in Int /\ 0 <= r * Digit
      /\ r * Digit <= (Digit - 1) * Digit
  BY <1>1, <1>2
<1>5. (Digit - 1) * Digit = Digit * Digit - Digit
  BY <1>1
<1>6. r * Digit + q \in 0..(Digit * Digit - 1)
  BY <1>1, <1>3, <1>4, <1>5
<1> QED
  BY <1>6 DEF q, r

\* Slice k of n lies in the table of n slices.
LEMMA SliceInTable ==
    ASSUME NEW n \in Nat, NEW k \in Nat, k < n, NEW size \in Nat
    PROVE  k * size + size <= n * size
<1>1. n - k - 1 \in Nat
  OBVIOUS
<1>2. (n - k - 1) * size \in Nat
  BY <1>1
<1>3. n * size = k * size + size + (n - k - 1) * size
  OBVIOUS
<1>4. k * size \in Nat /\ n * size \in Nat
  OBVIOUS
<1> QED
  BY <1>2, <1>3, <1>4

-----------------------------------------------------------------------------
\* Where the parser is says what it has compared with the length.
ReadInv ==
    /\ TypeOK
    /\ info \in [cputype : Word, ncmds : Word, fat : BOOLEAN,
                 codesign : BOOLEAN]
    /\ inside
    /\ pc \in {"thin", "commands"} => ~IsFat(image)
    /\ pc = "commands" => ThinHeader <= off
    /\ pc = "slices" => FatHeader + narch * FatArch <= image.len

\* A read that lies in the image leaves the history as it was.
LEMMA ReadInside ==
    ASSUME NEW from, NEW bytes, Reads(from, bytes), inside,
           from + bytes <= image.len
    PROVE  inside'
  BY DEF Reads

\* Every step keeps the types and reads inside the image only.
LEMMA ReadStep == ReadInv /\ Next => ReadInv'
<1> SUFFICES ASSUME ReadInv, Next
             PROVE  ReadInv'
  OBVIOUS
<1> USE SizesAssumption
<1>z. 0 \in Word /\ Arm64 \in Word /\ Word \subseteq Nat
  BY DEF Word
<1>m. /\ image \in Images /\ image.len \in Nat /\ image.count \in Word
      /\ image.cputype \in Word
      /\ Swap(image.count) \in Word
  BY ImagesAssumption, SwapIsWord DEF ReadInv, TypeOK
<1>t. /\ pc \in {"info", "thin", "commands", "fat", "slices", "done"}
      /\ i \in Nat /\ off \in Nat /\ narch \in Nat
      /\ info \in [cputype : Word, ncmds : Word, fat : BOOLEAN,
                   codesign : BOOLEAN]
      /\ ret \in {0, -1} /\ inside
  BY DEF ReadInv, TypeOK
<1>p. ASSUME image' = image,
             pc' \in {"info", "thin", "commands", "fat", "slices", "done"},
             i' \in Nat, off' \in Nat, narch' \in Nat,
             info' \in [cputype : Word, ncmds : Word, fat : BOOLEAN,
                        codesign : BOOLEAN],
             ret' \in {0, -1}, inside'
      PROVE  TypeOK' /\ inside' /\ info' \in [cputype : Word, ncmds : Word,
                                              fat : BOOLEAN, codesign : BOOLEAN]
  <2>1. inside' \in BOOLEAN
    BY <1>m, <1>t, <1>p DEF ReadInv, TypeOK
  <2> QED
    BY <1>m, <1>p, <2>1 DEF TypeOK
<1>1. CASE Dispatch
  <2>1. CASE image.len < 4
    <3>1. /\ pc' = "done" /\ ret' = -1 /\ info' = NoInfo /\ image' = image
          /\ i' = i /\ off' = off /\ narch' = narch /\ (inside' <=> inside)
      BY <1>1, <2>1 DEF Dispatch, Return
    <3>2. info' \in [cputype : Word, ncmds : Word, fat : BOOLEAN,
                     codesign : BOOLEAN]
      BY <1>z, <3>1 DEF NoInfo
    <3> QED
      BY <1>t, <1>p, <3>1, <3>2 DEF ReadInv
  <2>2. CASE ~(image.len < 4)
    <3>1. Reads(0, 4) /\ image' = image /\ i' = i /\ off' = off
          /\ narch' = narch /\ ret' = ret /\ info' = NoInfo
      BY <1>1, <2>2 DEF Dispatch
    <3>2. pc' = (IF IsFat(image) THEN "fat" ELSE "thin")
      BY <1>1, <2>2 DEF Dispatch
    <3>3. inside'
      BY <1>m, <1>t, <2>2, <3>1, ReadInside
    <3>4. info' \in [cputype : Word, ncmds : Word, fat : BOOLEAN,
                     codesign : BOOLEAN]
      BY <1>z, <3>1 DEF NoInfo
    <3>5. pc' = "thin" => ~IsFat(image')
      BY <3>1, <3>2
    <3>6. TypeOK'
      BY <1>t, <1>p, <3>1, <3>2, <3>3, <3>4
    <3> QED
      BY <3>2, <3>3, <3>4, <3>5, <3>6 DEF ReadInv
  <2> QED
    BY <2>1, <2>2
<1>2. CASE ThinStart
  <2>1. image' = image /\ i' = i /\ narch' = narch
    BY <1>2 DEF ThinStart
  <2>2. ~IsFat(image) /\ pc = "thin"
    BY <1>2 DEF ThinStart, ReadInv
  <2>3. CASE image.len < ThinHeader
    <3>1. pc' = "done" /\ ret' = -1 /\ info' = info /\ off' = off
          /\ (inside' <=> inside)
      BY <1>2, <2>3 DEF ThinStart, Return
    <3> QED
      BY <1>t, <1>p, <2>1, <3>1 DEF ReadInv
  <2>4. CASE /\ ~(image.len < ThinHeader)
             /\ image.magic \notin {"thin", "thin_swapped"}
    <3>1. pc' = "done" /\ ret' = -1 /\ info' = info /\ off' = off
          /\ Reads(0, 4)
      BY <1>2, <2>4 DEF ThinStart, Return
    <3>2. inside'
      BY <1>m, <1>t, <2>4, <3>1, ReadInside
    <3> QED
      BY <1>t, <1>p, <2>1, <3>1, <3>2 DEF ReadInv
  <2>5. CASE /\ ~(image.len < ThinHeader)
             /\ image.magic \in {"thin", "thin_swapped"}
    <3>1. /\ Reads(0, ThinHeader) /\ off' = ThinHeader
          /\ pc' = "commands" /\ ret' = ret
          /\ info' = [info EXCEPT !.cputype = image.cputype,
                                  !.ncmds = image.count]
      BY <1>2, <2>5 DEF ThinStart
    <3>2. inside'
      BY <1>m, <1>t, <2>5, <3>1, ReadInside
    <3>3. info' \in [cputype : Word, ncmds : Word, fat : BOOLEAN,
                     codesign : BOOLEAN]
      BY <1>m, <1>t, <3>1
    <3>4. TypeOK'
      BY <1>t, <1>p, <2>1, <3>1, <3>2, <3>3
    <3> QED
      BY <2>1, <2>2, <3>1, <3>2, <3>3, <3>4 DEF ReadInv
  <2> QED
    BY <2>3, <2>4, <2>5
<1>3. CASE ReadCommand
  <2>1. image' = image /\ narch' = narch
    BY <1>3 DEF ReadCommand
  <2>2. ~IsFat(image) /\ pc = "commands" /\ ThinHeader <= off
    BY <1>3 DEF ReadCommand, ReadInv
  <2>3. CASE i >= image.count \/ off + LoadCommand > image.len
    <3>1. pc' = "done" /\ ret' = 0 /\ info' = info /\ off' = off
          /\ i' = i /\ (inside' <=> inside)
      BY <1>3, <2>3 DEF ReadCommand, Return
    <3> QED
      BY <1>t, <1>p, <2>1, <3>1 DEF ReadInv
  <2>4. CASE /\ ~(i >= image.count \/ off + LoadCommand > image.len)
             /\ ~Fits(image, off)
    <3>1. pc' = "done" /\ ret' = 0 /\ info' = info /\ off' = off
          /\ i' = i /\ Reads(off, LoadCommand)
      BY <1>3, <2>4 DEF ReadCommand, Return
    <3>2. inside'
      BY <1>m, <1>t, <2>4, <3>1, ReadInside
    <3> QED
      BY <1>t, <1>p, <2>1, <3>1, <3>2 DEF ReadInv
  <2>5. CASE /\ ~(i >= image.count \/ off + LoadCommand > image.len)
             /\ Fits(image, off)
    <3>1. /\ Reads(off, LoadCommand) /\ off' = off + image.size[off]
          /\ pc' = pc /\ ret' = ret /\ i' = i + 1
          /\ info' = [info EXCEPT !.codesign = @ \/ image.signed[off]]
      BY <1>3, <2>5 DEF ReadCommand
    <3>2. inside'
      BY <1>m, <1>t, <2>5, <3>1, ReadInside
    <3>3. off \in ThinHeader..(image.len - LoadCommand)
      BY <1>m, <1>t, <2>2, <2>5
    <3>4. image.size[off] \in Nat /\ image.signed[off] \in BOOLEAN
      BY <1>m, <2>2, <3>3, ImagesAssumption
    <3>5. off' \in Nat /\ ThinHeader <= off' /\ i' \in Nat
      BY <1>t, <2>2, <3>1, <3>4
    <3>6. info' \in [cputype : Word, ncmds : Word, fat : BOOLEAN,
                     codesign : BOOLEAN]
      <4>1. info.codesign \in BOOLEAN
        BY <1>t
      <4>2. (info.codesign \/ image.signed[off]) \in BOOLEAN
        BY <3>4, <4>1, Zenon
      <4>3. info' = [info EXCEPT
                        !.codesign = info.codesign \/ image.signed[off]]
        BY <3>1
      <4> DEFINE b == info.codesign \/ image.signed[off]
      <4> HIDE DEF b
      <4> QED
        BY <1>t, <4>2, <4>3, Zenon
    <3>7. TypeOK'
      BY <1>t, <1>p, <2>1, <3>1, <3>2, <3>5, <3>6
    <3> QED
      BY <2>1, <2>2, <3>1, <3>2, <3>5, <3>6, <3>7 DEF ReadInv
  <2> QED
    BY <2>3, <2>4, <2>5
<1>4. CASE FatStart
  <2>1. image' = image /\ i' = i /\ off' = off /\ pc = "fat"
    BY <1>4 DEF FatStart
  <2>2. CASE image.len < FatHeader
    <3>1. pc' = "done" /\ ret' = -1 /\ info' = info /\ narch' = narch
          /\ (inside' <=> inside)
      BY <1>4, <2>2 DEF FatStart, Return
    <3> QED
      BY <1>t, <1>p, <2>1, <3>1 DEF ReadInv
  <2>3. CASE ~(image.len < FatHeader)
    <3>1. Reads(0, FatHeader)
      BY <1>4, <2>3 DEF FatStart
    <3>2. inside'
      BY <1>m, <1>t, <2>3, <3>1, ReadInside
    <3>3. CASE image.len < FatHeader + Swap(image.count) * FatArch
      <4>1. pc' = "done" /\ ret' = -1 /\ info' = info /\ narch' = narch
        BY <1>4, <2>3, <3>3 DEF FatStart, Return
      <4> QED
        BY <1>t, <1>p, <2>1, <3>2, <4>1 DEF ReadInv
    <3>4. CASE ~(image.len < FatHeader + Swap(image.count) * FatArch)
      <4>1. /\ narch' = Swap(image.count) /\ pc' = "slices" /\ ret' = ret
            /\ info' = [info EXCEPT !.fat = TRUE,
                                    !.ncmds = Swap(image.count),
                                    !.codesign = FALSE]
        BY <1>4, <2>3, <3>4 DEF FatStart
      <4>2. info' \in [cputype : Word, ncmds : Word, fat : BOOLEAN,
                       codesign : BOOLEAN]
        BY <1>m, <1>t, <4>1
      <4>3. narch' \in Nat
        BY <1>m, <1>z, <4>1
      <4>4. FatHeader + narch' * FatArch <= image'.len
        BY <1>m, <2>1, <3>4, <4>1, <4>3
      <4>5. TypeOK'
        BY <1>t, <1>p, <2>1, <3>2, <4>1, <4>2, <4>3
      <4> QED
        BY <3>2, <4>1, <4>2, <4>4, <4>5 DEF ReadInv
    <3> QED
      BY <3>3, <3>4
  <2> QED
    BY <2>2, <2>3
<1>5. CASE ReadSlice
  <2>1. image' = image /\ off' = off /\ narch' = narch /\ pc = "slices"
    BY <1>5 DEF ReadSlice
  <2>2. FatHeader + narch * FatArch <= image.len
    BY <2>1 DEF ReadInv
  <2>3. CASE i >= narch
    <3>1. pc' = "done" /\ ret' = 0 /\ info' = info /\ i' = i
          /\ (inside' <=> inside)
      BY <1>5, <2>3 DEF ReadSlice, Return
    <3> QED
      BY <1>t, <1>p, <2>1, <3>1 DEF ReadInv
  <2>4. CASE ~(i >= narch)
    <3>1. Reads(FatHeader + i * FatArch, FatArch)
      BY <1>5, <2>4 DEF ReadSlice
    <3>2. i * FatArch + FatArch <= narch * FatArch
      BY <1>t, <2>4, SliceInTable
    <3>3. i * FatArch \in Nat /\ narch * FatArch \in Nat
      BY <1>t
    <3>4. (FatHeader + i * FatArch) + FatArch <= image.len
      BY <1>m, <2>2, <3>2, <3>3
    <3>5. inside'
      BY <1>t, <3>1, <3>4, ReadInside
    <3>6. CASE image.slice[i] = Arm64
      <4>1. /\ pc' = "done" /\ ret' = 0 /\ i' = i
            /\ info' = [info EXCEPT !.cputype = Arm64]
        BY <1>5, <2>4, <3>6 DEF ReadSlice, Return
      <4>2. info' \in [cputype : Word, ncmds : Word, fat : BOOLEAN,
                       codesign : BOOLEAN]
        BY <1>z, <1>t, <4>1
      <4> QED
        BY <1>t, <1>p, <2>1, <3>5, <4>1, <4>2 DEF ReadInv
    <3>7. CASE image.slice[i] # Arm64
      <4>1. i' = i + 1 /\ info' = info /\ pc' = pc /\ ret' = ret
        BY <1>5, <2>4, <3>7 DEF ReadSlice
      <4>2. i' \in Nat
        BY <1>t, <4>1
      <4>3. TypeOK'
        BY <1>t, <1>p, <2>1, <3>5, <4>1, <4>2
      <4> QED
        BY <1>t, <2>1, <2>2, <3>5, <4>1, <4>3 DEF ReadInv
    <3> QED
      BY <3>6, <3>7
  <2> QED
    BY <2>3, <2>4
<1> QED
  BY <1>1, <1>2, <1>3, <1>4, <1>5 DEF Next

\* ReadInv holds from the call on: the base case and the two kinds of step.
LEMMA ReadInductive == Spec => []ReadInv
<1>1. Init => ReadInv
  <2> SUFFICES ASSUME Init PROVE ReadInv
    OBVIOUS
  <2> USE SizesAssumption
  <2>1. 0 \in Word
    BY DEF Word
  <2>2. info \in [cputype : Word, ncmds : Word, fat : BOOLEAN,
                  codesign : BOOLEAN]
    BY <2>1 DEF Init, NoInfo
  <2>3. inside
    BY DEF Init
  <2>4. inside \in BOOLEAN
    BY DEF Init
  <2>5. TypeOK
    BY <2>1, <2>4 DEF Init, NoInfo, TypeOK
  <2> QED
    BY <2>2, <2>3, <2>5 DEF Init, ReadInv
<1>2. ReadInv /\ UNCHANGED vars => ReadInv'
  BY DEF ReadInv, TypeOK, vars
<1> QED
  BY <1>1, <1>2, ReadStep, PTL DEF Spec

\* MachO.c:44-52, 75-78: no byte outside the image is read, however large the
\* image, its counts and its sizes.
THEOREM ReadsAreInside == Spec => []ReadsInside
<1>1. ReadInv => ReadsInside
  BY DEF ReadInv, ReadsInside
<1> QED
  BY <1>1, ReadInductive, PTL

\* struct sebsd_macho_info holds words and flags wherever the parser is.
THEOREM MachOTyped == Spec => []TypeOK
<1>1. ReadInv => TypeOK
  BY DEF ReadInv
<1> QED
  BY <1>1, ReadInductive, PTL

-----------------------------------------------------------------------------
(* What becomes of the image of sebsd_macho_selftest().                    *)
Reported == [cputype |-> Arm64, ncmds |-> 1, fat |-> FALSE, codesign |-> TRUE]
Unsigned == [cputype |-> Arm64, ncmds |-> 1, fat |-> FALSE, codesign |-> FALSE]

SelftestInv ==
    /\ pc \in {"info", "thin", "commands", "done"}
    /\ pc # "done" => ret = 0
    /\ pc \in {"info", "thin"} => i = 0
    /\ pc = "thin" => info = NoInfo
    /\ pc = "commands" =>
        \/ i = 0 /\ off = ThinHeader /\ info = Unsigned
        \/ i = 1 /\ info = Reported
    /\ pc = "done" => ret = 0 /\ info = Reported

\* The fields of that image, and its command fits.
LEMMA SelftestFields ==
    /\ SelftestImage.len = ThinHeader + Linkedit
    /\ SelftestImage.magic = "thin" /\ ~IsFat(SelftestImage)
    /\ SelftestImage.count = 1 /\ SelftestImage.cputype = Arm64
    /\ SelftestImage.signed[ThinHeader] = TRUE
    /\ Fits(SelftestImage, ThinHeader)
<1>1. ThinHeader \in ThinHeader..(ThinHeader + Linkedit)
  BY SizesAssumption
<1>2. /\ SelftestImage.size[ThinHeader] = Linkedit
      /\ SelftestImage.signed[ThinHeader] = TRUE
      /\ SelftestImage.len = ThinHeader + Linkedit
      /\ SelftestImage.magic = "thin"
      /\ SelftestImage.count = 1 /\ SelftestImage.cputype = Arm64
  BY <1>1 DEF SelftestImage
<1> QED
  BY <1>2, SizesAssumption DEF Fits, IsFat

\* Every step of the self test leads to the report.
LEMMA SelftestStep ==
    (image = SelftestImage => SelftestInv) /\ [Next]_vars
        => (image = SelftestImage => SelftestInv)'
<1> SUFFICES ASSUME image = SelftestImage => SelftestInv, [Next]_vars,
                    image' = SelftestImage
             PROVE  SelftestInv'
  OBVIOUS
<1>1. image' = image
  BY DEF Next, Dispatch, ThinStart, ReadCommand, FatStart, ReadSlice, vars
<1>2. SelftestInv
  BY <1>1
<1>3. /\ image.len = ThinHeader + Linkedit /\ image.magic = "thin"
      /\ ~IsFat(image) /\ image.count = 1 /\ image.cputype = Arm64
      /\ image.signed[ThinHeader] = TRUE /\ Fits(image, ThinHeader)
  BY <1>1, SelftestFields
<1>4. CASE Dispatch
  <2>1. ~(image.len < 4)
    BY <1>3, SizesAssumption
  <2>2. pc = "info" /\ pc' = "thin" /\ info' = NoInfo /\ i' = i /\ ret' = ret
    BY <1>3, <1>4, <2>1 DEF Dispatch
  <2> QED
    BY <1>2, <2>2 DEF SelftestInv
<1>5. CASE ThinStart
  <2>1. ~(image.len < ThinHeader)
    BY <1>3, SizesAssumption
  <2>2. /\ pc = "thin" /\ pc' = "commands" /\ i' = i /\ ret' = ret
        /\ off' = ThinHeader
        /\ info' = [info EXCEPT !.cputype = Arm64, !.ncmds = 1]
    BY <1>3, <1>5, <2>1 DEF ThinStart
  <2>3. info = NoInfo /\ i = 0 /\ ret = 0
    BY <1>2, <2>2 DEF SelftestInv
  <2>4. info' = Unsigned
    BY <2>2, <2>3 DEF NoInfo, Unsigned
  <2> QED
    BY <2>2, <2>3, <2>4 DEF SelftestInv
<1>6. CASE ReadCommand
  <2>1. pc = "commands" /\ ret = 0
    BY <1>2, <1>6 DEF ReadCommand, SelftestInv
  <2>2. CASE i = 0 /\ off = ThinHeader /\ info = Unsigned
    <3>1. ~(i >= image.count \/ off + LoadCommand > image.len)
      BY <1>3, <2>2, SizesAssumption
    <3>2. /\ pc' = pc /\ ret' = ret /\ i' = i + 1
          /\ info' = [info EXCEPT !.codesign = @ \/ image.signed[off]]
      BY <1>3, <1>6, <2>2, <3>1 DEF ReadCommand
    <3>3. (info.codesign \/ image.signed[off]) = TRUE
      BY <1>3, <2>2
    <3>4. info' = [info EXCEPT !.codesign = TRUE]
      BY <3>2, <3>3
    <3>5. info' = Reported
      BY <2>2, <3>4 DEF Reported, Unsigned
    <3> QED
      BY <2>1, <2>2, <3>2, <3>5 DEF SelftestInv
  <2>3. CASE i = 1 /\ info = Reported
    <3>1. i >= image.count
      BY <1>3, <2>3
    <3>2. pc' = "done" /\ ret' = 0 /\ info' = info
      BY <1>6, <3>1 DEF ReadCommand, Return
    <3> QED
      BY <2>3, <3>2 DEF SelftestInv
  <2> QED
    BY <1>2, <2>1, <2>2, <2>3 DEF SelftestInv
<1>7. CASE FatStart \/ ReadSlice
  BY <1>2, <1>7 DEF FatStart, ReadSlice, SelftestInv
<1>8. CASE UNCHANGED vars
  BY <1>2, <1>8 DEF vars, SelftestInv
<1> QED
  BY <1>4, <1>5, <1>6, <1>7, <1>8 DEF Next

\* MachO.c:123-162: on the image built by hand the parser returns 0 and
\* reports one command, no fat header, arm64 and the code signature.
THEOREM MachOSelftestParses == Spec => []SelftestParses
<1>1. Init => (image = SelftestImage => SelftestInv)
  BY DEF Init, SelftestInv
<1>2. (image = SelftestImage => SelftestInv) => SelftestParses
  BY DEF SelftestInv, SelftestParses, Reported
<1> QED
  BY <1>1, <1>2, SelftestStep, PTL DEF Spec

-----------------------------------------------------------------------------
(* The commands read so far against the commands that follow each other.   *)
Places(m) == ThinHeader..(m.len - LoadCommand)

\* i commands have been read, they lead to off, and m_codesign says whether
\* one of them was signed, for each way to follow them (there is only one).
Followed ==
    /\ i <= image.count
    /\ \/ i = 0 /\ off = ThinHeader
       \/ /\ i # 0
          /\ \E at \in [1..i -> Places(image)] :
                Path(image, at, i) /\ off = at[i] + image.size[at[i]]
    /\ info.codesign => \E k \in 1..image.count : Chain(image, k)
    /\ \A k \in 1..image.count : \A at \in [1..k -> Places(image)] :
            Path(image, at, k) =>
                /\ i < k => at[i + 1] = off
                /\ \A j \in 1..k :
                        j <= i /\ image.signed[at[j]] => info.codesign

SignatureInv ==
    /\ pc \in {"info", "thin"} => i = 0
    /\ pc \in {"thin", "fat"} => info = NoInfo
    /\ pc = "slices" => info.fat
    /\ pc = "commands" => Followed
    /\ SignatureFound

\* Nothing is read yet.
LEMMA FollowedStart ==
    ASSUME ReadInv, SignatureInv, ThinStart, pc' = "commands"
    PROVE  Followed'
<1>1. /\ image' = image /\ i' = i /\ pc = "thin"
      /\ off' = ThinHeader
      /\ info' = [info EXCEPT !.cputype = image.cputype,
                              !.ncmds = image.count]
  BY DEF ThinStart, Return
<1>2. i = 0 /\ info = NoInfo
  BY <1>1 DEF SignatureInv
<1>3. info'.codesign = FALSE
  BY <1>1, <1>2 DEF NoInfo
<1>4. image.count \in Nat
  BY ImagesAssumption, SizesAssumption DEF ReadInv, TypeOK, Word
<1>5. ASSUME NEW k \in 1..image.count, NEW at \in [1..k -> Places(image)],
             Path(image, at, k)
      PROVE  at[0 + 1] = ThinHeader /\ \A j \in 1..k : ~(j <= 0)
  BY <1>4, <1>5 DEF Path
<1> QED
  BY <1>1, <1>2, <1>3, <1>4, <1>5 DEF Followed

\* One command more.
LEMMA FollowedNext ==
    ASSUME ReadInv, Followed, ~IsFat(image), ThinHeader <= off,
           i < image.count, Fits(image, off), image' = image,
           i' = i + 1, off' = off + image.size[off],
           info' = [info EXCEPT !.codesign = @ \/ image.signed[off]]
    PROVE  Followed'
<1> DEFINE P == Places(image)
<1>1. /\ image.len \in Nat /\ image.count \in Nat /\ i \in Nat /\ off \in Nat
      /\ info \in [cputype : Word, ncmds : Word, fat : BOOLEAN,
                   codesign : BOOLEAN]
  BY ImagesAssumption, SizesAssumption DEF ReadInv, TypeOK, Word
<1>2. off \in P
  BY <1>1, SizesAssumption DEF Fits, Places
<1>3. info'.codesign = (info.codesign \/ image.signed[off])
  BY <1>1
<1>4. \E at \in [1..(i + 1) -> P] :
        /\ Path(image, at, i + 1) /\ at[i + 1] = off
  <2>1. CASE i = 0
    <3> DEFINE at == [j \in 1..(i + 1) |-> off]
    <3>1. at \in [1..(i + 1) -> P] /\ at[i + 1] = off
      BY <1>1, <1>2
    <3>2. Path(image, at, i + 1)
      BY <1>1, <2>1 DEF Path, Followed
    <3> QED
      BY <3>1, <3>2
  <2>2. CASE i # 0
    <3>1. PICK b \in [1..i -> P] :
            Path(image, b, i) /\ off = b[i] + image.size[b[i]]
      BY <2>2 DEF Followed
    <3> DEFINE at == [j \in 1..(i + 1) |-> IF j = i + 1 THEN off ELSE b[j]]
    <3> HIDE DEF P
    <3>2. at \in [1..(i + 1) -> P] /\ at[i + 1] = off
      BY <1>1, <1>2
    <3>3. \A j \in 1..i : at[j] = b[j]
      BY <1>1
    <3> HIDE DEF at
    <3>4. at[1] = ThinHeader
      BY <1>1, <2>2, <3>1, <3>3 DEF Path
    <3>5. \A j \in 1..(i + 1) : Fits(image, at[j])
      <4> SUFFICES ASSUME NEW j \in 1..(i + 1) PROVE Fits(image, at[j])
        OBVIOUS
      <4>1. CASE j = i + 1
        BY <3>2, <4>1
      <4>2. CASE j # i + 1
        <5>1. j \in 1..i
          BY <1>1, <4>2
        <5>2. Fits(image, b[j])
          BY <3>1, <5>1 DEF Path
        <5> QED
          BY <3>3, <5>1, <5>2
      <4> QED
        BY <4>1, <4>2
    <3>6. \A j \in 1..((i + 1) - 1) : at[j + 1] = at[j] + image.size[at[j]]
      <4> SUFFICES ASSUME NEW j \in 1..i
                   PROVE  at[j + 1] = at[j] + image.size[at[j]]
        BY <1>1
      <4>1. CASE j = i
        BY <3>1, <3>2, <3>3, <4>1
      <4>2. CASE j # i
        <5>1. j \in 1..(i - 1) /\ j + 1 \in 1..i
          BY <1>1, <4>2
        <5>2. b[j + 1] = b[j] + image.size[b[j]]
          BY <3>1, <5>1 DEF Path
        <5> QED
          BY <3>3, <5>1, <5>2
      <4> QED
        BY <4>1, <4>2
    <3>7. Path(image, at, i + 1)
      BY <3>4, <3>5, <3>6 DEF Path
    <3> QED
      BY <3>2, <3>7
  <2> QED
    BY <2>1, <2>2
<1>5. info'.codesign => \E k \in 1..image.count : Chain(image, k)
  <2>1. CASE info.codesign
    BY <2>1 DEF Followed
  <2>2. CASE image.signed[off]
    <3>1. i + 1 \in 1..image.count
      BY <1>1
    <3>2. Chain(image, i + 1)
      BY <1>4, <2>2 DEF Chain, Places
    <3> QED
      BY <3>1, <3>2
  <2> QED
    BY <1>3, <2>1, <2>2
<1>6. ASSUME NEW k \in 1..image.count, NEW at \in [1..k -> P],
             Path(image, at, k)
      PROVE  /\ i + 1 < k => at[i + 1 + 1] = off + image.size[off]
             /\ \A j \in 1..k : j <= i + 1 /\ image.signed[at[j]]
                                    => info'.codesign
  <2>1. /\ i < k => at[i + 1] = off
        /\ \A j \in 1..k : j <= i /\ image.signed[at[j]] => info.codesign
    BY <1>6 DEF Followed
  <2>2. ASSUME i + 1 < k PROVE at[i + 1 + 1] = off + image.size[off]
    <3>1. i + 1 \in 1..(k - 1) /\ i < k
      BY <1>1, <2>2
    <3>2. at[i + 1 + 1] = at[i + 1] + image.size[at[i + 1]]
      BY <1>6, <3>1 DEF Path
    <3> QED
      BY <2>1, <3>1, <3>2
  <2>3. ASSUME NEW j \in 1..k, j <= i + 1, image.signed[at[j]]
        PROVE  info'.codesign
    <3>1. CASE j <= i
      BY <1>3, <2>1, <2>3, <3>1
    <3>2. CASE ~(j <= i)
      <4>1. j = i + 1 /\ i < k
        BY <1>1, <2>3, <3>2
      <4> QED
        BY <1>3, <2>1, <2>3, <4>1
    <3> QED
      BY <3>1, <3>2
  <2> QED
    BY <2>2, <2>3
<1>7. i' <= image'.count /\ i' # 0
  BY <1>1
<1>8. \E at \in [1..i' -> Places(image')] :
        Path(image', at, i') /\ off' = at[i'] + image'.size[at[i']]
  BY <1>4
<1>9. \A k \in 1..image'.count : \A at \in [1..k -> Places(image')] :
        Path(image', at, k) =>
            /\ i' < k => at[i' + 1] = off'
            /\ \A j \in 1..k :
                    j <= i' /\ image'.signed[at[j]] => info'.codesign
  BY <1>6
<1> QED
  BY <1>5, <1>7, <1>8, <1>9 DEF Followed

\* Where the loop is left, m_codesign is what the property asks.
LEMMA FollowedEnds ==
    ASSUME ReadInv, Followed,
           i >= image.count \/ off + LoadCommand > image.len
             \/ ~Fits(image, off)
    PROVE  info.codesign <=> \E k \in 1..image.count : Chain(image, k)
<1>1. i \in Nat /\ image.count \in Nat /\ info.codesign \in BOOLEAN
  BY ImagesAssumption, SizesAssumption DEF ReadInv, TypeOK, Word
<1>2. ASSUME NEW k \in 1..image.count, Chain(image, k)
      PROVE  info.codesign
  <2>1. PICK at \in [1..k -> Places(image)] :
            Path(image, at, k) /\ image.signed[at[k]]
    BY <1>2 DEF Chain, Places
  <2>2. /\ i < k => at[i + 1] = off
        /\ \A j \in 1..k : j <= i /\ image.signed[at[j]] => info.codesign
    BY <2>1 DEF Followed
  <2>3. CASE k <= i
    BY <1>1, <2>1, <2>2, <2>3
  <2>4. CASE ~(k <= i)
    <3>1. i < k /\ i < image.count /\ i + 1 \in 1..k
      BY <1>1, <2>4
    <3>2. Fits(image, off)
      BY <2>1, <2>2, <3>1 DEF Path
    <3>3. off + LoadCommand <= image.len
      BY <3>2 DEF Fits
    <3>4. off \in Nat /\ image.len \in Nat
      BY ImagesAssumption DEF ReadInv, TypeOK
    <3> QED
      BY <1>1, <3>1, <3>2, <3>3, <3>4, SizesAssumption
  <2> QED
    BY <2>3, <2>4
<1>3. info.codesign => \E k \in 1..image.count : Chain(image, k)
  BY DEF Followed
<1> QED
  BY <1>1, <1>2, <1>3

\* Every step keeps the relation to the commands.
LEMMA SignatureStep ==
    ReadInv /\ SignatureInv /\ [Next]_vars => SignatureInv'
<1> SUFFICES ASSUME ReadInv, SignatureInv, [Next]_vars
             PROVE  SignatureInv'
  OBVIOUS
<1>t. ret \in {0, -1} /\ info \in [cputype : Word, ncmds : Word,
                                   fat : BOOLEAN, codesign : BOOLEAN]
  BY DEF ReadInv, TypeOK
<1>1. CASE Dispatch
  <2>1. /\ i' = i /\ info' = NoInfo /\ i = 0
        /\ pc' \in {"done", "thin", "fat"} /\ (pc' = "done" => ret' # 0)
    BY <1>1 DEF Dispatch, Return, SignatureInv
  <2> QED
    BY <2>1 DEF SignatureInv, SignatureFound
<1>2. CASE ThinStart
  <2>1. CASE pc' = "commands"
    <3>1. Followed'
      BY <1>2, <2>1, FollowedStart
    <3> QED
      BY <2>1, <3>1 DEF SignatureInv, SignatureFound
  <2>2. CASE pc' # "commands"
    <3>1. pc' = "done" /\ ret' = -1
      BY <1>2, <2>2 DEF ThinStart, Return
    <3> QED
      BY <3>1 DEF SignatureInv, SignatureFound
  <2> QED
    BY <2>1, <2>2
<1>3. CASE ReadCommand
  <2> DEFINE last == i >= image.count \/ off + LoadCommand > image.len
  <2>1. /\ pc = "commands" /\ Followed /\ image' = image
        /\ ~IsFat(image) /\ ThinHeader <= off
    BY <1>3 DEF ReadCommand, SignatureInv, ReadInv
  <2>2. CASE last \/ ~Fits(image, off)
    <3>1. pc' = "done" /\ info' = info
      BY <1>3, <2>2 DEF ReadCommand, Return
    <3>2. info.codesign <=> \E k \in 1..image.count : Chain(image, k)
      BY <2>1, <2>2, FollowedEnds
    <3>3. SignatureFound'
      BY <2>1, <3>1, <3>2 DEF SignatureFound
    <3> QED
      BY <3>1, <3>3 DEF SignatureInv
  <2>3. CASE ~last /\ Fits(image, off)
    <3>1. /\ off' = off + image.size[off] /\ pc' = pc /\ i' = i + 1
          /\ info' = [info EXCEPT !.codesign = @ \/ image.signed[off]]
      BY <1>3, <2>3 DEF ReadCommand
    <3>2. i < image.count
      BY <2>3, ImagesAssumption, SizesAssumption DEF ReadInv, TypeOK, Word
    <3>3. Followed'
      BY <2>1, <2>3, <3>1, <3>2, FollowedNext
    <3> QED
      BY <2>1, <3>1, <3>3 DEF SignatureInv, SignatureFound
  <2> QED
    BY <2>2, <2>3
<1>4. CASE FatStart
  <2>1. \/ pc' = "done" /\ ret' = -1
        \/ /\ pc' = "slices"
           /\ info' = [info EXCEPT !.fat = TRUE, !.ncmds = Swap(image.count),
                                   !.codesign = FALSE]
    BY <1>4 DEF FatStart, Return
  <2>2. pc' = "slices" => info'.fat
    BY <1>t, <2>1
  <2> QED
    BY <2>1, <2>2 DEF SignatureInv, SignatureFound
<1>5. CASE ReadSlice
  <2>1. pc = "slices" /\ info.fat
    BY <1>5 DEF ReadSlice, SignatureInv
  <2>2. info' = info \/ info' = [info EXCEPT !.cputype = Arm64]
    BY <1>5 DEF ReadSlice
  <2>3. info'.fat
    BY <1>t, <2>1, <2>2
  <2>4. pc' \in {"slices", "done"}
    BY <1>5, <2>1 DEF ReadSlice, Return
  <2> QED
    BY <2>3, <2>4 DEF SignatureInv, SignatureFound
<1>6. CASE UNCHANGED vars
  BY <1>6 DEF vars, SignatureInv, SignatureFound, Followed
<1> QED
  BY <1>1, <1>2, <1>3, <1>4, <1>5, <1>6 DEF Next

\* MachO.c:41-55: for every image, m_codesign is set exactly when one of the
\* ncmds commands that follow each other without running over the end is an
\* LC_CODE_SIGNATURE.
THEOREM MachOSignatureFound == Spec => []SignatureFound
<1>1. Init => SignatureInv
  BY DEF Init, SignatureInv, SignatureFound
<1>2. SignatureInv => SignatureFound
  BY DEF SignatureInv
<1> QED
  BY <1>1, <1>2, ReadInductive, SignatureStep, PTL DEF Spec

-----------------------------------------------------------------------------
(* How long the parser runs.                                               *)

\* The loops have gone on by a load command or a slice of the buffer each
\* time round, and not more often than the header claims.
LoopInv ==
    /\ pc \in {"info", "thin", "fat"} => i = 0
    /\ pc = "commands" =>
        /\ i <= image.count
        /\ ThinHeader + i * LoadCommand <= off /\ off <= image.len
    /\ pc = "slices" => i <= narch

\* MachO.c:50-57, 75-78: the work is bounded by the bytes the caller gave,
\* whatever number of commands or slices the image claims.
WorkBounded ==
    /\ pc = "commands" => ThinHeader + i * LoadCommand <= image.len
    /\ pc = "slices" => FatHeader + i * FatArch <= image.len

\* The steps left, at most.
StepsLeft ==
    IF pc = "info" THEN image.count + Swap(image.count) + 3
    ELSE IF pc = "thin" THEN image.count + 2
    ELSE IF pc = "fat" THEN Swap(image.count) + 2
    ELSE IF pc = "commands" THEN image.count - i + 1
    ELSE IF pc = "slices" THEN narch - i + 1
    ELSE 0

\* MachO.c:50-65, 80-88: no load command and no slice is looked at twice.
AlwaysCloser ==
    [][/\ StepsLeft \in Nat /\ StepsLeft' \in Nat
       /\ StepsLeft' < StepsLeft]_vars

\* One time round each loop.
LEMMA OneMore ==
    ASSUME NEW k \in Nat, NEW b \in Nat
    PROVE  (k + 1) * b = k * b + b /\ k * b \in Nat
  OBVIOUS

\* Both loops keep it.
LEMMA LoopStep == ReadInv /\ LoopInv /\ Next => LoopInv'
<1> SUFFICES ASSUME ReadInv, LoopInv, Next
             PROVE  LoopInv'
  OBVIOUS
<1>0. /\ i \in Nat /\ off \in Nat /\ narch \in Nat /\ image \in Images
      /\ image.len \in Nat /\ image.count \in Nat /\ LoadCommand \in Nat
      /\ ThinHeader \in Nat
  BY SizesAssumption, ImagesAssumption DEF ReadInv, TypeOK, Word
<1>1. CASE Dispatch
  BY <1>1 DEF Dispatch, Return, LoopInv
<1>2. CASE ThinStart
  <2>1. CASE pc' = "commands"
    <3>1. i' = 0 /\ image' = image /\ off' = ThinHeader
          /\ ThinHeader <= image.len
      BY <1>0, <1>2, <2>1 DEF ThinStart, Return, LoopInv
    <3>2. 0 * LoadCommand = 0
      BY <1>0
    <3> QED
      BY <1>0, <2>1, <3>1, <3>2 DEF LoopInv
  <2>2. CASE pc' # "commands"
    BY <1>2, <2>2 DEF ThinStart, Return, LoopInv
  <2> QED
    BY <2>1, <2>2
<1>3. CASE ReadCommand
  <2>1. CASE pc' = "done"
    BY <2>1 DEF LoopInv
  <2>2. CASE pc' # "done"
    <3>1. /\ pc = "commands" /\ pc' = "commands" /\ image' = image
          /\ ~(i >= image.count) /\ Fits(image, off)
          /\ i' = i + 1 /\ off' = off + image.size[off]
      BY <1>3, <2>2 DEF ReadCommand, Return
    <3>2. /\ ~IsFat(image) /\ ThinHeader <= off
          /\ ThinHeader + i * LoadCommand <= off
      BY <3>1 DEF ReadInv, LoopInv
    <3> DEFINE size == image.size[off]
    <3>3. size >= LoadCommand /\ off + size <= image.len
          /\ off + LoadCommand <= image.len
      BY <3>1 DEF Fits
    <3>4. size \in Nat
      <4>1. off \in ThinHeader..(image.len - LoadCommand)
        BY <1>0, <3>2, <3>3
      <4> QED
        BY <1>0, <3>2, <4>1, ImagesAssumption
    <3>5. i' * LoadCommand = i * LoadCommand + LoadCommand
          /\ i * LoadCommand \in Nat
      BY <1>0, <3>1, OneMore
    <3>6. off' = off + size
      BY <3>1
    <3> DEFINE m == i * LoadCommand
               n == i' * LoadCommand
    <3>7. m \in Nat /\ n = m + LoadCommand /\ ThinHeader + m <= off
      BY <3>2, <3>5
    <3> HIDE DEF size, m, n
    <3>8. ThinHeader + n <= off' /\ off' <= image.len
      BY <1>0, <3>3, <3>4, <3>6, <3>7
    <3>9. i' <= image.count
      BY <1>0, <3>1
    <3> QED
      BY <3>1, <3>8, <3>9 DEF LoopInv, n
  <2> QED
    BY <2>1, <2>2
<1>4. CASE FatStart
  <2>1. CASE pc' = "slices"
    <3>1. i' = 0 /\ narch' = Swap(image.count)
      BY <1>4, <2>1 DEF FatStart, Return, LoopInv
    <3>2. Swap(image.count) \in Nat
      BY <1>0, SwapIsWord, ImagesAssumption, SizesAssumption DEF Word
    <3> QED
      BY <2>1, <3>1, <3>2 DEF LoopInv
  <2>2. CASE pc' # "slices"
    BY <1>4, <2>2 DEF FatStart, Return, LoopInv
  <2> QED
    BY <2>1, <2>2
<1>5. CASE ReadSlice
  BY <1>0, <1>5 DEF ReadSlice, Return, LoopInv
<1> QED
  BY <1>1, <1>2, <1>3, <1>4, <1>5 DEF Next

LEMMA LoopInductive == Spec => []LoopInv
<1>1. Init => LoopInv
  BY DEF Init, LoopInv
<1>2. ReadInv /\ LoopInv /\ [Next]_vars => LoopInv'
  <2>1. LoopInv /\ UNCHANGED vars => LoopInv'
    BY DEF LoopInv, vars
  <2> QED
    BY <2>1, LoopStep
<1> QED
  BY <1>1, <1>2, ReadInductive, PTL DEF Spec

\* A claim of 2^32 commands costs no more time round the loop than fit into
\* the buffer.
THEOREM MachOWorkBounded == Spec => []WorkBounded
<1>1. ReadInv /\ LoopInv => WorkBounded
  <2> SUFFICES ASSUME ReadInv, LoopInv
               PROVE  WorkBounded
    OBVIOUS
  <2>1. /\ i \in Nat /\ off \in Nat /\ narch \in Nat /\ image.len \in Nat
        /\ LoadCommand \in Nat /\ ThinHeader \in Nat
        /\ FatHeader \in Nat /\ FatArch \in Nat
    BY SizesAssumption, ImagesAssumption DEF ReadInv, TypeOK
  <2>2. CASE pc = "commands"
    <3> DEFINE m == i * LoadCommand
    <3>1. ThinHeader + m <= off /\ off <= image.len
      BY <2>2 DEF LoopInv
    <3>2. m \in Nat
      BY <2>1, OneMore
    <3> HIDE DEF m
    <3>3. ThinHeader + m <= image.len
      BY <2>1, <3>1, <3>2
    <3> QED
      BY <2>2, <3>3 DEF WorkBounded, m
  <2>3. CASE pc = "slices"
    <3> DEFINE m == i * FatArch
               n == narch * FatArch
    <3>1. FatHeader + n <= image.len /\ i <= narch
      BY <2>3 DEF ReadInv, LoopInv
    <3>2. m \in Nat /\ n \in Nat /\ m <= n
      BY <2>1, <3>1
    <3> HIDE DEF m, n
    <3>3. FatHeader + m <= image.len
      BY <2>1, <3>1, <3>2
    <3> QED
      BY <2>3, <3>3 DEF WorkBounded, m
  <2> QED
    BY <2>2, <2>3 DEF WorkBounded
<1> QED
  BY <1>1, ReadInductive, LoopInductive, PTL

\* Each step of the parser brings it closer to its end, so that it returns if
\* it is run at all.
THEOREM MachOAlwaysCloser == Spec => AlwaysCloser
<1>1. ReadInv /\ LoopInv /\ Next =>
        StepsLeft \in Nat /\ StepsLeft' \in Nat /\ StepsLeft' < StepsLeft
  <2> SUFFICES ASSUME ReadInv, LoopInv, Next
               PROVE  /\ StepsLeft \in Nat /\ StepsLeft' \in Nat
                      /\ StepsLeft' < StepsLeft
    OBVIOUS
  <2> DEFINE c == image.count
             s == Swap(image.count)
  <2>0. /\ i \in Nat /\ narch \in Nat /\ c \in Nat /\ s \in Nat
        /\ image' = image
    <3>1. image.count \in Word /\ Word \subseteq Nat
      BY ImagesAssumption, SizesAssumption DEF ReadInv, TypeOK, Word
    <3>2. image' = image
      BY DEF Next, Dispatch, ThinStart, ReadCommand, FatStart, ReadSlice
    <3> QED
      BY <3>1, <3>2, SwapIsWord DEF ReadInv, TypeOK
  <2>1. image'.count = c /\ Swap(image'.count) = s
    BY <2>0
  <2>2. StepsLeft' =
            IF pc' = "info" THEN c + s + 3
            ELSE IF pc' = "thin" THEN c + 2
            ELSE IF pc' = "fat" THEN s + 2
            ELSE IF pc' = "commands" THEN c - i' + 1
            ELSE IF pc' = "slices" THEN narch' - i' + 1
            ELSE 0
    BY <2>1 DEF StepsLeft
  <2>3. StepsLeft =
            IF pc = "info" THEN c + s + 3
            ELSE IF pc = "thin" THEN c + 2
            ELSE IF pc = "fat" THEN s + 2
            ELSE IF pc = "commands" THEN c - i + 1
            ELSE IF pc = "slices" THEN narch - i + 1
            ELSE 0
    BY DEF StepsLeft
  <2>4. /\ pc \in {"info", "thin", "fat"} => i = 0
        /\ pc = "commands" => i <= c
        /\ pc = "slices" => i <= narch
    BY DEF LoopInv
  <2> DEFINE Moves ==
        \/ pc = "info" /\ pc' \in {"thin", "fat", "done"}
        \/ pc = "thin" /\ (pc' = "done" \/ (pc' = "commands" /\ i' = i))
        \/ /\ pc = "fat"
           /\ pc' = "done" \/ (pc' = "slices" /\ i' = i /\ narch' = s)
        \/ /\ pc = "commands"
           /\ pc' = "done" \/ (pc' = pc /\ i' = i + 1 /\ ~(i >= c))
        \/ /\ pc = "slices"
           /\ \/ pc' = "done"
              \/ pc' = pc /\ i' = i + 1 /\ ~(i >= narch) /\ narch' = narch
  <2>5. Moves
    <3>1. CASE Dispatch
      BY <3>1 DEF Dispatch, Return
    <3>2. CASE ThinStart
      BY <3>2 DEF ThinStart, Return
    <3>3. CASE ReadCommand
      BY <3>3 DEF ReadCommand, Return
    <3>4. CASE FatStart
      BY <3>4 DEF FatStart, Return
    <3>5. CASE ReadSlice
      BY <3>5 DEF ReadSlice, Return
    <3> QED
      BY <3>1, <3>2, <3>3, <3>4, <3>5 DEF Next
  <2> HIDE DEF c, s, StepsLeft
  <2> QED
    BY <2>0, <2>2, <2>3, <2>4, <2>5
<1> QED
  BY <1>1, ReadInductive, LoopInductive, PTL DEF Spec, AlwaysCloser
=============================================================================
