------------------------------- MODULE MachO --------------------------------
(***************************************************************************)
(* kext/MachO.c: the in-memory Mach-O parser, one action per header or     *)
(* loop iteration, over every image of a bounded set.  The host is         *)
(* little-endian; a word is two digits of base Digit, so that byte order   *)
(* is a fact about numbers.  Sizes are constants.                          *)
(***************************************************************************)
EXTENDS Integers, Sequences

CONSTANTS
    Digit,          \* the values of one byte
    ThinHeader,     \* sizeof(struct mach_header_64)
    LoadCommand,    \* sizeof(struct load_command)
    FatHeader,      \* sizeof(struct fat_header)
    FatArch,        \* sizeof(struct fat_arch)
    Linkedit,       \* sizeof(struct linkedit_data_command)
    Arm64,          \* CPU_TYPE_ARM64
    Images          \* the images handed to the parser

Word == 0..(Digit * Digit - 1)

\* Byte order reversed: ntohl() on this host.
Swap(w) == (w % Digit) * Digit + w \div Digit

Magics == {"thin", "thin_swapped", "fat", "fat_swapped", "other"}

IsFat(m) == m.magic \in {"fat", "fat_swapped"}

ASSUME SizesAssumption ==
    /\ Digit \in Nat \ {0, 1} /\ Arm64 \in Word
    /\ ThinHeader \in Nat /\ FatHeader \in Nat /\ FatArch \in Nat
    /\ LoadCommand \in Nat \ {0}
    /\ Linkedit \in Nat /\ LoadCommand <= Linkedit
    /\ 4 <= FatHeader /\ FatHeader <= ThinHeader

\* What the parser can read of an image: its length, and wherever one fits the
\* load command at that offset or the cputype of that slice.
ASSUME ImagesAssumption ==
    \A m \in Images :
        /\ m.len \in Nat /\ m.magic \in Magics
        /\ m.count \in Word /\ m.cputype \in Word
        /\ ~IsFat(m) => \A o \in ThinHeader..(m.len - LoadCommand) :
                m.size[o] \in Nat /\ m.signed[o] \in BOOLEAN

\* The image of sebsd_macho_selftest(): one header and one LC_CODE_SIGNATURE,
\* which ends where the image ends.
SelftestImage ==
    [len |-> ThinHeader + Linkedit, magic |-> "thin",
     count |-> 1, cputype |-> Arm64,
     size |-> [o \in ThinHeader..(ThinHeader + Linkedit) |->
                IF o = ThinHeader THEN Linkedit ELSE 0],
     signed |-> [o \in ThinHeader..(ThinHeader + Linkedit) |->
                o = ThinHeader],
     slice |-> <<>>]

VARIABLES
    image,      \* data and len
    pc,         \* where the parser is
    i, off,     \* the loop counter and the offset of the next load command
    narch,      \* the number of slices of a fat image
    info,       \* struct sebsd_macho_info
    ret,        \* what sebsd_macho_info() returns
    inside      \* history: every byte read so far lies in the image

vars == <<image, pc, i, off, narch, info, ret, inside>>

NoInfo == [cputype |-> 0, ncmds |-> 0, fat |-> FALSE, codesign |-> FALSE]

Reads(from, bytes) == inside' = (inside /\ from + bytes <= image.len)

Return(r) == pc' = "done" /\ ret' = r

Init ==
    /\ image \in Images
    /\ pc = "info" /\ i = 0 /\ off = 0 /\ narch = 0
    /\ info = NoInfo
    /\ ret = 0
    /\ inside = TRUE

-----------------------------------------------------------------------------
\* sebsd_macho_info(): too short for a magic number, or the magic decides.
Dispatch ==
    /\ pc = "info"
    /\ IF image.len < 4
         THEN Return(-1) /\ UNCHANGED inside
         ELSE /\ pc' = IF IsFat(image) THEN "fat" ELSE "thin"
              /\ Reads(0, 4)
              /\ UNCHANGED ret
    /\ info' = NoInfo
    /\ UNCHANGED <<image, i, off, narch>>

\* sebsd_macho_thin(): the header's fields are taken as they lie there.
ThinStart ==
    /\ pc = "thin"
    /\ IF image.len < ThinHeader
         THEN Return(-1) /\ UNCHANGED <<info, inside, off>>
       ELSE IF image.magic \notin {"thin", "thin_swapped"}
         THEN Return(-1) /\ Reads(0, 4) /\ UNCHANGED <<info, off>>
       ELSE /\ Reads(0, ThinHeader)
            /\ info' = [info EXCEPT !.cputype = image.cputype,
                                    !.ncmds = image.count]
            /\ off' = ThinHeader
            /\ pc' = "commands"
            /\ UNCHANGED ret
    /\ UNCHANGED <<image, i, narch>>

\* Mutant: a command that ends where the image ends does not fit.
FitsShort(m, o) ==
    /\ o + LoadCommand <= m.len
    /\ m.size[o] >= LoadCommand
    /\ o + m.size[o] < m.len

\* The loop over the load commands is left at the first that does not fit.
Fits(m, o) ==
    /\ o + LoadCommand <= m.len
    /\ m.size[o] >= LoadCommand
    /\ o + m.size[o] <= m.len

\* Mutant: one command more than the header claims.
ReadOneMoreCommand ==
    /\ pc = "commands"
    /\ IF i > image.count \/ off + LoadCommand > image.len
         THEN Return(0) /\ UNCHANGED <<i, off, info, inside>>
       ELSE IF ~Fits(image, off)
         THEN Return(0) /\ Reads(off, LoadCommand) /\ UNCHANGED <<i, off, info>>
       ELSE /\ Reads(off, LoadCommand)
            /\ info' = [info EXCEPT !.codesign = @ \/ image.signed[off]]
            /\ off' = off + image.size[off]
            /\ i' = i + 1
            /\ UNCHANGED <<pc, ret>>
    /\ UNCHANGED <<image, narch>>

ReadCommand ==
    /\ pc = "commands"
    /\ IF i >= image.count \/ off + LoadCommand > image.len
         THEN Return(0) /\ UNCHANGED <<i, off, info, inside>>
       ELSE IF ~Fits(image, off)
         THEN Return(0) /\ Reads(off, LoadCommand) /\ UNCHANGED <<i, off, info>>
       ELSE /\ Reads(off, LoadCommand)
            /\ info' = [info EXCEPT !.codesign = @ \/ image.signed[off]]
            /\ off' = off + image.size[off]
            /\ i' = i + 1
            /\ UNCHANGED <<pc, ret>>
    /\ UNCHANGED <<image, narch>>

\* Mutant: the slices the header claims are not compared with the length.
FatStartUnchecked ==
    /\ pc = "fat"
    /\ IF image.len < FatHeader
         THEN Return(-1) /\ UNCHANGED <<info, inside, narch>>
       ELSE /\ Reads(0, FatHeader)
            /\ narch' = Swap(image.count)
            /\ info' = [info EXCEPT !.fat = TRUE, !.ncmds = Swap(image.count),
                                    !.codesign = FALSE]
            /\ pc' = "slices"
            /\ UNCHANGED ret
    /\ UNCHANGED <<image, i, off>>

\* sebsd_macho_fat(): the count is byte-swapped whatever the magic.
FatStart ==
    /\ pc = "fat"
    /\ IF image.len < FatHeader
         THEN Return(-1) /\ UNCHANGED <<info, inside, narch>>
       ELSE /\ Reads(0, FatHeader)
            /\ IF image.len < FatHeader + Swap(image.count) * FatArch
                 THEN Return(-1) /\ UNCHANGED <<info, narch>>
                 ELSE /\ narch' = Swap(image.count)
                      /\ info' = [info EXCEPT !.fat = TRUE,
                                              !.ncmds = Swap(image.count),
                                              !.codesign = FALSE]
                      /\ pc' = "slices"
                      /\ UNCHANGED ret
    /\ UNCHANGED <<image, i, off>>

\* Mutant: a slice of another type is looked at again.
ReadSliceAgain ==
    /\ pc = "slices"
    /\ IF i >= narch
         THEN Return(0) /\ UNCHANGED <<i, info, inside>>
       ELSE /\ Reads(FatHeader + i * FatArch, FatArch)
            /\ IF image.slice[i] = Arm64
                 THEN /\ info' = [info EXCEPT !.cputype = Arm64]
                      /\ Return(0)
                      /\ UNCHANGED i
                 ELSE UNCHANGED <<i, info, pc, ret>>
    /\ UNCHANGED <<image, off, narch>>

\* The first slice whose cputype is CPU_TYPE_ARM64 as it lies there: unlike the
\* count it is not byte-swapped.
ReadSlice ==
    /\ pc = "slices"
    /\ IF i >= narch
         THEN Return(0) /\ UNCHANGED <<i, info, inside>>
       ELSE /\ Reads(FatHeader + i * FatArch, FatArch)
            /\ IF image.slice[i] = Arm64
                 THEN /\ info' = [info EXCEPT !.cputype = Arm64]
                      /\ Return(0)
                      /\ UNCHANGED i
                 ELSE i' = i + 1 /\ UNCHANGED <<info, pc, ret>>
    /\ UNCHANGED <<image, off, narch>>

Next == Dispatch \/ ThinStart \/ ReadCommand \/ FatStart \/ ReadSlice

Spec == Init /\ [][Next]_vars /\ WF_vars(Next)

-----------------------------------------------------------------------------
TypeOK ==
    /\ image \in Images
    /\ pc \in {"info", "thin", "commands", "fat", "slices", "done"}
    /\ i \in Nat /\ off \in Nat /\ narch \in Nat
    /\ info.cputype \in Word /\ info.ncmds \in Word
    /\ info.fat \in BOOLEAN /\ info.codesign \in BOOLEAN
    /\ ret \in {0, -1} /\ inside \in BOOLEAN

\* MachO.c:44-52, 75-78: no header, load command or slice is read past the
\* bytes the caller gave, whatever counts and sizes the image claims.
ReadsInside == inside

\* The parser returns on every image: no size or count makes it loop.
Terminates == <>(pc = "done")

\* The first k load commands lie where they lead to, and all of them fit.
Path(m, at, k) ==
    /\ at[1] = ThinHeader
    /\ \A j \in 1..k : Fits(m, at[j])
    /\ \A j \in 1..(k - 1) : at[j + 1] = at[j] + m.size[at[j]]

\* The k-th of them is LC_CODE_SIGNATURE.
Chain(m, k) ==
    \E at \in [1..k -> ThinHeader..(m.len - LoadCommand)] :
        Path(m, at, k) /\ m.signed[at[k]]

\* m_codesign is set exactly when one of the ncmds commands that follow each
\* other without running over the end is LC_CODE_SIGNATURE.
SignatureFound ==
    pc = "done" /\ ret = 0 /\ ~info.fat =>
        (info.codesign <=> \E k \in 1..image.count : Chain(image, k))

\* MachO.c:125-127: the self-test image is "a known-good image": the parser
\* takes it, and reports what was put into it.
SelftestParses ==
    image = SelftestImage /\ pc = "done" =>
        /\ ret = 0
        /\ info = [cputype |-> Arm64, ncmds |-> 1, fat |-> FALSE,
                   codesign |-> TRUE]
=============================================================================
