------------------------------ MODULE MCMachO -------------------------------
(* Images of up to ten bytes, with headers of a few bytes.                 *)
EXTENDS MachO

Lengths == {3, 4, 5, 7, 8, 10}
Offsets == 5..8

Thin == [len : Lengths, magic : {"thin", "thin_swapped", "other"},
         count : {0, 1, 3}, cputype : {Arm64},
         size : [Offsets -> {1, 2, 3}], signed : [Offsets -> BOOLEAN],
         slice : {<<>>}]

\* The count as it lies in the file: one or two slices, or many.
Fat == [len : Lengths, magic : {"fat", "fat_swapped"},
        count : {0, Swap(1), Swap(2), 1}, cputype : {0},
        size : {<<>>}, signed : {<<>>},
        slice : [0..2 -> {Arm64, Swap(Arm64), 0}]]

MCImages == Thin \cup Fat \cup {SelftestImage}
=============================================================================
