----------------------------- MODULE MCDirIndex -----------------------------
(***************************************************************************)
(* DirIndex for TLC: the hashes of names each caller uses, and the sizes   *)
(* of the bitmaps.                                                         *)
(***************************************************************************)
EXTENDS DirIndex

\* A bitmap is a thirty-second of the FAT cache, rounded up.
SomeMapSize == [n \in FatSizes |-> (n + 31) \div 32]

SomeNames == [library |-> 1 .. 4, keeper |-> 1 .. 5]

\* Enough names for entry_add to lose two roots, and no other caller.
PutNames == [library |-> 1 .. 6, keeper |-> {}]
=============================================================================
