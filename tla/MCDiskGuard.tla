---------------------------- MODULE MCDiskGuard -----------------------------
(***************************************************************************)
(* DiskGuard for TLC.  The threads are alike: what they write are their    *)
(* own names and no step compares two of them.                             *)
(***************************************************************************)
EXTENDS DiskGuard, TLC

Symmetry == Permutations(Threads)
=============================================================================
