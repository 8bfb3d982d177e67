------------------------------ MODULE MCContent -----------------------------
(***************************************************************************)
(* Content for TLC.  Clusters, directories and names are interchangeable:  *)
(* no step picks one by anything but its place in a chain or an entry.     *)
(***************************************************************************)
EXTENDS Content, TLC

Symmetry == Permutations(Clusters) \cup Permutations(Dirs) \cup Permutations(Names)
=============================================================================
