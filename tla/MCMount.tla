------------------------------ MODULE MCMount -------------------------------
(***************************************************************************)
(* Mount for TLC.  Error codes are only stored and returned: they may be   *)
(* permuted.                                                               *)
(***************************************************************************)
EXTENDS Mount, TLC

Symmetry == Permutations(Codes)

SomeFormat == {0, 1, 3, 6}

Volume(e, far, empty, blank, hits, f) ==
  [errors |-> e, far |-> far, empty |-> empty,
   blank |-> blank, hits |-> hits, faults |-> f]

\* No errors kept, and upsets of the boot sectors, in one of them until no copy
\* reads; a volume that is too small for the sectors astray; large ones with
\* faults, of which one has a blank boot sector and a driver that refuses empty
\* transfers, and one has neither; one with an upset of the boot sectors; one
\* where a damaged copy and one that cannot be read may meet.
SomeWorlds ==
  {Volume(FALSE, FALSE, FALSE, 0, 3, 1), Volume(FALSE, FALSE, FALSE, 1, 2, 0)}
    \cup {Volume(TRUE, FALSE, FALSE, 0, 0, 1)}
    \cup {Volume(TRUE, TRUE, FALSE, 1, 0, 1), Volume(TRUE, TRUE, TRUE, 0, 0, 1)}
    \cup {Volume(TRUE, TRUE, FALSE, 1, 1, 0), Volume(TRUE, TRUE, FALSE, 0, 0, 2)}

\* Zeroes, and data that looks like two pending errors.
SomeAstray == {<<0, 0>>, <<3, 1>>}
=============================================================================
