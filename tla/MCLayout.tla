------------------------------ MODULE MCLayout ------------------------------
(***************************************************************************)
(* Images that the documentation and the tests make, and others.           *)
(***************************************************************************)
EXTENDS Layout

\* The defaults of the formatter, for a volume of some size.
Default(mb) ==
  [size |-> mb, spc |-> 8, fc |-> 4, bsbc |-> 5, b_bsbc |-> 0, jc |-> 2, ec |-> 1]

\* What test/nifat32_tests.py passes unless it is told otherwise; the
\* formatter does not parse --ec.
Test == [Default(64) EXCEPT !.fc = 5, !.jc = 0]

\* The sweeps of test/README.md and test/collector.sh: over the number of
\* FATs, of boot sectors, and of those that are broken.
FatSweep    == {[Test EXCEPT !.fc = n] : n \in 1 .. 16}
BootSweep   == {[Test EXCEPT !.bsbc = n] : n \in 1 .. 32}
BrokenSweep == {[Test EXCEPT !.bsbc = 32, !.b_bsbc = n] : n \in 0 .. 32}

\* README.md, formatter/README.md, test/README.md.
Used == {Default(64), Default(128), Default(1024)} \cup FatSweep \cup BootSweep \cup BrokenSweep

\* Sizes that meet a collision or a loop, other clusters, one of them too
\* large for the boot sector, a small volume.
Others ==
  {Default(10), Default(27), Default(252), Default(1),
   [Default(256) EXCEPT !.bsbc = 32], [Default(64) EXCEPT !.spc = 4],
   [Default(64) EXCEPT !.spc = 256],
   [Default(64) EXCEPT !.b_bsbc = 5], [Default(2) EXCEPT !.spc = 32]}

All == Used \cup Others
=============================================================================
