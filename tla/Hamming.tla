------------------------------ MODULE Hamming -------------------------------
(***************************************************************************)
(* The Hamming(15,11) code of std/hamming.c.  A word is the set of its     *)
(* bits that are 1; bit 15 of an encoded word is never looked at.          *)
(***************************************************************************)
EXTENDS Integers, FiniteSets

Odd(S)     == Cardinality(S) % 2 = 1
Flip(e, b) == IF b \in e THEN e \ {b} ELSE e \cup {b}

\* Where the eleven bits of data go; the other positions hold the checks.
Place  == [k \in 0 .. 10 |-> IF k = 0 THEN 2 ELSE IF k <= 3 THEN k + 3 ELSE k + 4]
Checks == {1, 2, 4, 8}

\* The positions check k runs over, its own (k - 1) among them.
Group == [k \in Checks |-> {p \in 0 .. 14 : ((p + 1) \div k) % 2 = 1}]

\* The checks of a word that do not come out even.
Odds(e) == {k \in Checks : Odd(e \cap Group[k])}

\* _encode_hamming_15_11
Encode(d) ==
  LET e == {Place[k] : k \in d} IN e \cup {k - 1 : k \in Odds(e)}

\* error_pos; 0 when every check comes out.
ErrorPos(e) ==
  LET s == Odds(e) IN
  (IF 1 \in s THEN 1 ELSE 0) + (IF 2 \in s THEN 2 ELSE 0)
    + (IF 4 \in s THEN 4 ELSE 0) + (IF 8 \in s THEN 8 ELSE 0)

\* Mutant: the position is not taken back to a bit number.
Decode_OffByOne(e) ==
  LET f == IF ErrorPos(e) = 0 THEN e ELSE Flip(e, ErrorPos(e))
  IN {k \in 0 .. 10 : Place[k] \in f}

\* _decode_hamming_15_11
Decode(e) ==
  LET f == IF ErrorPos(e) = 0 THEN e ELSE Flip(e, ErrorPos(e) - 1)
  IN {k \in 0 .. 10 : Place[k] \in f}

\* _get_byte, _set_byte: a byte travels in the lower eight bits.
GetByte(e) == Decode(e) \cap 0 .. 7
SetByte(b) == Encode(b)
=============================================================================
