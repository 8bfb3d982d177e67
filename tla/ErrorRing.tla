----------------------------- MODULE ErrorRing ------------------------------
(***************************************************************************)
(* The ring of error codes (src/src/errors.c) as operators: its indices    *)
(* E == [first, current, last], the static _errors, and R, the entries     *)
(* each copy stores.  Entry 0 holds first and last, packed into one word.  *)
(* The Hamming code of an entry is left out: an entry is read as it was    *)
(* written, or, when it was hit too hard, as DAMAGED.                      *)
(***************************************************************************)
EXTENDS Integers, Sequences, SequencesExt

CONSTANTS
  Codes,       (* error codes                                              *)
  ErrorCopies, (* params->ec, where errors are kept                        *)
  Ring,        (* fi->cluster_size / sizeof(error_code_t)                  *)
  Stored,      (* encoded entries that fit one sector                      *)
  NO_ERROR,    (* 0, the code nobody registers                             *)
  NOTHING,     (* -1, what errors_last_error returns otherwise             *)
  DAMAGED

Info == (0 .. Ring) \X (0 .. Ring)

ASSUME ErrorRingAssumption ==
  /\ ErrorCopies \in Nat \ {0}
  /\ Stored \in Nat \ {0} /\ Ring \in Nat /\ Ring > 2
  /\ Codes \cap {NOTHING, DAMAGED} = {} /\ NO_ERROR \notin {NOTHING, DAMAGED}
  /\ NOTHING # DAMAGED /\ NOTHING \notin Info

Entries == Codes \cup Info \cup {NO_ERROR, DAMAGED}
Indices == [first : 1 .. Ring, current : 1 .. Ring, last : 1 .. Ring]
Static  == [first |-> 1, current |-> 1, last |-> 1]

\* Mutant: the ring is one entry longer than the cluster.
NextIndex_Long(i, known) == IF known /\ i + 1 <= Ring THEN i + 1 ELSE 1

\* _next_ring_index; while cluster_size is not known it is 0.
NextIndex(i, known) == IF known /\ i + 1 < Ring THEN i + 1 ELSE 1

(* One sector is passed to the disk layer.  An entry at its end is an      *)
(* empty transfer, which the driver takes or refuses; one behind it is     *)
(* skipped, and reported as done.                                          *)
Refused(i, empty) == i = Stored /\ ~empty

\* _write_error; the writes of the copies in F fail.
Write(R, i, v, F) ==
  [c \in DOMAIN R |-> IF i < Stored /\ c \notin F THEN [R[c] EXCEPT ![i] = v] ELSE R[c]]

Written(R, i, F, empty) ==
  (F = {} \/ i > Stored) /\ (DOMAIN R = {} \/ ~Refused(i, empty))

\* What a copy shows of entry i: decoded zeroes where nothing is stored.
Shows(R, c, i) == IF i < Stored THEN R[c][i] ELSE NO_ERROR

\* What _read_error hears of it; a copy in U cannot be read and says NOTHING.
Heard(R, c, i, U) == IF c \in U THEN NOTHING ELSE Shows(R, c, i)

(* One round of the vote in _read_error: a candidate leaves when it is     *)
(* outvoted, and the word that replaces it is not counted.  A copy that    *)
(* cannot be read is passed over.                                          *)
Count(v, w) ==
  IF w = NOTHING    THEN v
  ELSE IF w = v.code THEN [v EXCEPT !.freq = @ + 1]
  ELSE IF v.freq = 0 THEN [code |-> w, freq |-> 0, wrong |-> v.wrong + 1]
  ELSE [v EXCEPT !.freq = @ - 1, !.wrong = @ + 1]

Votes(R, i, U) ==
  FoldLeft(Count, [code |-> NOTHING, freq |-> 0, wrong |-> -1],
           [c \in 1 .. ErrorCopies |-> Heard(R, c, i, U)])

(* _read_error, when some copy can be read: the word elected, and the      *)
(* copies, rewritten but for those in F when there was more than one       *)
(* dissent.                                                                *)
Read(R, i, U, F) ==
  LET v == Votes(R, i, U) IN
  [code |-> v.code, heals |-> v.wrong > 0,
   ring |-> IF v.wrong > 0 THEN Write(R, i, v.code, F) ELSE R]

\* Mutant: the oldest error does not give way.
Registered_Full(E, known) ==
  LET next == NextIndex(E.current, known)
  IN [E EXCEPT !.current = next, !.last = next]

\* errors_register_error: the indices once the code is written.
Registered(E, known) ==
  LET next == NextIndex(E.current, known)
  IN [first   |-> IF next = E.first THEN NextIndex(E.first, known) ELSE E.first,
      current |-> next, last |-> next]

\* _load_info
Loaded(w) ==
  LET f == IF w[1] = 0 THEN 1 ELSE w[1]
      l == IF w[2] = 0 THEN 1 ELSE w[2]
  IN [first |-> f, current |-> f, last |-> l]

\* _dump_info
Packed(E) == <<E.first, E.last>>
=============================================================================
