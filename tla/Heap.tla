-------------------------------- MODULE Heap --------------------------------
(***************************************************************************)
(* The default memory manager (std/mm.c): one pool, cut into blocks that   *)
(* hang together by their next pointers, taken by first fit.               *)
(*                                                                         *)
(* Addresses and sizes are counted in units of ALIGNMENT, to which         *)
(* __malloc_s rounds; a block is named by the address of its header.  The  *)
(* functions hold _malloc_lock, which they are taken to get; the magic     *)
(* number is that a header is in the DOMAIN of the blocks.                 *)
(***************************************************************************)
EXTENDS Integers

CONSTANTS
  Pool,            (* ALLOC_BUFFER_SIZE                                    *)
  Header           (* sizeof(mm_block_t)                                   *)

ASSUME HeapAssumption ==
  /\ Header \in Nat \ {0}
  /\ Pool \in Nat /\ Header <= Pool

NIL == -1          (* the null pointer                                     *)

Block == [size : 0 .. Pool, free : BOOLEAN, next : 0 .. Pool \cup {NIL}]

\* _mm_init: one free block.
Whole == [a \in {0} |-> [size |-> Pool - Header, free |-> TRUE, next |-> NIL]]

(* The free blocks that hold n units.  The list is in the order of the     *)
(* addresses (Tiled): the first of some blocks is the lowest.              *)
Room(b, n)     == {a \in DOMAIN b : b[a].free /\ b[a].size >= n}
FirstOf(a, S)  == a \in S /\ \A c \in S : a <= c

\* Mutant: the header of the new block is not taken off its size.
Take_WholeRest(b, a, n) ==
  IF b[a].size >= n + Header
  THEN LET rest == a + Header + n IN
       [x \in DOMAIN b \cup {rest} |->
          CASE x = a    -> [size |-> n, free |-> FALSE, next |-> rest]
            [] x = rest -> [size |-> b[a].size - n, free |-> TRUE, next |-> b[a].next]
            [] OTHER    -> b[x]]
  ELSE [b EXCEPT ![a].free = FALSE]

(* The block is split when the rest has room for a header, for a block of  *)
(* no size at the least.                                                   *)
Take(b, a, n) ==
  IF b[a].size >= n + Header
  THEN LET rest == a + Header + n IN
       [x \in DOMAIN b \cup {rest} |->
          CASE x = a    -> [size |-> n, free |-> FALSE, next |-> rest]
            [] x = rest -> [size |-> b[a].size - n - Header, free |-> TRUE,
                            next |-> b[a].next]
            [] OTHER    -> b[x]]
  ELSE [b EXCEPT ![a].free = FALSE]

(* __coalesce_memory: free blocks whose next one is free, and one merge.   *)
Pairs(b) == {a \in DOMAIN b : b[a].free /\ b[a].next # NIL /\ b[b[a].next].free}

Merge(b, a) ==
  LET c == b[a].next IN
  [x \in DOMAIN b \ {c} |->
     IF x = a THEN [b[a] EXCEPT !.size = @ + Header + b[c].size, !.next = b[c].next]
              ELSE b[x]]

(* _free_s of blocks that are in use; nothing is merged. *)
Release(b, S) == [x \in DOMAIN b |-> IF x \in S THEN [b[x] EXCEPT !.free = TRUE] ELSE b[x]]
-----------------------------------------------------------------------------
End(b, a) == a + Header + b[a].size

(* The blocks cover the pool: each one begins where the one before it      *)
(* ends, the last one ends with the pool, and there is no header inside a  *)
(* block.                                                                  *)
Tiled(b) ==
  /\ 0 \in DOMAIN b
  /\ DOMAIN b \subseteq 0 .. Pool
  /\ \A a \in DOMAIN b : b[a] \in Block
  /\ \A a \in DOMAIN b :
       IF b[a].next = NIL THEN End(b, a) = Pool
       ELSE b[a].next = End(b, a) /\ b[a].next \in DOMAIN b
  /\ \A a, c \in DOMAIN b : a < c => End(b, a) <= c
=============================================================================
