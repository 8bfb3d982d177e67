--------------------------- MODULE DirIndexProofs ---------------------------
(***************************************************************************)
(* The index of a directory and the heap below it, for every set of names  *)
(* and every size of the pool, of the header, of a node and of the FAT     *)
(* caches.                                                                 *)
(*                                                                         *)
(* First the heap: its blocks always cover the pool and never overlap, and *)
(* nft32_malloc_s gives up only when there is no room.                     *)
(*                                                                         *)
(* Then the trees, as functions from addresses to nodes.  A tree is        *)
(* described by what is below each node: Shaped says which sets of nodes   *)
(* these are, Sorted and Rules what makes it a search tree with one root.  *)
(* A lemma for each operation of ecache.c says what it does to the links,  *)
(* and one what the sets below are afterwards.                             *)
(*                                                                         *)
(* Then the inductive invariant Inv, which says what holds between two     *)
(* turns of a loop, one lemma per step that keeps it, and the theorems on  *)
(* who owns the heap and what a lookup finds.                              *)
(*                                                                         *)
(* Last the colours: what _fix_insert and _fix_delete leave to do at each  *)
(* turn of their loops, and that nothing is left when they return.         *)
(***************************************************************************)
EXTENDS DirIndex, FiniteSetTheorems, WellFoundedInduction, TLAPS

(* The pool _mm_init sets up is one block. *)
LEMMA WholeTiled == Tiled(Whole)
  BY HeapAssumption DEF Tiled, Whole, Block, End, NIL

(* A block that is taken, whole or split, leaves the pool covered. *)
LEMMA TakeTiled ==
  ASSUME NEW b, Tiled(b), NEW n \in Nat, NEW a \in Room(b, n)
  PROVE  Tiled(Take(b, a, n))
<1> DEFINE t == Take(b, a, n)
<1>1. a \in DOMAIN b /\ b[a] \in Block /\ b[a].size >= n /\ a \in 0 .. Pool
  BY DEF Room, Tiled
<1>2. \A d \in DOMAIN b : b[d] \in Block
  BY DEF Tiled
<1>3. CASE b[a].size >= n + Header
  <2> DEFINE rest == a + Header + n
             left == b[a].size - n - Header
  <2>1. rest \in Nat /\ a < rest /\ rest # a /\ left \in 0 .. Pool /\ n \in 0 .. Pool
    BY <1>1, <1>3, HeapAssumption DEF Block
  <2>2. t = [d \in DOMAIN b \cup {rest} |->
               CASE d = a    -> [size |-> n, free |-> FALSE, next |-> rest]
                 [] d = rest -> [size |-> left, free |-> TRUE, next |-> b[a].next]
                 [] OTHER    -> b[d]]
    BY <1>3 DEF Take
  <2>3. t[a] = [size |-> n, free |-> FALSE, next |-> rest]
    BY <1>1, <2>1, <2>2
  <2>4. t[rest] = [size |-> left, free |-> TRUE, next |-> b[a].next]
    BY <2>1, <2>2
  <2>5. \A d \in DOMAIN b \ {a} : d # rest
    <3> SUFFICES ASSUME NEW d \in DOMAIN b, d # a, d = rest
                 PROVE  FALSE
      OBVIOUS
    <3>1. d \in Nat /\ a \in Nat /\ a < d
      BY <1>1, <2>1
    <3>2. End(b, a) <= d
      BY <1>1, <3>1 DEF Tiled
    <3> QED
      BY <1>1, <1>3, <3>2, HeapAssumption DEF End, Block
  <2>6. \A d \in DOMAIN b \ {a} : t[d] = b[d]
    BY <2>2, <2>5
  <2>7. DOMAIN t = DOMAIN b \cup {rest}
    BY <2>2
  <2>8. rest + Header + left = End(b, a) /\ End(b, a) \in Nat /\ End(b, a) <= Pool
    <3>1. End(b, a) = a + Header + b[a].size
      BY DEF End
    <3>2. CASE b[a].next = NIL
      BY <1>1, <3>1, <3>2, HeapAssumption DEF Tiled, Block
    <3>3. CASE b[a].next # NIL
      BY <1>1, <3>1, <3>3, HeapAssumption DEF Tiled, Block
    <3> QED
      BY <3>2, <3>3
  <2>9. \A d \in DOMAIN b \ {a} : End(t, d) = End(b, d)
    BY <2>6 DEF End
  <2>10. End(t, a) = rest /\ End(t, rest) = End(b, a)
    BY <2>3, <2>4, <2>8 DEF End
  <2>11. 0 \in DOMAIN t /\ DOMAIN t \subseteq 0 .. Pool
    BY <1>1, <2>1, <2>7, <2>8, HeapAssumption DEF Tiled
  <2>12. \A d \in DOMAIN t : t[d] \in Block
    <3>1. t[a] \in Block
      BY <1>1, <2>1, <2>3, <2>7, <2>11 DEF Block
    <3>2. t[rest] \in Block
      BY <1>1, <2>1, <2>4 DEF Block
    <3> QED
      BY <1>2, <2>6, <2>7, <3>1, <3>2
  <2>13. \A d \in DOMAIN t :
           IF t[d].next = NIL THEN End(t, d) = Pool
           ELSE t[d].next = End(t, d) /\ t[d].next \in DOMAIN t
    <3> SUFFICES ASSUME NEW d \in DOMAIN t
                 PROVE  IF t[d].next = NIL THEN End(t, d) = Pool
                        ELSE t[d].next = End(t, d) /\ t[d].next \in DOMAIN t
      OBVIOUS
    <3>1. CASE d = a
      BY <2>1, <2>3, <2>7, <2>10, <3>1 DEF NIL
    <3>2. CASE d = rest
      BY <1>1, <2>4, <2>7, <2>10, <3>2 DEF Tiled
    <3>3. CASE d \in DOMAIN b \ {a}
      BY <2>6, <2>7, <2>9, <3>3 DEF Tiled
    <3> QED
      BY <2>7, <3>1, <3>2, <3>3
  <2>14. \A d, c \in DOMAIN t : d < c => End(t, d) <= c
    <3> SUFFICES ASSUME NEW d \in DOMAIN t, NEW c \in DOMAIN t, d < c
                 PROVE  End(t, d) <= c
      OBVIOUS
    <3>1. CASE d = a /\ c # rest
      <4>1. End(b, a) <= c
        BY <1>1, <2>7, <3>1 DEF Tiled
      <4> QED
        BY <1>1, <2>1, <2>8, <2>10, <2>11, <3>1, <4>1, HeapAssumption
    <3>2. CASE d = a /\ c = rest
      BY <2>1, <2>10, <3>2
    <3>3. CASE d = rest
      <4>1. c \in DOMAIN b /\ a < c
        BY <1>1, <2>1, <2>7, <2>11, <3>3
      <4> QED
        BY <1>1, <2>10, <3>3, <4>1 DEF Tiled
    <3>4. CASE d \in DOMAIN b \ {a} /\ c \in DOMAIN b
      BY <2>9, <3>4 DEF Tiled
    <3>5. CASE d \in DOMAIN b \ {a} /\ c = rest
      <4>1. d < a
        <5>1. SUFFICES ASSUME a < d PROVE FALSE
          BY <1>1, <2>11, <3>5
        <5>2. End(b, a) <= d
          BY <1>1, <3>5, <5>1 DEF Tiled
        <5> QED
          BY <1>1, <2>1, <2>8, <2>11, <3>5, <5>2, HeapAssumption
      <4>2. End(b, d) <= a
        BY <1>1, <3>5, <4>1 DEF Tiled
      <4>3. End(b, d) \in Int
        BY <1>2, <2>11, <3>5, HeapAssumption DEF End, Block
      <4> QED
        BY <1>1, <2>1, <2>9, <3>5, <4>2, <4>3
    <3> QED
      BY <2>7, <3>1, <3>2, <3>3, <3>4, <3>5
  <2> QED
    BY <2>11, <2>12, <2>13, <2>14 DEF Tiled
<1>4. CASE ~(b[a].size >= n + Header)
  <2>1. t = [b EXCEPT ![a].free = FALSE]
    BY <1>4 DEF Take
  <2>2. DOMAIN t = DOMAIN b
    BY <2>1
  <2>3. \A d \in DOMAIN b : t[d] \in Block /\ t[d].size = b[d].size /\ t[d].next = b[d].next
    BY <1>1, <1>2, <2>1, ZenonT(60) DEF Block
  <2> QED
    BY <2>2, <2>3 DEF Tiled, End
<1> QED
  BY <1>3, <1>4

(* Two neighbouring free blocks that become one leave the pool covered. *)
LEMMA MergeTiled ==
  ASSUME NEW b, Tiled(b), NEW a \in Pairs(b)
  PROVE  Tiled(Merge(b, a))
<1> DEFINE m == Merge(b, a)
           c == b[a].next
<1>1. a \in DOMAIN b /\ c # NIL /\ c \in DOMAIN b /\ c = End(b, a)
  BY DEF Pairs, Tiled
<1>2. \A d \in DOMAIN b : d \in Nat /\ b[d] \in Block /\ End(b, d) \in Nat /\ d < End(b, d)
  BY HeapAssumption DEF Tiled, End, Block
<1>3. a < c /\ a # c /\ c # 0
  BY <1>1, <1>2
<1>4. DOMAIN m = DOMAIN b \ {c}
  BY DEF Merge
<1>5. m[a] = [b[a] EXCEPT !.size = @ + Header + b[c].size, !.next = b[c].next]
  BY <1>1, <1>3 DEF Merge
<1>6. \A d \in DOMAIN m \ {a} : m[d] = b[d] /\ End(m, d) = End(b, d)
  BY DEF Merge, End
<1>7. m[a].size = b[a].size + Header + b[c].size /\ m[a].next = b[c].next
      /\ m[a].free = b[a].free
  BY <1>1, <1>2, <1>5 DEF Block
<1>8. End(m, a) = End(b, c)
  BY <1>1, <1>2, <1>7, HeapAssumption DEF End, Block
<1>9. End(b, c) <= Pool
  BY <1>1, <1>2 DEF Tiled, Block
<1>10. m[a] \in Block
  <2>1. m[a].size \in 0 .. Pool
    BY <1>1, <1>2, <1>7, <1>8, <1>9, HeapAssumption DEF End, Block
  <2> QED
    BY <1>1, <1>2, <1>5, <1>7, <2>1 DEF Block
<1>11. \A d \in DOMAIN m : m[d] \in Block
  BY <1>2, <1>4, <1>6, <1>10
<1>12. \A d \in DOMAIN m :
         IF m[d].next = NIL THEN End(m, d) = Pool
         ELSE m[d].next = End(m, d) /\ m[d].next \in DOMAIN m
  <2> SUFFICES ASSUME NEW d \in DOMAIN m
               PROVE  IF m[d].next = NIL THEN End(m, d) = Pool
                      ELSE m[d].next = End(m, d) /\ m[d].next \in DOMAIN m
    OBVIOUS
  <2>1. CASE d = a
    BY <1>1, <1>2, <1>4, <1>7, <1>8, <2>1 DEF Tiled
  <2>2. CASE d # a
    <3>1. d \in DOMAIN b /\ d # c /\ m[d] = b[d] /\ End(m, d) = End(b, d)
      BY <1>4, <1>6, <2>2
    <3>2. b[d].next # c
      <4> SUFFICES ASSUME End(b, d) = c PROVE FALSE
        BY <1>1, <3>1 DEF Tiled
      <4>1. d < a \/ a < d
        BY <1>1, <1>2, <2>2, <3>1
      <4> QED
        BY <1>1, <1>2, <1>3, <3>1, <4>1 DEF Tiled
    <3> QED
      BY <1>4, <3>1, <3>2 DEF Tiled
  <2> QED
    BY <2>1, <2>2
<1>13. \A d, w \in DOMAIN m : d < w => End(m, d) <= w
  <2> SUFFICES ASSUME NEW d \in DOMAIN m, NEW w \in DOMAIN m, d < w
               PROVE  End(m, d) <= w
    OBVIOUS
  <2>1. d \in DOMAIN b /\ w \in DOMAIN b /\ w # c
    BY <1>4
  <2>2. CASE d # a
    BY <1>6, <2>1, <2>2 DEF Tiled
  <2>3. CASE d = a
    <3>1. End(b, a) <= w
      BY <2>1, <2>3 DEF Tiled
    <3>2. c < w
      BY <1>1, <1>2, <2>1, <3>1
    <3> QED
      BY <1>1, <1>8, <2>1, <2>3, <3>2 DEF Tiled
  <2> QED
    BY <2>2, <2>3
<1>14. 0 \in DOMAIN m /\ DOMAIN m \subseteq 0 .. Pool
  BY <1>3, <1>4 DEF Tiled
<1> QED
  BY <1>11, <1>12, <1>13, <1>14 DEF Tiled

(* So do blocks that are freed. *)
LEMMA ReleaseTiled ==
  ASSUME NEW b, Tiled(b), NEW S
  PROVE  Tiled(Release(b, S))
<1> DEFINE r == Release(b, S)
<1>1. DOMAIN r = DOMAIN b
  BY DEF Release
<1>2. \A d \in DOMAIN b : b[d] \in Block
  BY DEF Tiled
<1>3. \A d \in DOMAIN b : r[d] \in Block /\ r[d].size = b[d].size /\ r[d].next = b[d].next
  BY <1>2 DEF Release, Block
<1> QED
  BY <1>1, <1>3 DEF Tiled, End

(* The size asked for is a number: the size of a node, or that of a cache  *)
(* of the volume that is being mounted.                                    *)
Sized ==
  /\ fatsize \in FatSizes \cup {0} /\ mapsize \in Nat
  /\ call.kind = "mount" => fatsize \in FatSizes

LEMMA StepSized == Sized /\ [Next]_vars => Sized'
<1> SUFFICES ASSUME Sized, [Next]_vars PROVE Sized'
  OBVIOUS
<1>1. ASSUME UNCHANGED <<fatsize, mapsize>>, call'.kind = "mount" => call.kind = "mount"
      PROVE  Sized'
  BY <1>1 DEF Sized
<1>2. CASE Mount
  BY <1>2 DEF Mount, Sized, caches
<1>3. ASSUME call.kind = "mount", CacheDone, UNCHANGED fatsize  PROVE Sized'
  <2>1. call'.kind # "mount" /\ mapsize' \in {mapsize, MapSize[fatsize]}
    BY <1>3 DEF CacheDone, NoCall
  <2>2. MapSize[fatsize] \in Nat
    BY <1>3, DirIndexAssumption DEF Sized
  <2> QED
    BY <1>3, <2>1, <2>2 DEF Sized
<1>4. CASE Malloc
  <2>1. UNCHANGED fatsize
    BY <1>4 DEF Malloc, volume
  <2>2. CASE call.kind = "mount"
    BY <1>3, <1>4, <2>1, <2>2 DEF Malloc
  <2>3. CASE call.kind # "mount"
    BY <1>1, <1>4, <2>1, <2>3 DEF Malloc, caches, NoCall
  <2> QED  BY <2>2, <2>3
<1>5. CASE OutOfMemory
  <2>1. UNCHANGED fatsize
    BY <1>5 DEF OutOfMemory, volume
  <2>2. CASE call.kind = "mount"
    BY <1>3, <1>5, <2>1, <2>2 DEF OutOfMemory
  <2>3. CASE call.kind # "mount"
    BY <1>1, <1>5, <2>1, <2>3 DEF OutOfMemory, NoCall
  <2> QED  BY <2>2, <2>3
<1>6. CASE NoRoom \/ Coalesce \/ Coalesced
  BY <1>1, <1>6 DEF NoRoom, Coalesce, Coalesced, volume, caches, locals
<1>7. CASE InsertStep
  BY <1>1, <1>7 DEF InsertStep, Descend, Duplicate, Link, FixInsert, InsertFixed, volume, caches,
                    locals
<1>8. CASE DeleteStep
  BY <1>1, <1>8 DEF DeleteStep, Search, Missing, Delete, FixSibling, FixParent, FixNephews,
                    DeleteFixed, volume, caches, locals
<1>9. CASE Crash \/ Return
  BY <1>1, <1>9 DEF Crash, Return, volume, caches, locals, NoCall
<1>10. CASE Insert \/ Erase \/ IndexNext \/ Put
  BY <1>1, <1>10 DEF Insert, Erase, IndexNext, Put, Begin, volume, caches
<1>11. CASE Index \/ Indexed \/ Remove \/ Close \/ Unload
  BY <1>1, <1>11 DEF Index, Indexed, Remove, Close, Unload, volume, caches, locals
<1>12. CASE UNCHANGED vars
  BY <1>1, <1>12 DEF vars, volume, caches, locals
<1> QED
  BY <1>2, <1>4, <1>5, <1>6, <1>7, <1>8, <1>9, <1>10, <1>11, <1>12 DEF Next, HeapStep, Client

(* Every step of the specification keeps the pool covered.                 *)
LEMMA StepTiled == HeapTiled /\ Sized /\ [Next]_vars => HeapTiled'
<1> SUFFICES ASSUME HeapTiled, Sized, [Next]_vars PROVE HeapTiled'
  OBVIOUS
<1>1. UNCHANGED blocks => HeapTiled'
  BY DEF HeapTiled
<1>2. ASSUME NEW S, Free(S) PROVE HeapTiled'
  BY <1>2, ReleaseTiled DEF HeapTiled, Free
<1>3. CASE Malloc
  <2>1. PICK a \in DOMAIN blocks : FirstOf(a, Room(blocks, Want)) /\ blocks' = Take(blocks, a, Want)
    BY <1>3 DEF Malloc
  <2>2. Want \in Nat
    BY DirIndexAssumption DEF Want, Sized
  <2> QED
    BY <2>1, <2>2, TakeTiled DEF HeapTiled, FirstOf
<1>4. CASE Coalesce
  <2>1. PICK a \in DOMAIN blocks : FirstOf(a, Pairs(blocks)) /\ blocks' = Merge(blocks, a)
    BY <1>4 DEF Coalesce
  <2> QED
    BY <2>1, MergeTiled DEF HeapTiled, FirstOf
<1>5. CASE NoRoom \/ Coalesced \/ OutOfMemory
  BY <1>1, <1>5 DEF NoRoom, Coalesced, OutOfMemory, heap
<1>6. CASE Duplicate
  BY <1>2, <1>6 DEF Duplicate
<1>7. CASE Descend \/ Link \/ FixInsert \/ InsertFixed
  BY <1>1, <1>7 DEF Descend, Link, FixInsert, InsertFixed, heap
<1>8. CASE Delete
  BY <1>2, <1>8 DEF Delete
<1>9. CASE Search \/ Missing \/ FixSibling \/ FixParent \/ FixNephews \/ DeleteFixed
  BY <1>1, <1>9 DEF Search, Missing, FixSibling, FixParent, FixNephews, DeleteFixed, heap
<1>10. CASE Crash \/ Return
  BY <1>1, <1>10 DEF Crash, Return, heap
<1>11. CASE Insert \/ Erase \/ Mount \/ Index \/ IndexNext \/ Indexed \/ Put \/ Remove
  BY <1>1, <1>11 DEF Insert, Erase, Mount, Index, IndexNext, Indexed, Put, Remove, heap
<1>12. CASE Close
  BY <1>2, <1>12 DEF Close
<1>13. CASE Unload
  BY <1>2, <1>13 DEF Unload
<1>14. CASE UNCHANGED vars
  BY <1>1, <1>14 DEF vars, heap
<1> QED
  BY <1>3, <1>4, <1>5, <1>6, <1>7, <1>8, <1>9, <1>10, <1>11, <1>12, <1>13, <1>14
     DEF Next, HeapStep, InsertStep, DeleteStep, Client

(* The blocks of the default memory manager never overlap and none of the  *)
(* pool is lost, whatever is allocated and freed.                          *)
THEOREM HeapCovered == Spec => []HeapTiled
<1>1. Init => HeapTiled /\ Sized
  BY WholeTiled DEF Init, HeapTiled, Sized, NoCall
<1> QED
  BY <1>1, StepTiled, StepSized, PTL DEF Spec

-----------------------------------------------------------------------------
(* The second try of nft32_malloc_s comes when no two free blocks are      *)
(* neighbours any more.                                                    *)
Merged == pc = "again" => Pairs(blocks) = {}

LEMMA StepMerged == Merged /\ [Next]_vars => Merged'
<1> SUFFICES ASSUME Merged, [Next]_vars, pc' = "again" PROVE Pairs(blocks)' = {}
  BY DEF Merged
<1>1. CASE Coalesced
  BY <1>1 DEF Coalesced, heap
<1>2. CASE UNCHANGED vars
  BY <1>2 DEF vars, heap, Merged
<1>3. ~Malloc /\ ~NoRoom /\ ~Coalesce /\ ~OutOfMemory
  BY DEF Malloc, NoRoom, Coalesce, OutOfMemory, CacheDone
<1>4. ~InsertStep
  BY DEF InsertStep, Descend, Duplicate, Link, FixInsert, InsertFixed
<1>5. ~DeleteStep
  BY DEF DeleteStep, Search, Missing, Delete, FixSibling, FixParent, FixNephews, DeleteFixed
<1>6. ~Crash /\ ~Return
  BY DEF Crash, Return
<1>7. ~Insert /\ ~Erase /\ ~Mount /\ ~IndexNext
  BY DEF Insert, Erase, Mount, IndexNext, Begin
<1>8. ~Index /\ ~Indexed /\ ~Put /\ ~Remove /\ ~Close /\ ~Unload
  BY DEF Index, Indexed, Put, Remove, Close, Unload, Keeper, Library, Begin
<1> QED
  BY <1>1, <1>2, <1>3, <1>4, <1>5, <1>6, <1>7, <1>8 DEF Next, HeapStep, Client

(* Where no two free blocks are neighbours a free stretch is one block.    *)
LEMMA StretchIsBlock ==
  ASSUME NEW b, Tiled(b), Pairs(b) = {},
         NEW a \in DOMAIN b, NEW c \in DOMAIN b, a <= c,
         \A d \in DOMAIN b : a <= d /\ d <= c => b[d].free
  PROVE  a = c
<1>1. \A d \in DOMAIN b : d \in Nat /\ b[d] \in Block /\ d < End(b, d)
  BY HeapAssumption DEF Tiled, End, Block
<1> SUFFICES ASSUME a < c PROVE FALSE
  BY <1>1
<1>2. End(b, a) <= c
  BY DEF Tiled
<1>3. b[a].next # NIL
  <2> SUFFICES ASSUME b[a].next = NIL PROVE FALSE
    OBVIOUS
  <2>1. End(b, a) = Pool
    BY DEF Tiled
  <2>2. End(b, c) <= Pool
    <3>1. CASE b[c].next = NIL
      BY <3>1, HeapAssumption DEF Tiled
    <3>2. CASE b[c].next # NIL
      BY <1>1, <3>2 DEF Tiled, Block
    <3> QED  BY <3>1, <3>2
  <2> QED
    BY <1>1, <1>2, <2>1, <2>2, HeapAssumption DEF End, Block
<1>4. b[a].next = End(b, a) /\ b[a].next \in DOMAIN b
  BY <1>3 DEF Tiled
<1>5. b[a].free /\ b[b[a].next].free
  <2>1. a <= a /\ a <= b[a].next /\ b[a].next <= c
    BY <1>1, <1>2, <1>4
  <2> QED
    BY <1>1, <1>4, <2>1
<1> QED
  BY <1>3, <1>5 DEF Pairs

(* nft32_malloc_s gives up only when there is no room: its second try      *)
(* fails only if no stretch of neighbouring free blocks, headers between   *)
(* them included, is as large as what was asked for.                       *)
THEOREM MallocIsComplete == Spec => []MallocComplete
<1>1. HeapTiled /\ Sized /\ Merged => MallocComplete
  <2> SUFFICES ASSUME HeapTiled, Sized, Merged, pc = "again", Room(blocks, Want) = {},
                      NEW a \in DOMAIN blocks, NEW c \in DOMAIN blocks, a <= c,
                      \A b \in DOMAIN blocks : a <= b /\ b <= c => blocks[b].free
               PROVE  End(blocks, c) - (a + Header) < Want
    BY DEF MallocComplete
  <2>1. a = c
    BY StretchIsBlock DEF HeapTiled, Merged
  <2>2. a \in Nat /\ blocks[a].size \in Nat /\ blocks[a].free
    BY <2>1 DEF HeapTiled, Tiled, Block
  <2>3. ~(blocks[a].size >= Want)
    BY <2>2 DEF Room
  <2>4. Want \in Nat
    BY DirIndexAssumption DEF Want, Sized
  <2> QED
    BY <2>1, <2>2, <2>3, <2>4, HeapAssumption DEF End
<1>2. Init => HeapTiled /\ Sized /\ Merged
  BY WholeTiled DEF Init, HeapTiled, Sized, Merged, NoCall
<1> QED
  BY <1>1, <1>2, StepTiled, StepSized, StepMerged, PTL DEF Spec

(* The sizes of some blocks, headers included, as _allocated counts them,  *)
(* and the addresses they take.                                            *)
Bytes(b, S) == MapThenSumSet(LAMBDA a : b[a].size + Header, S)
Ground(b, S) == UNION {a .. End(b, a) - 1 : a \in S}

\* A function of the subsets of a finite set is given by how it treats each
\* of them when it knows the smaller ones.
LEMMA SmallestSet ==
  ASSUME NEW S, IsFiniteSet(S), NEW F, F \subseteq SUBSET S, F # {}
  PROVE  \E s \in F : \A t \in F : t \subseteq s => t = s
  <1>1. F \subseteq FiniteSubsetsOf(S)
    BY FS_Subset DEF FiniteSubsetsOf
  <1>2. PICK s \in F : \A t \in F : <<t, s>> \notin StrictSubsetOrdering(S)
    BY <1>1, FS_StrictSubsetOrderingWellFounded, WFMin
  <1>3. ASSUME NEW t \in F, t \subseteq s, t # s  PROVE <<t, s>> \in StrictSubsetOrdering(S)
    <2>1. t \in SUBSET S /\ s \in SUBSET S
      OBVIOUS
    <2> QED  BY <1>3, <2>1 DEF StrictSubsetOrdering
  <1>4. ASSUME NEW t \in F, t \subseteq s  PROVE t = s
    BY <1>2, <1>3, <1>4, Zenon
  <1> QED  BY <1>4

\* A block more is its size more.
LEMMA BlockMore ==
  ASSUME NEW b, Tiled(b), NEW S, S \subseteq DOMAIN b
  PROVE  /\ IsFiniteSet(S) /\ IsFiniteSet(Ground(b, S)) /\ Cardinality(Ground(b, S)) \in Nat
         /\ \A a \in S : Cardinality(Ground(b, S))
                           = b[a].size + Header + Cardinality(Ground(b, S \ {a}))
  <1>1. \A a \in DOMAIN b : b[a].size \in Nat /\ a \in Nat /\ End(b, a) \in Nat /\ End(b, a) <= Pool
    <2> TAKE a \in DOMAIN b
    <2>1. b[a] \in Block /\ a \in 0 .. Pool
      BY DEF Tiled
    <2>2. b[a].size \in Nat /\ a \in Nat /\ End(b, a) \in Nat
      BY <2>1, HeapAssumption DEF Block, End
    <2>3. CASE b[a].next = NIL
      BY <2>2, <2>3, HeapAssumption DEF Tiled
    <2>4. CASE b[a].next # NIL
      BY <2>2, <2>4, HeapAssumption DEF Tiled
    <2> QED  BY <2>2, <2>3, <2>4
  <1>2. IsFiniteSet(0 .. Pool)
    BY FS_Interval, HeapAssumption
  <1>3. IsFiniteSet(S)
    BY <1>2, FS_Subset DEF Tiled
  <1>4. ASSUME NEW R \in SUBSET S  PROVE IsFiniteSet(Ground(b, R))
    <2>1. Ground(b, R) \in SUBSET (0 .. Pool)
      BY <1>1, HeapAssumption DEF Ground
    <2> QED  BY <1>2, <2>1, FS_Subset
  <1>5. ASSUME NEW a \in S
        PROVE  Cardinality(Ground(b, S)) = b[a].size + Header + Cardinality(Ground(b, S \ {a}))
    <2> DEFINE A == a .. End(b, a) - 1
               R == Ground(b, S \ {a})
    <2>1. Ground(b, S) = A \cup R
      BY DEF Ground
    <2>2. A \cap R = {}
      <3> SUFFICES ASSUME NEW c \in S \ {a}, NEW n \in a .. End(b, a) - 1, n \in c .. End(b, c) - 1
                   PROVE  FALSE
        BY DEF Ground
      <3>1. a \in DOMAIN b /\ c \in DOMAIN b /\ a \in Nat /\ c \in Nat
            /\ End(b, a) \in Nat /\ End(b, c) \in Nat
        BY <1>1
      <3>2. CASE a < c
        BY <3>1, <3>2 DEF Tiled
      <3>3. CASE c < a
        BY <3>1, <3>3 DEF Tiled
      <3> QED  BY <3>1, <3>2, <3>3
    <2>3. IsFiniteSet(A) /\ Cardinality(A) = b[a].size + Header
      <3>1. End(b, a) - 1 \in Int /\ a \in Int /\ End(b, a) - 1 - a + 1 = b[a].size + Header
            /\ a <= End(b, a) - 1
        BY <1>1, HeapAssumption DEF End
      <3> QED  BY <3>1, FS_Interval
    <2>4. IsFiniteSet(R) /\ Cardinality(R) \in Nat
      BY <1>4, FS_CardinalityType
    <2> HIDE DEF A, R
    <2>5. Cardinality({}) = 0
      BY FS_EmptySet
    <2>6. Cardinality(A \cup R) = Cardinality(A) + Cardinality(R) - Cardinality(A \cap R)
      BY <2>3, <2>4, FS_Union
    <2>7. b[a].size + Header \in Nat
      BY <1>1, HeapAssumption
    <2>8. Cardinality(A \cap R) = 0
      BY <2>2, <2>5, Zenon
    <2>9. Cardinality(A \cup R) = b[a].size + Header + Cardinality(R)
      BY <2>3, <2>4, <2>6, <2>7, <2>8
    <2> QED  BY <2>1, <2>9 DEF R
  <1> QED  BY <1>3, <1>4, <1>5, FS_CardinalityType

\* The sum that the fold computes.
LEMMA BytesAreCounted ==
  ASSUME NEW b, Tiled(b), NEW S, S \subseteq DOMAIN b
  PROVE  Bytes(b, S) = Cardinality(Ground(b, S))
  <1> DEFINE Step(f, s) == IF s = {} THEN 0
                           ELSE (b[CHOOSE a \in s : TRUE].size + Header)
                                  + f[s \ {CHOOSE a \in s : TRUE}]
             g == [s \in SUBSET S |-> Cardinality(Ground(b, s))]
             f == CHOOSE f : f = [s \in SUBSET S |-> Step(f, s)]
  <1>1. Bytes(b, S) = f[S]
    BY DEF Bytes, MapThenSumSet, MapThenFoldSet
  <1>2. ASSUME NEW s \in SUBSET S  PROVE g[s] = Step(g, s)
    <2>1. CASE s = {}
      <3>1. Ground(b, {}) = {}
        BY DEF Ground
      <3> QED  BY <2>1, <3>1, FS_EmptySet
    <2>2. CASE s # {}
      <3> DEFINE a == CHOOSE a \in s : TRUE
      <3>1. a \in s
        BY <2>2
      <3> HIDE DEF a
      <3>2. s \ {a} \in SUBSET S
        OBVIOUS
      <3>3. Cardinality(Ground(b, s)) = b[a].size + Header + Cardinality(Ground(b, s \ {a}))
        BY <3>1, BlockMore
      <3>4. g[s] = b[a].size + Header + g[s \ {a}]
        BY <3>2, <3>3
      <3> QED  BY <2>2, <3>4 DEF a
    <2> QED  BY <2>1, <2>2
  <1> HIDE DEF Step
  <1>3. g = [s \in SUBSET S |-> Step(g, s)]
    BY <1>2
  <1> HIDE DEF g
  <1>4. f = [s \in SUBSET S |-> Step(f, s)]
    BY <1>3
  <1> HIDE DEF f
  <1>5. f[S] = g[S]
    <2> DEFINE F == {s \in SUBSET S : f[s] # g[s]}
    <2> SUFFICES ASSUME F # {}  PROVE FALSE
      OBVIOUS
    <2>1. IsFiniteSet(S) /\ F \subseteq SUBSET S
      BY BlockMore
    <2>2. \E s \in F : \A t \in F : t \subseteq s => t = s
      <3> HIDE DEF F
      <3> QED  BY <2>1, SmallestSet
    <2>0. PICK s \in F : \A t \in F : t \subseteq s => t = s
      BY <2>2
    <2>3. f[s] = Step(f, s) /\ g[s] = Step(g, s)
      BY <1>3, <1>4
    <2>4. CASE s # {}
      <3> DEFINE a == CHOOSE a \in s : TRUE
      <3>1. a \in s
        BY <2>4
      <3> HIDE DEF a
      <3>2. s \ {a} \notin F /\ s \ {a} \in SUBSET S
        BY <2>0, <3>1
      <3>3. f[s \ {a}] = g[s \ {a}]
        BY <3>2
      <3> QED  BY <2>3, <2>4, <3>3 DEF Step, a
    <2>5. CASE s = {}
      BY <2>3, <2>5 DEF Step
    <2> QED  BY <2>4, <2>5
  <1> QED  BY <1>1, <1>5 DEF g

-----------------------------------------------------------------------------
(* The shape of the trees.  Node(D) are the records of nodes whose links   *)
(* stay in D.                                                              *)
Node(D) == [p : D \cup {NIL}, l : D \cup {NIL}, r : D \cup {NIL},
            black : BOOLEAN, hash : Nat]

(* The nodes of N form trees, sub[a] being the nodes of the one below a:   *)
(* no node is below itself or on both sides of another, and links down and *)
(* up are each other's converse.                                           *)
Shaped(N, sub) ==
  /\ NIL \notin DOMAIN N
  /\ N \in [DOMAIN N -> Node(DOMAIN N)]
  /\ sub \in [DOMAIN N \cup {NIL} -> SUBSET DOMAIN N]
  /\ sub[NIL] = {}
  /\ \A a \in DOMAIN N, s \in Sides :
       /\ sub[a] = {a} \cup sub[N[a][s]] \cup sub[N[a][Other(s)]]
       /\ sub[N[a][s]] \cap sub[N[a][Other(s)]] = {}
       /\ a \notin sub[N[a][s]]
       /\ N[a][s] # NIL => N[N[a][s]].p = a
  /\ \A a \in DOMAIN N : N[a].p # NIL => \E s \in Sides : N[N[a].p][s] = a

\* i comes before j when one goes to the side s.
Before(s, i, j) == IF s = "l" THEN i < j ELSE j < i

\* Smaller hashes are on the left, larger ones on the right.
Sorted(N, sub) ==
  \A a \in DOMAIN N, s \in Sides :
    \A b \in sub[N[a][s]] : Before(s, N[b].hash, N[a].hash)

\* All nodes but those of Z are below q, which is below none.
Rules(N, sub, q, Z) == sub[q] = DOMAIN N \ Z /\ (q # NIL => N[q].p = NIL)

LEMMA SideFacts ==
  /\ Sides = {"l", "r"} /\ Other("l") = "r" /\ Other("r") = "l"
  /\ \A s \in Sides : Other(s) \in Sides /\ Other(s) # s /\ Other(Other(s)) = s
                      /\ Sides = {s, Other(s)}
  BY DEF Sides, Other

LEMMA NodeFacts ==
  ASSUME NEW D, NEW N \in [D -> Node(D)], NEW a \in D
  PROVE  /\ N[a].p \in D \cup {NIL} /\ N[a].l \in D \cup {NIL} /\ N[a].r \in D \cup {NIL}
         /\ N[a].hash \in Nat /\ N[a].black \in BOOLEAN
         /\ \A s \in Sides : N[a][s] \in D \cup {NIL}
  <1>1. N[a] \in Node(D)
    OBVIOUS
  <1> QED  BY <1>1 DEF Node, Sides

\* What is next to a node in its tree.
LEMMA Beside ==
  ASSUME NEW N, NEW sub, Shaped(N, sub), NEW a \in DOMAIN N, NEW s \in Sides
  PROVE  /\ a \in sub[a] /\ sub[N[a][s]] \subseteq sub[a]
         /\ N[a][s] # NIL => N[a][s] \in DOMAIN N \ {a} /\ N[a][s] \in sub[N[a][s]]
                             /\ N[a][s] \in sub[a] /\ N[a][s] # N[a][Other(s)]
                             /\ N[N[a][s]].p = a
         /\ N[a].p # NIL => N[a].p \in DOMAIN N \ sub[a]
  <1>1. sub[a] = {a} \cup sub[N[a][s]] \cup sub[N[a][Other(s)]]
    BY DEF Shaped
  <1>2. ASSUME N[a][s] # NIL
        PROVE  /\ N[a][s] \in DOMAIN N \ {a} /\ N[a][s] \in sub[N[a][s]]
               /\ N[a][s] \in sub[a] /\ N[a][s] # N[a][Other(s)] /\ N[N[a][s]].p = a
    <2>1. N[a][s] \in DOMAIN N
      BY <1>2, NodeFacts DEF Shaped
    <2>2. N[a][s] \in sub[N[a][s]]
      BY <2>1 DEF Shaped
    <2>3. a \notin sub[N[a][s]] /\ sub[N[a][s]] \cap sub[N[a][Other(s)]] = {} /\ N[N[a][s]].p = a
      BY <1>2 DEF Shaped
    <2> QED  BY <1>1, <2>1, <2>2, <2>3
  <1>3. ASSUME N[a].p # NIL  PROVE N[a].p \in DOMAIN N \ sub[a]
    <2>1. N[a].p \in DOMAIN N
      BY <1>3, NodeFacts DEF Shaped
    <2>2. PICK t \in Sides : N[N[a].p][t] = a
      BY <1>3 DEF Shaped
    <2> QED  BY <2>1, <2>2 DEF Shaped
  <1> QED  BY <1>1, <1>2, <1>3

\* What is below a node below another is below that one, and so is the
\* parent of what is properly below it.
LEMMA Downward ==
  ASSUME NEW N, NEW sub, Shaped(N, sub), IsFiniteSet(DOMAIN N),
         NEW a \in DOMAIN N, NEW b \in sub[a]
  PROVE  b \in DOMAIN N /\ sub[b] \subseteq sub[a]
         /\ (b # a => N[b].p # NIL /\ N[b].p \in sub[a])
  <1> DEFINE D == DOMAIN N
             Fine(c) == \A d \in sub[c] : /\ sub[d] \subseteq sub[c]
                                          /\ d # c => N[d].p # NIL /\ N[d].p \in sub[c]
             F == {sub[c] : c \in {d \in D : ~Fine(d)}}
  <1>1. \A c \in D : sub[c] \in SUBSET D
    BY DEF Shaped
  <1>2. F = {}
    <2> SUFFICES ASSUME F # {}  PROVE FALSE
      OBVIOUS
    <2>1. F \subseteq SUBSET D
      BY <1>1
    <2>2. \E s \in F : \A t \in F : t \subseteq s => t = s
      <3> HIDE DEF F
      <3> QED  BY <2>1, SmallestSet
    <2>0. \A s \in F : \E c \in D : ~Fine(c) /\ s = sub[c]
      <3> HIDE DEF Fine
      <3> QED  OBVIOUS
    <2>3. PICK c \in D : ~Fine(c) /\ \A t \in F : t \subseteq sub[c] => t = sub[c]
      <3> HIDE DEF Fine, F
      <3> QED  BY <2>0, <2>2
    <2>4. ASSUME NEW s \in Sides, N[c][s] # NIL  PROVE Fine(N[c][s])
      <3>1. N[c][s] \in D /\ sub[N[c][s]] \subseteq sub[c] /\ c \in sub[c] /\ c \notin sub[N[c][s]]
        <4>1. c \notin sub[N[c][s]]
          BY DEF Shaped
        <4> HIDE DEF Fine, F
        <4> QED  BY <2>4, <4>1, Beside
      <3>2. sub[N[c][s]] \notin F
        BY <2>3, <3>1
      <3> QED  BY <3>1, <3>2
    <2>5. ASSUME NEW d \in sub[c]
          PROVE  sub[d] \subseteq sub[c] /\ (d # c => N[d].p # NIL /\ N[d].p \in sub[c])
      <3>1. CASE d = c
        BY <3>1
      <3>2. CASE d # c
        <4>1. PICK s \in Sides : d \in sub[N[c][s]]
          BY <3>2, SideFacts DEF Shaped
        <4>2. N[c][s] # NIL
          BY <4>1 DEF Shaped
        <4>3. Fine(N[c][s]) /\ sub[N[c][s]] \subseteq sub[c]
          BY <2>4, <4>2, Beside
        <4>4. CASE d = N[c][s]
          <5>1. N[d].p = c /\ c \in sub[c] /\ c # NIL
            BY <4>2, <4>4, Beside DEF Shaped
          <5> QED  BY <4>3, <4>4, <5>1
        <4>5. CASE d # N[c][s]
          BY <4>1, <4>3, <4>5
        <4> QED  BY <4>4, <4>5
      <3> QED  BY <3>1, <3>2
    <2> QED  BY <2>3, <2>5
  <1>3. Fine(a)
    BY <1>2
  <1> QED  BY <1>1, <1>3

\* The nodes that _minimum, ecache_find and ecache_free can reach.
LEMMA BelowIsSub ==
  ASSUME NEW T, NEW sub, Shaped(T.n, sub), IsFiniteSet(DOMAIN T.n),
         NEW a \in DOMAIN T.n \cup {NIL}
  PROVE  Below(T, a) = sub[a]
  <1>1. CASE a = NIL
    BY <1>1 DEF Below, Shaped
  <1>2. CASE a # NIL
    <2> DEFINE D == DOMAIN T.n
               Shut(C) == \A b \in C, s \in Sides : T.n[b][s] # NIL => T.n[b][s] \in C
    <2>1. a \in D /\ Below(T, a) = {b \in D : \A C \in SUBSET D : (a \in C /\ Shut(C)) => b \in C}
      BY <1>2 DEF Below, Reach
    <2>2. sub[a] \in SUBSET D /\ a \in sub[a]
      BY <2>1, Beside, SideFacts DEF Shaped
    <2>3. Shut(sub[a])
      <3> SUFFICES ASSUME NEW b \in sub[a], NEW s \in Sides, T.n[b][s] # NIL
                   PROVE  T.n[b][s] \in sub[a]
        OBVIOUS
      <3>1. b \in D /\ sub[b] \subseteq sub[a]
        BY <2>1, Downward
      <3> QED  BY <3>1, Beside
    <2>4. ASSUME NEW C \in SUBSET D, a \in C, Shut(C)  PROVE sub[a] \subseteq C
      <3> DEFINE F == {sub[b] : b \in {c \in C : ~(sub[c] \subseteq C)}}
      <3>1. F = {}
        <4> SUFFICES ASSUME F # {}  PROVE FALSE
          OBVIOUS
        <4>1. F \subseteq SUBSET D
          BY DEF Shaped
        <4>2. \E s \in F : \A t \in F : t \subseteq s => t = s
          <5> HIDE DEF F
          <5> QED  BY <4>1, SmallestSet
        <4>3. PICK b \in C : ~(sub[b] \subseteq C) /\ \A t \in F : t \subseteq sub[b] => t = sub[b]
          <5>1. \A t \in F : \E c \in C : ~(sub[c] \subseteq C) /\ t = sub[c]
            OBVIOUS
          <5> HIDE DEF F
          <5> QED  BY <4>2, <5>1
        <4>4. ASSUME NEW s \in Sides  PROVE sub[T.n[b][s]] \subseteq C
          <5>1. CASE T.n[b][s] = NIL
            BY <5>1 DEF Shaped
          <5>2. CASE T.n[b][s] # NIL
            <6>1. T.n[b][s] \in C
              BY <2>4, <5>2
            <6>2. sub[T.n[b][s]] \subseteq sub[b] /\ b \in sub[b] /\ b \notin sub[T.n[b][s]]
              BY Beside DEF Shaped
            <6>3. sub[T.n[b][s]] \notin F
              BY <4>3, <6>2
            <6> QED  BY <6>1, <6>3
          <5> QED  BY <5>1, <5>2
        <4>5. sub[b] = {b} \cup sub[T.n[b]["l"]] \cup sub[T.n[b]["r"]]
          BY SideFacts DEF Shaped
        <4>6. sub[T.n[b]["l"]] \subseteq C /\ sub[T.n[b]["r"]] \subseteq C
          BY <4>4, SideFacts
        <4> QED  BY <4>3, <4>5, <4>6
      <3> QED  BY <2>4, <3>1
    <2> HIDE DEF Shut
    <2> QED  BY <2>1, <2>2, <2>3, <2>4
  <1> QED  BY <1>1, <1>2

-----------------------------------------------------------------------------
(* A rotation.  v, the child of u on the other side, takes the place of u; *)
(* u gets the inner child c of v.                                          *)
Turned(N, M, u, s) ==
  LET v == N[u][Other(s)]
      c == N[v][s]
  IN /\ DOMAIN M = DOMAIN N /\ M \in [DOMAIN N -> Node(DOMAIN N)]
     /\ \A a \in DOMAIN N :
          /\ M[a].hash = N[a].hash /\ M[a].black = N[a].black
          /\ M[a].p = IF a = v THEN N[u].p ELSE IF a = u THEN v ELSE IF a = c THEN u ELSE N[a].p
          /\ \A t \in Sides :
               M[a][t] = IF a = u THEN (IF t = s THEN N[u][s] ELSE c)
                         ELSE IF a = v THEN (IF t = s THEN u ELSE N[v][t])
                         ELSE IF N[a][t] = u THEN v ELSE N[a][t]

Pointers == {"p", "l", "r"}

\* The nodes after the pointer f of a has been set to b.
Set(N, a, f, b) == [N EXCEPT ![a] = [@ EXCEPT ![f] = b]]

LEMMA PointIs ==
  ASSUME NEW N, NEW q, NEW a, NEW f, NEW b
  PROVE  Point([root |-> q, n |-> N], a, f, b) = [root |-> q, n |-> Set(N, a, f, b)]
  BY DEF Point, Set

LEMMA SetIs ==
  ASSUME NEW D, NEW N \in [D -> Node(D)], NEW a \in D, NEW f \in Pointers, NEW b \in D \cup {NIL}
  PROVE  LET M == Set(N, a, f, b) IN
         /\ DOMAIN M = D /\ M \in [D -> Node(D)]
         /\ \A d \in D :
              /\ M[d].hash = N[d].hash /\ M[d].black = N[d].black
              /\ \A g \in Pointers : M[d][g] = IF d = a /\ g = f THEN b ELSE N[d][g]
  <1> DEFINE R == [N[a] EXCEPT ![f] = b]
  <1>1. N[a] \in Node(D)
    OBVIOUS
  <1>2. /\ R \in Node(D) /\ R.hash = N[a].hash /\ R.black = N[a].black
        /\ \A g \in Pointers : R[g] = IF g = f THEN b ELSE N[a][g]
    BY <1>1 DEF Node, Pointers
  <1> HIDE DEF R
  <1>3. Set(N, a, f, b) = [N EXCEPT ![a] = R]
    BY DEF Set, R
  <1> QED  BY <1>2, <1>3

\* The nodes after the link that led to u leads to v.
Linked(N, u, v) == IF N[u].p = NIL THEN N
                   ELSE Set(N, N[u].p, IF N[N[u].p].l = u THEN "l" ELSE "r", v)

LEMMA RelinkIs ==
  ASSUME NEW N, NEW q, NEW u, NEW v
  PROVE  Relink([root |-> q, n |-> N], u, v)
           = [root |-> IF N[u].p = NIL THEN v ELSE q, n |-> Linked(N, u, v)]
  BY DEF Relink, SideOf, Linked, Point, Set

(* Exactly one link leads to u when it has a parent, and that is where it  *)
(* comes from.                                                             *)
Kin(N, u) ==
  /\ NIL \notin DOMAIN N /\ u \in DOMAIN N /\ N \in [DOMAIN N -> Node(DOMAIN N)]
  /\ \A a \in DOMAIN N, t \in Sides : N[a][t] = u => a = N[u].p
  /\ N[u].p # NIL => \E s \in Sides : N[N[u].p][s] = u /\ N[N[u].p][Other(s)] # u

LEMMA KinIs ==
  ASSUME NEW N, NEW sub, Shaped(N, sub), NEW u \in DOMAIN N
  PROVE  Kin(N, u)
  <1>1. NIL \notin DOMAIN N /\ N \in [DOMAIN N -> Node(DOMAIN N)] /\ u # NIL
    BY DEF Shaped
  <1>2. \A a \in DOMAIN N, t \in Sides : N[a][t] = u => a = N[u].p
    BY <1>1 DEF Shaped
  <1>3. ASSUME N[u].p # NIL
        PROVE  \E s \in Sides : N[N[u].p][s] = u /\ N[N[u].p][Other(s)] # u
    <2>1. PICK s \in Sides : N[N[u].p][s] = u
      BY <1>3 DEF Shaped
    <2>2. N[u].p \in DOMAIN N
      BY <1>3, Beside, SideFacts
    <2>3. N[N[u].p][s] # N[N[u].p][Other(s)]
      BY <1>1, <2>1, <2>2, Beside
    <2> QED  BY <2>1, <2>3
  <1> QED  BY <1>1, <1>2, <1>3 DEF Kin

\* The side a node hangs on.
LEMMA Hangs ==
  ASSUME NEW N, NEW u, Kin(N, u), N[u].p # NIL
  PROVE  \E s \in Sides : /\ s = (IF N[N[u].p].l = u THEN "l" ELSE "r")
                          /\ N[N[u].p][s] = u /\ N[N[u].p][Other(s)] # u
  <1>1. PICK t \in Sides : N[N[u].p][t] = u /\ N[N[u].p][Other(t)] # u
    BY DEF Kin
  <1>2. CASE t = "l"
    BY <1>1, <1>2, SideFacts
  <1>3. CASE t = "r"
    BY <1>1, <1>3, SideFacts
  <1> QED  BY <1>2, <1>3, SideFacts

\* Hashes and colours stay.
Like(N, M) ==
  /\ DOMAIN M = DOMAIN N /\ M \in [DOMAIN N -> Node(DOMAIN N)]
  /\ \A a \in DOMAIN N : M[a].hash = N[a].hash /\ M[a].black = N[a].black

\* What Linked does to each node.
LEMMA LinkedIs ==
  ASSUME NEW N, NEW u, Kin(N, u), NEW v \in DOMAIN N \cup {NIL}
  PROVE  LET L == Linked(N, u, v) IN
         /\ Like(N, L)
         /\ \A a \in DOMAIN N :
              /\ L[a].p = N[a].p
              /\ \A t \in Sides : L[a][t] = IF N[a][t] = u THEN v ELSE N[a][t]
  <1> DEFINE L == Linked(N, u, v)
             w == N[u].p
  <1>1. N \in [DOMAIN N -> Node(DOMAIN N)] /\ u \in DOMAIN N /\ NIL \notin DOMAIN N
    BY DEF Kin
  <1>2. \A a \in DOMAIN N, t \in Sides : N[a][t] = u => a = w /\ w # NIL
    BY DEF Kin
  <1>3. CASE w = NIL
    BY <1>1, <1>2, <1>3 DEF Linked, Like
  <1>4. CASE w # NIL
    <2>1. PICK s \in Sides : /\ s = (IF N[w].l = u THEN "l" ELSE "r")
                             /\ N[w][s] = u /\ N[w][Other(s)] # u
      BY <1>4, Hangs
    <2>2. L = Set(N, w, s, v)
      BY <1>4, <2>1 DEF Linked
    <2>3. w \in DOMAIN N /\ s \in Pointers
      BY <1>1, <1>4, NodeFacts DEF Pointers, Sides
    <2> HIDE DEF L, w
    <2>4. /\ DOMAIN L = DOMAIN N /\ L \in [DOMAIN N -> Node(DOMAIN N)]
          /\ \A d \in DOMAIN N :
               /\ L[d].hash = N[d].hash /\ L[d].black = N[d].black
               /\ \A g \in Pointers : L[d][g] = IF d = w /\ g = s THEN v ELSE N[d][g]
      BY <1>1, <2>2, <2>3, SetIs
    <2>5. "p" \in Pointers /\ "p" # s /\ Sides \subseteq Pointers
      BY SideFacts DEF Pointers
    <2>6. \A t \in Sides : t = s \/ t = Other(s)
      BY SideFacts
    <2>7. \A a \in DOMAIN N, t \in Sides : L[a][t] = IF N[a][t] = u THEN v ELSE N[a][t]
      BY <1>2, <2>1, <2>4, <2>5, <2>6
    <2>8. \A a \in DOMAIN N : L[a].p = N[a].p
      BY <2>4, <2>5
    <2> QED  BY <2>4, <2>7, <2>8 DEF L, Like
  <1> QED  BY <1>3, <1>4

LEMMA RotateIs ==
  ASSUME NEW N, NEW sub, Shaped(N, sub), NEW q, NEW u \in DOMAIN N, NEW s \in Sides,
         N[u][Other(s)] # NIL
  PROVE  \E M : /\ Rotate([root |-> q, n |-> N], u, s)
                     = [root |-> IF N[u].p = NIL THEN N[u][Other(s)] ELSE q, n |-> M]
                /\ Turned(N, M, u, s)
  <1> DEFINE D == DOMAIN N
             v == N[u][Other(s)]
             c == N[v][s]
             w == N[u].p
             L == Linked(N, u, v)
             E1 == Set(L, v, "p", w)
             E2 == Set(E1, u, Other(s), c)
             E3 == Set(E2, u, "p", v)
             E4 == Set(E3, v, s, u)
             M == IF c = NIL THEN E4 ELSE Set(E4, c, "p", u)
             Q == IF N[u].p = NIL THEN v ELSE q
  <1>0. v \in D /\ c \in D \cup {NIL} /\ v # u /\ u \in D /\ w \in D \cup {NIL}
        /\ NIL \notin D
    BY Beside, SideFacts, NodeFacts DEF Shaped
  <1>1. /\ DOMAIN L = D /\ L \in [D -> Node(D)]
        /\ \A a \in D :
              /\ L[a].hash = N[a].hash /\ L[a].black = N[a].black /\ L[a].p = N[a].p
              /\ \A t \in Sides : L[a][t] = IF N[a][t] = u THEN v ELSE N[a][t]
    <2> HIDE DEF v
    <2> QED  BY <1>0, KinIs, LinkedIs DEF D, Like
  <1>2. Rotate([root |-> q, n |-> N], u, s) = [root |-> Q, n |-> M]
    <2>1. Relink([root |-> q, n |-> N], u, v) = [root |-> Q, n |-> L]
      BY RelinkIs
    <2>2. v # NIL
      BY <1>0
    <2> HIDE DEF L, Q, v, c
    <2>3. Transplant([root |-> q, n |-> N], u, v) = [root |-> Q, n |-> E1]
      BY <2>1, <2>2, PointIs DEF Transplant
    <2> HIDE DEF E1
    <2>4. Point([root |-> Q, n |-> E1], u, Other(s), c) = [root |-> Q, n |-> E2]
      BY PointIs
    <2> HIDE DEF E2
    <2>5. Point([root |-> Q, n |-> E2], u, "p", v) = [root |-> Q, n |-> E3]
      BY PointIs
    <2> HIDE DEF E3
    <2>6. Point([root |-> Q, n |-> E3], v, s, u) = [root |-> Q, n |-> E4]
      BY PointIs
    <2> HIDE DEF E4
    <2>7. Point([root |-> Q, n |-> E4], c, "p", u) = [root |-> Q, n |-> Set(E4, c, "p", u)]
      BY PointIs
    <2>8. [root |-> q, n |-> N].n[u][Other(s)] = v /\ [root |-> q, n |-> N].n[v][s] = c
      BY DEF v, c
    <2> QED  BY <2>3, <2>4, <2>5, <2>6, <2>7, <2>8 DEF Rotate
  <1>4. c # NIL => c # u /\ c # v
    BY <1>0, Beside, SideFacts DEF Shaped
  <1> DEFINE Alike(K) == /\ DOMAIN K = D /\ K \in [D -> Node(D)]
                         /\ \A d \in D : K[d].hash = N[d].hash /\ K[d].black = N[d].black
  <1>5. /\ Alike(M)
        /\ \A d \in D, g \in Pointers :
             M[d][g] = IF d = c /\ g = "p" THEN u
                       ELSE IF d = v /\ g = s THEN u
                       ELSE IF d = u /\ g = "p" THEN v
                       ELSE IF d = u /\ g = Other(s) THEN c
                       ELSE IF d = v /\ g = "p" THEN w
                       ELSE L[d][g]
    <2> HIDE DEF L, v, c, w
    <2>0. s \in Pointers /\ Other(s) \in Pointers /\ "p" \in Pointers
      BY SideFacts DEF Pointers
    <2>1. Alike(E1) /\ \A d \in D, g \in Pointers :
                        E1[d][g] = IF d = v /\ g = "p" THEN w ELSE L[d][g]
      <3>1. L \in [D -> Node(D)] /\ v \in D /\ "p" \in Pointers /\ w \in D \cup {NIL}
        BY <1>0, <2>0, <1>1
      <3>2. /\ DOMAIN E1 = D /\ E1 \in [D -> Node(D)]
            /\ \A d \in D : /\ E1[d].hash = L[d].hash /\ E1[d].black = L[d].black
                            /\ \A g \in Pointers :
                                 E1[d][g] = IF d = v /\ g = "p" THEN w ELSE L[d][g]
        BY ONLY <3>1, SetIs DEF E1
      <3> HIDE DEF E1
      <3> QED  BY <3>2, <1>1
    <2> HIDE DEF E1
    <2>2. Alike(E2) /\ \A d \in D, g \in Pointers :
                        E2[d][g] = IF d = u /\ g = Other(s) THEN c ELSE E1[d][g]
      <3>1. E1 \in [D -> Node(D)] /\ u \in D /\ Other(s) \in Pointers /\ c \in D \cup {NIL}
        BY <1>0, <2>0, <2>1
      <3>2. /\ DOMAIN E2 = D /\ E2 \in [D -> Node(D)]
            /\ \A d \in D : /\ E2[d].hash = E1[d].hash /\ E2[d].black = E1[d].black
                            /\ \A g \in Pointers :
                                 E2[d][g] = IF d = u /\ g = Other(s) THEN c ELSE E1[d][g]
        BY ONLY <3>1, SetIs DEF E2
      <3> HIDE DEF E2
      <3> QED  BY <3>2, <2>1
    <2> HIDE DEF E2
    <2>3. Alike(E3) /\ \A d \in D, g \in Pointers :
                        E3[d][g] = IF d = u /\ g = "p" THEN v ELSE E2[d][g]
      <3>1. E2 \in [D -> Node(D)] /\ u \in D /\ "p" \in Pointers /\ v \in D \cup {NIL}
        BY <1>0, <2>0, <2>2
      <3>2. /\ DOMAIN E3 = D /\ E3 \in [D -> Node(D)]
            /\ \A d \in D : /\ E3[d].hash = E2[d].hash /\ E3[d].black = E2[d].black
                            /\ \A g \in Pointers :
                                 E3[d][g] = IF d = u /\ g = "p" THEN v ELSE E2[d][g]
        BY ONLY <3>1, SetIs DEF E3
      <3> HIDE DEF E3
      <3> QED  BY <3>2, <2>2
    <2> HIDE DEF E3
    <2>4. Alike(E4) /\ \A d \in D, g \in Pointers :
                        E4[d][g] = IF d = v /\ g = s THEN u ELSE E3[d][g]
      <3>1. E3 \in [D -> Node(D)] /\ v \in D /\ s \in Pointers /\ u \in D \cup {NIL}
        BY <1>0, <2>0, <2>3
      <3>2. /\ DOMAIN E4 = D /\ E4 \in [D -> Node(D)]
            /\ \A d \in D : /\ E4[d].hash = E3[d].hash /\ E4[d].black = E3[d].black
                            /\ \A g \in Pointers :
                                 E4[d][g] = IF d = v /\ g = s THEN u ELSE E3[d][g]
        BY ONLY <3>1, SetIs DEF E4
      <3> HIDE DEF E4
      <3> QED  BY <3>2, <2>3
    <2> HIDE DEF E4
    <2>5. CASE c = NIL
      <3>1. M = E4 /\ \A d \in D : d # c
        BY <2>5 DEF Shaped
      <3> HIDE DEF M, Alike, D
      <3> QED  BY <2>1, <2>2, <2>3, <2>4, <3>1
    <2>6. CASE c # NIL
      <3>1. M = Set(E4, c, "p", u)
        BY <2>6
      <3>2. E4 \in [D -> Node(D)] /\ c \in D /\ "p" \in Pointers /\ u \in D \cup {NIL}
        BY <1>0, <2>0, <2>4, <2>6
      <3> HIDE DEF M
      <3>3. /\ DOMAIN M = D /\ M \in [D -> Node(D)]
            /\ \A d \in D : /\ M[d].hash = E4[d].hash /\ M[d].black = E4[d].black
                            /\ \A g \in Pointers :
                                 M[d][g] = IF d = c /\ g = "p" THEN u ELSE E4[d][g]
        BY ONLY <3>1, <3>2, SetIs
      <3>4. Alike(M)
        BY <2>4, <3>3
      <3> HIDE DEF Alike, D
      <3> QED  BY <2>1, <2>2, <2>3, <2>4, <3>3, <3>4
    <2> QED  BY <2>5, <2>6
  <1>6. Turned(N, M, u, s)
    <2>1. Turned(N, M, u, s) <=>
           /\ DOMAIN M = D /\ M \in [D -> Node(D)]
           /\ \A a \in D :
                /\ M[a].hash = N[a].hash /\ M[a].black = N[a].black
                /\ M[a].p = IF a = v THEN w ELSE IF a = u THEN v ELSE IF a = c THEN u ELSE N[a].p
                /\ \A t \in Sides :
                     M[a][t] = IF a = u THEN (IF t = s THEN N[u][s] ELSE c)
                               ELSE IF a = v THEN (IF t = s THEN u ELSE N[v][t])
                               ELSE IF N[a][t] = u THEN v ELSE N[a][t]
      BY DEF Turned
    <2> HIDE DEF M
    <2>2. N[u][s] # u /\ \A t \in Sides : N[v][t] # u /\ N[u][t] # u
      BY <1>0, Beside, SideFacts DEF Shaped
    <2>3. "p" \in Pointers /\ Sides \subseteq Pointers /\ "p" \notin Sides
          /\ Other(s) # s /\ Other(s) \in Sides /\ \A t \in Sides : t = s \/ t = Other(s)
      BY SideFacts DEF Pointers
    <2> HIDE DEF v, c, w, L, D
    <2>4. \A a \in D : M[a].p = IF a = v THEN w ELSE IF a = u THEN v ELSE IF a = c THEN u ELSE N[a].p
      <3> TAKE a \in D
      <3>1. L[a].p = N[a].p
        BY <1>1
      <3> QED  BY <1>0, <1>4, <1>5, <2>3, <3>1
    <2>5. \A a \in D, t \in Sides :
            M[a][t] = IF a = u THEN (IF t = s THEN N[u][s] ELSE c)
                      ELSE IF a = v THEN (IF t = s THEN u ELSE N[v][t])
                      ELSE IF N[a][t] = u THEN v ELSE N[a][t]
      BY <1>0, <1>1, <1>5, <2>2, <2>3
    <2> QED  BY <1>5, <2>1, <2>4, <2>5
  <1> QED  BY <1>2, <1>6

\* What is below each node after a rotation.
TurnedSub(N, sub, u, s) ==
  LET v == N[u][Other(s)] IN
  [a \in DOMAIN N \cup {NIL} |->
     IF a = v THEN sub[u]
     ELSE IF a = u THEN {u} \cup sub[N[u][s]] \cup sub[N[v][s]] ELSE sub[a]]

\* The nodes around a rotation.
LEMMA Around ==
  ASSUME NEW N, NEW sub, Shaped(N, sub), NEW u \in DOMAIN N, NEW s \in Sides, N[u][Other(s)] # NIL
  PROVE  LET v == N[u][Other(s)]
             c == N[v][s]
             d == N[v][Other(s)]
             e == N[u][s]
         IN /\ v \in DOMAIN N /\ v # u /\ v # NIL /\ u # NIL
            /\ {c, d, e} \subseteq DOMAIN N \cup {NIL}
            /\ c # u /\ c # v /\ d # u /\ d # v /\ e # u /\ e # v
            /\ sub[u] = {u} \cup sub[e] \cup sub[v] /\ sub[e] \cap sub[v] = {}
            /\ sub[v] = {v} \cup sub[c] \cup sub[d] /\ sub[c] \cap sub[d] = {}
            /\ u \notin sub[e] /\ u \notin sub[v] /\ v \notin sub[c] /\ v \notin sub[d]
            /\ N[u].p \notin sub[u] /\ N[u].p # u /\ N[u].p # v
            /\ e # NIL => N[e].p = u
            /\ c # NIL => N[c].p = v
            /\ d # NIL => N[d].p = v
            /\ N[v].p = u
            /\ \A a \in DOMAIN N, t \in Sides :
                 /\ N[a][t] = u => a = N[u].p
                 /\ N[a][t] = v => a = u /\ t = Other(s)
  <1> DEFINE v == N[u][Other(s)]
             c == N[v][s]
             d == N[v][Other(s)]
             e == N[u][s]
  <1>1. v \in DOMAIN N /\ v # u /\ v # NIL /\ u # NIL /\ N[v].p = u
    <2>1. u # NIL
      BY DEF Shaped
    <2> QED  BY <2>1, Beside, SideFacts
  <1>2. {c, d, e} \subseteq DOMAIN N \cup {NIL}
    BY <1>1, NodeFacts, SideFacts DEF Shaped
  <1>3. /\ sub[u] = {u} \cup sub[e] \cup sub[v] /\ sub[e] \cap sub[v] = {}
        /\ sub[v] = {v} \cup sub[c] \cup sub[d] /\ sub[c] \cap sub[d] = {}
        /\ u \notin sub[e] /\ u \notin sub[v] /\ v \notin sub[c] /\ v \notin sub[d]
        /\ e # NIL => N[e].p = u
        /\ c # NIL => N[c].p = v
        /\ d # NIL => N[d].p = v
    BY <1>1, SideFacts DEF Shaped
  <1>4. \A a \in DOMAIN N : a \in sub[a]
    BY SideFacts DEF Shaped
  <1>5. e # NIL => e \in sub[e]
    BY <1>2, <1>4
  <1>6. c # NIL => c \in sub[c]
    BY <1>2, <1>4
  <1>7. d # NIL => d \in sub[d]
    BY <1>2, <1>4
  <1>8. N[u].p \notin sub[u] /\ N[u].p # u /\ N[u].p # v
    <2>1. N[u].p = NIL => N[u].p \notin sub[u]
      BY DEF Shaped
    <2>2. N[u].p \notin sub[u]
      BY <2>1, Beside, SideFacts
    <2> QED  BY <2>2, <1>1, <1>3, <1>4
  <1>9. \A a \in DOMAIN N, t \in Sides : /\ N[a][t] = u => a = N[u].p
                                         /\ N[a][t] = v => a = u /\ t = Other(s)
    <2>1. \A a \in DOMAIN N, t \in Sides : N[a][t] # NIL => N[N[a][t]].p = a
      BY DEF Shaped
    <2>2. e # v
      BY <1>1, <1>3, <1>4
    <2>3. \A t \in Sides : t = s \/ t = Other(s)
      BY SideFacts
    <2> QED  BY <1>1, <2>1, <2>2, <2>3
  <1>10. c # u /\ c # v /\ d # u /\ d # v /\ e # u /\ e # v
    BY <1>1, <1>3, <1>4, <1>5, <1>6, <1>7
  <1> HIDE DEF v, c, d, e
  <1> QED  BY <1>1, <1>2, <1>3, <1>8, <1>9, <1>10 DEF v, c, d, e

\* A rotation keeps the shape.
LEMMA TurnedShape ==
  ASSUME NEW N, NEW sub, Shaped(N, sub), NEW u \in DOMAIN N, NEW s \in Sides, N[u][Other(s)] # NIL,
         NEW M, Turned(N, M, u, s)
  PROVE  Shaped(M, TurnedSub(N, sub, u, s))
  <1> DEFINE D == DOMAIN N
             v == N[u][Other(s)]
             c == N[v][s]
             d == N[v][Other(s)]
             e == N[u][s]
             w == N[u].p
             S == TurnedSub(N, sub, u, s)
  <1>1. /\ v \in D /\ v # u /\ v # NIL /\ u # NIL /\ u \in D
        /\ {c, d, e} \subseteq D \cup {NIL}
        /\ c # u /\ c # v /\ d # u /\ d # v /\ e # u /\ e # v
        /\ sub[u] = {u} \cup sub[e] \cup sub[v] /\ sub[e] \cap sub[v] = {}
        /\ sub[v] = {v} \cup sub[c] \cup sub[d] /\ sub[c] \cap sub[d] = {}
        /\ u \notin sub[e] /\ u \notin sub[v] /\ v \notin sub[c] /\ v \notin sub[d]
        /\ w \notin sub[u] /\ w # u /\ w # v
        /\ e # NIL => N[e].p = u
        /\ c # NIL => N[c].p = v
        /\ d # NIL => N[d].p = v
        /\ N[v].p = u
        /\ \A a \in D, t \in Sides : /\ N[a][t] = u => a = w
                                     /\ N[a][t] = v => a = u /\ t = Other(s)
    BY Around
  <1>2. /\ NIL \notin D /\ sub \in [D \cup {NIL} -> SUBSET D] /\ sub[NIL] = {}
        /\ \A a \in D, t \in Sides : /\ sub[a] = {a} \cup sub[N[a][t]] \cup sub[N[a][Other(t)]]
                                     /\ sub[N[a][t]] \cap sub[N[a][Other(t)]] = {}
                                     /\ a \notin sub[N[a][t]]
                                     /\ N[a][t] # NIL => N[N[a][t]].p = a
        /\ \A a \in D : N[a].p # NIL => \E t \in Sides : N[N[a].p][t] = a
        /\ \A a \in D, t \in Sides : N[a][t] \in D \cup {NIL}
        /\ \A a \in D : N[a].p \in D \cup {NIL}
    BY NodeFacts DEF Shaped
  <1>3. /\ DOMAIN M = D /\ M \in [D -> Node(D)]
        /\ \A a \in D : M[a].p = IF a = v THEN w ELSE IF a = u THEN v ELSE IF a = c THEN u ELSE N[a].p
        /\ \A a \in D, t \in Sides :
             M[a][t] = IF a = u THEN (IF t = s THEN e ELSE c)
                       ELSE IF a = v THEN (IF t = s THEN u ELSE N[v][t])
                       ELSE IF N[a][t] = u THEN v ELSE N[a][t]
    BY DEF Turned
  <1>4. S = [a \in D \cup {NIL} |-> IF a = v THEN sub[u]
                                    ELSE IF a = u THEN {u} \cup sub[e] \cup sub[c] ELSE sub[a]]
    BY DEF TurnedSub
  <1>5. \A t \in Sides : t = s \/ t = Other(s)
    BY SideFacts
  <1>6. Other(s) \in Sides /\ s \in Sides /\ Other(s) # s /\ Other(Other(s)) = s
    BY SideFacts
  <1> HIDE DEF D, v, c, d, e, w, S
  <1>7. /\ S[v] = sub[u] /\ S[u] = {u} \cup sub[e] \cup sub[c] /\ S[NIL] = {}
        /\ \A a \in D \cup {NIL} : a # u /\ a # v => S[a] = sub[a]
    BY <1>1, <1>2, <1>4
  <1>8. S \in [D \cup {NIL} -> SUBSET D]
    <2>1. \A a \in D \cup {NIL} : sub[a] \in SUBSET D
      BY <1>2
    <2>2. \A a \in D \cup {NIL} : S[a] \in SUBSET D
      BY <1>1, <1>7, <2>1
    <2> QED  BY <1>4, <2>2
  <1>9. ASSUME NEW a \in D, NEW t \in Sides
        PROVE  /\ S[a] = {a} \cup S[M[a][t]] \cup S[M[a][Other(t)]]
               /\ S[M[a][t]] \cap S[M[a][Other(t)]] = {}
               /\ a \notin S[M[a][t]]
               /\ M[a][t] # NIL => M[M[a][t]].p = a
    <2>1. CASE a = u
      <3>1. M[u][s] = e /\ M[u][Other(s)] = c
        BY <1>1, <1>3, <1>6
      <3>2. S[e] = sub[e] /\ S[c] = sub[c]
        BY <1>1, <1>7
      <3>3. sub[e] \cap sub[c] = {} /\ u \notin sub[c]
        BY <1>1
      <3>4. (e # NIL => M[e].p = u) /\ (c # NIL => M[c].p = u)
        <4>1. e # c \/ e = NIL
          <5>1. e # NIL => e \in sub[e]
            BY <1>1, <1>2, <1>6
          <5> QED  BY <3>3, <5>1
        <4> QED  BY <1>1, <1>3, <4>1
      <3> QED  BY <1>1, <1>5, <1>6, <1>7, <2>1, <3>1, <3>2, <3>3, <3>4
    <2>2. CASE a = v
      <3>1. M[v][s] = u /\ M[v][Other(s)] = d
        BY <1>1, <1>3, <1>6 DEF d
      <3>2. S[d] = sub[d]
        BY <1>1, <1>7
      <3>3. S[u] \cap sub[d] = {} /\ v \notin S[u] /\ v \notin sub[d]
        BY <1>1, <1>7
      <3>4. M[u].p = v /\ (d # NIL => M[d].p = v)
        <4>1. d # c \/ d = NIL
          <5>1. d # NIL => d \in sub[d]
            BY <1>1, <1>2, <1>6
          <5> QED  BY <1>1, <5>1
        <4> QED  BY <1>1, <1>3, <4>1
      <3>5. S[v] = {v} \cup S[u] \cup sub[d]
        BY <1>1, <1>7
      <3> QED  BY <1>5, <1>6, <2>2, <3>1, <3>2, <3>3, <3>4, <3>5
    <2>3. CASE a # u /\ a # v
      <3>1. ASSUME NEW g \in Sides
            PROVE  /\ S[M[a][g]] = sub[N[a][g]]
                   /\ M[a][g] # NIL => M[M[a][g]].p = a
        <4>1. CASE N[a][g] = u
          <5>1. M[a][g] = v /\ a = w
            BY <1>1, <1>3, <2>3, <4>1
          <5> QED  BY <1>1, <1>3, <1>7, <4>1, <5>1
        <4>2. CASE N[a][g] # u
          <5>1. M[a][g] = N[a][g] /\ N[a][g] # v /\ N[a][g] \in D \cup {NIL}
            BY <1>1, <1>2, <1>3, <2>3, <4>2
          <5>2. S[M[a][g]] = sub[N[a][g]]
            BY <1>7, <4>2, <5>1
          <5>3. N[a][g] # NIL => N[N[a][g]].p = a
            BY <1>2
          <5>4. N[a][g] # NIL => N[a][g] # c
            BY <1>1, <2>3, <5>3
          <5> QED  BY <1>3, <4>2, <5>1, <5>2, <5>3, <5>4
        <4> QED  BY <4>1, <4>2
      <3>2. Other(t) \in Sides /\ S[a] = sub[a]
        BY <1>7, <2>3, SideFacts
      <3> QED  BY <1>2, <3>1, <3>2
    <2> QED  BY <2>1, <2>2, <2>3
  <1>10. ASSUME NEW a \in D, M[a].p # NIL  PROVE \E t \in Sides : M[M[a].p][t] = a
    <2>1. CASE a = v
      <3>1. M[a].p = w /\ w # NIL
        BY <1>3, <1>10, <2>1
      <3>2. PICK t \in Sides : N[w][t] = u
        BY <1>1, <1>2, <3>1 DEF w
      <3>3. w \in D
        BY <1>1, <1>2, <3>1 DEF w
      <3> QED  BY <1>1, <1>3, <2>1, <3>1, <3>2, <3>3
    <2>2. CASE a = u
      BY <1>1, <1>3, <1>6, <2>2
    <2>3. CASE a = c /\ a # v /\ a # u
      BY <1>1, <1>3, <1>6, <2>3
    <2>4. CASE a # c /\ a # v /\ a # u
      <3>1. M[a].p = N[a].p /\ N[a].p \in D
        BY <1>2, <1>3, <1>10, <2>4
      <3>2. PICK t \in Sides : N[N[a].p][t] = a
        BY <1>2, <3>1
      <3>3. CASE N[a].p = u
        <4>1. a = e
          <5>1. a = N[u][s] \/ a = N[u][Other(s)]
            BY <1>5, <3>2, <3>3
          <5> QED  BY <2>4, <5>1 DEF v, e
        <4> QED  BY <1>1, <1>3, <1>6, <3>1, <3>3, <4>1
      <3>4. CASE N[a].p = v
        <4>1. t = Other(s)
          BY <1>5, <2>4, <3>2, <3>4 DEF c
        <4> QED  BY <1>1, <1>3, <1>6, <3>1, <3>2, <3>4, <4>1
      <3>5. CASE N[a].p # u /\ N[a].p # v
        BY <1>3, <2>4, <3>1, <3>2, <3>5
      <3> QED  BY <3>3, <3>4, <3>5
    <2> QED  BY <2>1, <2>2, <2>3, <2>4
  <1>11. NIL \notin D /\ S[NIL] = {}
    BY <1>2, <1>7
  <1> QED  BY <1>3, <1>8, <1>9, <1>10, <1>11 DEF Shaped, S

\* It keeps the order of the hashes.
LEMMA TurnedOrder ==
  ASSUME NEW N, NEW sub, Shaped(N, sub), NEW u \in DOMAIN N, NEW s \in Sides, N[u][Other(s)] # NIL,
         NEW M, Turned(N, M, u, s), Sorted(N, sub)
  PROVE  Sorted(M, TurnedSub(N, sub, u, s))
  <1> DEFINE D == DOMAIN N
             v == N[u][Other(s)]
             c == N[v][s]
             d == N[v][Other(s)]
             e == N[u][s]
             S == TurnedSub(N, sub, u, s)
             H == [a \in D |-> N[a].hash]
  <1>1. /\ v \in D /\ v # u /\ v # NIL /\ u # NIL /\ u \in D
        /\ {c, d, e} \subseteq D \cup {NIL}
        /\ c # u /\ c # v /\ d # u /\ d # v /\ e # u /\ e # v
        /\ sub[u] = {u} \cup sub[e] \cup sub[v]
        /\ sub[v] = {v} \cup sub[c] \cup sub[d]
        /\ \A a \in D, t \in Sides : N[a][t] = v => a = u
    BY Around
  <1>2. /\ \A a \in D \cup {NIL} : sub[a] \in SUBSET D
        /\ \A a \in D, t \in Sides : N[a][t] \in D \cup {NIL}
        /\ \A a \in D : H[a] \in Nat
    BY NodeFacts DEF Shaped
  <1>3. /\ DOMAIN M = D
        /\ \A a \in D : M[a].hash = H[a]
        /\ \A a \in D, t \in Sides :
             M[a][t] = IF a = u THEN (IF t = s THEN e ELSE c)
                       ELSE IF a = v THEN (IF t = s THEN u ELSE N[v][t])
                       ELSE IF N[a][t] = u THEN v ELSE N[a][t]
    BY DEF Turned
  <1>4. /\ S[v] = sub[u] /\ S[u] = {u} \cup sub[e] \cup sub[c]
        /\ \A a \in D \cup {NIL} : a # u /\ a # v => S[a] = sub[a]
    BY <1>1 DEF TurnedSub
  <1>5. Other(s) \in Sides /\ \A t \in Sides : t = s \/ t = Other(s)
    BY SideFacts
  <1>6. \A a \in D, t \in Sides : \A b \in sub[N[a][t]] : Before(t, H[b], H[a])
    BY <1>2 DEF Sorted
  <1>7. \A m, n \in Nat : Before(Other(s), m, n) => Before(s, n, m)
    BY SideFacts DEF Before
  <1>8. \A m, n, k \in Nat : Before(s, m, n) /\ Before(s, n, k) => Before(s, m, k)
    BY SideFacts DEF Before
  <1> HIDE DEF D, v, c, d, e, S, H
  <1>9. ASSUME NEW a \in D, NEW t \in Sides, NEW b \in S[M[a][t]]  PROVE Before(t, H[b], H[a])
    <2>1. CASE a = u
      <3>1. CASE t = s
        <4>1. b \in sub[e]
          BY <1>1, <1>3, <1>4, <1>9, <2>1, <3>1
        <4> QED  BY <1>6, <2>1, <3>1, <4>1 DEF e
      <3>2. CASE t = Other(s)
        <4>1. b \in sub[c]
          BY <1>1, <1>3, <1>4, <1>5, <1>9, <2>1, <3>2, SideFacts
        <4>2. b \in sub[v]
          BY <1>1, <4>1
        <4> QED  BY <1>6, <2>1, <3>2, <4>2 DEF v
      <3> QED  BY <1>5, <3>1, <3>2
    <2>2. CASE a = v
      <3>1. CASE t = s
        <4>1. b \in {u} \cup sub[e] \cup sub[c]
          BY <1>1, <1>3, <1>4, <1>9, <2>2, <3>1
        <4>2. H[u] \in Nat /\ H[v] \in Nat /\ b \in D /\ H[b] \in Nat
          BY <1>1, <1>2, <4>1
        <4>3. Before(s, H[u], H[v])
          <5>1. v \in sub[N[u][Other(s)]]
            BY <1>1 DEF v
          <5>2. Before(Other(s), H[v], H[u])
            BY <1>1, <1>5, <1>6, <5>1
          <5> QED  BY <1>7, <4>2, <5>2
        <4>4. CASE b = u
          BY <2>2, <3>1, <4>3, <4>4
        <4>5. CASE b \in sub[e]
          <5>1. Before(s, H[b], H[u])
            BY <1>1, <1>6, <4>5 DEF e
          <5> QED  BY <1>8, <2>2, <3>1, <4>2, <4>3, <5>1
        <4>6. CASE b \in sub[c]
          <5>1. Before(s, H[b], H[v])
            BY <1>1, <1>6, <4>6 DEF c
          <5> QED  BY <2>2, <3>1, <5>1
        <4> QED  BY <4>1, <4>4, <4>5, <4>6
      <3>2. CASE t = Other(s)
        <4>1. M[v][t] = N[v][t] /\ N[v][t] = d
          BY <1>1, <1>3, <1>5, <3>2, SideFacts DEF d
        <4>2. b \in sub[N[v][t]]
          BY <1>1, <1>4, <1>9, <2>2, <4>1
        <4> QED  BY <1>1, <1>6, <2>2, <4>2
      <3> QED  BY <1>5, <3>1, <3>2
    <2>3. CASE a # u /\ a # v
      <3>1. b \in sub[N[a][t]]
        <4>1. CASE N[a][t] = u
          BY <1>3, <1>4, <1>9, <2>3, <4>1
        <4>2. CASE N[a][t] # u
          BY <1>1, <1>2, <1>3, <1>4, <1>9, <2>3, <4>2
        <4> QED  BY <4>1, <4>2
      <3> QED  BY <1>6, <3>1
    <2> QED  BY <2>1, <2>2, <2>3
  <1>10. ASSUME NEW a \in D, NEW t \in Sides, NEW b \in S[M[a][t]]
         PROVE  Before(t, M[b].hash, M[a].hash)
    <2>1. M[a][t] \in D \cup {NIL}
      BY <1>1, <1>2, <1>3
    <2>2. b \in D
      <3>1. S[M[a][t]] \in SUBSET D
        BY <1>1, <1>2, <1>4, <2>1
      <3> QED  BY <1>10, <3>1
    <2> QED  BY <1>3, <1>9, <1>10, <2>2
  <1> QED  BY <1>3, <1>10 DEF Sorted, S

\* The root of a tree is its only node without a parent.
LEMMA OnlyRoot ==
  ASSUME NEW N, NEW sub, Shaped(N, sub), IsFiniteSet(DOMAIN N), NEW q \in DOMAIN N, NEW u \in sub[q],
         N[u].p = NIL
  PROVE  u = q
  BY Downward

\* The root of a tree stays its root, or gives way to its child.
LEMMA TurnedRoot ==
  ASSUME NEW N, NEW sub, Shaped(N, sub), IsFiniteSet(DOMAIN N), NEW u \in DOMAIN N, NEW s \in Sides,
         N[u][Other(s)] # NIL, NEW M, Turned(N, M, u, s),
         NEW q, NEW Z, q \in DOMAIN N \cup {NIL}, u \notin Z, Rules(N, sub, q, Z)
  PROVE  Rules(M, TurnedSub(N, sub, u, s), IF N[u].p = NIL THEN N[u][Other(s)] ELSE q, Z)
  <1> DEFINE v == N[u][Other(s)]
             S == TurnedSub(N, sub, u, s)
  <1>1. v \in DOMAIN N /\ v # u /\ v # NIL /\ N[v].p = u /\ u # NIL
    BY Around
  <1>2. u \in sub[q] /\ q \in DOMAIN N
    BY DEF Rules, Shaped
  <1>3. /\ DOMAIN M = DOMAIN N
        /\ M[v].p = N[u].p
        /\ \A a \in DOMAIN N : N[a].p = NIL /\ a # u => M[a].p = NIL
    <2>1. DOMAIN M = DOMAIN N
      BY DEF Turned
    <2>2. \A a \in DOMAIN N : M[a].p = IF a = v THEN N[u].p ELSE IF a = u THEN v
                                       ELSE IF a = N[v][s] THEN u ELSE N[a].p
      BY DEF Turned
    <2>3. \A a \in DOMAIN N : a = N[v][s] => N[a].p = v
      <3>1. N[v][s] # NIL => N[N[v][s]].p = v
        BY Around
      <3>2. NIL \notin DOMAIN N
        BY DEF Shaped
      <3> QED  BY <3>1, <3>2
    <2> QED  BY <1>1, <2>1, <2>2, <2>3
  <1>4. S[v] = sub[u] /\ \A a \in DOMAIN N \cup {NIL} : a # u /\ a # v => S[a] = sub[a]
    BY <1>1 DEF TurnedSub
  <1>5. CASE N[u].p = NIL
    <2>1. u = q
      BY <1>2, <1>5, OnlyRoot
    <2> HIDE DEF v, S
    <2>2. S[v] = DOMAIN M \ Z /\ M[v].p = NIL
      BY <1>3, <1>4, <1>5, <2>1 DEF Rules
    <2> QED  BY <1>5, <2>2 DEF Rules, v, S
  <1>6. CASE N[u].p # NIL
    <2>1. q # u /\ q # v /\ N[q].p = NIL
      BY <1>1, <1>2, <1>6 DEF Rules, Shaped
    <2> HIDE DEF v, S
    <2> QED  BY <1>2, <1>3, <1>4, <1>6, <2>1 DEF Rules, S
  <1> QED  BY <1>5, <1>6

-----------------------------------------------------------------------------
(* Colours do not matter to the shape. *)
Relinked(N, M) ==
  /\ DOMAIN M = DOMAIN N /\ M \in [DOMAIN N -> Node(DOMAIN N)]
  /\ \A a \in DOMAIN N : M[a].p = N[a].p /\ M[a].l = N[a].l /\ M[a].r = N[a].r
                         /\ M[a].hash = N[a].hash

LEMMA SameLinks ==
  ASSUME NEW N, NEW sub, Shaped(N, sub), NEW M, Relinked(N, M)
  PROVE  /\ Shaped(M, sub) /\ (Sorted(N, sub) => Sorted(M, sub))
         /\ \A q \in DOMAIN N \cup {NIL} : \A Z : Rules(N, sub, q, Z) => Rules(M, sub, q, Z)
  <1>1. /\ DOMAIN M = DOMAIN N /\ M \in [DOMAIN N -> Node(DOMAIN N)]
        /\ \A a \in DOMAIN N : M[a].p = N[a].p /\ M[a].hash = N[a].hash
                               /\ \A t \in Sides : M[a][t] = N[a][t]
    BY SideFacts DEF Relinked
  <1>2. \A a \in DOMAIN N : /\ N[a].p \in DOMAIN N \cup {NIL}
                            /\ \A t \in Sides : N[a][t] \in DOMAIN N \cup {NIL}
    BY NodeFacts DEF Shaped
  <1>3. ASSUME NEW a \in DOMAIN N, NEW t \in Sides
        PROVE  /\ sub[a] = {a} \cup sub[M[a][t]] \cup sub[M[a][Other(t)]]
               /\ sub[M[a][t]] \cap sub[M[a][Other(t)]] = {}
               /\ a \notin sub[M[a][t]]
               /\ M[a][t] # NIL => M[M[a][t]].p = a
    <2>1. Other(t) \in Sides
      BY SideFacts
    <2>2. M[a][t] = N[a][t] /\ M[a][Other(t)] = N[a][Other(t)]
      BY <1>1, <2>1
    <2>3. M[a][t] # NIL => M[M[a][t]].p = N[N[a][t]].p
      BY <1>1, <1>2, <2>2
    <2> QED  BY <2>2, <2>3 DEF Shaped
  <1>4. ASSUME NEW a \in DOMAIN N, M[a].p # NIL  PROVE \E t \in Sides : M[M[a].p][t] = a
    <2>1. N[a].p \in DOMAIN N /\ M[a].p = N[a].p
      BY <1>1, <1>2, <1>4
    <2>2. PICK t \in Sides : N[N[a].p][t] = a
      BY <1>4, <2>1 DEF Shaped
    <2> QED  BY <1>1, <2>1, <2>2
  <1>5. Shaped(M, sub)
    <2>1. NIL \notin DOMAIN M /\ sub \in [DOMAIN M \cup {NIL} -> SUBSET DOMAIN M] /\ sub[NIL] = {}
      BY <1>1 DEF Shaped
    <2> QED  BY <1>1, <1>3, <1>4, <2>1 DEF Shaped
  <1>6. ASSUME Sorted(N, sub)  PROVE Sorted(M, sub)
    <2> SUFFICES ASSUME NEW a \in DOMAIN N, NEW t \in Sides, NEW b \in sub[M[a][t]]
                 PROVE  Before(t, M[b].hash, M[a].hash)
      BY <1>1 DEF Sorted
    <2>1. M[a][t] = N[a][t] /\ N[a][t] \in DOMAIN N \cup {NIL}
      BY <1>1, <1>2
    <2>2. b \in DOMAIN N
      BY <2>1 DEF Shaped
    <2>3. Before(t, N[b].hash, N[a].hash)
      BY <1>6, <2>1 DEF Sorted
    <2> QED  BY <1>1, <2>2, <2>3
  <1>7. ASSUME NEW q \in DOMAIN N \cup {NIL}, NEW Z, Rules(N, sub, q, Z)  PROVE Rules(M, sub, q, Z)
    BY <1>1, <1>7 DEF Rules
  <1> QED  BY <1>5, <1>6, <1>7

\* The nodes of S are painted.
Dyed(N, S, b) == [a \in DOMAIN N |-> IF a \in S THEN [N[a] EXCEPT !.black = b] ELSE N[a]]

LEMMA PaintIs ==
  ASSUME NEW N, NEW q, NEW S, NEW b
  PROVE  Paint([root |-> q, n |-> N], S, b) = [root |-> q, n |-> Dyed(N, S, b)]
  BY DEF Paint, Dyed

LEMMA DyedIs ==
  ASSUME NEW D, NEW N \in [D -> Node(D)], NEW S, NEW b \in BOOLEAN
  PROVE  /\ Relinked(N, Dyed(N, S, b))
         /\ \A a \in D : Dyed(N, S, b)[a].black = IF a \in S THEN b ELSE N[a].black
  <1> DEFINE M == Dyed(N, S, b)
  <1>1. M = [a \in D |-> IF a \in S THEN [N[a] EXCEPT !.black = b] ELSE N[a]]
    BY DEF Dyed
  <1>2. ASSUME NEW a \in D
        PROVE  /\ [N[a] EXCEPT !.black = b] \in Node(D)
               /\ [N[a] EXCEPT !.black = b].p = N[a].p /\ [N[a] EXCEPT !.black = b].l = N[a].l
               /\ [N[a] EXCEPT !.black = b].r = N[a].r /\ [N[a] EXCEPT !.black = b].hash = N[a].hash
               /\ [N[a] EXCEPT !.black = b].black = b
    <2>1. N[a] \in Node(D)
      OBVIOUS
    <2> QED  BY <2>1 DEF Node
  <1> HIDE DEF M
  <1>3. \A a \in D : M[a] = IF a \in S THEN [N[a] EXCEPT !.black = b] ELSE N[a]
    BY <1>1
  <1>4. DOMAIN M = D /\ M \in [D -> Node(D)]
    BY <1>1, <1>2
  <1>5. \A a \in D : /\ M[a].p = N[a].p /\ M[a].l = N[a].l /\ M[a].r = N[a].r
                     /\ M[a].hash = N[a].hash
                     /\ M[a].black = IF a \in S THEN b ELSE N[a].black
    BY <1>2, <1>3, Zenon
  <1> QED  BY <1>4, <1>5 DEF Relinked, M

-----------------------------------------------------------------------------
(* A new node z is hung on the side t of y, where there is room.           *)
Hung(N, M, u, v, t) ==
  /\ DOMAIN M = DOMAIN N /\ M \in [DOMAIN N -> Node(DOMAIN N)]
  /\ \A a \in DOMAIN N : M[a].hash = N[a].hash /\ M[a].black = N[a].black
                         /\ M[a].p = IF a = v THEN u ELSE N[a].p
  /\ \A a \in DOMAIN N, g \in Sides : M[a][g] = IF a = u /\ g = t THEN v ELSE N[a][g]

\* What is below each node then.
HungSub(N, sub, u, v) ==
  [a \in DOMAIN N \cup {NIL} |-> IF u \in sub[a] THEN sub[a] \cup {v} ELSE sub[a]]

\* A node on its own.
Single(N, sub, v) == v \in DOMAIN N /\ N[v].p = NIL /\ N[v].l = NIL /\ N[v].r = NIL /\ sub[v] = {v}

LEMMA AttachIs ==
  ASSUME NEW N, NEW sub, Shaped(N, sub), NEW q, NEW u \in DOMAIN N, NEW v \in DOMAIN N,
         Single(N, sub, v), u # v, NEW h
  PROVE  \E M : /\ Attach([root |-> q, n |-> N], v, u, h) = [root |-> q, n |-> M]
                /\ Hung(N, M, u, v, IF h < N[u].hash THEN "l" ELSE "r")
  <1> DEFINE D == DOMAIN N
             t == IF h < N[u].hash THEN "l" ELSE "r"
             A == Set(N, v, "p", u)
             M == Set(A, u, t, v)
  <1>1. u # NIL /\ N \in [D -> Node(D)]
    BY DEF Shaped
  <1>2. t \in Sides /\ t \in Pointers /\ "p" \in Pointers /\ Sides \subseteq Pointers /\ "p" # t
    BY SideFacts DEF Pointers
  <1>3. Attach([root |-> q, n |-> N], v, u, h) = [root |-> q, n |-> M]
    <2>1. Point([root |-> q, n |-> N], v, "p", u) = [root |-> q, n |-> A]
      BY PointIs
    <2> HIDE DEF A
    <2>2. Point([root |-> q, n |-> A], u, t, v) = [root |-> q, n |-> M]
      BY PointIs
    <2>3. [root |-> q, n |-> N].n[u].hash = N[u].hash
      OBVIOUS
    <2> HIDE DEF M
    <2> QED  BY <1>1, <2>1, <2>2, <2>3 DEF Attach
  <1> HIDE DEF t
  <1>4. /\ DOMAIN A = D /\ A \in [D -> Node(D)]
        /\ \A d \in D : /\ A[d].hash = N[d].hash /\ A[d].black = N[d].black
                        /\ \A g \in Pointers : A[d][g] = IF d = v /\ g = "p" THEN u ELSE N[d][g]
    <2>1. u \in D \cup {NIL} /\ v \in D
      OBVIOUS
    <2> QED  BY ONLY <1>1, <1>2, <2>1, SetIs DEF A
  <1> HIDE DEF A
  <1>5. /\ DOMAIN M = D /\ M \in [D -> Node(D)]
        /\ \A d \in D : /\ M[d].hash = A[d].hash /\ M[d].black = A[d].black
                        /\ \A g \in Pointers : M[d][g] = IF d = u /\ g = t THEN v ELSE A[d][g]
    <2>1. u \in D /\ v \in D \cup {NIL}
      OBVIOUS
    <2> QED  BY ONLY <1>2, <1>4, <2>1, SetIs DEF M
  <1> HIDE DEF M
  <1>6. \A d \in D : M[d].p = IF d = v THEN u ELSE N[d].p
    BY <1>2, <1>4, <1>5
  <1>7. \A d \in D, g \in Sides : M[d][g] = IF d = u /\ g = t THEN v ELSE N[d][g]
    BY <1>2, <1>4, <1>5 DEF Sides
  <1>8. Hung(N, M, u, v, t)
    BY <1>4, <1>5, <1>6, <1>7 DEF Hung
  <1> QED  BY <1>3, <1>8 DEF t

\* With a new leaf the nodes still form trees.
LEMMA HungShape ==
  ASSUME NEW N, NEW sub, Shaped(N, sub), IsFiniteSet(DOMAIN N),
         NEW u \in DOMAIN N, NEW v \in DOMAIN N, Single(N, sub, v), u # v,
         NEW t \in Sides, N[u][t] = NIL, NEW M, Hung(N, M, u, v, t)
  PROVE  /\ Shaped(M, HungSub(N, sub, u, v))
         /\ \A a \in DOMAIN N \ {v} : sub[a] \in SUBSET (DOMAIN N \ {v})
  <1> DEFINE D == DOMAIN N
             S == HungSub(N, sub, u, v)
  <1>1. /\ NIL \notin D /\ sub \in [D \cup {NIL} -> SUBSET D] /\ sub[NIL] = {}
        /\ \A a \in D, g \in Sides : /\ sub[a] = {a} \cup sub[N[a][g]] \cup sub[N[a][Other(g)]]
                                     /\ sub[N[a][g]] \cap sub[N[a][Other(g)]] = {}
                                     /\ a \notin sub[N[a][g]]
                                     /\ N[a][g] # NIL => N[N[a][g]].p = a
        /\ \A a \in D : N[a].p # NIL => \E g \in Sides : N[N[a].p][g] = a
        /\ \A a \in D, g \in Sides : N[a][g] \in D \cup {NIL}
        /\ \A a \in D : N[a].p \in D \cup {NIL}
    BY NodeFacts DEF Shaped
  <1>2. /\ N[v].p = NIL /\ sub[v] = {v} /\ \A g \in Sides : N[v][g] = NIL
    BY SideFacts DEF Single
  <1>3. \A a \in D : v \in sub[a] => a = v
    BY <1>2, OnlyRoot
  <1>4. /\ DOMAIN M = D /\ M \in [D -> Node(D)]
        /\ \A a \in D : M[a].p = IF a = v THEN u ELSE N[a].p
        /\ \A a \in D, g \in Sides : M[a][g] = IF a = u /\ g = t THEN v ELSE N[a][g]
    BY DEF Hung
  <1>5. \A a \in D \cup {NIL} : S[a] = IF u \in sub[a] THEN sub[a] \cup {v} ELSE sub[a]
    BY DEF HungSub
  <1>6. S \in [D \cup {NIL} -> SUBSET D] /\ S[NIL] = {}
    <2>1. \A a \in D \cup {NIL} : sub[a] \in SUBSET D
      BY <1>1
    <2>2. \A a \in D \cup {NIL} : S[a] \in SUBSET D
      BY <1>5, <2>1
    <2>3. S = [a \in D \cup {NIL} |-> S[a]]
      BY DEF HungSub
    <2> QED  BY <1>1, <1>5, <2>2, <2>3
  <1> HIDE DEF S, D
  <1>7. ASSUME NEW a \in D, NEW g \in Sides
        PROVE  /\ S[a] = {a} \cup S[M[a][g]] \cup S[M[a][Other(g)]]
               /\ S[M[a][g]] \cap S[M[a][Other(g)]] = {}
               /\ a \notin S[M[a][g]]
               /\ M[a][g] # NIL => M[M[a][g]].p = a
    <2>0. Other(g) \in Sides /\ Other(g) # g /\ (g = t \/ Other(g) = t) /\ u \in D /\ v \in D
      BY SideFacts DEF D
    <2>1. CASE a = u
      <3> DEFINE d == N[u][Other(t)]
      <3>1. sub[u] = {u} \cup sub[d] /\ u \notin sub[d] /\ d \in D \cup {NIL}
        BY <1>1, <2>0, SideFacts
      <3>2. M[u][t] = v /\ M[u][Other(t)] = d
        BY <1>4, <2>0, SideFacts
      <3>3. v \notin sub[d]
        BY <1>2, <1>3, <2>0, <3>1, <1>1
      <3>4. S[v] = {v} /\ S[d] = sub[d] /\ S[u] = {u} \cup sub[d] \cup {v}
        BY <1>2, <1>5, <2>0, <3>1
      <3>5. d # NIL => M[d].p = u
        <4>1. d # NIL => N[d].p = u /\ d # v
          BY <1>1, <1>2, <2>0, SideFacts
        <4> QED  BY <1>4, <3>1, <4>1
      <3>6. M[v].p = u
        BY <1>4, <2>0
      <3> HIDE DEF d
      <3>7. CASE g = t
        BY <2>0, <2>1, <3>1, <3>2, <3>3, <3>4, <3>5, <3>6, <3>7
      <3>8. CASE Other(g) = t
        <4>1. g = Other(t)
          BY <3>8, SideFacts
        <4> QED  BY <2>0, <2>1, <3>1, <3>2, <3>3, <3>4, <3>5, <3>6, <3>8, <4>1
      <3> QED  BY <2>0, <3>7, <3>8
    <2>2. CASE a # u
      <3>1. M[a][g] = N[a][g] /\ M[a][Other(g)] = N[a][Other(g)]
        BY <1>4, <2>0, <2>2
      <3>2. N[a][g] \in D \cup {NIL} /\ N[a][Other(g)] \in D \cup {NIL}
        BY <1>1, <2>0
      <3>3. \A c \in D \cup {NIL} : v \in sub[c] => c = v
        BY <1>1, <1>3 DEF D
      <3>4. N[a][g] # v /\ N[a][Other(g)] # v
        <4>1. \A f \in Sides : N[a][f] # v
          BY <1>1, <1>2, <2>0
        <4> QED  BY <2>0, <4>1
      <3>5. v \notin sub[N[a][g]] /\ v \notin sub[N[a][Other(g)]]
        BY <3>2, <3>3, <3>4
      <3>6. /\ sub[a] = {a} \cup sub[N[a][g]] \cup sub[N[a][Other(g)]]
            /\ sub[N[a][g]] \cap sub[N[a][Other(g)]] = {}
            /\ a \notin sub[N[a][g]]
        BY <1>1
      <3>7. a = v => u \notin sub[a]
        BY <1>2, <2>2
      <3>8. /\ S[a] = IF u \in sub[a] THEN sub[a] \cup {v} ELSE sub[a]
            /\ S[N[a][g]] = IF u \in sub[N[a][g]] THEN sub[N[a][g]] \cup {v} ELSE sub[N[a][g]]
            /\ S[N[a][Other(g)]] = IF u \in sub[N[a][Other(g)]] THEN sub[N[a][Other(g)]] \cup {v}
                                   ELSE sub[N[a][Other(g)]]
        BY <1>5, <3>2
      <3>9. M[a][g] # NIL => M[M[a][g]].p = a
        BY <1>1, <1>4, <3>1, <3>2, <3>4
      <3>10. a # v \/ sub[a] = {v}
        BY <1>2
      <3>11. S[a] = {a} \cup S[N[a][g]] \cup S[N[a][Other(g)]]
        BY <2>2, <3>6, <3>8
      <3>12. S[N[a][g]] \cap S[N[a][Other(g)]] = {}
        BY <3>5, <3>6, <3>8
      <3>13. a \notin S[N[a][g]]
        BY <3>6, <3>7, <3>8
      <3> QED  BY <3>1, <3>9, <3>11, <3>12, <3>13
    <2> QED  BY <2>1, <2>2
  <1>8. ASSUME NEW a \in D, M[a].p # NIL  PROVE \E g \in Sides : M[M[a].p][g] = a
    <2>1. CASE a = v
      BY <1>4, <2>1 DEF D
    <2>2. CASE a # v
      <3>1. M[a].p = N[a].p /\ N[a].p \in D /\ N[a].p # NIL
        BY <1>1, <1>4, <1>8, <2>2
      <3>2. PICK g \in Sides : N[N[a].p][g] = a
        BY <1>1, <3>1
      <3>3. a # NIL
        BY <1>1
      <3> QED  BY <1>4, <3>1, <3>2, <3>3
    <2> QED  BY <2>1, <2>2
  <1>9. NIL \notin D
    BY <1>1
  <1>10. Shaped(M, S)
    BY <1>4, <1>6, <1>7, <1>8, <1>9 DEF Shaped
  <1>11. \A a \in D \ {v} : sub[a] \in SUBSET (D \ {v})
    BY <1>1, <1>3 DEF D
  <1> QED  BY <1>10, <1>11 DEF S, D

\* A node with the hash h would be right below u: it is on the proper side
\* of u and of all nodes above u.
Fits(N, sub, u, h, Z) ==
  \A a \in DOMAIN N \ Z, g \in Sides : u \in sub[N[a][g]] => Before(g, h, N[a].hash)

LEMMA HungOrder ==
  ASSUME NEW N, NEW sub, Shaped(N, sub), IsFiniteSet(DOMAIN N),
         NEW u \in DOMAIN N, NEW v \in DOMAIN N, Single(N, sub, v), u # v,
         NEW t \in Sides, N[u][t] = NIL, NEW M, Hung(N, M, u, v, t), Sorted(N, sub),
         Fits(N, sub, u, N[v].hash, {v}), Before(t, N[v].hash, N[u].hash)
  PROVE  Sorted(M, HungSub(N, sub, u, v))
  <1> DEFINE D == DOMAIN N
             S == HungSub(N, sub, u, v)
  <1>1. /\ sub \in [D \cup {NIL} -> SUBSET D] /\ sub[NIL] = {} /\ NIL \notin D
        /\ \A a \in D, g \in Sides : N[a][g] \in D \cup {NIL}
        /\ u \in D /\ v \in D
    BY NodeFacts DEF Shaped
  <1>2. /\ N[v].p = NIL /\ sub[v] = {v} /\ \A g \in Sides : N[v][g] = NIL
    BY SideFacts DEF Single
  <1>3. /\ DOMAIN M = D
        /\ \A a \in D : M[a].hash = N[a].hash
        /\ \A a \in D, g \in Sides : M[a][g] = IF a = u /\ g = t THEN v ELSE N[a][g]
    BY DEF Hung
  <1>4. \A a \in D \cup {NIL} : S[a] = IF u \in sub[a] THEN sub[a] \cup {v} ELSE sub[a]
    BY DEF HungSub
  <1>5. \A a \in D, g \in Sides : \A b \in sub[N[a][g]] : Before(g, N[b].hash, N[a].hash)
    BY DEF Sorted
  <1>6. \A a \in D \ {v}, g \in Sides : u \in sub[N[a][g]] => Before(g, N[v].hash, N[a].hash)
    BY DEF Fits
  <1> HIDE DEF S, D
  <1> SUFFICES ASSUME NEW a \in D, NEW g \in Sides, NEW b \in S[M[a][g]]
               PROVE  b \in D /\ Before(g, N[b].hash, N[a].hash)
    BY <1>3 DEF Sorted, S
  <1>7. CASE a = u /\ g = t
    <2>1. b \in S[v] /\ S[v] = {v}
      BY <1>1, <1>2, <1>3, <1>4, <1>7
    <2> QED  BY <1>1, <1>7, <2>1
  <1>8. CASE ~(a = u /\ g = t)
    <2>1. M[a][g] = N[a][g] /\ N[a][g] \in D \cup {NIL}
      BY <1>1, <1>3, <1>8
    <2>4. b \in S[N[a][g]]
      BY <2>1
    <2>5. S[N[a][g]] = IF u \in sub[N[a][g]] THEN sub[N[a][g]] \cup {v} ELSE sub[N[a][g]]
      BY <1>4, <2>1
    <2>2. b \in sub[N[a][g]] \/ (b = v /\ u \in sub[N[a][g]])
      BY <2>4, <2>5
    <2>3. a = v => N[a][g] = NIL
      BY <1>2
    <2> QED  BY <1>1, <1>5, <1>6, <2>1, <2>2, <2>3
  <1> QED  BY <1>7, <1>8

LEMMA HungRoot ==
  ASSUME NEW N, NEW sub, Shaped(N, sub), NEW u \in DOMAIN N, NEW v \in DOMAIN N, u # v,
         NEW t, NEW M, Hung(N, M, u, v, t), NEW q \in DOMAIN N, q # v, Rules(N, sub, q, {v})
  PROVE  Rules(M, HungSub(N, sub, u, v), q, {})
  <1>1. HungSub(N, sub, u, v)[q] = DOMAIN N
    BY DEF HungSub, Rules
  <1>2. DOMAIN M = DOMAIN N /\ M[q].p = N[q].p
    BY DEF Hung
  <1>3. q # NIL
    BY DEF Shaped
  <1> QED  BY <1>1, <1>2, <1>3 DEF Rules

-----------------------------------------------------------------------------
(* A node u with one child at the most gives its place to c, that child.   *)
Removed(N, M, u, c) ==
  LET D == DOMAIN N \ {u} IN
  /\ DOMAIN M = D /\ M \in [D -> Node(D)]
  /\ \A a \in D : /\ M[a].hash = N[a].hash /\ M[a].black = N[a].black
                  /\ M[a].p = IF a = c THEN N[u].p ELSE N[a].p
                  /\ \A g \in Sides : M[a][g] = IF N[a][g] = u THEN c ELSE N[a][g]

RemovedSub(N, sub, u) == [a \in (DOMAIN N \ {u}) \cup {NIL} |-> sub[a] \ {u}]

LEMMA RemovedShape ==
  ASSUME NEW N, NEW sub, Shaped(N, sub), IsFiniteSet(DOMAIN N), NEW u \in DOMAIN N,
         NEW s \in Sides, N[u][s] = NIL, NEW M, Removed(N, M, u, N[u][Other(s)])
  PROVE  Shaped(M, RemovedSub(N, sub, u)) /\ (Sorted(N, sub) => Sorted(M, RemovedSub(N, sub, u)))
  <1> DEFINE D == DOMAIN N
             E == D \ {u}
             c == N[u][Other(s)]
             S == RemovedSub(N, sub, u)
  <1>1. /\ NIL \notin D /\ sub \in [D \cup {NIL} -> SUBSET D] /\ sub[NIL] = {}
        /\ \A a \in D, g \in Sides : /\ sub[a] = {a} \cup sub[N[a][g]] \cup sub[N[a][Other(g)]]
                                     /\ sub[N[a][g]] \cap sub[N[a][Other(g)]] = {}
                                     /\ a \notin sub[N[a][g]]
                                     /\ N[a][g] # NIL => N[N[a][g]].p = a
        /\ \A a \in D : N[a].p # NIL => \E g \in Sides : N[N[a].p][g] = a
        /\ \A a \in D, g \in Sides : N[a][g] \in D \cup {NIL}
        /\ \A a \in D : N[a].p \in D \cup {NIL}
    BY NodeFacts DEF Shaped
  <1>2. /\ sub[u] = {u} \cup sub[c] /\ u \notin sub[c] /\ c \in E \cup {NIL}
        /\ c # NIL => N[c].p = u
        /\ \A a \in D, g \in Sides : N[a][g] = c /\ c # NIL => a = u
    <2>1. Other(s) \in Sides /\ Other(Other(s)) = s
      BY SideFacts
    <2>2. sub[u] = {u} \cup sub[c] /\ u \notin sub[c] /\ c \in D \cup {NIL} /\ (c # NIL => N[c].p = u)
      BY <1>1, <2>1
    <2>3. c # u
      BY <1>1, <2>1, Beside
    <2> HIDE DEF c
    <2> QED  BY <1>1, <2>2, <2>3
  <1>3. /\ DOMAIN M = E /\ M \in [E -> Node(E)]
        /\ \A a \in E : /\ M[a].hash = N[a].hash
                        /\ M[a].p = IF a = c THEN N[u].p ELSE N[a].p
                        /\ \A g \in Sides : M[a][g] = IF N[a][g] = u THEN c ELSE N[a][g]
    BY DEF Removed
  <1>4. \A a \in E \cup {NIL} : S[a] = sub[a] \ {u}
    BY DEF RemovedSub
  <1>5. S \in [E \cup {NIL} -> SUBSET E] /\ S[NIL] = {}
    <2>1. \A a \in E \cup {NIL} : sub[a] \in SUBSET D
      BY <1>1
    <2>2. \A a \in E \cup {NIL} : S[a] \in SUBSET E
      BY <1>4, <2>1
    <2>3. S = [a \in E \cup {NIL} |-> S[a]]
      BY DEF RemovedSub
    <2> QED  BY <1>1, <1>4, <2>2, <2>3
  <1>6. u \in D /\ u # NIL /\ E \subseteq D /\ u \notin E
    BY <1>1
  <1>60. \A a \in D : a \in E \/ a = u
    OBVIOUS
  <1> HIDE DEF S, D, E, c
  <1>7. \A a \in E, g \in Sides : /\ S[M[a][g]] = sub[N[a][g]] \ {u}
                                  /\ M[a][g] \in E \cup {NIL}
    <2> TAKE a \in E, g \in Sides
    <2>1. CASE N[a][g] = u
      BY <1>2, <1>3, <1>4, <1>6, <2>1
    <2>2. CASE N[a][g] # u
      BY <1>1, <1>3, <1>4, <1>6, <1>60, <2>2
    <2> QED  BY <2>1, <2>2
  <1>8. ASSUME NEW a \in E, NEW g \in Sides
        PROVE  /\ S[a] = {a} \cup S[M[a][g]] \cup S[M[a][Other(g)]]
               /\ S[M[a][g]] \cap S[M[a][Other(g)]] = {}
               /\ a \notin S[M[a][g]]
               /\ M[a][g] # NIL => M[M[a][g]].p = a
    <2>1. Other(g) \in Sides /\ a \in D /\ a # u
      BY <1>6, SideFacts
    <2>2. /\ sub[a] = {a} \cup sub[N[a][g]] \cup sub[N[a][Other(g)]]
          /\ sub[N[a][g]] \cap sub[N[a][Other(g)]] = {} /\ a \notin sub[N[a][g]]
      BY <1>1, <2>1
    <2>3. /\ S[M[a][g]] = sub[N[a][g]] \ {u} /\ S[M[a][Other(g)]] = sub[N[a][Other(g)]] \ {u}
          /\ S[a] = sub[a] \ {u}
      BY <1>4, <1>7, <2>1
    <2>4. M[a][g] # NIL => M[M[a][g]].p = a
      <3>1. CASE N[a][g] = u
        <4>1. M[a][g] = c /\ N[u].p = a
          BY <1>1, <1>3, <1>6, <2>1, <3>1
        <4> QED  BY <1>2, <1>3, <4>1
      <3>2. CASE N[a][g] # u
        <4>1. M[a][g] = N[a][g] /\ (N[a][g] # NIL => N[N[a][g]].p = a)
          BY <1>1, <1>3, <2>1, <3>2
        <4>2. N[a][g] # NIL => N[a][g] # c
          BY <1>2, <2>1
        <4> QED  BY <1>3, <1>7, <4>1, <4>2
      <3> QED  BY <3>1, <3>2
    <2> QED  BY <2>1, <2>2, <2>3, <2>4
  <1>9. ASSUME NEW a \in E, M[a].p # NIL  PROVE \E g \in Sides : M[M[a].p][g] = a
    <2>1. CASE a = c
      <3>1. M[a].p = N[u].p /\ N[u].p \in D /\ N[u].p # NIL
        BY <1>1, <1>3, <1>6, <1>9, <2>1
      <3>2. PICK g \in Sides : N[N[u].p][g] = u
        BY <1>1, <1>6, <3>1
      <3>3. N[u].p \in E
        <4>1. N[u].p # u
          BY <1>6, <3>1, Beside, SideFacts DEF D
        <4> QED  BY <1>60, <3>1, <4>1
      <3> QED  BY <1>3, <2>1, <3>1, <3>2, <3>3
    <2>2. CASE a # c
      <3>1. M[a].p = N[a].p /\ N[a].p \in D /\ N[a].p # NIL
        BY <1>1, <1>3, <1>6, <1>9, <2>2
      <3>2. PICK g \in Sides : N[N[a].p][g] = a
        BY <1>1, <1>6, <3>1
      <3>3. N[a].p # u
        <4>1. a # NIL
          BY <1>1, <1>6
        <4>2. N[u][s] = NIL /\ N[u][Other(s)] = c /\ (g = s \/ g = Other(s))
          BY SideFacts DEF c
        <4> QED  BY <2>2, <3>2, <4>1, <4>2
      <3>4. N[a].p \in E
        BY <1>60, <3>1, <3>3
      <3>5. a # u
        BY <1>6
      <3> QED  BY <1>3, <3>1, <3>2, <3>4, <3>5
    <2> QED  BY <2>1, <2>2
  <1>10. Shaped(M, S)
    <2>1. NIL \notin E
      BY <1>1, <1>6
    <2> QED  BY <1>3, <1>5, <1>8, <1>9, <2>1 DEF Shaped
  <1>11. ASSUME Sorted(N, sub)  PROVE Sorted(M, S)
    <2> SUFFICES ASSUME NEW a \in E, NEW g \in Sides, NEW b \in S[M[a][g]]
                 PROVE  Before(g, M[b].hash, M[a].hash)
      BY <1>3 DEF Sorted
    <2>1. b \in sub[N[a][g]] /\ b # u /\ b \in E
      BY <1>5, <1>7
    <2>2. Before(g, N[b].hash, N[a].hash)
      BY <1>6, <1>11, <2>1 DEF Sorted, D
    <2> QED  BY <1>3, <2>1, <2>2
  <1> QED  BY <1>10, <1>11 DEF S

\* The child of a root that goes is the new root.
LEMMA RemovedRoot ==
  ASSUME NEW N, NEW sub, Shaped(N, sub), IsFiniteSet(DOMAIN N), NEW u \in DOMAIN N,
         NEW s \in Sides, N[u][s] = NIL, NEW M, Removed(N, M, u, N[u][Other(s)]),
         NEW q \in DOMAIN N, Rules(N, sub, q, {})
  PROVE  /\ N[u].p = NIL <=> q = u
         /\ Rules(M, RemovedSub(N, sub, u), IF q = u THEN N[u][Other(s)] ELSE q, {})
  <1> DEFINE D == DOMAIN N
             E == D \ {u}
             c == N[u][Other(s)]
             S == RemovedSub(N, sub, u)
  <1>1. /\ sub[q] = D /\ N[q].p = NIL /\ q # NIL /\ NIL \notin D
    BY DEF Rules, Shaped
  <1>2. N[u].p = NIL <=> q = u
    <2>1. u \in sub[q]
      BY <1>1
    <2> QED  BY <1>1, <2>1, OnlyRoot
  <1>3. /\ sub[u] = {u} \cup sub[c] /\ u \notin sub[c] /\ c \in D \cup {NIL} /\ c # u
        /\ c # NIL => N[c].p = u
    <2>1. Other(s) \in Sides /\ Other(Other(s)) = s /\ sub[NIL] = {}
      BY SideFacts DEF Shaped
    <2>2. sub[u] = {u} \cup sub[c] /\ u \notin sub[c] /\ (c # NIL => N[c].p = u)
      BY <2>1 DEF Shaped
    <2>3. c \in D \cup {NIL}
      BY <2>1, NodeFacts DEF Shaped
    <2>4. c # u
      <3>1. c # NIL => c \in D \ {u}
        BY <2>1, Beside
      <3> QED  BY <1>1, <3>1
    <2> QED  BY <2>2, <2>3, <2>4
  <1>4. /\ DOMAIN M = E
        /\ \A a \in E : M[a].p = IF a = c THEN N[u].p ELSE N[a].p
    BY DEF Removed
  <1>5. \A a \in E \cup {NIL} : S[a] = sub[a] \ {u}
    BY DEF RemovedSub
  <1> HIDE DEF S, c
  <1>6. ASSUME q = u  PROVE Rules(M, S, c, {})
    <2>1. M[c].p = N[u].p \/ c = NIL
      BY <1>3, <1>4
    <2> QED  BY <1>1, <1>2, <1>3, <1>4, <1>5, <1>6, <2>1 DEF Rules
  <1>7. ASSUME q # u  PROVE Rules(M, S, q, {})
    <2>1. q \in E /\ q # c
      BY <1>1, <1>3, <1>7
    <2> QED  BY <1>1, <1>4, <1>5, <1>7, <2>1 DEF Rules
  <1> QED  BY <1>2, <1>6, <1>7 DEF S, c

\* A node on its own that goes leaves the trees as they are.
LEMMA Dropped ==
  ASSUME NEW N, NEW sub, Shaped(N, sub), IsFiniteSet(DOMAIN N), NEW u, Single(N, sub, u),
         NEW q \in DOMAIN N \cup {NIL}, q # u
  PROVE  LET M == [a \in DOMAIN N \ {u} |-> N[a]]
             S == RemovedSub(N, sub, u)
         IN /\ Shaped(M, S) /\ (Sorted(N, sub) => Sorted(M, S))
            /\ Rules(N, sub, q, {u}) => Rules(M, S, q, {})
  <1> DEFINE D == DOMAIN N
             M == [a \in D \ {u} |-> N[a]]
             S == RemovedSub(N, sub, u)
  <1>1. u \in D /\ N[u].p = NIL /\ N[u]["l"] = NIL /\ N[u]["r"] = NIL
    BY DEF Single
  <1>2. \A a \in D, g \in Sides : N[a][g] # u
    BY <1>1 DEF Shaped
  <1>3. \A a \in D : N[a].p # u
    <2> TAKE a \in D
    <2>1. ASSUME N[a].p = u  PROVE FALSE
      <3>1. N[a].p # NIL
        BY <1>1, <2>1 DEF Shaped
      <3>2. PICK g \in Sides : N[u][g] = a
        BY <2>1, <3>1 DEF Shaped
      <3> QED  BY <1>1, <3>2 DEF Shaped, Sides
    <2> QED  BY <2>1
  <1>4. \A a \in D \ {u} : M[a] = N[a] /\ N[a] \in Node(D \ {u})
    <2> TAKE a \in D \ {u}
    <2>1. N[a] \in Node(D)
      BY DEF Shaped
    <2>2. N[a].p # u /\ N[a].l # u /\ N[a].r # u
      BY <1>2, <1>3 DEF Sides
    <2> QED  BY <2>1, <2>2 DEF Node
  <1>5. DOMAIN M = D \ {u} /\ M \in [D \ {u} -> Node(D \ {u})]
    BY <1>4
  <1>6. Removed(N, M, u, NIL)
    <2>1. \A a \in D \ {u} : a # NIL
      BY DEF Shaped
    <2> HIDE DEF M
    <2> QED  BY <1>2, <1>4, <1>5, <2>1 DEF Removed
  <1>7. Shaped(M, S) /\ (Sorted(N, sub) => Sorted(M, S))
    <2>1. N[u]["l"] = NIL /\ Removed(N, M, u, N[u][Other("l")]) /\ "l" \in Sides
      BY <1>1, <1>6, SideFacts
    <2> HIDE DEF M
    <2> QED  BY <1>1, <2>1, RemovedShape
  <1>8. ASSUME Rules(N, sub, q, {u})  PROVE Rules(M, S, q, {})
    <2>1. S[q] = sub[q] \ {u}
      BY DEF RemovedSub
    <2> QED  BY <1>4, <1>5, <1>8, <2>1 DEF Rules
  <1> QED  BY <1>7, <1>8

\* A new leaf.
Sprout(N, u, h)   == [a \in DOMAIN N \cup {u} |-> IF a = u THEN Leaf(h) ELSE N[a]]
SproutSub(N, sub, u) == [a \in DOMAIN N \cup {u, NIL} |-> IF a = u THEN {u} ELSE sub[a]]

LEMMA Sprouted ==
  ASSUME NEW N, NEW sub, Shaped(N, sub), NEW u, u \notin DOMAIN N, u # NIL, NEW h \in Nat
  PROVE  LET M == Sprout(N, u, h)
             S == SproutSub(N, sub, u)
         IN /\ Shaped(M, S) /\ Single(M, S, u) /\ M[u].hash = h
            /\ Sorted(N, sub) => Sorted(M, S)
            /\ \A q \in DOMAIN N \cup {NIL} : Rules(N, sub, q, {}) => Rules(M, S, q, {u})
  <1> DEFINE D == DOMAIN N
             E == D \cup {u}
             M == Sprout(N, u, h)
             S == SproutSub(N, sub, u)
  <1>1. /\ NIL \notin D /\ sub \in [D \cup {NIL} -> SUBSET D] /\ sub[NIL] = {}
        /\ \A a \in D, g \in Sides : /\ sub[a] = {a} \cup sub[N[a][g]] \cup sub[N[a][Other(g)]]
                                     /\ sub[N[a][g]] \cap sub[N[a][Other(g)]] = {}
                                     /\ a \notin sub[N[a][g]]
                                     /\ N[a][g] # NIL => N[N[a][g]].p = a
        /\ \A a \in D : N[a].p # NIL => \E g \in Sides : N[N[a].p][g] = a
        /\ \A a \in D, g \in Sides : N[a][g] \in D \cup {NIL}
        /\ \A a \in D : N[a].p \in D \cup {NIL}
    BY NodeFacts DEF Shaped
  <1>2. /\ DOMAIN M = E /\ M[u] = Leaf(h) /\ \A a \in D : M[a] = N[a]
        /\ M[u].p = NIL /\ M[u].l = NIL /\ M[u].r = NIL /\ M[u].hash = h
        /\ \A g \in Sides : M[u][g] = NIL
    <2>1. DOMAIN M = E /\ M[u] = Leaf(h) /\ \A a \in D : M[a] = N[a]
      BY DEF Sprout
    <2> HIDE DEF M
    <2> QED  BY <2>1 DEF Leaf, Sides
  <1>3. M \in [E -> Node(E)]
    <2>1. Leaf(h) \in Node(E)
      BY DEF Leaf, Node
    <2>2. \A a \in D : N[a] \in Node(E)
      <3> TAKE a \in D
      <3>1. N[a] \in Node(D)
        BY DEF Shaped
      <3> QED  BY <3>1 DEF Node
    <2> QED  BY <2>1, <2>2 DEF Sprout
  <1>4. /\ S[u] = {u} /\ \A a \in D \cup {NIL} : S[a] = sub[a]
    BY <1>1 DEF SproutSub
  <1>5. S \in [E \cup {NIL} -> SUBSET E]
    <2>1. \A a \in E \cup {NIL} : S[a] \in SUBSET E
      BY <1>1, <1>4
    <2>2. S = [a \in E \cup {NIL} |-> S[a]]
      <3>1. E \cup {NIL} = D \cup {u, NIL}
        OBVIOUS
      <3> QED  BY <3>1 DEF SproutSub
    <2> QED  BY <2>1, <2>2
  <1> HIDE DEF M, S
  <1>6. ASSUME NEW a \in E, NEW g \in Sides
        PROVE  /\ S[a] = {a} \cup S[M[a][g]] \cup S[M[a][Other(g)]]
               /\ S[M[a][g]] \cap S[M[a][Other(g)]] = {}
               /\ a \notin S[M[a][g]]
               /\ M[a][g] # NIL => M[M[a][g]].p = a
    <2>1. Other(g) \in Sides
      BY SideFacts
    <2>2. CASE a = u
      BY <1>1, <1>2, <1>4, <2>1, <2>2
    <2>3. CASE a \in D
      <3>1. M[a][g] = N[a][g] /\ M[a][Other(g)] = N[a][Other(g)] /\ S[a] = sub[a]
            /\ N[a][g] \in D \cup {NIL} /\ N[a][Other(g)] \in D \cup {NIL}
        BY <1>1, <1>2, <1>4, <2>1, <2>3
      <3>2. S[N[a][g]] = sub[N[a][g]] /\ S[N[a][Other(g)]] = sub[N[a][Other(g)]]
        BY <1>4, <3>1
      <3> QED  BY <1>1, <1>2, <2>3, <3>1, <3>2
    <2> QED  BY <2>2, <2>3
  <1>7. \A a \in E : M[a].p # NIL => \E g \in Sides : M[M[a].p][g] = a
    <2> SUFFICES ASSUME NEW a \in E, M[a].p # NIL  PROVE \E g \in Sides : M[M[a].p][g] = a
      OBVIOUS
    <2>1. a \in D /\ M[a].p = N[a].p /\ N[a].p \in D
      BY <1>1, <1>2
    <2> QED  BY <1>1, <1>2, <2>1
  <1>8. Shaped(M, S)
    <2>1. NIL \notin E
      BY <1>1
    <2>2. S[NIL] = {}
      BY <1>1, <1>4
    <2> QED  BY <1>2, <1>3, <1>5, <1>6, <1>7, <2>1, <2>2 DEF Shaped
  <1>9. Single(M, S, u)
    BY <1>2, <1>4 DEF Single
  <1>10. ASSUME Sorted(N, sub)  PROVE Sorted(M, S)
    <2> SUFFICES ASSUME NEW a \in E, NEW g \in Sides, NEW b \in S[M[a][g]]
                 PROVE  Before(g, M[b].hash, M[a].hash)
      BY <1>2 DEF Sorted
    <2>1. a # u
      BY <1>1, <1>2, <1>4
    <2>2. a \in D /\ M[a] = N[a] /\ N[a][g] \in D \cup {NIL}
      BY <1>1, <1>2, <2>1
    <2>3. b \in sub[N[a][g]] /\ b \in D
      BY <1>1, <1>4, <2>2
    <2> QED  BY <1>2, <1>10, <2>2, <2>3 DEF Sorted
  <1>11. ASSUME NEW q \in D \cup {NIL}, Rules(N, sub, q, {})  PROVE Rules(M, S, q, {u})
    <2>1. E \ {u} = D \ {}
      OBVIOUS
    <2> QED  BY <1>2, <1>4, <1>11, <2>1 DEF Rules
  <1> QED  BY <1>2, <1>8, <1>9, <1>10, <1>11 DEF M, S

\* _minimum stops at the node with the least hash.
LEMMA MinimumIs ==
  ASSUME NEW T, NEW sub, Shaped(T.n, sub), IsFiniteSet(DOMAIN T.n), NEW a \in DOMAIN T.n
  PROVE  LET m == Minimum(T, a) IN
         /\ m \in sub[a] /\ T.n[m].l = NIL
         /\ Sorted(T.n, sub) => \A d \in sub[a] \ {m} : T.n[m].hash < T.n[d].hash
  <1> DEFINE D == DOMAIN T.n
             Shut(C) == \A b \in C, s \in {"l"} : T.n[b][s] # NIL => T.n[b][s] \in C
             R == Reach(T, a, {"l"})
             m == Minimum(T, a)
             Low(d) == Sorted(T.n, sub) => \A e \in sub[a] : e \in sub[d] \/ T.n[d].hash < T.n[e].hash
             L == {d \in sub[a] : Low(d)}
             F == {sub[b] : b \in R}
  <1>1. R = {b \in D : \A C \in SUBSET D : (a \in C /\ Shut(C)) => b \in C}
    BY DEF Reach
  <1>2. "l" \in Sides /\ "r" \in Sides /\ Other("l") = "r" /\ Other("r") = "l"
    BY SideFacts
  <1>3. a \in sub[a] /\ sub[a] \in SUBSET D /\ sub \in [D \cup {NIL} -> SUBSET D] /\ sub[NIL] = {}
    BY <1>2, Beside DEF Shaped
  <1>4. ASSUME NEW d \in D
        PROVE  /\ sub[d] = {d} \cup sub[T.n[d].l] \cup sub[T.n[d].r]
               /\ T.n[d].l # NIL => /\ T.n[d].l \in D /\ sub[T.n[d].l] \subseteq sub[d]
                                    /\ d \notin sub[T.n[d].l] /\ T.n[d].l \in sub[d]
               /\ T.n[d].hash \in Nat
               /\ Sorted(T.n, sub) =>
                    /\ \A e \in sub[T.n[d].l] : T.n[e].hash < T.n[d].hash
                    /\ \A e \in sub[T.n[d].r] : T.n[d].hash < T.n[e].hash
    <2>1. sub[d] = {d} \cup sub[T.n[d]["l"]] \cup sub[T.n[d]["r"]] /\ d \notin sub[T.n[d]["l"]]
      BY <1>2 DEF Shaped
    <2>2. T.n[d]["l"] # NIL => T.n[d]["l"] \in D /\ T.n[d]["l"] \in sub[d]
      BY <1>2, Beside
    <2>3. T.n[d].hash \in Nat
      BY NodeFacts DEF Shaped
    <2>4. ASSUME Sorted(T.n, sub)
          PROVE  /\ \A e \in sub[T.n[d]["l"]] : T.n[e].hash < T.n[d].hash
                 /\ \A e \in sub[T.n[d]["r"]] : T.n[d].hash < T.n[e].hash
      <3>1. /\ \A e \in sub[T.n[d]["l"]] : Before("l", T.n[e].hash, T.n[d].hash)
            /\ \A e \in sub[T.n[d]["r"]] : Before("r", T.n[e].hash, T.n[d].hash)
        BY <1>2, <2>4 DEF Sorted
      <3> QED  BY <3>1 DEF Before
    <2> QED  BY <2>1, <2>2, <2>3, <2>4
  <1>5. Shut(L) /\ a \in L
    <2>1. Low(a)
      OBVIOUS
    <2>2. SUFFICES ASSUME NEW d \in L, T.n[d].l # NIL  PROVE T.n[d].l \in L
      BY <1>3, <2>1
    <2>3. d \in sub[a] /\ Low(d) /\ d \in D /\ sub[d] \subseteq sub[a]
      BY <1>3, Downward
    <2>4. T.n[d].l \in D /\ T.n[d].l \in sub[a] /\ T.n[d].l \in sub[T.n[d].l]
      BY <1>2, <1>4, <2>2, <2>3, Beside
    <2>5. ASSUME Sorted(T.n, sub), NEW e \in sub[a]
          PROVE  e \in sub[T.n[d].l] \/ T.n[T.n[d].l].hash < T.n[e].hash
      <3>1. T.n[T.n[d].l].hash < T.n[d].hash /\ T.n[d].hash \in Nat /\ T.n[T.n[d].l].hash \in Nat
        BY <1>4, <2>3, <2>4, <2>5
      <3>2. e \in D /\ T.n[e].hash \in Nat
        BY <1>3, <1>4
      <3>3. CASE e \in sub[d]
        <4>1. e = d \/ e \in sub[T.n[d].l] \/ e \in sub[T.n[d].r]
          BY <1>4, <2>3, <3>3
        <4>2. e \in sub[T.n[d].r] => T.n[d].hash < T.n[e].hash
          BY <1>4, <2>3, <2>5
        <4> QED  BY <3>1, <3>2, <4>1, <4>2
      <3>4. CASE T.n[d].hash < T.n[e].hash
        BY <3>1, <3>2, <3>4
      <3> QED  BY <2>3, <2>5, <3>3, <3>4
    <2>6. Low(T.n[d].l)
      BY <2>5
    <2> QED  BY <2>4, <2>6
  <1>6. R \subseteq L
    <2>1. L \in SUBSET D
      BY <1>3
    <2> HIDE DEF L, Shut, R
    <2> QED  BY <1>1, <1>5, <2>1
  <1>7. \E b \in R : T.n[b].l = NIL
    <2>1. a \in R
      BY <1>1
    <2>2. Shut(R)
      <3> SUFFICES ASSUME NEW b \in R, T.n[b]["l"] # NIL  PROVE T.n[b]["l"] \in R
        OBVIOUS
      <3>1. b \in D /\ T.n[b]["l"] \in D
        BY <1>1, <1>2, Beside
      <3>2. ASSUME NEW C \in SUBSET D, a \in C, Shut(C)  PROVE T.n[b]["l"] \in C
        <4>1. b \in C
          <5> HIDE DEF Shut, R
          <5> QED  BY <1>1, <3>2
        <4> QED  BY <3>2, <4>1
      <3> HIDE DEF Shut, R
      <3> QED  BY <1>1, <3>1, <3>2
    <2>3. R \subseteq D
      BY <1>1
    <2>4. F \subseteq SUBSET D /\ F # {}
      BY <1>3, <2>1, <2>3
    <2>5. \E s \in F : \A t \in F : t \subseteq s => t = s
      <3> HIDE DEF F, R
      <3> QED  BY <2>4, SmallestSet
    <2>6. PICK b \in R : \A t \in F : t \subseteq sub[b] => t = sub[b]
      <3> HIDE DEF R
      <3> QED  BY <2>5
    <2>7. ASSUME T.n[b]["l"] # NIL  PROVE FALSE
      <3>1. T.n[b]["l"] \in R /\ b \in D
        BY <2>2, <2>3, <2>7
      <3> HIDE DEF R
      <3>2. sub[T.n[b]["l"]] \in F
        BY <3>1
      <3>3. sub[T.n[b]["l"]] \subseteq sub[b] /\ b \in sub[b] /\ b \notin sub[T.n[b]["l"]]
        BY <1>2, <1>4, <2>7, <3>1
      <3> HIDE DEF F
      <3> QED  BY <2>6, <3>2, <3>3
    <2> QED  BY <2>7
  <1>8. m \in R /\ T.n[m].l = NIL
    <2> HIDE DEF R
    <2>1. m = CHOOSE b \in R : T.n[b].l = NIL
      BY DEF Minimum, R
    <2> HIDE DEF m
    <2> QED  BY <1>7, <2>1
  <1> HIDE DEF R, m
  <1>9. m \in sub[a] /\ Low(m) /\ m \in D
    BY <1>3, <1>6, <1>8
  <1>10. ASSUME Sorted(T.n, sub), NEW d \in sub[a], d # m  PROVE T.n[m].hash < T.n[d].hash
    <2>1. d \in sub[m] \/ T.n[m].hash < T.n[d].hash
      BY <1>9, <1>10
    <2>2. sub[m] = {m} \cup sub[T.n[m].r]
      BY <1>3, <1>4, <1>8, <1>9
    <2> QED  BY <1>4, <1>9, <1>10, <2>1, <2>2
  <1> QED  BY <1>8, <1>9, <1>10 DEF m

-----------------------------------------------------------------------------
(* The place and the links of a node u pass to v, a new one.               *)
As(u, v, a) == IF a = u THEN v ELSE a

Replaced(N, M, u, v) ==
  LET E == (DOMAIN N \ {u}) \cup {v} IN
  /\ DOMAIN M = E /\ M \in [E -> Node(E)]
  /\ \A a \in DOMAIN N : /\ \A f \in Pointers : M[As(u, v, a)][f] = As(u, v, N[a][f])
                         /\ a # u => M[a].hash = N[a].hash

ReplacedSub(N, sub, u, v) ==
  [a \in ((DOMAIN N \ {u}) \cup {v}) \cup {NIL} |-> {As(u, v, d) : d \in sub[As(v, u, a)]}]

LEMMA ReplacedShape ==
  ASSUME NEW N, NEW sub, Shaped(N, sub), NEW u \in DOMAIN N, NEW v, v \notin DOMAIN N, v # NIL,
         NEW M, Replaced(N, M, u, v)
  PROVE  /\ Shaped(M, ReplacedSub(N, sub, u, v))
         /\ /\ Sorted(N, sub) /\ Fits(N, sub, u, M[v].hash, {u})
            /\ \A g \in Sides : \A b \in sub[N[u][g]] : Before(g, N[b].hash, M[v].hash)
            => Sorted(M, ReplacedSub(N, sub, u, v))
         /\ \A q \in DOMAIN N : Rules(N, sub, q, {})
                                  => Rules(M, ReplacedSub(N, sub, u, v), As(u, v, q), {})
  <1> DEFINE D == DOMAIN N
             E == (D \ {u}) \cup {v}
             S == ReplacedSub(N, sub, u, v)
             R(a) == As(u, v, a)
             B(a) == As(v, u, a)
  <1>1. /\ NIL \notin D /\ sub \in [D \cup {NIL} -> SUBSET D] /\ sub[NIL] = {}
        /\ \A a \in D, g \in Sides : /\ sub[a] = {a} \cup sub[N[a][g]] \cup sub[N[a][Other(g)]]
                                     /\ sub[N[a][g]] \cap sub[N[a][Other(g)]] = {}
                                     /\ a \notin sub[N[a][g]]
                                     /\ N[a][g] # NIL => N[N[a][g]].p = a
        /\ \A a \in D : N[a].p # NIL => \E g \in Sides : N[N[a].p][g] = a
        /\ \A a \in D, g \in Sides : N[a][g] \in D \cup {NIL}
        /\ \A a \in D : N[a].p \in D \cup {NIL}
    BY NodeFacts DEF Shaped
  <1>2. u \in D /\ v \notin D /\ u # NIL /\ v # NIL /\ u # v
    BY <1>1
  <1>3. /\ \A a \in D \cup {NIL} : R(a) \in E \cup {NIL} /\ B(R(a)) = a /\ (R(a) = NIL <=> a = NIL)
        /\ \A a \in E \cup {NIL} : B(a) \in D \cup {NIL} /\ R(B(a)) = a /\ (B(a) = NIL <=> a = NIL)
        /\ R(u) = v /\ B(v) = u /\ R(NIL) = NIL /\ B(NIL) = NIL
        /\ \A a \in D \ {u} : R(a) = a /\ B(a) = a /\ a \in E
        /\ NIL \notin E
    BY <1>1, <1>2 DEF As
  <1>4. \A a \in D : /\ R(a) \in E
                     /\ M[R(a)].p = R(N[a].p)
                     /\ \A g \in Sides : M[R(a)][g] = R(N[a][g])
                     /\ a # u => M[a].hash = N[a].hash
    <2>1. "p" \in Pointers /\ Sides \subseteq Pointers
      BY DEF Pointers, Sides
    <2>2. \A a \in D : R(a) \in E
      BY <1>1, <1>3
    <2> QED  BY <2>1, <2>2 DEF Replaced
  <1>5. DOMAIN M = E /\ M \in [E -> Node(E)]
    BY DEF Replaced
  <1>6. \A a \in E \cup {NIL} : S[a] = {R(d) : d \in sub[B(a)]}
    BY DEF ReplacedSub
  <1>7. S \in [E \cup {NIL} -> SUBSET E] /\ S[NIL] = {}
    <2>1. \A a \in E \cup {NIL} : S[a] \in SUBSET E
      <3> SUFFICES ASSUME NEW a \in E \cup {NIL}, NEW d \in sub[B(a)]  PROVE R(d) \in E
        BY <1>6
      <3>1. B(a) \in D \cup {NIL}
        BY <1>3
      <3>2. d \in D
        <4> HIDE DEF B
        <4> QED  BY <1>1, <3>1
      <3> QED  BY <1>4, <3>2
    <2>2. S = [a \in E \cup {NIL} |-> S[a]]
      BY DEF ReplacedSub
    <2>3. S[NIL] = {}
      <3>1. S[NIL] = {R(d) : d \in sub[NIL]}
        BY <1>3, <1>6
      <3> QED  BY <1>1, <3>1
    <2> QED  BY <2>1, <2>2, <2>3
  <1> HIDE DEF S, D, E, R, B
  <1>8. \A a \in D \cup {NIL} : S[R(a)] = {R(d) : d \in sub[a]}
    BY <1>3, <1>6
  <1>9. \A a \in D \cup {NIL}, d \in D : R(d) \in S[R(a)] <=> d \in sub[a]
    <2> SUFFICES ASSUME NEW a \in D \cup {NIL}, NEW d \in D  PROVE R(d) \in S[R(a)] <=> d \in sub[a]
      OBVIOUS
    <2>1. ASSUME R(d) \in S[R(a)]  PROVE d \in sub[a]
      <3>1. PICK e \in sub[a] : R(d) = R(e)
        BY <1>8, <2>1
      <3>2. e \in D
        BY <1>1
      <3> QED  BY <1>3, <3>1, <3>2
    <2> QED  BY <1>8, <2>1
  <1>10. ASSUME NEW a \in E  PROVE \E b \in D : a = R(b) /\ b = B(a)
    <2>1. B(a) \in D
      <3>1. B(a) \in D \cup {NIL} /\ (B(a) = NIL <=> a = NIL) /\ a # NIL
        BY <1>3
      <3> QED  BY <3>1
    <2> QED  BY <1>3, <2>1
  <1>11. ASSUME NEW b \in D, NEW g \in Sides
         PROVE  /\ S[R(b)] = {R(b)} \cup S[M[R(b)][g]] \cup S[M[R(b)][Other(g)]]
                /\ S[M[R(b)][g]] \cap S[M[R(b)][Other(g)]] = {}
                /\ R(b) \notin S[M[R(b)][g]]
                /\ M[R(b)][g] # NIL => M[M[R(b)][g]].p = R(b)
    <2>1. Other(g) \in Sides
      BY SideFacts
    <2>2. M[R(b)][g] = R(N[b][g]) /\ M[R(b)][Other(g)] = R(N[b][Other(g)])
      BY <1>4, <2>1
    <2>3. N[b][g] \in D \cup {NIL} /\ N[b][Other(g)] \in D \cup {NIL}
      BY <1>1, <2>1
    <2>4. /\ S[R(b)] = {R(d) : d \in sub[b]} /\ S[R(N[b][g])] = {R(d) : d \in sub[N[b][g]]}
          /\ S[R(N[b][Other(g)])] = {R(d) : d \in sub[N[b][Other(g)]]}
      BY <1>8, <2>3
    <2>5. /\ sub[b] = {b} \cup sub[N[b][g]] \cup sub[N[b][Other(g)]]
          /\ sub[N[b][g]] \cap sub[N[b][Other(g)]] = {} /\ b \notin sub[N[b][g]]
      BY <1>1
    <2>6. S[R(b)] = {R(b)} \cup S[R(N[b][g])] \cup S[R(N[b][Other(g)])]
      BY <2>4, <2>5
    <2>7. S[R(N[b][g])] \cap S[R(N[b][Other(g)])] = {}
      <3> SUFFICES ASSUME NEW d \in sub[N[b][g]], R(d) \in S[R(N[b][Other(g)])]  PROVE FALSE
        BY <2>4
      <3>1. d \in D
        BY <1>1, <2>3
      <3>2. d \in sub[N[b][Other(g)]]
        BY <1>9, <2>3, <3>1
      <3> QED  BY <2>5, <3>2
    <2>8. R(b) \notin S[R(N[b][g])]
      BY <1>9, <2>3, <2>5
    <2>9. ASSUME R(N[b][g]) # NIL  PROVE M[R(N[b][g])].p = R(b)
      <3>1. N[b][g] \in D /\ N[b][g] # NIL
        BY <1>3, <2>3, <2>9
      <3>2. N[N[b][g]].p = b
        BY <1>1, <3>1
      <3> QED  BY <1>4, <3>1, <3>2
    <2> QED  BY <2>2, <2>6, <2>7, <2>8, <2>9
  <1>12. ASSUME NEW b \in D, M[R(b)].p # NIL  PROVE \E g \in Sides : M[M[R(b)].p][g] = R(b)
    <2>1. M[R(b)].p = R(N[b].p) /\ N[b].p # NIL /\ N[b].p \in D
      BY <1>1, <1>3, <1>4, <1>12
    <2>2. PICK g \in Sides : N[N[b].p][g] = b
      BY <1>1, <2>1
    <2> QED  BY <1>4, <2>1, <2>2
  <1>13. Shaped(M, S)
    <2>1. \A a \in E, g \in Sides :
            /\ S[a] = {a} \cup S[M[a][g]] \cup S[M[a][Other(g)]]
            /\ S[M[a][g]] \cap S[M[a][Other(g)]] = {}
            /\ a \notin S[M[a][g]]
            /\ M[a][g] # NIL => M[M[a][g]].p = a
      BY <1>10, <1>11
    <2>2. \A a \in E : M[a].p # NIL => \E g \in Sides : M[M[a].p][g] = a
      BY <1>10, <1>12
    <2>3. NIL \notin E
      BY <1>3
    <2> QED  BY <1>5, <1>7, <2>1, <2>2, <2>3 DEF Shaped
  <1>14. ASSUME Sorted(N, sub), Fits(N, sub, u, M[v].hash, {u}),
                \A g \in Sides : \A b \in sub[N[u][g]] : Before(g, N[b].hash, M[v].hash)
         PROVE  Sorted(M, S)
    <2> SUFFICES ASSUME NEW a \in E, NEW g \in Sides, NEW b \in S[M[a][g]]
                 PROVE  Before(g, M[b].hash, M[a].hash)
      BY <1>5 DEF Sorted
    <2>1. PICK c \in D : a = R(c)
      BY <1>10
    <2>2. M[a][g] = R(N[c][g]) /\ N[c][g] \in D \cup {NIL}
      BY <1>1, <1>4, <2>1
    <2>3. PICK d \in sub[N[c][g]] : b = R(d)
      BY <1>8, <2>2
    <2>4. d \in D /\ d # c
      BY <1>1, <2>2
    <2>5. Before(g, N[d].hash, N[c].hash)
      BY <1>14 DEF Sorted, D
    <2>6. CASE c # u /\ d # u
      <3>1. a = c /\ b = d /\ M[a].hash = N[c].hash /\ M[b].hash = N[d].hash
        BY <1>3, <1>4, <2>1, <2>3, <2>4, <2>6
      <3> QED  BY <2>5, <3>1
    <2>7. CASE c = u
      <3>1. a = v /\ b = d /\ M[b].hash = N[d].hash
        BY <1>3, <1>4, <2>1, <2>3, <2>4, <2>7
      <3> QED  BY <1>14, <2>7, <3>1
    <2>8. CASE d = u
      <3>1. b = v /\ a = c /\ M[a].hash = N[c].hash /\ c \in D \ {u}
        BY <1>3, <1>4, <2>1, <2>3, <2>4, <2>8
      <3> QED  BY <1>14, <2>8, <3>1 DEF Fits, D
    <2> QED  BY <2>6, <2>7, <2>8
  <1>15. ASSUME NEW q \in D, Rules(N, sub, q, {})  PROVE Rules(M, S, R(q), {})
    <2>1. sub[q] = D /\ N[q].p = NIL
      BY <1>1, <1>15 DEF Rules, D
    <2>2. S[R(q)] = {R(d) : d \in D} /\ M[R(q)].p = NIL
      BY <1>3, <1>4, <1>8, <2>1
    <2>3. {R(d) : d \in D} = E
      <3>1. \A d \in D : R(d) \in E
        BY <1>4
      <3>2. \A e \in E : \E d \in D : e = R(d)
        BY <1>10
      <3> QED  BY <3>1, <3>2
    <2> QED  BY <1>5, <2>2, <2>3 DEF Rules
  <1> QED  BY <1>13, <1>14, <1>15 DEF S, D, R

-----------------------------------------------------------------------------
(* ecache_delete.                                                          *)
Transplanted(N, M, u, v) ==
  /\ Like(N, M)
  /\ \A a \in DOMAIN N :
       /\ M[a].p = IF a = v THEN N[u].p ELSE N[a].p
       /\ \A t \in Sides : M[a][t] = IF N[a][t] = u THEN v ELSE N[a][t]

LEMMA TransplantIs ==
  ASSUME NEW N, NEW u, Kin(N, u), NEW v \in DOMAIN N \cup {NIL}, v # u, NEW q
  PROVE  \E M : /\ Transplant([root |-> q, n |-> N], u, v)
                     = [root |-> IF N[u].p = NIL THEN v ELSE q, n |-> M]
                /\ Transplanted(N, M, u, v)
  <1> DEFINE D == DOMAIN N
             L == Linked(N, u, v)
             Q == IF N[u].p = NIL THEN v ELSE q
             w == N[u].p
             E == Set(L, v, "p", w)
             M == IF v = NIL THEN L ELSE E
  <1>1. /\ DOMAIN L = D /\ L \in [D -> Node(D)]
        /\ \A a \in D : /\ L[a].hash = N[a].hash /\ L[a].black = N[a].black /\ L[a].p = N[a].p
                        /\ \A t \in Sides : L[a][t] = IF N[a][t] = u THEN v ELSE N[a][t]
    BY LinkedIs DEF Like
  <1>2. Transplant([root |-> q, n |-> N], u, v) = [root |-> Q, n |-> M]
    <2>1. Relink([root |-> q, n |-> N], u, v) = [root |-> Q, n |-> L]
      BY RelinkIs
    <2> HIDE DEF L, Q
    <2>2. Point([root |-> Q, n |-> L], v, "p", w) = [root |-> Q, n |-> E]
      BY PointIs
    <2> QED  BY <2>1, <2>2 DEF Transplant
  <1>3. u \in D /\ NIL \notin D /\ w \in D \cup {NIL}
    BY NodeFacts DEF Kin
  <1> HIDE DEF L, w
  <1>4. CASE v = NIL
    <2>1. M = L /\ \A a \in D : a # v
      BY <1>3, <1>4
    <2> HIDE DEF M
    <2>2. Like(N, M)
      BY <1>1, <2>1 DEF Like
    <2>3. \A a \in D : /\ M[a].p = IF a = v THEN N[u].p ELSE N[a].p
                       /\ \A t \in Sides : M[a][t] = IF N[a][t] = u THEN v ELSE N[a][t]
      BY <1>1, <2>1
    <2> QED  BY <1>2, <2>2, <2>3 DEF Transplanted
  <1>5. CASE v # NIL
    <2>1. M = E /\ v \in D /\ "p" \in Pointers /\ Sides \subseteq Pointers /\ "p" \notin Sides
      BY <1>5 DEF Pointers, Sides
    <2>2. /\ DOMAIN M = D /\ M \in [D -> Node(D)]
          /\ \A d \in D : /\ M[d].hash = L[d].hash /\ M[d].black = L[d].black
                          /\ \A g \in Pointers : M[d][g] = IF d = v /\ g = "p" THEN w ELSE L[d][g]
      BY ONLY <1>1, <1>3, <2>1, SetIs
    <2> HIDE DEF M
    <2>3. Like(N, M)
      BY <1>1, <2>2 DEF Like
    <2>4. \A a \in D : /\ M[a].p = IF a = v THEN N[u].p ELSE N[a].p
                       /\ \A t \in Sides : M[a][t] = IF N[a][t] = u THEN v ELSE N[a][t]
      BY <1>1, <2>1, <2>2 DEF w
    <2> QED  BY <1>2, <2>3, <2>4 DEF Transplanted
  <1> QED  BY <1>4, <1>5

\* A node to which nothing leads any more can go.
LEMMA WithoutIs ==
  ASSUME NEW D, NEW N \in [D -> Node(D)], NEW u,
         \A a \in D \ {u} : N[a].p # u /\ \A t \in Sides : N[a][t] # u
  PROVE  LET M == [a \in D \ {u} |-> N[a]] IN
         /\ DOMAIN M = D \ {u} /\ M \in [D \ {u} -> Node(D \ {u})]
         /\ \A a \in D \ {u} : M[a] = N[a]
  <1>1. \A a \in D \ {u} : N[a] \in Node(D \ {u})
    <2> TAKE a \in D \ {u}
    <2>1. N[a] \in Node(D) /\ N[a].p # u /\ N[a].l # u /\ N[a].r # u
      BY DEF Sides
    <2> QED  BY <2>1 DEF Node
  <1> QED  BY <1>1

\* The node u goes; the others stay, in order, below one root.
Unlinked(N, U, u) ==
  LET E == DOMAIN N \ {u} IN
  \E M, S : /\ U.tree = [root |-> U.tree.root, n |-> M]
            /\ DOMAIN M = E /\ \A a \in E : M[a].hash = N[a].hash
            /\ Shaped(M, S) /\ Sorted(M, S)
            /\ U.tree.root \in E \cup {NIL} /\ Rules(M, S, U.tree.root, {})
            /\ U.x \in E \cup {NIL} /\ U.xp \in E \cup {NIL}
            /\ U.xp = NIL => U.x = U.tree.root

\* One child at the most.
LEMMA UnlinkOneIs ==
  ASSUME NEW N, NEW sub, Shaped(N, sub), NEW u \in DOMAIN N, NEW q, N[u].l = NIL \/ N[u].r = NIL
  PROVE  LET U == Unlink([root |-> q, n |-> N], u)
             c == IF N[u].l = NIL THEN N[u].r ELSE N[u].l
         IN \E M : /\ U.tree = [root |-> IF N[u].p = NIL THEN c ELSE q, n |-> M]
                   /\ U.x = c /\ U.xp = N[u].p /\ U.fix = N[u].black
                   /\ Removed(N, M, u, c)
  <1> DEFINE D == DOMAIN N
             E == D \ {u}
             T == [root |-> q, n |-> N]
             U == Unlink(T, u)
             c == IF N[u].l = NIL THEN N[u].r ELSE N[u].l
  <1>1. PICK s \in Sides : N[u][s] = NIL /\ c = N[u][Other(s)]
    <2>1. CASE N[u].l = NIL
      BY <2>1, SideFacts
    <2>2. CASE N[u].l # NIL
      BY <2>2, SideFacts
    <2> QED  BY <2>1, <2>2
  <1>2. /\ c \in E \cup {NIL} /\ N[u].p \in E \cup {NIL}
        /\ NIL \notin D
    <2>1. Other(s) \in Sides
      BY SideFacts
    <2>2. N[u].p # NIL => N[u].p \in D \ sub[u]
      BY <1>1, Beside
    <2>3. u \in sub[u]
      BY <1>1, Beside
    <2>4. c # NIL => c \in D \ {u}
      BY <1>1, <2>1, Beside
    <2> HIDE DEF c
    <2> QED  BY <2>2, <2>3, <2>4 DEF Shaped
  <1>3. Kin(N, u) /\ c \in D \cup {NIL} /\ c # u
    <2>1. Kin(N, u)
      BY KinIs
    <2> HIDE DEF c
    <2> QED  BY <1>2, <2>1
  <1> HIDE DEF c
  <1>30. PICK K : /\ Transplant(T, u, c) = [root |-> IF N[u].p = NIL THEN c ELSE q, n |-> K]
                  /\ Transplanted(N, K, u, c)
    BY <1>3, TransplantIs
  <1>4. /\ Transplant(T, u, c) = [root |-> IF N[u].p = NIL THEN c ELSE q, n |-> K]
        /\ Like(N, K)
        /\ \A a \in D : /\ K[a].p = IF a = c THEN N[u].p ELSE N[a].p
                        /\ \A t \in Sides : K[a][t] = IF N[a][t] = u THEN c ELSE N[a][t]
    BY <1>30 DEF Transplanted
  <1> DEFINE M == [a \in E |-> K[a]]
             Q == IF N[u].p = NIL THEN c ELSE q
  <1>5. DOMAIN K = D /\ K \in [D -> Node(D)]
        /\ \A a \in D : K[a].hash = N[a].hash /\ K[a].black = N[a].black
    BY <1>4 DEF Like
  <1>6. U.tree = [root |-> Q, n |-> M] /\ U.x = c /\ U.xp = N[u].p /\ U.fix = N[u].black
    <2>1. T.n = N
      OBVIOUS
    <2>2. [Transplant(T, u, c) EXCEPT !.n = [a \in DOMAIN Transplant(T, u, c).n \ {u} |-> Transplant(T, u, c).n[a]]]
            = [root |-> Q, n |-> M]
      BY <1>4, <1>5
    <2> HIDE DEF T, M, Q
    <2> QED  BY <2>1, <2>2, Zenon DEF Unlink, c
  <1>7. \A a \in E : K[a].p # u /\ \A t \in Sides : K[a][t] # u
    <2> TAKE a \in E
    <2>1. K[a].p # u
      <3>1. CASE a = c
        BY <1>2, <1>4, <3>1
      <3>2. CASE a # c
        <4>1. ASSUME N[a].p = u  PROVE FALSE
          <5>1. u # NIL /\ a # NIL
            BY <1>2
          <5>2. PICK g \in Sides : N[u][g] = a
            BY <4>1, <5>1 DEF Shaped
          <5>3. g = s \/ g = Other(s)
            BY <1>1, SideFacts
          <5> HIDE DEF c
          <5> QED  BY <1>1, <3>2, <5>1, <5>2, <5>3
        <4> HIDE DEF c
        <4> QED  BY <1>4, <3>2, <4>1
      <3> QED  BY <3>1, <3>2
    <2>2. \A t \in Sides : K[a][t] # u
      <3> HIDE DEF c
      <3>1. c # u
        BY <1>2
      <3> QED  BY <1>4, <3>1
    <2> QED  BY <2>1, <2>2
  <1>8. /\ DOMAIN M = E /\ M \in [E -> Node(E)] /\ \A a \in E : M[a] = K[a]
    BY <1>5, <1>7, WithoutIs
  <1> HIDE DEF M
  <1>9. Removed(N, M, u, c)
    <2> HIDE DEF c
    <2>1. \A a \in E : /\ a \in D /\ M[a] = K[a]
                       /\ M[a].hash = N[a].hash /\ M[a].black = N[a].black
      BY <1>5, <1>8
    <2>2. \A a \in E : /\ M[a].p = IF a = c THEN N[u].p ELSE N[a].p
                       /\ \A t \in Sides : M[a][t] = IF N[a][t] = u THEN c ELSE N[a][t]
      BY <1>4, <2>1
    <2> QED  BY <1>8, <2>1, <2>2 DEF Removed
  <1> QED  BY <1>6, <1>9, Zenon DEF Q, c

LEMMA UnlinkOne ==
  ASSUME NEW N, NEW sub, Shaped(N, sub), IsFiniteSet(DOMAIN N), NEW u \in DOMAIN N,
         Sorted(N, sub), NEW q \in DOMAIN N, Rules(N, sub, q, {}),
         N[u].l = NIL \/ N[u].r = NIL
  PROVE  Unlinked(N, Unlink([root |-> q, n |-> N], u), u)
  <1> DEFINE D == DOMAIN N
             E == D \ {u}
             T == [root |-> q, n |-> N]
             U == Unlink(T, u)
             c == IF N[u].l = NIL THEN N[u].r ELSE N[u].l
             S == RemovedSub(N, sub, u)
             Q == IF N[u].p = NIL THEN c ELSE q
  <1>1. PICK s \in Sides : N[u][s] = NIL /\ c = N[u][Other(s)]
    <2>1. CASE N[u].l = NIL
      BY <2>1, SideFacts
    <2>2. CASE N[u].l # NIL
      BY <2>2, SideFacts
    <2> QED  BY <2>1, <2>2
  <1>2. /\ c \in E \cup {NIL} /\ N[u].p \in E \cup {NIL}
        /\ NIL \notin D
    <2>1. Other(s) \in Sides
      BY SideFacts
    <2>2. N[u].p # NIL => N[u].p \in D \ sub[u]
      BY <1>1, Beside
    <2>3. u \in sub[u]
      BY <1>1, Beside
    <2>4. c # NIL => c \in D \ {u}
      BY <1>1, <2>1, Beside
    <2> HIDE DEF c
    <2> QED  BY <2>2, <2>3, <2>4 DEF Shaped
  <1>3. PICK M : /\ U.tree = [root |-> Q, n |-> M] /\ U.x = c /\ U.xp = N[u].p
                 /\ Removed(N, M, u, c)
    BY UnlinkOneIs
  <1> HIDE DEF c
  <1>8. DOMAIN M = E /\ \A a \in E : M[a].hash = N[a].hash
    BY <1>3 DEF Removed
  <1>10. Shaped(M, S) /\ Sorted(M, S)
    BY <1>1, <1>3, RemovedShape
  <1>11. (N[u].p = NIL <=> q = u) /\ Rules(M, S, IF q = u THEN c ELSE q, {})
    BY <1>1, <1>3, RemovedRoot
  <1>12. Q = (IF q = u THEN c ELSE q) /\ Q \in E \cup {NIL} /\ (N[u].p = NIL => c = Q)
    BY <1>2, <1>11
  <1> HIDE DEF U, S, Q
  <1>14. U.tree.root = Q
    BY <1>3
  <1>15. /\ U.tree = [root |-> U.tree.root, n |-> M]
         /\ DOMAIN M = E /\ \A a \in E : M[a].hash = N[a].hash
         /\ Shaped(M, S) /\ Sorted(M, S)
         /\ U.tree.root \in E \cup {NIL} /\ Rules(M, S, U.tree.root, {})
         /\ U.x \in E \cup {NIL} /\ U.xp \in E \cup {NIL}
         /\ U.xp = NIL => U.x = U.tree.root
    BY <1>2, <1>3, <1>8, <1>10, <1>11, <1>12, <1>14
  <1> QED  BY <1>15 DEF U, Unlinked

\* The nodes around one with two children, and one that has no left child
\* among those on its right.
Successor(N, sub, u, m) ==
  /\ u \in DOMAIN N /\ N[u].l # NIL /\ N[u].r # NIL
  /\ m \in sub[N[u].r] /\ N[m].l = NIL

LEMMA SuccessorIs ==
  ASSUME NEW N, NEW sub, Shaped(N, sub), IsFiniteSet(DOMAIN N), NEW u, NEW m,
         Successor(N, sub, u, m)
  PROVE  LET l == N[u].l
             r == N[u].r
             c == N[m].r
             D == DOMAIN N
         IN /\ NIL \notin D /\ N \in [D -> Node(D)] /\ u \in D /\ l \in D /\ r \in D /\ m \in D
            /\ c \in D \cup {NIL} /\ N[u].p \in D \cup {NIL} /\ N[m].p \in D
            /\ u # l /\ u # r /\ u # m /\ u # c /\ l # r /\ l # m /\ l # c /\ m # c /\ r # c
            /\ N[u].p # u /\ N[u].p # m
            /\ N[l].p = u /\ N[r].p = u /\ (c # NIL => N[c].p = m)
            /\ N[m].p = u <=> m = r
            /\ N[m].l = NIL
            /\ \A a \in D : /\ N[a].p = u => a = l \/ a = r
                            /\ N[a].p = m => a = c
            /\ \A a \in D, t \in Sides : /\ N[a][t] = m => a = N[m].p
                                         /\ N[a][t] = u => a = N[u].p
            /\ sub[m] \subseteq sub[r] /\ u \notin sub[r] /\ m \in sub[u]
            /\ sub[c] \subseteq sub[r]
  <1> DEFINE D == DOMAIN N
             l == N[u]["l"]
             r == N[u]["r"]
             c == N[m]["r"]
  <1>1. "l" \in Sides /\ "r" \in Sides /\ Other("l") = "r" /\ Other("r") = "l" /\ Sides = {"l", "r"}
    BY SideFacts
  <1>2. /\ NIL \notin D /\ N \in [D -> Node(D)] /\ u \in D /\ u # NIL
        /\ l # NIL /\ r # NIL /\ m \in sub[r] /\ N[m]["l"] = NIL
    BY DEF Shaped, Successor
  <1>3. /\ l \in D \ {u} /\ l \in sub[l] /\ l # r /\ N[l].p = u
        /\ r \in D \ {u} /\ r \in sub[r] /\ N[r].p = u
        /\ N[u].p # NIL => N[u].p \in D \ sub[u]
        /\ u \in sub[u] /\ sub[r] \subseteq sub[u]
    BY <1>1, <1>2, Beside
  <1>4. u \notin sub[r] /\ u \notin sub[l] /\ sub[l] \cap sub[r] = {}
    BY <1>1, <1>2 DEF Shaped
  <1>5. m \in D /\ sub[m] \subseteq sub[r] /\ (m # r => N[m].p # NIL /\ N[m].p \in sub[r])
    <2> HIDE DEF r
    <2> QED  BY <1>2, <1>3, Downward
  <1>6. c # NIL => c \in D \ {m} /\ c \in sub[m] /\ N[c].p = m
    BY <1>1, <1>5, Beside
  <1>7. m # NIL /\ m # u /\ m # l /\ c # u /\ c # l
    BY <1>2, <1>3, <1>4, <1>5, <1>6
  <1>8. N[m].p = u <=> m = r
    <2>1. m # r => N[m].p # u
      BY <1>4, <1>5
    <2> QED  BY <1>3, <2>1
  <1>9. c # r
    <2> SUFFICES ASSUME c = r  PROVE FALSE
      OBVIOUS
    <2>1. N[r].p = m
      BY <1>2, <1>6
    <2> QED  BY <1>3, <1>7, <2>1
  <1>10. N[m].p \in D
    <2>1. sub[r] \in SUBSET D
      BY <1>3 DEF Shaped
    <2> QED  BY <1>2, <1>3, <1>5, <2>1
  <1>11. \A a \in D : N[a].p = u => a = l \/ a = r
    <2> SUFFICES ASSUME NEW a \in D, N[a].p = u  PROVE a = l \/ a = r
      OBVIOUS
    <2>1. PICK g \in Sides : N[u][g] = a
      BY <1>2 DEF Shaped
    <2> QED  BY <1>1, <2>1
  <1>12. \A a \in D : N[a].p = m => a = c
    <2> SUFFICES ASSUME NEW a \in D, N[a].p = m  PROVE a = c
      OBVIOUS
    <2>1. PICK g \in Sides : N[m][g] = a
      BY <1>7 DEF Shaped
    <2> QED  BY <1>1, <1>2, <2>1
  <1>13. \A a \in D, t \in Sides : (N[a][t] = m => a = N[m].p) /\ (N[a][t] = u => a = N[u].p)
    BY <1>2, <1>7 DEF Shaped
  <1>14. N[u].p # u /\ N[u].p # m
    <2>1. N[u].p = NIL \/ N[u].p \notin sub[u]
      BY <1>3
    <2>2. m \in sub[u]
      BY <1>2, <1>3
    <2> QED  BY <1>2, <1>3, <1>7, <2>1, <2>2
  <1>15. sub[c] \subseteq sub[r]
    <2>1. sub[c] \subseteq sub[m]
      BY <1>1, <1>5, Beside
    <2> QED  BY <1>5, <2>1
  <1>16. c \in D \cup {NIL} /\ N[u].p \in D \cup {NIL} /\ m \in sub[u] /\ c # m
    BY <1>2, <1>3, <1>6, <1>7
  <1> HIDE DEF l, r, c, D
  <1>17. l = N[u].l /\ r = N[u].r /\ c = N[m].r /\ N[m].l = N[m]["l"] /\ D = DOMAIN N
    BY DEF l, r, c, D
  <1> QED
    BY <1>2, <1>3, <1>4, <1>5, <1>6, <1>7, <1>8, <1>9, <1>10, <1>11, <1>12, <1>13, <1>14, <1>15,
       <1>16, <1>17

\* A successor further down leaves its place to its right child, and takes
\* the right child of the node that goes.
Aside(T, u, m) ==
  IF T.n[m].p = u THEN T
  ELSE LET U == Transplant(T, m, T.n[m].r)
           V == Point(U, m, "r", U.n[u].r)
       IN IF V.n[m].r = NIL THEN V ELSE Point(V, V.n[m].r, "p", m)

MovedAside(N, K, u, m) ==
  /\ Like(N, K)
  /\ \A a \in DOMAIN N :
       /\ K[a].p = IF m = N[u].r THEN N[a].p ELSE IF a = N[u].r THEN m
                   ELSE IF a = N[m].r THEN N[m].p ELSE N[a].p
       /\ \A t \in Sides :
            K[a][t] = IF m = N[u].r THEN N[a][t] ELSE IF a = m /\ t = "r" THEN N[u].r
                      ELSE IF N[a][t] = m THEN N[m].r ELSE N[a][t]

LEMMA AsideIs ==
  ASSUME NEW N, NEW sub, Shaped(N, sub), IsFiniteSet(DOMAIN N), NEW u, NEW m,
         Successor(N, sub, u, m), NEW q
  PROVE  \E K : /\ Aside([root |-> q, n |-> N], u, m) = [root |-> q, n |-> K]
                /\ MovedAside(N, K, u, m)
  <1> DEFINE D == DOMAIN N
             T == [root |-> q, n |-> N]
             r == N[u].r
             c == N[m].r
  <1>1. /\ NIL \notin D /\ N \in [D -> Node(D)] /\ u \in D /\ r \in D /\ m \in D
        /\ c \in D \cup {NIL} /\ N[m].p \in D
        /\ u # r /\ u # m /\ u # c /\ m # c /\ r # c
        /\ N[m].p = u <=> m = r
    BY SuccessorIs
  <1>2. T.n = N /\ T.n[m].r = c
    OBVIOUS
  <1>3. CASE m = r
    <2>1. Aside(T, u, m) = T
      BY <1>1, <1>3 DEF Aside
    <2>2. MovedAside(N, N, u, m)
      BY <1>1, <1>3 DEF MovedAside, Like
    <2> QED  BY <2>1, <2>2
  <1>4. CASE m # r
    <2>1. Kin(N, m)
      BY <1>1, KinIs
    <2>2. PICK K1 : Transplant(T, m, c) = [root |-> IF N[m].p = NIL THEN c ELSE q, n |-> K1]
                    /\ Transplanted(N, K1, m, c)
      <3> HIDE DEF c
      <3> QED  BY <1>1, <2>1, TransplantIs
    <2>3. Transplant(T, m, c) = [root |-> q, n |-> K1]
      <3>1. N[m].p # NIL
        BY <1>1
      <3> QED  BY <2>2, <3>1
    <2>4. /\ DOMAIN K1 = D /\ K1 \in [D -> Node(D)]
          /\ \A a \in D : K1[a].hash = N[a].hash /\ K1[a].black = N[a].black
          /\ \A a \in D : /\ K1[a].p = IF a = c THEN N[m].p ELSE N[a].p
                          /\ \A t \in Sides : K1[a][t] = IF N[a][t] = m THEN c ELSE N[a][t]
      BY <2>2 DEF Transplanted, Like
    <2>5. K1[u].r = r
      <3>1. K1[u]["r"] = IF N[u]["r"] = m THEN c ELSE N[u]["r"]
        BY <1>1, <2>4 DEF Sides
      <3> QED  BY <1>4, <3>1
    <2> DEFINE K2 == Set(K1, m, "r", r)
               K3 == Set(K2, r, "p", m)
    <2>6. Point([root |-> q, n |-> K1], m, "r", r) = [root |-> q, n |-> K2]
      BY PointIs
    <2>0. "p" \in Pointers /\ "r" \in Pointers /\ Sides \subseteq Pointers /\ "p" \notin Sides
      BY DEF Pointers, Sides
    <2>7. /\ DOMAIN K2 = D /\ K2 \in [D -> Node(D)]
          /\ \A d \in D : /\ K2[d].hash = K1[d].hash /\ K2[d].black = K1[d].black
                          /\ \A g \in Pointers : K2[d][g] = IF d = m /\ g = "r" THEN r ELSE K1[d][g]
      <3>1. m \in D /\ r \in D \cup {NIL}
        BY <1>1
      <3> QED  BY ONLY <2>0, <2>4, <3>1, SetIs DEF K2
    <2> HIDE DEF K2
    <2>8. Point([root |-> q, n |-> K2], r, "p", m) = [root |-> q, n |-> K3]
      BY PointIs
    <2>9. /\ DOMAIN K3 = D /\ K3 \in [D -> Node(D)]
          /\ \A d \in D : /\ K3[d].hash = K2[d].hash /\ K3[d].black = K2[d].black
                          /\ \A g \in Pointers : K3[d][g] = IF d = r /\ g = "p" THEN m ELSE K2[d][g]
      <3>1. r \in D /\ m \in D \cup {NIL}
        BY <1>1
      <3> QED  BY ONLY <2>0, <2>7, <3>1, SetIs DEF K3
    <2> HIDE DEF K3
    <2>10. Aside(T, u, m) = [root |-> q, n |-> K3]
      <3>1. K2[m]["r"] = r /\ r # NIL
        BY <1>1, <2>0, <2>7
      <3>2. [root |-> q, n |-> K1].n[u].r = r
        BY <2>5
      <3>3. [root |-> q, n |-> K2].n[m].r = r
        BY <3>1
      <3>4. T.n[m].p # u
        BY <1>1, <1>4
      <3> HIDE DEF r, c, T
      <3> QED  BY <1>2, <2>3, <2>6, <2>8, <3>1, <3>2, <3>3, <3>4 DEF Aside
    <2> HIDE DEF c, r
    <2>11. \A a \in D : K3[a].p = IF a = r THEN m ELSE IF a = c THEN N[m].p ELSE N[a].p
      <3> TAKE a \in D
      <3>1. K2[a].p = K1[a].p
        BY <2>0, <2>7
      <3>2. K3[a].p = IF a = r THEN m ELSE K2[a].p
        BY <2>0, <2>9
      <3> QED  BY <2>4, <3>1, <3>2
    <2>12. \A a \in D, t \in Sides :
             K3[a][t] = IF a = m /\ t = "r" THEN r ELSE IF N[a][t] = m THEN c ELSE N[a][t]
      <3> TAKE a \in D, t \in Sides
      <3>1. K2[a][t] = IF a = m /\ t = "r" THEN r ELSE K1[a][t]
        BY <2>0, <2>7
      <3>2. K3[a][t] = K2[a][t]
        BY <2>0, <2>9
      <3> QED  BY <2>4, <3>1, <3>2
    <2>13. Like(N, K3)
      BY <2>4, <2>7, <2>9 DEF Like
    <2>14. MovedAside(N, K3, u, m)
      BY <1>4, <2>11, <2>12, <2>13 DEF MovedAside, r, c
    <2> QED  BY <2>10, <2>14
  <1> QED  BY <1>3, <1>4

\* What the nodes are when the successor m has taken the place of u.
Succeeded(N, M, u, m) ==
  LET E == DOMAIN N \ {u} IN
  /\ DOMAIN M = E /\ M \in [E -> Node(E)]
  /\ \A a \in E :
       /\ M[a].hash = N[a].hash
       /\ M[a].p = IF a = m THEN N[u].p
                   ELSE IF a = N[u].l \/ a = N[u].r THEN m
                   ELSE IF a = N[m].r THEN IF m = N[u].r THEN m ELSE N[m].p
                   ELSE N[a].p
       /\ \A t \in Sides :
            M[a][t] = IF a = m THEN IF t = "l" THEN N[u].l
                                    ELSE IF m = N[u].r THEN N[m].r ELSE N[u].r
                      ELSE IF N[a][t] = u THEN m
                      ELSE IF N[a][t] = m THEN N[m].r ELSE N[a][t]

\* The root when u gives its place to v.
NewRoot(N, u, v, q) == IF N[u].p = NIL THEN v ELSE q

\* What ecache_delete does with the successor m of u.
TakeOver(A, u, m, l, black) ==
  Paint(Point(Point(Transplant(A, u, m), m, "l", l), l, "p", m), {m}, black)
Gone(C, u) == [C EXCEPT !.n = [a \in DOMAIN C.n \ {u} |-> C.n[a]]]

LEMMA SucceededIs ==
  ASSUME NEW N, NEW sub, Shaped(N, sub), IsFiniteSet(DOMAIN N), NEW u, NEW m,
         Successor(N, sub, u, m), NEW q, NEW black \in BOOLEAN
  PROVE  /\ m # N[u].r => Aside([root |-> q, n |-> N], u, m).n[m].p = N[m].p
         /\ \E M : /\ Gone(TakeOver(Aside([root |-> q, n |-> N], u, m), u, m, N[u].l, black), u)
                        = [root |-> NewRoot(N, u, m, q), n |-> M]
                   /\ Succeeded(N, M, u, m)
  <1> DEFINE D == DOMAIN N
             E == D \ {u}
             T == [root |-> q, n |-> N]
             l == N[u].l
             r == N[u].r
             c == N[m].r
             w == N[u].p
             A == Aside(T, u, m)
             Q == IF N[u].p = NIL THEN m ELSE q
  <1>1. /\ NIL \notin D /\ N \in [D -> Node(D)] /\ u \in D /\ l \in D /\ r \in D /\ m \in D
        /\ c \in D \cup {NIL} /\ w \in D \cup {NIL} /\ N[m].p \in D
        /\ u # l /\ u # r /\ u # m /\ u # c /\ l # r /\ l # m /\ l # c /\ m # c /\ r # c
        /\ w # u /\ w # m
        /\ N[l].p = u /\ N[r].p = u /\ (c # NIL => N[c].p = m)
        /\ N[m].p = u <=> m = r
        /\ N[m].l = NIL
        /\ \A a \in D : /\ N[a].p = u => a = l \/ a = r
                        /\ N[a].p = m => a = c
        /\ \A a \in D, t \in Sides : /\ N[a][t] = m => a = N[m].p
                                     /\ N[a][t] = u => a = w
    BY SuccessorIs
  <1>2. PICK K : A = [root |-> q, n |-> K] /\ MovedAside(N, K, u, m)
    BY AsideIs
  <1>3. /\ DOMAIN K = D /\ K \in [D -> Node(D)]
        /\ \A a \in D : K[a].hash = N[a].hash /\ K[a].black = N[a].black
        /\ \A a \in D :
             /\ K[a].p = IF m = r THEN N[a].p ELSE IF a = r THEN m ELSE IF a = c THEN N[m].p ELSE N[a].p
             /\ \A t \in Sides :
                  K[a][t] = IF m = r THEN N[a][t] ELSE IF a = m /\ t = "r" THEN r
                            ELSE IF N[a][t] = m THEN c ELSE N[a][t]
    BY <1>2 DEF MovedAside, Like
  <1>4. PICK s \in Sides : w # NIL => N[w][s] = u /\ N[w][Other(s)] # u
    <2>1. Kin(N, u)
      BY <1>1, KinIs
    <2> QED  BY <2>1, SideFacts DEF Kin
  <1>0. "p" \in Pointers /\ "r" \in Pointers /\ "l" \in Pointers /\ Sides \subseteq Pointers
        /\ "p" \notin Sides /\ Sides = {"l", "r"} /\ \A t \in Sides : Other(t) \in Sides
    BY SideFacts DEF Pointers
  <1>5. /\ A.n[m].p = IF m = r THEN u ELSE N[m].p
        /\ A.n = K
    BY <1>1, <1>2, <1>3
  <1> HIDE DEF l, r, c, w, D, A, T
  <1>6. Kin(K, u) /\ K[u].p = w
    <2>1. K[u].p = w
      BY <1>1, <1>3 DEF w
    <2>2. \A a \in D, t \in Sides : K[a][t] = u <=> (N[a][t] = u /\ a # m)
      <3> TAKE a \in D, t \in Sides
      <3>1. N[a][t] = u => a = w
        BY <1>1
      <3> QED  BY <1>1, <1>3, <3>1
    <2>3. \A a \in D, t \in Sides : K[a][t] = u => a = w
      BY <1>1, <2>2
    <2>4. w # NIL => K[w][s] = u /\ K[w][Other(s)] # u
      BY <1>0, <1>1, <1>4, <2>2
    <2> QED  BY <1>1, <1>3, <2>1, <2>3, <2>4 DEF Kin
  <1>7. PICK K2 : Transplant(A, u, m) = [root |-> Q, n |-> K2] /\ Transplanted(K, K2, u, m)
    <2>1. m \in DOMAIN K \cup {NIL} /\ m # u
      BY <1>1, <1>3
    <2>2. PICK K2 : /\ Transplant([root |-> q, n |-> K], u, m)
                         = [root |-> IF K[u].p = NIL THEN m ELSE q, n |-> K2]
                    /\ Transplanted(K, K2, u, m)
      BY <1>6, <2>1, TransplantIs
    <2>3. Q = IF K[u].p = NIL THEN m ELSE q
      BY <1>6 DEF w
    <2> QED  BY <1>2, <2>2, <2>3
  <1> HIDE DEF Q
  <1>8. /\ DOMAIN K2 = D /\ K2 \in [D -> Node(D)]
        /\ \A a \in D : K2[a].hash = N[a].hash
        /\ \A a \in D : /\ K2[a].p = IF a = m THEN w ELSE K[a].p
                        /\ \A t \in Sides : K2[a][t] = IF K[a][t] = u THEN m ELSE K[a][t]
    BY <1>3, <1>6, <1>7 DEF Transplanted, Like
  <1> DEFINE K3 == Set(K2, m, "l", l)
             K4 == Set(K3, l, "p", m)
             K5 == Dyed(K4, {m}, black)
             M  == [a \in E |-> K5[a]]
  <1>9. Point([root |-> Q, n |-> K2], m, "l", l) = [root |-> Q, n |-> K3]
    BY PointIs
  <1>10. /\ DOMAIN K3 = D /\ K3 \in [D -> Node(D)]
         /\ \A d \in D : /\ K3[d].hash = K2[d].hash /\ K3[d].black = K2[d].black
                         /\ \A g \in Pointers : K3[d][g] = IF d = m /\ g = "l" THEN l ELSE K2[d][g]
    <2>1. m \in D /\ l \in D \cup {NIL}
      BY <1>1
    <2> QED  BY ONLY <1>0, <1>8, <2>1, SetIs DEF K3
  <1> HIDE DEF K3
  <1>11. Point([root |-> Q, n |-> K3], l, "p", m) = [root |-> Q, n |-> K4]
    BY PointIs
  <1>12. /\ DOMAIN K4 = D /\ K4 \in [D -> Node(D)]
         /\ \A d \in D : /\ K4[d].hash = K3[d].hash /\ K4[d].black = K3[d].black
                         /\ \A g \in Pointers : K4[d][g] = IF d = l /\ g = "p" THEN m ELSE K3[d][g]
    <2>1. l \in D /\ m \in D \cup {NIL}
      BY <1>1
    <2> QED  BY ONLY <1>0, <1>10, <2>1, SetIs DEF K4
  <1> HIDE DEF K4
  <1>13. Paint([root |-> Q, n |-> K4], {m}, black) = [root |-> Q, n |-> K5]
    BY PaintIs
  <1>14. /\ DOMAIN K5 = D /\ K5 \in [D -> Node(D)]
         /\ \A d \in D : /\ K5[d].p = K4[d].p /\ K5[d].l = K4[d].l /\ K5[d].r = K4[d].r
                         /\ K5[d].hash = K4[d].hash
    <2>1. Relinked(K4, K5)
      BY <1>12, DyedIs
    <2> HIDE DEF K5
    <2> QED  BY <1>12, <2>1 DEF Relinked
  <1> HIDE DEF K5
  <1>15. \A a \in D : K5[a].p = IF a = l THEN m ELSE IF a = m THEN w ELSE K[a].p
    <2> TAKE a \in D
    <2>1. K3[a].p = K2[a].p /\ K4[a].p = IF a = l THEN m ELSE K3[a].p
      BY <1>0, <1>10, <1>12
    <2> QED  BY <1>8, <1>14, <2>1
  <1>16. \A a \in D, t \in Sides :
           K5[a][t] = IF a = m /\ t = "l" THEN l ELSE IF K[a][t] = u THEN m ELSE K[a][t]
    <2> TAKE a \in D, t \in Sides
    <2>1. K5[a][t] = K4[a][t]
      BY <1>0, <1>14
    <2>2. K4[a][t] = K3[a][t] /\ K3[a][t] = IF a = m /\ t = "l" THEN l ELSE K2[a][t]
      BY <1>0, <1>10, <1>12
    <2> QED  BY <1>8, <2>1, <2>2
  <1>17. \A a \in E : K5[a].p = IF a = m THEN w ELSE IF a = l \/ a = r THEN m
                                ELSE IF a = c THEN IF m = r THEN m ELSE N[m].p
                                ELSE N[a].p
    <2> TAKE a \in E
    <2>0. a \in D /\ a # NIL
      BY <1>1 DEF D
    <2>1. CASE a = l \/ a = m
      BY <1>1, <1>15, <2>0, <2>1
    <2>2. CASE a = r /\ a # m
      BY <1>1, <1>3, <1>15, <2>0, <2>2
    <2>3. CASE a = c
      BY <1>1, <1>3, <1>15, <2>0, <2>3
    <2>4. CASE a # l /\ a # m /\ a # r /\ a # c
      BY <1>1, <1>3, <1>15, <2>0, <2>4
    <2> QED  BY <2>1, <2>2, <2>3, <2>4
  <1>18. \A a \in E, t \in Sides :
           K5[a][t] = IF a = m THEN IF t = "l" THEN l ELSE IF m = r THEN c ELSE r
                      ELSE IF N[a][t] = u THEN m
                      ELSE IF N[a][t] = m THEN c ELSE N[a][t]
    <2> TAKE a \in E, t \in Sides
    <2>0. a \in D /\ a # u /\ N[m]["r"] = c
      BY DEF D, c
    <2>1. CASE a = m
      BY <1>0, <1>1, <1>3, <1>16, <2>0, <2>1
    <2>2. CASE a # m
      <3>1. m = r => N[a][t] # m
        BY <1>1, <2>0
      <3> QED  BY <1>1, <1>3, <1>16, <2>0, <2>2, <3>1
    <2> QED  BY <2>1, <2>2
  <1>19. \A a \in E : K5[a].p # u /\ \A t \in Sides : K5[a][t] # u
    <2> TAKE a \in E
    <2>0. a \in D /\ (m # r => N[m].p # u)
      BY <1>1 DEF D
    <2>1. K5[a].p # u
      BY <1>1, <1>17, <2>0
    <2>2. \A t \in Sides : K5[a][t] # u
      BY <1>1, <1>18, <2>0
    <2> QED  BY <2>1, <2>2
  <1>20. DOMAIN M = E /\ M \in [E -> Node(E)] /\ \A a \in E : M[a] = K5[a]
    <2> DEFINE M2 == [a \in D \ {u} |-> K5[a]]
    <2>1. DOMAIN M2 = D \ {u} /\ M2 \in [D \ {u} -> Node(D \ {u})] /\ \A a \in D \ {u} : M2[a] = K5[a]
      BY <1>14, <1>19, WithoutIs DEF D
    <2> QED  BY <2>1
  <1>21. [[root |-> Q, n |-> K5] EXCEPT !.n = [a \in DOMAIN [root |-> Q, n |-> K5].n \ {u}
                                                |-> [root |-> Q, n |-> K5].n[a]]]
           = [root |-> Q, n |-> M]
    BY <1>14
  <1> HIDE DEF M
  <1>22. Succeeded(N, M, u, m)
    <2>1. \A a \in E : M[a].hash = N[a].hash
      <3> TAKE a \in E
      <3>1. a \in D
        BY DEF D
      <3> QED  BY <1>8, <1>10, <1>12, <1>14, <1>20, <3>1
    <2>2. \A a \in E : M[a].p = IF a = m THEN N[u].p ELSE IF a = N[u].l \/ a = N[u].r THEN m
                                ELSE IF a = N[m].r THEN IF m = N[u].r THEN m ELSE N[m].p
                                ELSE N[a].p
      BY <1>17, <1>20 DEF l, r, c, w
    <2>3. \A a \in E, t \in Sides :
           M[a][t] = IF a = m THEN IF t = "l" THEN N[u].l ELSE IF m = N[u].r THEN N[m].r ELSE N[u].r
                      ELSE IF N[a][t] = u THEN m
                      ELSE IF N[a][t] = m THEN N[m].r ELSE N[a][t]
      BY <1>18, <1>20 DEF l, r, c
    <2>4. DOMAIN M = DOMAIN N \ {u} /\ M \in [DOMAIN N \ {u} -> Node(DOMAIN N \ {u})]
      BY <1>20 DEF D
    <2>5. \A a \in DOMAIN N \ {u} : a \in E
      BY DEF D
    <2> HIDE DEF E
    <2> QED  BY <2>1, <2>2, <2>3, <2>4, <2>5 DEF Succeeded
  <1>23. Paint(Point(Point(Transplant(A, u, m), m, "l", l), l, "p", m), {m}, black) = [root |-> Q, n |-> K5]
    BY <1>7, <1>9, <1>11, <1>13
  <1>24. Gone(TakeOver(A, u, m, l, black), u) = [root |-> Q, n |-> M]
    BY <1>21, <1>23, Zenon DEF Gone, TakeOver
  <1>25. m # N[u].r => A.n[m].p = N[m].p
    BY <1>5 DEF r
  <1>26. Q = NewRoot(N, u, m, q)
    BY DEF Q, NewRoot
  <1>27. Gone(TakeOver(A, u, m, N[u].l, black), u) = [root |-> NewRoot(N, u, m, q), n |-> M]
    BY <1>24, <1>26 DEF l
  <1> QED  BY <1>22, <1>25, <1>27 DEF A, T

\* In two steps: the successor is removed, then it replaces u.
LEMMA SucceededShape ==
  ASSUME NEW N, NEW sub, Shaped(N, sub), IsFiniteSet(DOMAIN N), NEW u, NEW m,
         Successor(N, sub, u, m), NEW M, Succeeded(N, M, u, m),
         Sorted(N, sub), \A d \in sub[N[u].r] \ {m} : N[m].hash < N[d].hash,
         NEW q \in DOMAIN N, Rules(N, sub, q, {})
  PROVE  \E S : Shaped(M, S) /\ Sorted(M, S) /\ Rules(M, S, NewRoot(N, u, m, q), {})
  <1> DEFINE D == DOMAIN N
             l == N[u].l
             r == N[u].r
             c == N[m].r
             E == D \ {m}
             G == D \ {u}
             N1 == [a \in E |->
                      [p |-> IF a = c THEN N[m].p ELSE N[a].p,
                       l |-> IF N[a].l = m THEN c ELSE N[a].l,
                       r |-> IF N[a].r = m THEN c ELSE N[a].r,
                       black |-> N[a].black, hash |-> N[a].hash]]
             S1 == RemovedSub(N, sub, m)
             S == ReplacedSub(N1, S1, u, m)
  <1>1. /\ NIL \notin D /\ N \in [D -> Node(D)] /\ u \in D /\ l \in D /\ r \in D /\ m \in D
        /\ c \in D \cup {NIL} /\ N[u].p \in D \cup {NIL} /\ N[m].p \in D
        /\ u # l /\ u # r /\ u # m /\ u # c /\ l # r /\ l # m /\ l # c /\ m # c /\ r # c
        /\ N[u].p # u /\ N[u].p # m
        /\ N[l].p = u /\ N[r].p = u /\ (c # NIL => N[c].p = m)
        /\ N[m].p = u <=> m = r
        /\ N[m].l = NIL
        /\ \A a \in D : /\ N[a].p = u => a = l \/ a = r
                        /\ N[a].p = m => a = c
        /\ \A a \in D, t \in Sides : N[a][t] = m => a = N[m].p
        /\ sub[m] \subseteq sub[r] /\ u \notin sub[r] /\ m \in sub[u] /\ m \in sub[r]
        /\ sub[c] \subseteq sub[r]
    BY SuccessorIs DEF Successor
  <1>0. "p" \in Pointers /\ Sides = {"l", "r"} /\ Other("l") = "r" /\ Other("r") = "l"
        /\ \A f \in Pointers : f = "p" \/ f = "l" \/ f = "r"
    BY SideFacts DEF Pointers
  <1>2. \A a \in E : /\ N[a].p \in D \cup {NIL} /\ N[a].l \in D \cup {NIL} /\ N[a].r \in D \cup {NIL}
                     /\ N[a].black \in BOOLEAN /\ N[a].hash \in Nat
    BY <1>1, NodeFacts
  <1> HIDE DEF l, r, c
  <1>3. Removed(N, N1, m, c)
    <2>1. \A a \in E : /\ N1[a].p = IF a = c THEN N[m].p ELSE N[a].p
                       /\ N1[a].hash = N[a].hash /\ N1[a].black = N[a].black
                       /\ \A g \in Sides : N1[a][g] = IF N[a][g] = m THEN c ELSE N[a][g]
      BY <1>0
    <2>2. N[m].p # m
      <3>1. ASSUME N[m].p = m  PROVE FALSE
        <4>1. m = c
          BY <1>1, <3>1
        <4> QED  BY <1>1, <4>1
      <3> QED  BY <3>1
    <2>3. \A a \in E : /\ (IF a = c THEN N[m].p ELSE N[a].p) \in E \cup {NIL}
                       /\ (IF N[a].l = m THEN c ELSE N[a].l) \in E \cup {NIL}
                       /\ (IF N[a].r = m THEN c ELSE N[a].r) \in E \cup {NIL}
      BY <1>1, <1>2, <2>2
    <2>4. N1 \in [E -> Node(E)]
      BY <1>2, <2>3 DEF Node
    <2> HIDE DEF N1
    <2> QED  BY <2>1, <2>4 DEF Removed
  <1>4. /\ DOMAIN N1 = E
        /\ \A a \in E : /\ N1[a].hash = N[a].hash
                        /\ N1[a].p = IF a = c THEN N[m].p ELSE N[a].p
                        /\ \A g \in Sides : N1[a][g] = IF N[a][g] = m THEN c ELSE N[a][g]
    BY <1>3 DEF Removed
  <1> HIDE DEF N1
  <1>5. Shaped(N1, S1) /\ Sorted(N1, S1)
    <2>1. "l" \in Sides /\ N[m]["l"] = NIL /\ c = N[m][Other("l")]
      BY <1>0, <1>1 DEF c
    <2> QED  BY <1>1, <1>3, <2>1, RemovedShape
  <1>6. Rules(N1, S1, q, {}) /\ q # m /\ q \in E
    <2>1. PICK s \in Sides : N[m][s] = NIL /\ c = N[m][Other(s)]
      BY <1>0, <1>1 DEF c
    <2>2. Removed(N, N1, m, N[m][Other(s)])
      BY <1>3, <2>1
    <2>3. /\ N[m].p = NIL <=> q = m
          /\ Rules(N1, S1, IF q = m THEN N[m][Other(s)] ELSE q, {})
      <3>1. /\ Shaped(N, sub) /\ IsFiniteSet(DOMAIN N) /\ m \in DOMAIN N /\ q \in DOMAIN N
            /\ s \in Sides /\ N[m][s] = NIL /\ Removed(N, N1, m, N[m][Other(s)])
            /\ Rules(N, sub, q, {})
        BY <1>1, <2>1, <2>2
      <3>2. /\ N[m].p = NIL <=> q = m
            /\ Rules(N1, RemovedSub(N, sub, m), IF q = m THEN N[m][Other(s)] ELSE q, {})
        BY ONLY <3>1, RemovedRoot
      <3> QED  BY ONLY <3>2 DEF S1
    <2>4. q # m
      BY <1>1, <2>3
    <2> QED  BY <2>3, <2>4
  <1>7. /\ DOMAIN M = G /\ M \in [G -> Node(G)]
        /\ \A a \in G :
             /\ M[a].hash = N[a].hash
             /\ M[a].p = IF a = m THEN N[u].p ELSE IF a = l \/ a = r THEN m
                         ELSE IF a = c THEN IF m = r THEN m ELSE N[m].p ELSE N[a].p
             /\ \A t \in Sides :
                  M[a][t] = IF a = m THEN IF t = "l" THEN l ELSE IF m = r THEN c ELSE r
                            ELSE IF N[a][t] = u THEN m ELSE IF N[a][t] = m THEN c ELSE N[a][t]
    BY DEF Succeeded, l, r, c
  <1>8. N[u]["l"] = l /\ N[u]["r"] = r
    BY DEF l, r
  <1> HIDE DEF D
  <1>9. (E \ {u}) \cup {m} = G
    BY <1>1
  <1>10. \A a \in E : M[As(u, m, a)].p = As(u, m, N1[a].p)
    <2> TAKE a \in E
    <2>1. a \in D /\ a # m
      BY <1>1
    <2>2. CASE a = u
      BY <1>1, <1>4, <1>7, <2>2 DEF As
    <2>3. CASE a # u /\ (a = l \/ a = r)
      BY <1>1, <1>4, <1>7, <2>1, <2>3 DEF As
    <2>4. CASE a # u /\ a # l /\ a # r /\ a = c
      BY <1>1, <1>4, <1>7, <2>1, <2>4 DEF As
    <2>5. CASE a # u /\ a # l /\ a # r /\ a # c
      BY <1>1, <1>4, <1>7, <2>1, <2>5 DEF As
    <2> QED  BY <2>2, <2>3, <2>4, <2>5
  <1>11. \A a \in E, t \in Sides : M[As(u, m, a)][t] = As(u, m, N1[a][t])
    <2> TAKE a \in E, t \in Sides
    <2>1. a \in D /\ a # m
      BY <1>1
    <2>2. CASE a = u
      <3>1. M[m][t] = IF t = "l" THEN l ELSE IF m = r THEN c ELSE r
        BY <1>1, <1>7
      <3>2. N1[u][t] = IF N[u][t] = m THEN c ELSE N[u][t]
        BY <1>4, <2>2
      <3>3. CASE t = "l"
        BY <1>1, <1>8, <2>2, <3>1, <3>2, <3>3 DEF As
      <3>4. CASE t = "r"
        BY <1>1, <1>8, <2>2, <3>1, <3>2, <3>4 DEF As
      <3> QED  BY <1>0, <3>3, <3>4
    <2>3. CASE a # u
      BY <1>1, <1>4, <1>7, <2>1, <2>3 DEF As
    <2> QED  BY <2>2, <2>3
  <1>12. Replaced(N1, M, u, m)
    <2>1. \A a \in E, f \in Pointers : M[As(u, m, a)][f] = As(u, m, N1[a][f])
      BY <1>0, <1>10, <1>11
    <2>2. \A a \in E : a # u => M[a].hash = N1[a].hash
      BY <1>4, <1>7
    <2> QED  BY <1>4, <1>7, <1>9, <2>1, <2>2 DEF Replaced
  <1>13. u \in E /\ m \notin E /\ m # NIL
    BY <1>1
  <1>14. M[m].hash = N[m].hash
    BY <1>1, <1>7
  <1>15. S1[NIL] = {} /\ \A a \in E \cup {NIL} : S1[a] = sub[a] \ {m}
    BY DEF RemovedSub, Shaped, D
  <1>16. Fits(N1, S1, u, M[m].hash, {u})
    <2> SUFFICES ASSUME NEW a \in E \ {u}, NEW g \in Sides, u \in S1[N1[a][g]]
                 PROVE  Before(g, N[m].hash, N[a].hash)
      BY <1>4, <1>14 DEF Fits
    <2>1. a \in D /\ N[a][g] \in D \cup {NIL}
      BY <1>1, NodeFacts
    <2>2. N[a][g] # m
      <3>1. N[a][g] = m => N1[a][g] = c
        BY <1>4
      <3>2. u \notin S1[c]
        <4>1. c \in E \cup {NIL}
          BY <1>1
        <4> QED  BY <1>1, <1>15, <4>1
      <3> QED  BY <3>1, <3>2
    <2>3. N1[a][g] = N[a][g] /\ N[a][g] \in E \cup {NIL}
      BY <1>4, <2>1, <2>2
    <2>4. u \in sub[N[a][g]] /\ N[a][g] # NIL
      BY <1>15, <2>3
    <2>5. m \in sub[N[a][g]]
      <3>1. sub[u] \subseteq sub[N[a][g]]
        BY <2>1, <2>4, Downward DEF D
      <3> QED  BY <1>1, <3>1
    <2> QED  BY <2>1, <2>5 DEF Sorted, D
  <1>17. ASSUME NEW g \in Sides, NEW b \in S1[N1[u][g]]  PROVE Before(g, N1[b].hash, M[m].hash)
    <2>1. N1[u][g] = IF N[u][g] = m THEN c ELSE N[u][g]
      BY <1>4, <1>13
    <2>2. CASE g = "l"
      <3>1. N1[u][g] = l /\ l \in E
        BY <1>1, <1>8, <2>1, <2>2
      <3>2. b \in sub[l] /\ b \in E
        <4>1. sub[l] \in SUBSET D
          BY <1>1 DEF Shaped, D
        <4> QED  BY <1>15, <3>1, <4>1
      <3>3. N[b].hash < N[u].hash /\ N[u].hash < N[m].hash
        <4>1. Before("l", N[b].hash, N[u].hash)
          BY <1>0, <1>1, <1>8, <3>2 DEF Sorted, D
        <4>2. Before("r", N[m].hash, N[u].hash)
          BY <1>0, <1>1, <1>8 DEF Sorted, D
        <4> QED  BY <4>1, <4>2 DEF Before
      <3>4. N[b].hash \in Nat /\ N[u].hash \in Nat /\ N[m].hash \in Nat
        BY <1>1, <3>2, NodeFacts
      <3> QED  BY <1>4, <1>14, <2>2, <3>2, <3>3, <3>4 DEF Before
    <2>3. CASE g = "r"
      <3>1. b \in sub[r] /\ b # m /\ b \in E
        <4>1. N1[u][g] \in E \cup {NIL} /\ (N1[u][g] = r \/ N1[u][g] = c)
          BY <1>1, <1>8, <2>1, <2>3
        <4>2. sub[r] \in SUBSET D
          BY <1>1 DEF Shaped, D
        <4> QED  BY <1>1, <1>15, <4>1, <4>2
      <3>2. N[m].hash < N[b].hash
        BY <3>1 DEF r
      <3> QED  BY <1>4, <1>14, <2>3, <3>1, <3>2 DEF Before
    <2> QED  BY <1>0, <2>2, <2>3
  <1>18. Shaped(M, S) /\ Sorted(M, S) /\ Rules(M, S, As(u, m, q), {})
    <2> HIDE DEF S1, E
    <2> QED  BY <1>4, <1>5, <1>6, <1>12, <1>13, <1>16, <1>17, ReplacedShape
  <1>19. As(u, m, q) = NewRoot(N, u, m, q)
    <2>1. sub[q] = D /\ N[q].p = NIL
      BY <1>1 DEF Rules, D
    <2>2. N[u].p = NIL => u = q
      BY <1>1, <2>1, OnlyRoot
    <2> QED  BY <2>1, <2>2 DEF As, NewRoot
  <1> HIDE DEF S
  <1> QED  BY <1>18, <1>19

LEMMA UnlinkOpened ==
  ASSUME NEW T, NEW u, T.n[u].l # NIL, T.n[u].r # NIL
  PROVE  LET m == Minimum(T, T.n[u].r)
             A == Aside(T, u, m)
             C == TakeOver(A, u, m, T.n[u].l, T.n[u].black)
         IN Unlink(T, u) = [tree |-> Gone(C, u), x |-> T.n[m].r,
                            xp |-> IF T.n[m].p = u THEN m ELSE A.n[m].p, fix |-> T.n[u].black]
  BY Zenon DEF Unlink, Aside, Gone, TakeOver

LEMMA UnlinkTwo ==
  ASSUME NEW N, NEW sub, Shaped(N, sub), IsFiniteSet(DOMAIN N), NEW u \in DOMAIN N,
         Sorted(N, sub), NEW q \in DOMAIN N, Rules(N, sub, q, {}),
         N[u].l # NIL, N[u].r # NIL
  PROVE  Unlinked(N, Unlink([root |-> q, n |-> N], u), u)
  <1> DEFINE D == DOMAIN N
             E == D \ {u}
             T == [root |-> q, n |-> N]
             U == Unlink(T, u)
             r == N[u].r
             m == Minimum(T, r)
             A == Aside(T, u, m)
             C == TakeOver(A, u, m, N[u].l, N[u].black)
             Q == NewRoot(N, u, m, q)
  <1>1. T.n = N
    OBVIOUS
  <1>2. /\ m \in sub[r] /\ N[m].l = NIL
        /\ \A d \in sub[r] \ {m} : N[m].hash < N[d].hash
    <2>1. r \in D
      BY NodeFacts DEF Shaped
    <2> HIDE DEF T
    <2> QED  BY <1>1, <2>1, MinimumIs
  <1> HIDE DEF m
  <1>3. Successor(N, sub, u, m)
    BY <1>2 DEF Successor
  <1>4. N[u].black \in BOOLEAN
    BY NodeFacts DEF Shaped
  <1>5. /\ m # r => A.n[m].p = N[m].p
        /\ \E M : Gone(C, u) = [root |-> Q, n |-> M] /\ Succeeded(N, M, u, m)
    BY <1>3, <1>4, SucceededIs
  <1> HIDE DEF C, A
  <1>6. PICK M : Gone(C, u) = [root |-> Q, n |-> M] /\ Succeeded(N, M, u, m)
    BY <1>5
  <1>7. /\ m \in E /\ N[m].r \in E \cup {NIL} /\ (N[m].p = u <=> m = r) /\ N[m].p \in D
        /\ NIL \notin D
    BY <1>3, SuccessorIs
  <1>8. /\ U.tree = [root |-> Q, n |-> M] /\ U.x = N[m].r
        /\ U.xp = IF N[m].p = u THEN m ELSE A.n[m].p
    <2>1. N[u].l # NIL /\ N[u].r # NIL
      OBVIOUS
    <2>2. U = [tree |-> Gone(C, u), x |-> N[m].r,
               xp |-> IF N[m].p = u THEN m ELSE A.n[m].p, fix |-> N[u].black]
      <3> HIDE DEF T
      <3> QED  BY <1>1, <2>1, UnlinkOpened DEF A, C, m
    <2> HIDE DEF Q, U
    <2> QED  BY <1>6, <2>2
  <1>9. PICK S : Shaped(M, S) /\ Sorted(M, S) /\ Rules(M, S, Q, {})
    BY <1>2, <1>3, <1>6, SucceededShape
  <1>10. DOMAIN M = E /\ \A a \in E : M[a].hash = N[a].hash
    BY <1>6 DEF Succeeded
  <1>11. Q \in E
    <2>1. N[q].p = NIL
      BY <1>7 DEF Rules
    <2> QED  BY <1>7, <2>1 DEF NewRoot
  <1>12. U.xp \in E
    BY <1>5, <1>7, <1>8
  <1>13. U.tree.root = Q
    BY <1>8
  <1> HIDE DEF U, Q
  <1>14. /\ U.tree = [root |-> U.tree.root, n |-> M]
         /\ DOMAIN M = E /\ \A a \in E : M[a].hash = N[a].hash
         /\ Shaped(M, S) /\ Sorted(M, S)
         /\ U.tree.root \in E \cup {NIL} /\ Rules(M, S, U.tree.root, {})
         /\ U.x \in E \cup {NIL} /\ U.xp \in E \cup {NIL}
         /\ U.xp = NIL => U.x = U.tree.root
    BY <1>7, <1>8, <1>9, <1>10, <1>11, <1>12, <1>13
  <1> QED  BY <1>14 DEF U, Unlinked

\* The node goes; the others stay, in order, below one root.
LEMMA UnlinkIs ==
  ASSUME NEW N, NEW sub, Shaped(N, sub), IsFiniteSet(DOMAIN N), NEW u \in DOMAIN N,
         Sorted(N, sub), NEW q \in DOMAIN N, Rules(N, sub, q, {})
  PROVE  Unlinked(N, Unlink([root |-> q, n |-> N], u), u)
  <1>1. CASE N[u].l = NIL \/ N[u].r = NIL
    BY <1>1, UnlinkOne
  <1>2. CASE N[u].l # NIL /\ N[u].r # NIL
    BY <1>2, UnlinkTwo
  <1> QED  BY <1>1, <1>2

-----------------------------------------------------------------------------
(* What the steps of _fix_insert and _fix_delete keep.                     *)
IsTree(T) ==
  /\ T = [root |-> T.root, n |-> T.n]
  /\ IsFiniteSet(DOMAIN T.n) /\ T.root \in DOMAIN T.n \cup {NIL}
  /\ \E sub : Shaped(T.n, sub)

Ordered(T) == \E sub : /\ Shaped(T.n, sub) /\ Sorted(T.n, sub)
                       /\ Rules(T.n, sub, T.root, {})

Rebalanced(T, U) ==
  /\ IsTree(U) /\ DOMAIN U.n = DOMAIN T.n
  /\ \A a \in DOMAIN T.n : U.n[a].hash = T.n[a].hash
  /\ Ordered(T) => Ordered(U)

LEMMA RebalancedTwice ==
  ASSUME NEW T, NEW U, NEW V, Rebalanced(T, U), Rebalanced(U, V)
  PROVE  Rebalanced(T, V)
  BY DEF Rebalanced

\* Colours have changed.
Painted(T, U) ==
  /\ Rebalanced(T, U) /\ IsTree(U) /\ DOMAIN U.n = DOMAIN T.n
  /\ \A a \in DOMAIN T.n : /\ U.n[a].p = T.n[a].p
                           /\ \A s \in Sides : U.n[a][s] = T.n[a][s]

LEMMA PaintKeeps ==
  ASSUME NEW T, IsTree(T), NEW S, NEW b \in BOOLEAN
  PROVE  Painted(T, Paint(T, S, b))
  <1> DEFINE M == Dyed(T.n, S, b)
             P == Paint(T, S, b)
  <1>1. PICK sub : Shaped(T.n, sub)
    BY DEF IsTree
  <1>2. P = [root |-> T.root, n |-> M]
    <2>1. T = [root |-> T.root, n |-> T.n]
      BY DEF IsTree
    <2> DEFINE q == T.root
               N == T.n
    <2>2. Paint([root |-> q, n |-> N], S, b) = [root |-> q, n |-> Dyed(N, S, b)]
      BY PaintIs
    <2> QED  BY <2>1, <2>2
  <1>3. Relinked(T.n, M)
    BY <1>1, DyedIs DEF Shaped
  <1> HIDE DEF M, P
  <1>4. P.n = M /\ P.root = T.root
    BY <1>2
  <1>5. IsTree(P)
    BY <1>1, <1>2, <1>3, <1>4, SameLinks DEF IsTree, Relinked
  <1>6. ASSUME Ordered(T)  PROVE Ordered(P)
    <2>1. PICK sb : Shaped(T.n, sb) /\ Sorted(T.n, sb) /\ Rules(T.n, sb, T.root, {})
      BY <1>6 DEF Ordered
    <2>2. T.root \in DOMAIN T.n \cup {NIL}
      BY DEF IsTree
    <2>3. Shaped(M, sb) /\ Sorted(M, sb) /\ Rules(M, sb, T.root, {})
      BY <1>3, <2>1, <2>2, SameLinks
    <2> QED  BY <1>4, <2>3 DEF Ordered
  <1>7. Rebalanced(T, P)
    BY <1>3, <1>4, <1>5, <1>6 DEF Rebalanced, Relinked
  <1>8. \A a \in DOMAIN T.n : P.n[a].p = T.n[a].p /\ \A s \in Sides : P.n[a][s] = T.n[a][s]
    BY <1>3, <1>4 DEF Relinked, Sides
  <1> QED  BY <1>5, <1>7, <1>8 DEF P, Painted, Rebalanced

LEMMA RotateKeeps ==
  ASSUME NEW T, IsTree(T), NEW u \in DOMAIN T.n, NEW s \in Sides, T.n[u][Other(s)] # NIL
  PROVE  /\ Rebalanced(T, Rotate(T, u, s))
         /\ Turned(T.n, Rotate(T, u, s).n, u, s)
  <1> DEFINE R == Rotate(T, u, s)
             q == T.root
             N == T.n
             D == DOMAIN N
             Q == IF N[u].p = NIL THEN N[u][Other(s)] ELSE q
  <1>1. PICK sub : Shaped(N, sub)
    BY DEF IsTree
  <1>2. T = [root |-> q, n |-> N] /\ IsFiniteSet(D) /\ q \in D \cup {NIL}
    BY DEF IsTree
  <1>3. PICK M : Rotate([root |-> q, n |-> N], u, s) = [root |-> Q, n |-> M] /\ Turned(N, M, u, s)
    <2> HIDE DEF q, N
    <2>1. N[u][Other(s)] # NIL /\ u \in DOMAIN N
      BY DEF N
    <2> QED  BY <1>1, <2>1, RotateIs
  <1>4. R = [root |-> Q, n |-> M]
    BY <1>2, <1>3
  <1> HIDE DEF R, Q
  <1>5. R.n = M /\ R.root = Q /\ DOMAIN M = D /\ \A a \in D : M[a].hash = N[a].hash
    BY <1>3, <1>4 DEF Turned
  <1>6. Q \in D \cup {NIL}
    <2>1. N[u][Other(s)] \in D
      BY <1>1, Beside, SideFacts
    <2> QED  BY <1>2, <2>1 DEF Q
  <1>7. Shaped(M, TurnedSub(N, sub, u, s))
    BY <1>1, <1>3, TurnedShape
  <1>8. IsTree(R)
    BY <1>2, <1>4, <1>5, <1>6, <1>7 DEF IsTree
  <1>9. ASSUME Ordered(T)  PROVE Ordered(R)
    <2>1. PICK sb : Shaped(N, sb) /\ Sorted(N, sb) /\ Rules(N, sb, q, {})
      BY <1>9 DEF Ordered
    <2>2. Shaped(M, TurnedSub(N, sb, u, s)) /\ Sorted(M, TurnedSub(N, sb, u, s))
      BY <1>3, <2>1, TurnedShape, TurnedOrder
    <2>3. Rules(M, TurnedSub(N, sb, u, s), Q, {})
      BY <1>2, <1>3, <2>1, TurnedRoot DEF Q
    <2> QED  BY <1>5, <2>2, <2>3 DEF Ordered
  <1>10. Rebalanced(T, R)
    BY <1>5, <1>8, <1>9 DEF Rebalanced
  <1> QED  BY <1>3, <1>5, <1>10 DEF R

LEMMA PushUpKeeps ==
  ASSUME NEW T, IsTree(T), NEW u
  PROVE  Rebalanced(T, PushUp(T, u))
  <1> DEFINE S == {T.n[u].p, Uncle(T, u)}
             A == Paint(T, S, TRUE)
             G == {T.n[T.n[u].p].p}
  <1> HIDE DEF S, G
  <1>1. Painted(T, A)
    BY PaintKeeps
  <1>2. Rebalanced(T, A) /\ IsTree(A)
    BY <1>1 DEF Painted
  <1> HIDE DEF A
  <1>3. Painted(A, Paint(A, G, FALSE))
    BY <1>2, PaintKeeps
  <1>4. Rebalanced(A, Paint(A, G, FALSE))
    BY <1>3 DEF Painted
  <1> QED  BY <1>2, <1>4, RebalancedTwice DEF PushUp, A, S, G

LEMMA SideIs ==
  ASSUME NEW T, IsTree(T), NEW a \in DOMAIN T.n, T.n[a].p # NIL
  PROVE  /\ SideOf(T, a) \in Sides /\ T.n[T.n[a].p][SideOf(T, a)] = a
         /\ T.n[a].p \in DOMAIN T.n /\ T.n[a].p # a /\ a # NIL
  <1>1. PICK sub : Shaped(T.n, sub)
    BY DEF IsTree
  <1>2. Kin(T.n, a)
    BY <1>1, KinIs
  <1>3. PICK s \in Sides : /\ s = (IF T.n[T.n[a].p].l = a THEN "l" ELSE "r")
                           /\ T.n[T.n[a].p][s] = a
    BY <1>2, Hangs
  <1>4. T.n[a].p \in DOMAIN T.n \ sub[a] /\ a \in sub[a] /\ NIL \notin DOMAIN T.n
    BY <1>1, <1>3, Beside DEF Shaped
  <1> QED  BY <1>3, <1>4 DEF SideOf

LEMMA RotateUpKeeps ==
  ASSUME NEW T, IsTree(T), NEW u \in DOMAIN T.n, T.n[u].p # NIL, T.n[T.n[u].p].p # NIL
  PROVE  /\ Rebalanced(T, RotateUp(T, u).tree)
         /\ RotateUp(T, u).z \in DOMAIN T.n
  <1> DEFINE p == T.n[u].p
             g == T.n[p].p
             s == SideOf(T, p)
             in == SideOf(T, u) # s
             R == IF in THEN Rotate(T, p, s) ELSE T
             q == IF in THEN u ELSE p
             A == Paint(R, {q}, TRUE)
             B == Paint(A, {g}, FALSE)
  <1>1. /\ SideOf(T, u) \in Sides /\ T.n[p][SideOf(T, u)] = u /\ p \in DOMAIN T.n /\ p # u /\ u # NIL
        /\ s \in Sides /\ T.n[g][s] = p /\ g \in DOMAIN T.n /\ g # p /\ p # NIL
    BY SideIs
  <1>2. g # u
    <2>1. PICK sub : Shaped(T.n, sub)
      BY DEF IsTree
    <2>2. T.n[p].p \notin sub[p]
      BY <1>1, <2>1, Beside
    <2>3. u \in sub[p]
      BY <1>1, <2>1, Beside
    <2> QED  BY <2>2, <2>3
  <1>3. in => T.n[p][Other(s)] = u
    BY <1>1, SideFacts
  <1> HIDE DEF p, g, s
  <1>4. Rebalanced(T, R) /\ R.n[g][s] # NIL
    <2>1. CASE in
      <3>1. Rebalanced(T, R) /\ Turned(T.n, R.n, p, s)
        BY <1>1, <1>3, <2>1, RotateKeeps
      <3>2. R.n[g][s] = u
        <4> HIDE DEF R
        <4> QED  BY <1>1, <1>2, <1>3, <2>1, <3>1 DEF Turned
      <3> QED  BY <1>1, <3>1, <3>2
    <2>2. CASE ~in
      BY <1>1, <2>2 DEF Rebalanced
    <2> QED  BY <2>1, <2>2
  <1> HIDE DEF R, q, in
  <1>5. IsTree(R) /\ DOMAIN R.n = DOMAIN T.n
    BY <1>4 DEF Rebalanced
  <1>6. Painted(R, A)
    BY <1>5, PaintKeeps
  <1>7. /\ Rebalanced(R, A) /\ IsTree(A) /\ DOMAIN A.n = DOMAIN T.n
        /\ A.n[g][s] = R.n[g][s]
    BY <1>1, <1>5, <1>6 DEF Painted
  <1> HIDE DEF A
  <1>8. Painted(A, B)
    BY <1>7, PaintKeeps
  <1>9. /\ Rebalanced(A, B) /\ IsTree(B) /\ DOMAIN B.n = DOMAIN T.n
        /\ B.n[g][s] = A.n[g][s]
    BY <1>1, <1>7, <1>8 DEF Painted
  <1> HIDE DEF B
  <1>10. Rebalanced(B, Rotate(B, g, Other(s)))
    <2>1. Other(s) \in Sides /\ Other(Other(s)) = s
      BY <1>1, SideFacts
    <2> QED  BY <1>1, <1>4, <1>7, <1>9, <2>1, RotateKeeps
  <1>11. Rebalanced(T, Rotate(B, g, Other(s)))
    BY <1>4, <1>7, <1>9, <1>10, RebalancedTwice
  <1>12. RotateUp(T, u) = [tree |-> Rotate(B, g, Other(s)), z |-> IF in THEN p ELSE u]
    BY DEF RotateUp, B, A, R, q, in, s, g, p
  <1> QED  BY <1>1, <1>11, <1>12

\* _fix_delete: the sibling is red.
SiblingUp(T, u, s) ==
  Rotate(Paint(Paint(T, {T.n[u][Other(s)]}, TRUE), {u}, FALSE), u, s)

LEMMA SiblingUpKeeps ==
  ASSUME NEW T, IsTree(T), NEW u \in DOMAIN T.n, NEW s \in Sides, T.n[u][Other(s)] # NIL
  PROVE  Rebalanced(T, SiblingUp(T, u, s))
  <1> DEFINE A == Paint(T, {T.n[u][Other(s)]}, TRUE)
             B == Paint(A, {u}, FALSE)
  <1>0. Other(s) \in Sides
    BY SideFacts
  <1>1. Painted(T, A)
    BY PaintKeeps
  <1>2. /\ Rebalanced(T, A) /\ IsTree(A) /\ u \in DOMAIN A.n /\ A.n[u][Other(s)] # NIL
    BY <1>0, <1>1 DEF Painted
  <1> HIDE DEF A
  <1>3. Painted(A, B)
    BY <1>2, PaintKeeps
  <1>4. /\ Rebalanced(A, B) /\ IsTree(B) /\ u \in DOMAIN B.n /\ B.n[u][Other(s)] # NIL
    BY <1>0, <1>2, <1>3 DEF Painted
  <1> HIDE DEF B
  <1>5. Rebalanced(B, Rotate(B, u, s))
    BY <1>4, RotateKeeps
  <1>6. Rebalanced(T, Rotate(B, u, s))
    BY <1>2, <1>4, <1>5, RebalancedTwice
  <1> QED  BY <1>6 DEF SiblingUp, A, B

\* The sibling of x has a red child; the far one is made red, if it is not.
FarRed(T, u, s) ==
  LET v == T.n[u][Other(s)]
  IN IF Red(T, T.n[v][Other(s)]) THEN T
     ELSE Rotate(Paint(Paint(T, {T.n[v][s]}, TRUE), {v}, FALSE), v, Other(s))

NephewUp(T, u, s) ==
  LET A == FarRed(T, u, s)
      w == A.n[u][Other(s)]
      B == Paint(Paint(A, {w}, T.n[u].black), {u, A.n[w][Other(s)]}, TRUE)
  IN Rotate(B, u, s)

LEMMA FarRedKeeps ==
  ASSUME NEW T, IsTree(T), NEW u \in DOMAIN T.n, NEW s \in Sides, T.n[u][Other(s)] # NIL,
         LET v == T.n[u][Other(s)]
         IN ~(Black(T, T.n[v][s]) /\ Black(T, T.n[v][Other(s)]))
  PROVE  Rebalanced(T, FarRed(T, u, s)) /\ FarRed(T, u, s).n[u][Other(s)] # NIL
  <1> DEFINE v == T.n[u][Other(s)]
             e == T.n[v][s]
             A == Paint(T, {e}, TRUE)
             B == Paint(A, {v}, FALSE)
             C == Rotate(B, v, Other(s))
  <1>0. Other(s) \in Sides /\ Other(Other(s)) = s /\ Other(s) # s
    BY SideFacts
  <1>1. CASE Red(T, T.n[v][Other(s)])
    BY <1>1 DEF FarRed, Rebalanced
  <1>2. CASE ~Red(T, T.n[v][Other(s)])
    <2>1. e # NIL
      BY <1>2 DEF Red, Black
    <2>2. PICK sub : Shaped(T.n, sub)
      BY DEF IsTree
    <2>3. v \in DOMAIN T.n /\ v # u
      BY <1>0, <2>2, Beside
    <2>4. e \in DOMAIN T.n /\ e # u /\ e # v
      <3>1. e \in DOMAIN T.n /\ e # v /\ T.n[e].p = v /\ T.n[v].p = u
        BY <1>0, <2>1, <2>2, <2>3, Beside
      <3>2. T.n[v].p \notin sub[v] /\ e \in sub[v]
        <4>1. T.n[v].p # NIL
          BY <2>2, <3>1 DEF Shaped
        <4> HIDE DEF v, e
        <4>2. T.n[v].p \notin sub[v]
          BY <2>2, <2>3, <4>1, Beside
        <4>3. e \in sub[v]
          BY <2>1, <2>2, <2>3, Beside DEF e
        <4> QED  BY <4>2, <4>3
      <3> QED  BY <3>1, <3>2
    <2>5. T.n[u][Other(s)] = v /\ T.n[v][s] = e
      OBVIOUS
    <2> HIDE DEF v, e
    <2>6. Painted(T, A)
      BY PaintKeeps
    <2>7. /\ Rebalanced(T, A) /\ IsTree(A) /\ DOMAIN A.n = DOMAIN T.n
          /\ A.n[v][s] = e /\ A.n[u][Other(s)] = v
      BY <1>0, <2>3, <2>5, <2>6 DEF Painted
    <2> HIDE DEF A
    <2>8. Painted(A, B)
      BY <2>7, PaintKeeps
    <2>9. /\ Rebalanced(A, B) /\ IsTree(B) /\ DOMAIN B.n = DOMAIN T.n
          /\ B.n[v][s] = e /\ B.n[u][Other(s)] = v
      BY <1>0, <2>3, <2>7, <2>8 DEF Painted
    <2> HIDE DEF B
    <2>10. Rebalanced(B, C) /\ Turned(B.n, C.n, v, Other(s))
      BY <1>0, <2>1, <2>3, <2>9, RotateKeeps
    <2> HIDE DEF C
    <2>11. C.n[u][Other(s)] = e
      BY <1>0, <2>3, <2>4, <2>9, <2>10 DEF Turned
    <2>12. Rebalanced(T, C)
      BY <2>7, <2>9, <2>10, RebalancedTwice
    <2>13. FarRed(T, u, s) = C
      BY <1>2 DEF FarRed, C, B, A, e, v
    <2> QED  BY <2>1, <2>11, <2>12, <2>13
  <1> QED  BY <1>1, <1>2

LEMMA NephewUpKeeps ==
  ASSUME NEW T, IsTree(T), NEW u \in DOMAIN T.n, NEW s \in Sides, T.n[u][Other(s)] # NIL,
         LET v == T.n[u][Other(s)]
         IN ~(Black(T, T.n[v][s]) /\ Black(T, T.n[v][Other(s)]))
  PROVE  Rebalanced(T, NephewUp(T, u, s))
  <1> DEFINE A == FarRed(T, u, s)
             w == A.n[u][Other(s)]
             S == {u, A.n[w][Other(s)]}
             B == Paint(A, {w}, T.n[u].black)
             C == Paint(B, S, TRUE)
  <1>0. Other(s) \in Sides /\ T.n[u].black \in BOOLEAN
    <2>1. PICK sub : Shaped(T.n, sub)
      BY DEF IsTree
    <2> QED  BY <2>1, SideFacts, NodeFacts DEF Shaped
  <1>1. Rebalanced(T, A) /\ w # NIL
    BY FarRedKeeps
  <1>2. IsTree(A) /\ DOMAIN A.n = DOMAIN T.n
    BY <1>1 DEF Rebalanced
  <1>3. A.n[u][Other(s)] = w
    OBVIOUS
  <1> HIDE DEF A, w, S
  <1>4. Painted(A, B)
    BY <1>0, <1>2, PaintKeeps
  <1>5. /\ Rebalanced(A, B) /\ IsTree(B) /\ DOMAIN B.n = DOMAIN T.n /\ B.n[u][Other(s)] = w
    BY <1>0, <1>2, <1>3, <1>4 DEF Painted
  <1> HIDE DEF B
  <1>6. Painted(B, C)
    BY <1>5, PaintKeeps
  <1>7. /\ Rebalanced(B, C) /\ IsTree(C) /\ DOMAIN C.n = DOMAIN T.n /\ C.n[u][Other(s)] = w
    BY <1>0, <1>5, <1>6 DEF Painted
  <1> HIDE DEF C
  <1>8. Rebalanced(C, Rotate(C, u, s))
    BY <1>1, <1>7, RotateKeeps
  <1>9. Rebalanced(T, Rotate(C, u, s))
    BY <1>1, <1>5, <1>7, <1>8, RebalancedTwice
  <1> QED  BY <1>9 DEF NephewUp, C, B, S, w, A

-----------------------------------------------------------------------------
(* Lookups.  A hash in an ordered tree is on the way ecache_find takes.    *)
LEMMA PathFinds ==
  ASSUME NEW sub, Shaped(nodes, sub), Sorted(nodes, sub), IsFiniteSet(DOMAIN nodes),
         stored \in DOMAIN nodes, NEW a \in sub[stored]
  PROVE  Hit(nodes[a].hash)
  <1> DEFINE D == DOMAIN nodes
             h == nodes[a].hash
             Shut(C) == \A b \in C : nodes[b].hash # h /\ Child(Tree, b, h) # NIL
                                       => Child(Tree, b, h) \in C
  <1>1. /\ NIL \notin D /\ sub \in [D \cup {NIL} -> SUBSET D] /\ sub[NIL] = {}
        /\ \A b \in D : nodes[b].hash \in Nat
        /\ a \in D
    BY NodeFacts DEF Shaped
  <1>2. ASSUME NEW C \in SUBSET D, stored \in C, Shut(C)  PROVE a \in C
    <2> DEFINE F == {sub[b] : b \in {c \in C : a \in sub[c]}}
    <2>1. F \subseteq SUBSET D /\ F # {}
      BY <1>1, <1>2
    <2>2. \E t \in F : \A v \in F : v \subseteq t => v = t
      <3> HIDE DEF F
      <3> QED  BY <2>1, SmallestSet
    <2>3. PICK b \in C : a \in sub[b] /\ \A v \in F : v \subseteq sub[b] => v = sub[b]
      BY <2>2
    <2>4. CASE a = b
      BY <2>4
    <2>5. CASE a # b
      <3>1. PICK s \in Sides : a \in sub[nodes[b][s]]
        BY <2>3, <2>5, SideFacts DEF Shaped
      <3>2. nodes[b][s] # NIL /\ Before(s, h, nodes[b].hash)
        BY <1>1, <3>1 DEF Sorted
      <3>3. Child(Tree, b, h) = nodes[b][s] /\ nodes[b].hash # h
        <4>1. nodes[b].hash \in Nat /\ h \in Nat
          BY <1>1
        <4> HIDE DEF h
        <4>2. CASE s = "l"
          BY <3>2, <4>1, <4>2 DEF Before, Child, Tree
        <4>3. CASE s = "r"
          BY <3>2, <4>1, <4>3 DEF Before, Child, Tree
        <4> QED  BY <4>2, <4>3, SideFacts
      <3>4. nodes[b][s] \in C
        BY <1>2, <3>2, <3>3
      <3>5. sub[nodes[b][s]] \in F
        BY <3>1, <3>4
      <3>6. sub[nodes[b][s]] \subseteq sub[b] /\ b \in sub[b] /\ b \notin sub[nodes[b][s]]
        BY Beside DEF Shaped
      <3> HIDE DEF F
      <3> QED  BY <2>3, <3>5, <3>6
    <2> QED  BY <2>4, <2>5
  <1> HIDE DEF Shut
  <1>3. a \in Path(h)
    BY <1>1, <1>2 DEF Path, Shut
  <1> QED  BY <1>1, <1>3 DEF Hit

\* No two nodes of an ordered tree have one hash.
LEMMA Distinct ==
  ASSUME NEW N, NEW sub, Shaped(N, sub), Sorted(N, sub), IsFiniteSet(DOMAIN N),
         NEW q \in DOMAIN N, NEW a \in sub[q], NEW b \in sub[q], N[a].hash = N[b].hash
  PROVE  a = b
  <1> DEFINE D == DOMAIN N
             F == {sub[c] : c \in {d \in D : a \in sub[d] /\ b \in sub[d]}}
  <1>1. /\ NIL \notin D /\ sub \in [D \cup {NIL} -> SUBSET D] /\ sub[NIL] = {}
        /\ \A c \in D : N[c].hash \in Nat
        /\ a \in D /\ b \in D
    BY NodeFacts DEF Shaped
  <1>2. F \subseteq SUBSET D /\ F # {}
    BY <1>1
  <1>3. \E t \in F : \A v \in F : v \subseteq t => v = t
    <2> HIDE DEF F
    <2> QED  BY <1>2, SmallestSet
  <1>4. PICK c \in D : a \in sub[c] /\ b \in sub[c] /\ \A v \in F : v \subseteq sub[c] => v = sub[c]
    <2>1. \A t \in F : \E c \in D : a \in sub[c] /\ b \in sub[c] /\ t = sub[c]
      OBVIOUS
    <2> HIDE DEF F
    <2> QED  BY <1>3, <2>1
  <1>5. ASSUME NEW s \in Sides, a \in sub[N[c][s]]  PROVE b \notin sub[N[c][s]]
    <2> SUFFICES ASSUME b \in sub[N[c][s]]  PROVE FALSE
      OBVIOUS
    <2>1. N[c][s] \in D
      BY <1>1, <1>5, NodeFacts DEF Shaped
    <2>2. sub[N[c][s]] \in F
      BY <1>5, <2>1
    <2>3. sub[N[c][s]] \subseteq sub[c] /\ c \in sub[c] /\ c \notin sub[N[c][s]]
      BY Beside DEF Shaped
    <2> HIDE DEF F
    <2> QED  BY <1>4, <2>2, <2>3
  <1>6. sub[c] = {c} \cup sub[N[c]["l"]] \cup sub[N[c]["r"]]
    BY SideFacts DEF Shaped
  <1>7. /\ \A d \in sub[N[c]["l"]] : N[d].hash < N[c].hash
        /\ \A d \in sub[N[c]["r"]] : N[c].hash < N[d].hash
    <2>1. /\ \A d \in sub[N[c]["l"]] : Before("l", N[d].hash, N[c].hash)
          /\ \A d \in sub[N[c]["r"]] : Before("r", N[d].hash, N[c].hash)
      BY SideFacts DEF Sorted
    <2> QED  BY <2>1 DEF Before
  <1>8. "l" \in Sides /\ "r" \in Sides
    BY SideFacts
  <1>9. CASE a = c
    BY <1>1, <1>4, <1>6, <1>7, <1>9
  <1>10. CASE a \in sub[N[c]["l"]]
    BY <1>1, <1>4, <1>5, <1>6, <1>7, <1>8, <1>10
  <1>11. CASE a \in sub[N[c]["r"]]
    BY <1>1, <1>4, <1>5, <1>6, <1>7, <1>8, <1>11
  <1> QED  BY <1>4, <1>6, <1>9, <1>10, <1>11

-----------------------------------------------------------------------------
(* The blocks in use, and what allocating and freeing do to them.          *)
Used(b) == {a \in DOMAIN b : ~b[a].free}

(* The units the blocks in use take. *)
Taken(b) == Cardinality(Ground(b, Used(b)))

\* No other block in use becomes larger or smaller.
SameSizes(b, t, S) == \A a \in S : t[a].size = b[a].size

LEMMA SameGround ==
  ASSUME NEW b, NEW t, NEW S, SameSizes(b, t, S)
  PROVE  Ground(t, S) = Ground(b, S)
  BY DEF Ground, SameSizes, End

LEMMA TakeHolds ==
  ASSUME NEW b, Tiled(b), NEW n \in Nat, NEW a \in Room(b, n)
  PROVE  LET t == Take(b, a, n) IN
         /\ a \in DOMAIN t /\ Used(t) = Used(b) \cup {a} /\ a \notin Used(b)
         /\ t[a].size >= n /\ SameSizes(b, t, Used(b))
         /\ Taken(t) = Taken(b) + t[a].size + Header
  <1> DEFINE t == Take(b, a, n)
             rest == a + Header + n
  <1>1. /\ a \in DOMAIN b /\ b[a].free /\ b[a].size >= n /\ a \in Nat /\ b[a].size \in Nat
        /\ \A c \in DOMAIN b : b[c] \in Block
    BY DEF Room, Tiled, Block
  <1>2. /\ a \in DOMAIN t /\ Used(t) = Used(b) \cup {a}
        /\ t[a].size >= n /\ SameSizes(b, t, Used(b))
    <2>1. CASE b[a].size >= n + Header
      <3>1. t = [d \in DOMAIN b \cup {rest} |->
                  CASE d = a    -> [size |-> n, free |-> FALSE, next |-> rest]
                    [] d = rest -> [size |-> b[a].size - n - Header, free |-> TRUE, next |-> b[a].next]
                    [] OTHER    -> b[d]]
        BY <2>1 DEF Take
      <3>2. rest # a /\ rest \in Nat
        BY <1>1, HeapAssumption
      <3>3. \A d \in DOMAIN b : d # rest
        <4> SUFFICES ASSUME NEW d \in DOMAIN b, d = rest  PROVE FALSE
          OBVIOUS
        <4>1. a < d
          BY <1>1, <3>2, HeapAssumption
        <4>2. End(b, a) <= d
          BY <1>1, <4>1 DEF Tiled
        <4> QED  BY <1>1, <2>1, <4>2, HeapAssumption DEF End
      <3>4. t[a] = [size |-> n, free |-> FALSE, next |-> rest] /\ t[rest].free
            /\ \A d \in DOMAIN b \ {a} : t[d] = b[d]
        BY <1>1, <3>1, <3>2, <3>3
      <3>5. DOMAIN t = DOMAIN b \cup {rest}
        BY <3>1
      <3> HIDE DEF t, rest
      <3>6. ~t[a].free /\ t[a].size = n
        BY <3>4
      <3> QED  BY <1>1, <3>2, <3>3, <3>4, <3>5, <3>6 DEF Used, SameSizes
    <2>2. CASE ~(b[a].size >= n + Header)
      <3>1. t = [b EXCEPT ![a].free = FALSE]
        BY <2>2 DEF Take
      <3>2. DOMAIN t = DOMAIN b /\ \A d \in DOMAIN b \ {a} : t[d] = b[d]
        BY <3>1
      <3>3. t[a].size = b[a].size /\ ~t[a].free
        BY <1>1, <3>1 DEF Block
      <3> HIDE DEF t
      <3> QED  BY <1>1, <3>2, <3>3 DEF Used, SameSizes
    <2> QED  BY <2>1, <2>2
  <1>3. a \notin Used(b)
    BY <1>1 DEF Used
  <1>4. Tiled(t)
    BY TakeTiled
  <1> HIDE DEF t
  <1>5. Taken(t) = t[a].size + Header + Cardinality(Ground(t, Used(t) \ {a}))
    <2>1. Used(t) \subseteq DOMAIN t /\ a \in Used(t)
      BY <1>2 DEF Used
    <2> QED  BY <1>4, <2>1, BlockMore DEF Taken
  <1>6. Ground(t, Used(t) \ {a}) = Ground(b, Used(b))
    <2>1. Used(t) \ {a} = Used(b)
      BY <1>2, <1>3
    <2>2. Ground(t, Used(b)) = Ground(b, Used(b))
      BY <1>2, SameGround
    <2> QED  BY <2>1, <2>2
  <1>7. Taken(t) = t[a].size + Header + Taken(b)
    BY <1>5, <1>6, Zenon DEF Taken
  <1>8. Taken(b) \in Nat /\ t[a].size \in Nat
    <2>1. Used(b) \subseteq DOMAIN b
      BY DEF Used
    <2>2. Taken(b) \in Nat
      BY <2>1, BlockMore DEF Taken
    <2> QED  BY <1>2, <1>4, <2>2 DEF Tiled, Block
  <1>9. Taken(t) = Taken(b) + t[a].size + Header
    BY <1>7, <1>8, HeapAssumption
  <1> QED  BY <1>2, <1>3, <1>9 DEF t

LEMMA MergeHolds ==
  ASSUME NEW b, Tiled(b), NEW a \in Pairs(b)
  PROVE  LET m == Merge(b, a) IN
         Used(m) = Used(b) /\ SameSizes(b, m, Used(b)) /\ Taken(m) = Taken(b)
  <1> DEFINE m == Merge(b, a)
             c == b[a].next
  <1>1. a \in DOMAIN b /\ b[a].free /\ c \in DOMAIN b /\ b[c].free /\ a # c
        /\ b[a] \in Block
    <2>1. a \in DOMAIN b /\ b[a].free /\ c # NIL /\ b[c].free /\ b[a] \in Block
      BY DEF Pairs, Tiled
    <2>2. c \in DOMAIN b /\ c = a + Header + b[a].size /\ a \in Nat /\ b[a].size \in Nat
      BY <2>1 DEF Tiled, End, Block
    <2> QED  BY <2>1, <2>2, HeapAssumption
  <1>2. DOMAIN m = DOMAIN b \ {c} /\ \A d \in DOMAIN b \ {a, c} : m[d] = b[d]
    BY DEF Merge
  <1>3. m[a].free
    BY <1>1 DEF Merge, Block
  <1> HIDE DEF m, c
  <1>4. Used(m) = Used(b) /\ SameSizes(b, m, Used(b))
    BY <1>1, <1>2, <1>3 DEF Used, SameSizes
  <1>5. Ground(m, Used(m)) = Ground(b, Used(b))
    BY <1>4, SameGround
  <1> QED  BY <1>4, <1>5, Zenon DEF m, Taken

LEMMA ReleaseHolds ==
  ASSUME NEW b, Tiled(b), NEW S, S \subseteq Used(b)
  PROVE  LET r == Release(b, S) IN
         /\ Used(r) = Used(b) \ S /\ SameSizes(b, r, Used(b))
         /\ Taken(r) = Taken(b) - Bytes(b, S)
  <1> DEFINE r == Release(b, S)
             A == Ground(b, S)
             B == Ground(b, Used(b) \ S)
  <1>1. \A d \in DOMAIN b : b[d] \in Block
    BY DEF Tiled
  <1>2. /\ DOMAIN r = DOMAIN b
        /\ \A d \in DOMAIN b : r[d].size = b[d].size /\ (r[d].free <=> (b[d].free \/ d \in S))
    BY <1>1 DEF Release, Block
  <1> HIDE DEF r
  <1>3. Used(r) = Used(b) \ S /\ SameSizes(b, r, Used(b)) /\ SameSizes(b, r, Used(b) \ S)
    BY <1>2 DEF Used, SameSizes
  <1>4. Ground(r, Used(r)) = B
    BY <1>3, SameGround
  <1>5. S \subseteq DOMAIN b /\ Used(b) \subseteq DOMAIN b /\ Used(b) \ S \subseteq DOMAIN b
    BY DEF Used
  <1>6. Ground(b, Used(b)) = A \cup B
    BY DEF Ground
  <1>7. A \cap B = {}
    <2> SUFFICES ASSUME NEW c \in S, NEW d \in Used(b) \ S, NEW n \in c .. End(b, c) - 1,
                        n \in d .. End(b, d) - 1
                 PROVE  FALSE
      BY DEF Ground
    <2>1. /\ c \in DOMAIN b /\ d \in DOMAIN b /\ c \in Nat /\ d \in Nat /\ c # d
          /\ End(b, c) \in Nat /\ End(b, d) \in Nat
      BY <1>1, <1>5, HeapAssumption DEF Tiled, Block, End
    <2>2. CASE c < d
      BY <2>1, <2>2 DEF Tiled
    <2>3. CASE d < c
      BY <2>1, <2>3 DEF Tiled
    <2> QED  BY <2>1, <2>2, <2>3
  <1>8. /\ IsFiniteSet(A) /\ IsFiniteSet(B) /\ Cardinality(A) \in Nat /\ Cardinality(B) \in Nat
    BY <1>5, BlockMore
  <1>9. Bytes(b, S) = Cardinality(A)
    BY <1>5, BytesAreCounted
  <1> HIDE DEF A, B
  <1>10. Cardinality(A \cup B) = Cardinality(A) + Cardinality(B) - Cardinality(A \cap B)
    BY <1>8, FS_Union
  <1>11. Cardinality(A \cap B) = 0
    <2>1. Cardinality({}) = 0
      BY FS_EmptySet
    <2> QED  BY <1>7, <2>1, Zenon
  <1>12. Taken(b) = Cardinality(A \cup B) /\ Taken(r) = Cardinality(B)
    BY <1>4, <1>6, Zenon DEF Taken
  <1>13. Taken(r) = Taken(b) - Bytes(b, S)
    BY <1>8, <1>9, <1>10, <1>11, <1>12
  <1> QED  BY <1>3, <1>13 DEF r

-----------------------------------------------------------------------------
(* The inductive invariant.  The tree is in order below the root the       *)
(* running call works on, or the stored one between two calls, unless the  *)
(* library has lost a root; a node ecache_insert has not linked yet is     *)
(* loose.                                                                  *)
Good   == caller = "keeper" \/ ~broken
Top    == IF pc \in {"idle", "index"} THEN stored ELSE root
Loose  == IF pc = "descend" THEN {z} ELSE {}
Places == DOMAIN nodes \cup {NIL}

\* Where a call of each kind can be, and who makes it.
Phases ==
  /\ pc \in {"idle", "index"} => call.kind = "none" /\ root = NIL
  /\ pc \in {"malloc", "merge", "again"} => call.kind \in {"mount", "map", "index", "add", "insert"}
  /\ pc \in {"descend", "fixinsert"} => call.kind \in {"index", "add", "insert"}
  /\ pc \in {"search", "sibling", "nephews", "deleted"} => call.kind = "delete"
  /\ pc = "return" => call.kind \in {"index", "add", "insert", "delete"}
  /\ call.kind \in {"index", "add", "insert", "delete"} => call.hash \in Hashes
  /\ call.kind \in {"insert", "delete"} => caller = "keeper"
  /\ call.kind \in {"mount", "map", "index", "add"} \/ pc = "index" => caller = "library" /\ mounted
  /\ call.kind \in {"mount", "map"} => root = NIL /\ stored = NIL
  /\ call.kind = "mount" => fat = NIL /\ fatsize \in FatSizes
  /\ call.kind = "map" => map = NIL
  /\ ~mounted => fat = NIL
  /\ caller = "library" =>
       /\ ~mounted => stored = NIL
       /\ stored # NIL => indexed
       /\ broken => stored # NIL /\ call.kind # "index" /\ pc # "index"
  /\ call.kind = "add" => stored # NIL
  /\ todo # {} => pc = "index" \/ call.kind = "index"
  /\ pc = "index" \/ call.kind = "index" => indexed

\* The heap and its users agree at every step.
Held ==
  /\ allocated = Taken(blocks)
  /\ Used(blocks) = DOMAIN nodes \cup lost \cup Caches
  /\ Caches \cap (DOMAIN nodes \cup lost) = {} /\ DOMAIN nodes \cap lost = {}
  /\ fat # NIL => blocks[fat].size >= fatsize /\ fat # map
  /\ map # NIL => blocks[map].size >= mapsize
  /\ \A a \in DOMAIN nodes : blocks[a].size >= NodeSize

\* What the locals of a call lead to.
Cursors ==
  /\ root \in Places
  /\ call.kind # "delete" => stored \in Places
  /\ pc = "search" => x \in Places
  /\ pc = "fixinsert" => z \in DOMAIN nodes
  /\ pc = "sibling" => x \in Places /\ (y \in DOMAIN nodes \/ (y = NIL /\ x = root))
  /\ pc = "nephews" => x \in Places /\ y \in DOMAIN nodes
  /\ pc = "deleted" => x \in Places

\* ecache_insert on its way down: the new node belongs below y.
Going(sub) ==
  /\ Single(nodes, sub, z) /\ nodes[z].hash = call.hash
  /\ {x, y, root, stored} \subseteq Places \ {z}
  /\ y = NIL => x = root
  /\ y # NIL => x = Child(Tree, y, call.hash) /\ nodes[y].hash # call.hash
  /\ Good /\ y # NIL => Fits(nodes, sub, y, call.hash, {z})

Shapes ==
  \E sub : /\ Shaped(nodes, sub)
           /\ Good => Sorted(nodes, sub) /\ Rules(nodes, sub, Top, Loose)
           /\ pc = "descend" => Going(sub)

\* What the nodes know of the names.
Known ==
  /\ caller = "keeper" => files = {nodes[a].hash : a \in DOMAIN nodes \ Loose}
  /\ caller = "library" =>
       {nodes[a].hash : a \in DOMAIN nodes} \cup todo
         \cup (IF call.kind \in {"index", "add"} THEN {call.hash} ELSE {})
           \subseteq files \cup drift

Inv == TypeOK /\ HeapTiled /\ Phases /\ Held /\ Cursors /\ Shapes /\ Known

(* The addresses of the nodes are numbers, and finitely many.              *)
LEMMA HeldFacts ==
  ASSUME HeapTiled, Held
  PROVE  /\ IsFiniteSet(DOMAIN nodes) /\ NIL \notin Used(blocks)
         /\ Used(blocks) \subseteq DOMAIN blocks /\ DOMAIN blocks \subseteq 0 .. Pool
         /\ Places \subseteq 0 .. Pool \cup {NIL} /\ {fat, map} \subseteq 0 .. Pool \cup {NIL}
  <1>1. Used(blocks) \subseteq DOMAIN blocks /\ DOMAIN blocks \subseteq 0 .. Pool
    BY DEF Used, HeapTiled, Tiled
  <1>2. NIL \notin 0 .. Pool
    BY DEF NIL
  <1>3. DOMAIN nodes \subseteq Used(blocks)
    BY DEF Held
  <1>4. IsFiniteSet(0 .. Pool)
    BY FS_Interval, HeapAssumption
  <1>5. IsFiniteSet(DOMAIN nodes)
    <2>1. DOMAIN nodes \in SUBSET (0 .. Pool)
      BY <1>1, <1>3
    <2> QED  BY <1>4, <2>1, FS_Subset
  <1>6. Caches \subseteq Used(blocks)
    BY DEF Held
  <1> QED  BY <1>1, <1>2, <1>3, <1>5, <1>6 DEF Places, Caches

\* Behind fat_cache_init.
LEMMA MountGoesOn ==
  ASSUME CacheDone
  PROVE  /\ \/ pc' = "idle" /\ call'.kind = "none"
            \/ pc' = "malloc" /\ call'.kind = "map" /\ map = NIL
         /\ map # NIL => mapsize' = mapsize
  BY DEF CacheDone, NoCall

LEMMA StepPhases == TypeOK /\ Phases /\ [Next]_vars => Phases'
  <1> SUFFICES ASSUME TypeOK, Phases, [Next]_vars  PROVE Phases'
    OBVIOUS
  <1>1. CASE NoRoom \/ Coalesce \/ Coalesced
    BY <1>1 DEF NoRoom, Coalesce, Coalesced, Phases, volume, handle, locals, caches
  <1>2. CASE Malloc
    <2>1. /\ pc \in {"malloc", "again"}
          /\ UNCHANGED <<caller, mounted, fatsize, stored, indexed, todo, root, broken>>
      BY <1>2 DEF Malloc, volume, handle
    <2>2. CASE call.kind = "mount"
      BY <1>2, <2>1, <2>2, MountGoesOn DEF Malloc, Phases
    <2>3. CASE call.kind = "map"
      BY <1>2, <2>1, <2>3 DEF Malloc, Phases, NoCall
    <2>4. CASE call.kind \notin {"mount", "map"}
      BY <1>2, <2>1, <2>4 DEF Malloc, Phases, caches
    <2> QED  BY <2>2, <2>3, <2>4
  <1>3. CASE OutOfMemory
    <2>1. /\ pc = "again"
          /\ UNCHANGED <<caller, mounted, fatsize, stored, indexed, todo, root, broken, fat, map>>
      BY <1>3 DEF OutOfMemory, volume, handle
    <2>2. CASE call.kind = "mount"
      BY <1>3, <2>1, <2>2, MountGoesOn DEF OutOfMemory, Phases
    <2>3. CASE call.kind = "map"
      BY <1>3, <2>1, <2>3 DEF OutOfMemory, Phases, NoCall
    <2>4. CASE call.kind \notin {"mount", "map"}
      BY <1>3, <2>1, <2>4 DEF OutOfMemory, Phases
    <2> QED  BY <2>2, <2>3, <2>4
  <1>4. CASE Descend \/ Duplicate \/ Link \/ FixInsert \/ InsertFixed
    <2>1. /\ UNCHANGED <<caller, mounted, fat, map, fatsize, stored, indexed, todo, call, broken>>
          /\ pc \in {"descend", "fixinsert"} /\ pc' \in {"descend", "fixinsert", "return"}
      BY <1>4 DEF Descend, Duplicate, Link, FixInsert, InsertFixed, volume, handle, locals, caches
    <2> QED  BY <2>1 DEF Phases
  <1>5. CASE Search \/ Missing \/ FixSibling \/ FixParent \/ FixNephews \/ DeleteFixed
    BY <1>5 DEF Search, Missing, FixSibling, FixParent, FixNephews, DeleteFixed, Phases, volume,
                handle, locals, caches
  <1>6. CASE Delete
    BY <1>6 DEF Delete, Phases, handle, caches
  <1>7. CASE Crash
    BY <1>7 DEF Crash, Phases, volume, handle, locals, caches
  <1>8. CASE Return
    BY <1>8 DEF Return, Phases, volume, NoCall, caches
  <1>9. \A h : h \in Names[caller] => h \in Hashes
    BY DEF TypeOK, Callers, Hashes
  <1>10. CASE Insert
    <2>1. PICK h \in Names[caller] : Begin("insert", h, "malloc")
      BY <1>10 DEF Insert
    <2>2. call'.kind = "insert" /\ call'.hash \in Hashes /\ pc' = "malloc"
      BY <1>9, <2>1 DEF Begin
    <2> QED  BY <1>10, <2>2 DEF Insert, Keeper, Phases, volume, handle, caches
  <1>11. CASE Erase
    <2>1. PICK h \in Names[caller] : Begin("delete", h, "search")
      BY <1>11 DEF Erase
    <2>2. call'.kind = "delete" /\ call'.hash \in Hashes /\ pc' = "search"
      BY <1>9, <2>1 DEF Begin
    <2> QED  BY <1>11, <2>2 DEF Erase, Keeper, Phases, volume, handle, caches
  <1>12. CASE Mount
    <2>1. call'.kind = "mount" /\ pc' = "malloc" /\ root' = stored
      BY <1>12 DEF Mount, Begin
    <2> QED  BY <1>12, <2>1 DEF Mount, Library, Phases, handle, caches
  <1>13. CASE Index \/ Indexed
    BY <1>13 DEF Index, Indexed, Library, Phases, volume, handle, locals, caches
  <1>14. CASE IndexNext
    <2>1. PICK h \in todo : Begin("index", h, "malloc") /\ todo' = todo \ {h}
      BY <1>14 DEF IndexNext
    <2>2. call'.kind = "index" /\ call'.hash \in Hashes /\ pc' = "malloc"
      BY <2>1 DEF Begin, TypeOK
    <2> QED  BY <1>14, <2>2 DEF IndexNext, Phases, volume, caches
  <1>15. CASE Put
    <2>1. PICK h \in Names[caller] \ files : \/ stored = NIL /\ UNCHANGED <<drift, pc, call, root, x>>
                                             \/ stored # NIL /\ Begin("add", h, "malloc")
      BY <1>15 DEF Put
    <2>2. CASE stored = NIL /\ UNCHANGED <<drift, pc, call, root, x>>
      BY <1>15, <2>2 DEF Put, Library, Phases, handle, caches
    <2>3. CASE stored # NIL /\ Begin("add", h, "malloc")
      <3>1. call'.kind = "add" /\ call'.hash \in Hashes /\ pc' = "malloc"
        BY <1>9, <2>3 DEF Begin
      <3> QED  BY <1>15, <2>3, <3>1 DEF Put, Library, Phases, handle, caches
    <2> QED  BY <2>1, <2>2, <2>3
  <1>16. CASE Remove
    BY <1>16 DEF Remove, Library, Phases, handle, locals, caches
  <1>17. CASE Close
    BY <1>17 DEF Close, Closed, Phases, locals, caches
  <1>18. CASE Unload
    BY <1>18 DEF Unload, Closed, Library, Phases, locals, caches
  <1>19. CASE UNCHANGED vars
    BY <1>19 DEF vars, volume, handle, locals, caches, Phases
  <1> QED  BY <1>1, <1>2, <1>3, <1>4, <1>5, <1>6, <1>7, <1>8, <1>10, <1>11, <1>12, <1>13, <1>14,
              <1>15, <1>16, <1>17, <1>18, <1>19
           DEF Next, HeapStep, InsertStep, DeleteStep, Client

\* Between two steps that rotate, the tree is as the loops take it.
LEMMA TreeIs ==
  ASSUME HeapTiled, Held, Cursors, Shapes, pc \notin {"idle", "index", "descend"}
  PROVE  IsTree(Tree) /\ (Good => Ordered(Tree))
  <1>1. IsFiniteSet(DOMAIN nodes)
    BY HeldFacts
  <1>2. PICK sub : /\ Shaped(nodes, sub)
                   /\ Good => Sorted(nodes, sub) /\ Rules(nodes, sub, Top, Loose)
    BY DEF Shapes
  <1>3. Top = root /\ Loose = {}
    BY DEF Top, Loose
  <1>4. Tree.n = nodes /\ Tree.root = root /\ Tree = [root |-> Tree.root, n |-> Tree.n]
    BY DEF Tree
  <1>5. root \in DOMAIN nodes \cup {NIL}
    BY DEF Cursors, Places
  <1> QED  BY <1>1, <1>2, <1>3, <1>4, <1>5 DEF IsTree, Ordered

\* A step that puts a rebalanced tree in the place of the tree.
LEMMA RebalanceStep ==
  ASSUME HeapTiled, Held, Cursors, Shapes, pc \notin {"idle", "index", "descend"},
         NEW U, Rebalanced(Tree, U), Grow(U), UNCHANGED <<caller, broken>>,
         pc' \notin {"idle", "index", "descend"}
  PROVE  /\ Shapes' /\ DOMAIN nodes' = DOMAIN nodes /\ Places' = Places /\ root' \in Places
         /\ \A a \in DOMAIN nodes : nodes'[a].hash = nodes[a].hash
  <1>1. nodes' = U.n /\ root' = U.root /\ Tree.n = nodes
    BY DEF Grow, Tree
  <1>2. /\ IsTree(U) /\ DOMAIN U.n = DOMAIN nodes
        /\ \A a \in DOMAIN nodes : U.n[a].hash = nodes[a].hash
        /\ Good => Ordered(U)
    BY <1>1, TreeIs DEF Rebalanced
  <1>3. (Good' <=> Good) /\ Top' = root' /\ Loose' = {}
    BY DEF Good, Top, Loose
  <1>4. PICK sub : /\ Shaped(U.n, sub)
                   /\ Good => Sorted(U.n, sub) /\ Rules(U.n, sub, U.root, {})
    BY <1>2 DEF IsTree, Ordered
  <1>5. Shapes'
    BY <1>1, <1>3, <1>4 DEF Shapes
  <1>6. root' \in Places /\ Places' = Places
    BY <1>1, <1>2 DEF IsTree, Places
  <1> QED  BY <1>1, <1>2, <1>5, <1>6

\* A step on which nothing depends.
LEMMA StillShapes ==
  ASSUME Shapes, UNCHANGED <<nodes, caller, broken>>,
         Top' = Top, pc # "descend", pc' # "descend"
  PROVE  Shapes'
  <1>1. (Good' <=> Good) /\ Loose' = Loose
    BY DEF Good, Loose
  <1> QED  BY <1>1 DEF Shapes

\* _fix_insert.
LEMMA InsertKeeps ==
  ASSUME HeapTiled, Held, Cursors, Shapes, Phases, FixInsert \/ InsertFixed
  PROVE  /\ Shapes' /\ Cursors' /\ DOMAIN nodes' = DOMAIN nodes
         /\ \A a \in DOMAIN nodes : nodes'[a].hash = nodes[a].hash
  <1>1. pc = "fixinsert" /\ pc' \in {"fixinsert", "return"} /\ UNCHANGED <<caller, broken, call, stored>>
    BY DEF FixInsert, InsertFixed, handle
  <1>2. IsTree(Tree) /\ Tree.n = nodes /\ z \in DOMAIN nodes /\ call.kind # "delete"
    BY <1>1, TreeIs DEF Tree, Cursors, Phases
  <1>3. stored \in Places
    BY <1>2 DEF Cursors
  <1>4. CASE FixInsert
    <2>1. nodes[z].p # NIL /\ nodes[nodes[z].p].p # NIL
      BY <1>4 DEF FixInsert, RedTop, Above
    <2>2. PICK U : Rebalanced(Tree, U) /\ Grow(U) /\ z' \in DOMAIN nodes
      <3>1. CASE Red(Tree, Uncle(Tree, z))
        <4>1. Rebalanced(Tree, PushUp(Tree, z))
          BY <1>2, PushUpKeeps
        <4>2. Grow(PushUp(Tree, z)) /\ z' = nodes[nodes[z].p].p
          BY <1>4, <3>1 DEF FixInsert, Above
        <4>3. nodes[nodes[z].p].p \in DOMAIN nodes
          <5>1. nodes[z].p \in DOMAIN nodes
            BY <1>2, <2>1, SideIs
          <5> QED  BY <1>2, <2>1, <5>1, SideIs
        <4> QED  BY <4>1, <4>2, <4>3
      <3>2. CASE ~Red(Tree, Uncle(Tree, z))
        <4>1. Rebalanced(Tree, RotateUp(Tree, z).tree) /\ RotateUp(Tree, z).z \in DOMAIN nodes
          BY <1>2, <2>1, RotateUpKeeps
        <4>2. Grow(RotateUp(Tree, z).tree) /\ z' = RotateUp(Tree, z).z
          BY <1>4, <3>2 DEF FixInsert
        <4> QED  BY <4>1, <4>2
      <3> QED  BY <3>1, <3>2
    <2>3. pc' = "fixinsert"
      BY <1>4 DEF FixInsert
    <2>4. /\ Shapes' /\ DOMAIN nodes' = DOMAIN nodes /\ Places' = Places /\ root' \in Places
          /\ \A a \in DOMAIN nodes : nodes'[a].hash = nodes[a].hash
      BY <1>1, <2>2, <2>3, RebalanceStep
    <2> QED  BY <1>1, <1>3, <2>2, <2>3, <2>4 DEF Cursors
  <1>5. CASE InsertFixed
    <2> DEFINE U == Paint(Tree, {root}, TRUE)
    <2>1. Grow(U) /\ pc' = "return"
      BY <1>5 DEF InsertFixed
    <2>2. Rebalanced(Tree, U)
      BY <1>2, PaintKeeps DEF Painted
    <2> HIDE DEF U
    <2>3. /\ Shapes' /\ DOMAIN nodes' = DOMAIN nodes /\ Places' = Places /\ root' \in Places
          /\ \A a \in DOMAIN nodes : nodes'[a].hash = nodes[a].hash
      BY <1>1, <2>1, <2>2, RebalanceStep
    <2> QED  BY <1>1, <1>3, <2>1, <2>3 DEF Cursors
  <1> QED  BY <1>4, <1>5

\* _fix_delete.
LEMMA DeleteKeeps ==
  ASSUME HeapTiled, Held, Cursors, Shapes, Phases,
         FixSibling \/ FixParent \/ FixNephews \/ DeleteFixed
  PROVE  /\ Shapes' /\ Cursors' /\ DOMAIN nodes' = DOMAIN nodes
         /\ \A a \in DOMAIN nodes : nodes'[a].hash = nodes[a].hash
  <1>1. /\ pc \in {"sibling", "nephews", "deleted"} /\ pc' \in {"sibling", "nephews", "deleted", "return"}
        /\ UNCHANGED <<caller, broken, call, stored>>
    BY DEF FixSibling, FixParent, FixNephews, DeleteFixed, handle
  <1>2. /\ IsTree(Tree) /\ Tree.n = nodes /\ Tree.root = root /\ call'.kind = "delete"
        /\ Ordered(Tree)
    <2>1. pc \notin {"idle", "index", "descend"} /\ call.kind = "delete"
      BY <1>1 DEF Phases
    <2>2. Good
      BY <2>1 DEF Phases, Good
    <2> QED  BY <1>1, <2>1, <2>2, TreeIs DEF Tree
  <1>3. ASSUME NEW U, Rebalanced(Tree, U), Grow(U)
        PROVE  /\ Shapes' /\ DOMAIN nodes' = DOMAIN nodes /\ Places' = Places /\ root' \in Places
               /\ \A a \in DOMAIN nodes : nodes'[a].hash = nodes[a].hash
    BY <1>1, <1>3, RebalanceStep
  <1>4. NIL \notin DOMAIN nodes /\ Side \in Sides
    BY <1>2 DEF IsTree, Shaped, Side, Sides
  <1>5. CASE FixSibling
    <2>1. y \in DOMAIN nodes /\ x \in Places /\ nodes[y][Other(Side)] # NIL
          /\ pc' = "nephews" /\ UNCHANGED <<x, y>>
      BY <1>5 DEF FixSibling, ToFix, Sibling, Cursors
    <2>2. CASE Red(Tree, Sibling)
      <3>1. Grow(SiblingUp(Tree, y, Side))
        BY <1>2, <1>5, <2>2 DEF FixSibling, SiblingUp, Sibling
      <3>2. Rebalanced(Tree, SiblingUp(Tree, y, Side))
        BY <1>2, <1>4, <2>1, SiblingUpKeeps
      <3> QED  BY <1>2, <1>3, <2>1, <3>1, <3>2 DEF Cursors
    <2>3. CASE ~Red(Tree, Sibling)
      <3>1. Grow(Tree)
        BY <1>5, <2>3 DEF FixSibling
      <3>2. Rebalanced(Tree, Tree)
        BY <1>2 DEF Rebalanced
      <3> QED  BY <1>2, <1>3, <2>1, <3>1, <3>2 DEF Cursors
    <2> QED  BY <2>2, <2>3
  <1>6. CASE FixParent
    <2> DEFINE U == Paint(Tree, {Sibling}, FALSE)
    <2>1. /\ y \in DOMAIN nodes /\ pc' = "sibling" /\ x' = y /\ y' = nodes[y].p
          /\ Grow(U)
      BY <1>6 DEF FixParent, Cursors
    <2>2. Rebalanced(Tree, U)
      BY <1>2, PaintKeeps DEF Painted
    <2>3. U.root = root
      BY DEF Paint, Tree
    <2> HIDE DEF U
    <2>4. /\ Shapes' /\ DOMAIN nodes' = DOMAIN nodes /\ Places' = Places /\ root' \in Places
          /\ \A a \in DOMAIN nodes : nodes'[a].hash = nodes[a].hash
      BY <1>3, <2>1, <2>2
    <2>5. root' = root
      BY <2>1, <2>3 DEF Grow
    <2>6. nodes[y].p \in Places
      <3>1. PICK sub : Shaped(nodes, sub)
        BY <1>2 DEF IsTree
      <3> QED  BY <2>1, <3>1, NodeFacts DEF Shaped, Places
    <2>7. ASSUME nodes[y].p = NIL  PROVE y = root
      <3>1. PICK sub : Shaped(nodes, sub) /\ Rules(nodes, sub, root, {})
        BY <1>2 DEF Ordered
      <3>2. y \in sub[root] /\ root \in DOMAIN nodes
        BY <2>1, <3>1 DEF Rules, Shaped, Cursors, Places
      <3>3. IsFiniteSet(DOMAIN nodes)
        BY HeldFacts
      <3> QED  BY <2>7, <3>1, <3>2, <3>3, OnlyRoot
    <2> QED  BY <1>2, <2>1, <2>4, <2>5, <2>6, <2>7 DEF Cursors, Places
  <1>7. CASE FixNephews
    <2>1. /\ y \in DOMAIN nodes /\ x \in Places /\ pc' = "deleted"
          /\ nodes[y][Other(Side)] # NIL
      BY <1>7, Zenon DEF FixNephews, Sibling, Cursors
    <2>2. LET v == Tree.n[y][Other(Side)]
          IN ~(Black(Tree, Tree.n[v][Side]) /\ Black(Tree, Tree.n[v][Other(Side)]))
      BY <1>2, <1>7, Zenon DEF FixNephews, Sibling, Near, Far
    <2>3. Rebalanced(Tree, NephewUp(Tree, y, Side))
      BY <1>2, <1>4, <2>1, <2>2, NephewUpKeeps
    <2>4. Grow(NephewUp(Tree, y, Side)) /\ x' = NephewUp(Tree, y, Side).root
      BY <1>2, <1>7, Zenon DEF FixNephews, NephewUp, FarRed, Sibling, Near, Far
    <2>5. /\ Shapes' /\ DOMAIN nodes' = DOMAIN nodes /\ Places' = Places /\ root' \in Places
          /\ \A a \in DOMAIN nodes : nodes'[a].hash = nodes[a].hash
      BY <1>3, <2>3, <2>4
    <2>6. x' = root'
      BY <2>4 DEF Grow
    <2> QED  BY <1>2, <2>1, <2>5, <2>6 DEF Cursors
  <1>8. CASE DeleteFixed
    <2> DEFINE U == Paint(Tree, {x}, TRUE)
    <2>1. Grow(U) /\ pc' = "return"
      BY <1>8 DEF DeleteFixed
    <2>2. Rebalanced(Tree, U)
      BY <1>2, PaintKeeps DEF Painted
    <2> HIDE DEF U
    <2>3. /\ Shapes' /\ DOMAIN nodes' = DOMAIN nodes /\ Places' = Places /\ root' \in Places
          /\ \A a \in DOMAIN nodes : nodes'[a].hash = nodes[a].hash
      BY <1>3, <2>1, <2>2
    <2> QED  BY <1>2, <2>1, <2>3 DEF Cursors
  <1> QED  BY <1>5, <1>6, <1>7, <1>8

-----------------------------------------------------------------------------
(* ecache_insert.                                                          *)
LEMMA FreeHolds ==
  ASSUME HeapTiled, Held, NEW S, S \subseteq Used(blocks), Free(S)
  PROVE  /\ allocated' = Taken(blocks') /\ Used(blocks') = Used(blocks) \ S
         /\ SameSizes(blocks, blocks', Used(blocks))
  <1>1. blocks' = Release(blocks, S) /\ allocated' = allocated - Bytes(blocks, S)
    BY DEF Free, Bytes
  <1>2. Tiled(blocks) /\ allocated = Taken(blocks)
    BY DEF HeapTiled, Held
  <1> QED  BY <1>1, <1>2, ReleaseHolds

\* nft32_malloc_s, for the FAT cache and for the bitmap.
LEMMA MallocCache ==
  ASSUME TypeOK, HeapTiled, Held, Cursors, Shapes, Phases, Known, Malloc,
         call.kind \in {"mount", "map"}
  PROVE  Held' /\ Cursors' /\ Shapes' /\ Known'
  <1>1. PICK a \in DOMAIN blocks :
          /\ a \in Room(blocks, Want) /\ blocks' = Take(blocks, a, Want)
          /\ allocated' = allocated + blocks'[a].size + Header
          /\ \/ call.kind = "mount" /\ fat' = a /\ CacheDone /\ map' = map
             \/ /\ call.kind = "map" /\ map' = a /\ pc' = "idle" /\ call' = NoCall
                /\ UNCHANGED <<fat, mapsize>>
    BY DEF Malloc, FirstOf
  <1>2. /\ pc \in {"malloc", "again"}
        /\ UNCHANGED <<nodes, caller, fatsize, files, drift, stored, lost, todo, root, broken>>
    BY DEF Malloc, volume, handle
  <1>3. pc' \in {"idle", "malloc"} /\ call'.kind \in {"none", "map"}
    BY <1>1, MountGoesOn DEF NoCall
  <1>4. Want \in Nat /\ (call.kind = "mount" => Want = fatsize) /\ (call.kind = "map" => Want = mapsize)
    BY DirIndexAssumption DEF Want, TypeOK
  <1>5. /\ Used(blocks') = Used(blocks) \cup {a} /\ a \notin Used(blocks)
        /\ blocks'[a].size >= Want /\ SameSizes(blocks, blocks', Used(blocks))
        /\ Taken(blocks') = Taken(blocks) + blocks'[a].size + Header
    BY <1>1, <1>4, TakeHolds DEF HeapTiled
  <1>6. /\ call.kind = "mount" => fat = NIL
        /\ call.kind = "map" => map = NIL
        /\ root = NIL /\ stored = NIL
    BY DEF Phases
  <1>7. Held'
    <2>1. Used(blocks) = DOMAIN nodes \cup lost \cup Caches /\ allocated = Taken(blocks)
          /\ Caches \cap (DOMAIN nodes \cup lost) = {} /\ DOMAIN nodes \cap lost = {}
          /\ (fat # NIL => blocks[fat].size >= fatsize) /\ (map # NIL => blocks[map].size >= mapsize)
          /\ \A c \in DOMAIN nodes : blocks[c].size >= NodeSize
      BY DEF Held
    <2>2. a # NIL
      BY HeldFacts DEF NIL
    <2>3. allocated' = Taken(blocks')
      BY <1>1, <1>5, <2>1
    <2>4. \A c \in DOMAIN nodes \cup Caches : blocks'[c].size = blocks[c].size
      BY <1>5, <2>1 DEF SameSizes
    <2>5. Caches' = Caches \cup {a} /\ a \notin Caches
      <3>1. a \notin Caches
        BY <1>5, <2>1
      <3> QED  BY <1>1, <1>6, <2>2, <3>1 DEF Caches
    <2>6. Used(blocks') = DOMAIN nodes' \cup lost' \cup Caches'
      BY <1>2, <1>5, <2>1, <2>5
    <2>7. Caches' \cap (DOMAIN nodes' \cup lost') = {} /\ DOMAIN nodes' \cap lost' = {}
      BY <1>2, <1>5, <2>1, <2>5
    <2>8. fat' # NIL => blocks'[fat'].size >= fatsize' /\ fat' # map'
      BY <1>1, <1>2, <1>4, <1>5, <1>6, <2>1, <2>2, <2>4, <2>5 DEF Caches
    <2>9. map' # NIL => blocks'[map'].size >= mapsize'
      <3>1. CASE call.kind = "mount"
        <4>1. map' = map /\ (map # NIL => mapsize' = mapsize /\ map \in Caches)
          BY <1>1, <3>1, MountGoesOn DEF Caches
        <4> QED  BY <2>1, <2>4, <4>1
      <3>2. CASE call.kind = "map"
        BY <1>1, <1>4, <1>5, <3>2
      <3> QED  BY <3>1, <3>2
    <2>10. \A c \in DOMAIN nodes' : blocks'[c].size >= NodeSize
      BY <1>2, <2>1, <2>4
    <2> QED  BY <2>3, <2>6, <2>7, <2>8, <2>9, <2>10 DEF Held
  <1>8. Cursors'
    BY <1>2, <1>3, <1>6 DEF Cursors, Places
  <1>9. Shapes'
    <2>1. Top' = Top
      BY <1>2, <1>3, <1>6 DEF Top
    <2> QED  BY <1>2, <1>3, <2>1, StillShapes
  <1>10. Known'
    <2>1. Loose' = Loose
      BY <1>2, <1>3 DEF Loose
    <2> QED  BY <1>2, <1>3, <2>1 DEF Known
  <1> QED  BY <1>7, <1>8, <1>9, <1>10

\* nft32_malloc_s, for a node.
LEMMA MallocNode ==
  ASSUME TypeOK, HeapTiled, Held, Cursors, Shapes, Phases, Known, Malloc,
         call.kind \notin {"mount", "map"}
  PROVE  Held' /\ Cursors' /\ Shapes' /\ Known'
  <1>1. PICK a \in DOMAIN blocks : /\ a \in Room(blocks, Want) /\ blocks' = Take(blocks, a, Want)
                                   /\ allocated' = allocated + blocks'[a].size + Header
                                   /\ nodes' = Sprout(nodes, a, call.hash)
                                   /\ x' = root /\ y' = NIL /\ z' = a
    BY DEF Malloc, FirstOf, Sprout
  <1>2. /\ pc \in {"malloc", "again"} /\ pc' = "descend"
        /\ UNCHANGED <<fat, map, mapsize, call, caller, fatsize, files, drift, stored, lost, todo, root,
                       broken>>
    BY DEF Malloc, volume, handle, caches
  <1>3. Want = NodeSize /\ Want \in Nat
    BY DirIndexAssumption DEF Want
  <1>4. /\ Used(blocks') = Used(blocks) \cup {a} /\ a \notin Used(blocks)
        /\ blocks'[a].size >= Want /\ SameSizes(blocks, blocks', Used(blocks))
        /\ Taken(blocks') = Taken(blocks) + blocks'[a].size + Header
    BY <1>1, <1>3, TakeHolds DEF HeapTiled
  <1>5. a \notin DOMAIN nodes /\ a # NIL /\ a \notin lost /\ a \notin Caches
    <2>1. a # NIL
      BY HeldFacts DEF NIL
    <2> QED  BY <1>4, <2>1 DEF Held
  <1>6. /\ DOMAIN nodes' = DOMAIN nodes \cup {a}
        /\ \A c \in DOMAIN nodes : nodes'[c] = nodes[c]
        /\ nodes'[a].hash = call.hash
    BY <1>1, <1>5 DEF Sprout, Leaf
  <1>7. Held'
    <2>1. Caches' = Caches
      BY <1>2 DEF Caches
    <2>2. /\ fat' # NIL => blocks'[fat'].size >= fatsize' /\ fat' # map'
          /\ map' # NIL => blocks'[map'].size >= mapsize'
      BY <1>2, <1>4 DEF Held, SameSizes, Caches
    <2> QED  BY <1>1, <1>2, <1>3, <1>4, <1>5, <1>6, <2>1, <2>2 DEF Held, SameSizes
  <1>8. call.kind \in {"index", "add", "insert"} /\ call.hash \in Nat
    <2>1. call.kind \in {"index", "add", "insert"} /\ call.hash \in Hashes
      BY <1>2 DEF Phases
    <2> QED  BY <2>1, DirIndexAssumption DEF Hashes, Callers
  <1>9. root \in Places \ {a} /\ stored \in Places \ {a}
    BY <1>5, <1>8 DEF Cursors, Places
  <1>10. Cursors'
    BY <1>2, <1>6, <1>9 DEF Cursors, Places
  <1>11. PICK sub : Shaped(nodes, sub) /\ (Good => Sorted(nodes, sub) /\ Rules(nodes, sub, root, {}))
    BY <1>2 DEF Shapes, Top, Loose
  <1>12. PICK S : /\ Shaped(nodes', S) /\ Single(nodes', S, a)
                  /\ Good => Sorted(nodes', S) /\ Rules(nodes', S, root, {a})
    BY <1>1, <1>5, <1>8, <1>9, <1>11, Sprouted DEF Places
  <1>13. Shapes'
    <2>1. (Good' <=> Good) /\ Top' = root /\ Loose' = {a}
      BY <1>1, <1>2 DEF Good, Top, Loose
    <2>2. Going(S)'
      <3>1. Single(nodes', S, z') /\ nodes'[z'].hash = call'.hash
        BY <1>1, <1>2, <1>6, <1>12
      <3>2. y' = NIL /\ x' = root'
        BY <1>1, <1>2
      <3>3. {x', y', root', stored'} \subseteq Places' \ {z'}
        BY <1>1, <1>2, <1>5, <1>6, <1>9 DEF Places
      <3> QED  BY <3>1, <3>2, <3>3 DEF Going
    <2> QED  BY <1>12, <2>1, <2>2 DEF Shapes
  <1>14. Known'
    <2>1. Loose = {} /\ Loose' = {a} /\ DOMAIN nodes' \ Loose' = DOMAIN nodes
      BY <1>1, <1>2, <1>5, <1>6 DEF Loose
    <2>2. caller = "keeper" => files' = {nodes'[c].hash : c \in DOMAIN nodes' \ Loose'}
      BY <1>2, <1>6, <2>1 DEF Known
    <2>3. caller = "library" =>
            {nodes'[c].hash : c \in DOMAIN nodes'} = {nodes[c].hash : c \in DOMAIN nodes} \cup {call.hash}
      BY <1>6
    <2>4. caller = "library" => call.kind \in {"index", "add"}
      BY <1>8 DEF Phases
    <2> QED  BY <1>2, <2>2, <2>3, <2>4 DEF Known
  <1> QED  BY <1>7, <1>10, <1>13, <1>14

\* A hash that is not that of a node goes to the side of the child.
LEMMA ChildIs ==
  ASSUME NEW N, NEW u \in DOMAIN N, NEW h \in Nat, N[u].hash \in Nat, N[u].hash # h, NEW q
  PROVE  \E s \in Sides : /\ Child([root |-> q, n |-> N], u, h) = N[u][s]
                          /\ s = (IF h < N[u].hash THEN "l" ELSE "r")
                          /\ Before(s, h, N[u].hash)
  <1>1. CASE h < N[u].hash
    BY <1>1 DEF Child, Sides, Before
  <1>2. CASE ~(h < N[u].hash)
    BY <1>2 DEF Child, Sides, Before
  <1> QED  BY <1>1, <1>2

LEMMA DescendKeeps ==
  ASSUME TypeOK, HeapTiled, Held, Cursors, Shapes, Phases, Descend
  PROVE  Shapes' /\ Cursors'
  <1> DEFINE h == call.hash
  <1>1. /\ pc = "descend" /\ pc' = "descend" /\ x # NIL /\ nodes[x].hash # h
        /\ y' = x /\ x' = Child(Tree, x, h)
        /\ UNCHANGED <<nodes, call, caller, stored, root, z, broken>>
    BY DEF Descend, handle
  <1>2. PICK sub : /\ Shaped(nodes, sub) /\ Going(sub)
                   /\ Good => Sorted(nodes, sub) /\ Rules(nodes, sub, root, {z})
    BY <1>1 DEF Shapes, Top, Loose
  <1>3. /\ Single(nodes, sub, z) /\ nodes[z].hash = h
        /\ {x, y, root, stored} \subseteq Places \ {z}
        /\ y = NIL => x = root
        /\ y # NIL => x = Child(Tree, y, h) /\ nodes[y].hash # h
        /\ Good /\ y # NIL => Fits(nodes, sub, y, h, {z})
    BY <1>2 DEF Going
  <1>4. /\ h \in Nat /\ NIL \notin DOMAIN nodes /\ \A a \in DOMAIN nodes : nodes[a].hash \in Nat
        /\ x \in DOMAIN nodes \ {z} /\ z \in DOMAIN nodes /\ IsFiniteSet(DOMAIN nodes)
        /\ sub[NIL] = {}
    <2>1. z \in DOMAIN nodes /\ x \in DOMAIN nodes \ {z}
      BY <1>1, <1>3 DEF Single, Places
    <2>2. \A a \in DOMAIN nodes : nodes[a].hash \in Nat
      BY <1>2, NodeFacts DEF Shaped
    <2> QED  BY <1>2, <1>3, <2>1, <2>2, HeldFacts DEF Shaped
  <1>5. ASSUME NEW u \in DOMAIN nodes, nodes[u].hash # h
        PROVE  \E s \in Sides : Child(Tree, u, h) = nodes[u][s] /\ Before(s, h, nodes[u].hash)
    BY <1>4, <1>5, ChildIs DEF Tree
  <1> HIDE DEF h
  <1>6. Child(Tree, x, h) \in Places \ {z}
    <2>1. PICK s \in Sides : Child(Tree, x, h) = nodes[x][s]
      BY <1>1, <1>4, <1>5
    <2>2. nodes[x][s] # NIL => nodes[x][s] \in DOMAIN nodes /\ nodes[nodes[x][s]].p = x
      BY <1>2, <1>4, Beside
    <2>3. nodes[x][s] # z
      BY <1>1, <1>3, <1>4, <2>2 DEF Single
    <2> QED  BY <2>1, <2>2, <2>3 DEF Places
  <1>7. ASSUME Good  PROVE Fits(nodes, sub, x, h, {z})
    <2> SUFFICES ASSUME NEW a \in DOMAIN nodes \ {z}, NEW g \in Sides, x \in sub[nodes[a][g]]
                 PROVE  Before(g, h, nodes[a].hash)
      BY DEF Fits
    <2> DEFINE c == nodes[a][g]
    <2>1. c # NIL /\ c \in DOMAIN nodes /\ nodes[c].p = a
      <3>1. c # NIL
        BY <1>4
      <3> QED  BY <1>2, <3>1, Beside
    <2>2. x # c => nodes[x].p # NIL /\ nodes[x].p \in sub[c]
      BY <1>2, <1>4, <2>1, Downward
    <2>3. CASE y = NIL
      <3>1. x = root /\ nodes[x].p = NIL
        BY <1>1, <1>2, <1>3, <1>7, <2>3 DEF Rules
      <3> QED  BY <1>4, <2>1, <2>2, <3>1
    <2>4. CASE y # NIL
      <3>1. y \in DOMAIN nodes /\ nodes[y].hash # h /\ x = Child(Tree, y, h)
            /\ Fits(nodes, sub, y, h, {z})
        BY <1>3, <1>7, <2>4 DEF Places
      <3>2. PICK s \in Sides : x = nodes[y][s] /\ Before(s, h, nodes[y].hash)
        BY <1>5, <3>1
      <3>3. nodes[x].p = y /\ nodes[y][s] # nodes[y][Other(s)]
        BY <1>1, <1>2, <3>1, <3>2, Beside
      <3>4. CASE x = c
        <4>1. a = y
          BY <2>1, <3>3, <3>4
        <4>2. g = s
          BY <3>2, <3>3, <3>4, <4>1, SideFacts
        <4> QED  BY <3>2, <4>1, <4>2
      <3>5. CASE x # c
        BY <2>2, <3>1, <3>3, <3>5 DEF Fits
      <3> QED  BY <3>4, <3>5
    <2> QED  BY <2>3, <2>4
  <1>8. Shapes'
    <2>1. (Good' <=> Good) /\ Top' = root /\ Loose' = {z}
      BY <1>1 DEF Good, Top, Loose
    <2>2. Going(sub)'
      <3>1. Single(nodes', sub, z') /\ nodes'[z'].hash = call'.hash
        BY <1>1, <1>3 DEF h
      <3>2. {x', y', root', stored'} \subseteq Places' \ {z'}
        BY <1>1, <1>3, <1>6 DEF Places
      <3>3. y' # NIL /\ x' = Child(Tree', y', call'.hash) /\ nodes'[y'].hash # call'.hash
        <4>1. call'.hash = h /\ nodes'[y'].hash # h /\ y' # NIL
          BY <1>1 DEF h
        <4>2. Tree' = [root |-> root', n |-> nodes'] /\ Tree = [root |-> root, n |-> nodes]
          BY DEF Tree
        <4>3. x' = Child(Tree, x, h) /\ nodes'[x] = nodes[x]
          BY <1>1
        <4>4. Child(Tree', x, h) = Child(Tree, x, h)
          BY <4>2, <4>3 DEF Child
        <4> QED  BY <1>1, <4>1, <4>3, <4>4
      <3>4. Good' => Fits(nodes', sub, y', call'.hash, {z'})
        BY <1>1, <1>7, <2>1 DEF h
      <3> QED  BY <3>1, <3>2, <3>3, <3>4 DEF Going
    <2> QED  BY <1>1, <1>2, <2>1, <2>2 DEF Shapes
  <1>9. Cursors'
    BY <1>1 DEF Cursors, Places
  <1> QED  BY <1>8, <1>9

LEMMA DuplicateKeeps ==
  ASSUME TypeOK, HeapTiled, Held, Cursors, Shapes, Phases, Known, Duplicate
  PROVE  Held' /\ Shapes' /\ Cursors' /\ Known'
  <1>1. /\ pc = "descend" /\ pc' = "return" /\ Free({z}) /\ nodes' = [a \in DOMAIN nodes \ {z} |-> nodes[a]]
        /\ UNCHANGED <<fat, map, mapsize, fatsize, files, drift, todo, lost, call, caller, stored,
                       root, broken>>
    BY DEF Duplicate, handle, volume, locals, caches
  <1>2. PICK sub : /\ Shaped(nodes, sub) /\ Going(sub)
                   /\ Good => Sorted(nodes, sub) /\ Rules(nodes, sub, root, {z})
    BY <1>1 DEF Shapes, Top, Loose
  <1>3. /\ Single(nodes, sub, z) /\ {root, stored} \subseteq Places \ {z} /\ z \in DOMAIN nodes
    BY <1>2 DEF Going, Single
  <1>4. /\ DOMAIN nodes' = DOMAIN nodes \ {z} /\ Places' = Places \ {z}
        /\ \A a \in DOMAIN nodes \ {z} : nodes'[a] = nodes[a]
    <2>1. z # NIL
      BY <1>2, <1>3 DEF Shaped
    <2> QED  BY <1>1, <2>1 DEF Places
  <1>5. Held'
    <2>1. /\ Used(blocks) = DOMAIN nodes \cup lost \cup Caches
          /\ Caches \cap (DOMAIN nodes \cup lost) = {} /\ DOMAIN nodes \cap lost = {}
      BY DEF Held
    <2>2. {z} \subseteq Used(blocks)
      BY <1>3, <2>1
    <2>3. /\ allocated' = Taken(blocks') /\ Used(blocks') = Used(blocks) \ {z}
          /\ SameSizes(blocks, blocks', Used(blocks))
      BY <1>1, <2>2, FreeHolds
    <2>4. Caches' = Caches
      BY <1>1 DEF Caches
    <2>5. Used(blocks') = DOMAIN nodes' \cup lost' \cup Caches'
      BY <1>1, <1>3, <1>4, <2>1, <2>3, <2>4
    <2>6. /\ fat' # NIL => blocks'[fat'].size >= fatsize' /\ fat' # map'
          /\ map' # NIL => blocks'[map'].size >= mapsize'
      BY <1>1, <2>1, <2>3 DEF Held, SameSizes, Caches
    <2> QED  BY <1>1, <1>4, <2>1, <2>3, <2>4, <2>5, <2>6 DEF Held, SameSizes
  <1>6. PICK S : /\ Shaped(nodes', S)
                 /\ Good => Sorted(nodes', S) /\ Rules(nodes', S, root, {})
    <2>1. root \in DOMAIN nodes \cup {NIL} /\ root # z /\ IsFiniteSet(DOMAIN nodes)
      BY <1>3, HeldFacts DEF Places
    <2> QED  BY <1>1, <1>2, <1>3, <2>1, Dropped
  <1>7. Shapes'
    <2>1. (Good' <=> Good) /\ Top' = root /\ Loose' = {}
      BY <1>1 DEF Good, Top, Loose
    <2> QED  BY <1>1, <1>6, <2>1 DEF Shapes
  <1>8. Cursors'
    BY <1>1, <1>3, <1>4 DEF Cursors
  <1>9. Known'
    <2>1. Loose = {z} /\ Loose' = {} /\ DOMAIN nodes' \ Loose' = DOMAIN nodes \ Loose
      BY <1>1, <1>4 DEF Loose
    <2> QED  BY <1>1, <1>4, <2>1 DEF Known
  <1> QED  BY <1>5, <1>7, <1>8, <1>9

SameColours(N, M) == \A a \in DOMAIN N : M[a].black = N[a].black

\* The new node becomes the root.
LEMMA AttachRoot ==
  ASSUME NEW N, NEW sub, Shaped(N, sub), NEW q, NEW v, Single(N, sub, v), NEW h
  PROVE  \E M : /\ Attach([root |-> q, n |-> N], v, NIL, h) = [root |-> v, n |-> M] /\ Relinked(N, M)
                /\ SameColours(N, M)
  <1> DEFINE D == DOMAIN N
             M == Set(N, v, "p", NIL)
  <1>1. Attach([root |-> q, n |-> N], v, NIL, h) = [root |-> v, n |-> M]
    <2>1. Point([root |-> q, n |-> N], v, "p", NIL) = [root |-> q, n |-> M]
      BY PointIs
    <2> HIDE DEF M
    <2> QED  BY <2>1 DEF Attach
  <1>2. N \in [D -> Node(D)] /\ v \in D /\ N[v].p = NIL /\ "p" \in Pointers /\ NIL \in D \cup {NIL}
    BY DEF Shaped, Single, Pointers
  <1>3. /\ DOMAIN M = D /\ M \in [D -> Node(D)]
        /\ \A d \in D : /\ M[d].hash = N[d].hash /\ M[d].black = N[d].black
                        /\ \A g \in Pointers : M[d][g] = IF d = v /\ g = "p" THEN NIL ELSE N[d][g]
    BY ONLY <1>2, SetIs DEF M
  <1> HIDE DEF M
  <1>4. \A d \in D : M[d].p = N[d].p /\ M[d].l = N[d].l /\ M[d].r = N[d].r
    BY <1>2, <1>3 DEF Pointers
  <1>5. Relinked(N, M) /\ SameColours(N, M)
    BY <1>3, <1>4 DEF Relinked, SameColours
  <1> QED  BY <1>1, <1>5

LEMMA LinkKeeps ==
  ASSUME TypeOK, HeapTiled, Held, Cursors, Shapes, Phases, Known, Link
  PROVE  /\ DOMAIN nodes' = DOMAIN nodes /\ Shapes' /\ Cursors' /\ Known'
  <1> DEFINE h == call.hash
             N == nodes
             D == DOMAIN nodes
  <1>1. /\ pc = "descend" /\ pc' = "fixinsert" /\ x = NIL
        /\ root' = Attach(Tree, z, y, h).root /\ nodes' = Attach(Tree, z, y, h).n
        /\ files' = IF caller = "keeper" THEN files \cup {h} ELSE files
        /\ UNCHANGED <<call, caller, stored, z, drift, todo, broken>>
    BY DEF Link, Grow, handle
  <1>2. PICK sub : /\ Shaped(N, sub) /\ Going(sub)
                   /\ Good => Sorted(N, sub) /\ Rules(N, sub, root, {z})
    BY <1>1 DEF Shapes, Top, Loose
  <1>3. /\ Single(N, sub, z) /\ N[z].hash = h
        /\ {x, y, root, stored} \subseteq Places \ {z}
        /\ y = NIL => x = root
        /\ y # NIL => x = Child(Tree, y, h) /\ N[y].hash # h
        /\ Good /\ y # NIL => Fits(N, sub, y, h, {z})
        /\ z \in D
    BY <1>2 DEF Going, Single
  <1>4. /\ h \in Nat /\ NIL \notin D /\ \A a \in D : N[a].hash \in Nat
        /\ IsFiniteSet(D) /\ sub[NIL] = {}
    <2>1. \A a \in D : N[a].hash \in Nat
      BY <1>2, NodeFacts DEF Shaped
    <2> QED  BY <1>2, <1>3, <2>1, HeldFacts DEF Shaped
  <1>5. Tree = [root |-> root, n |-> N] /\ (Good' <=> Good) /\ Top' = root' /\ Loose' = {}
    BY <1>1 DEF Tree, Good, Top, Loose
  <1> HIDE DEF h, N
  <1>6. /\ DOMAIN nodes' = D /\ root' \in Places
        /\ \A a \in D : nodes'[a].hash = N[a].hash
        /\ \E S : Shaped(nodes', S) /\ (Good => Sorted(nodes', S) /\ Rules(nodes', S, root', {}))
    <2>1. CASE y = NIL
      <3>1. PICK M : Attach([root |-> root, n |-> N], z, NIL, h) = [root |-> z, n |-> M]
                     /\ Relinked(N, M)
        BY <1>2, <1>3, AttachRoot
      <3>2. nodes' = M /\ root' = z
        BY <1>1, <1>5, <2>1, <3>1
      <3>3. Shaped(M, sub) /\ (Sorted(N, sub) => Sorted(M, sub)) /\ DOMAIN M = D
            /\ \A a \in D : M[a].hash = N[a].hash /\ M[a].p = N[a].p
        BY <1>2, <3>1, SameLinks DEF Relinked, N
      <3>4. ASSUME Good  PROVE Rules(M, sub, z, {})
        <4>1. D = {z}
          BY <1>1, <1>2, <1>3, <1>4, <2>1, <3>4 DEF Rules, N
        <4>2. sub[z] = {z} /\ N[z].p = NIL
          BY <1>3 DEF Single
        <4> QED  BY <1>3, <3>3, <4>1, <4>2 DEF Rules
      <3> QED  BY <1>2, <1>3, <3>2, <3>3, <3>4 DEF Places
    <2>2. CASE y # NIL
      <3>1. y \in D /\ y # z /\ N[y].hash # h /\ Child(Tree, y, h) = NIL
            /\ (Good => Fits(N, sub, y, h, {z}))
        BY <1>1, <1>3, <2>2 DEF Places
      <3>2. PICK t \in Sides : /\ NIL = N[y][t] /\ t = (IF h < N[y].hash THEN "l" ELSE "r")
                               /\ Before(t, h, N[y].hash)
        BY <1>4, <1>5, <3>1, ChildIs DEF N
      <3>3. PICK M : Attach([root |-> root, n |-> N], z, y, h) = [root |-> root, n |-> M]
                     /\ Hung(N, M, y, z, t)
        <4>1. y \in DOMAIN N /\ z \in DOMAIN N
          BY <1>3, <3>1 DEF N
        <4> QED  BY <1>2, <1>3, <3>1, <3>2, <4>1, AttachIs
      <3>4. nodes' = M /\ root' = root
        BY <1>1, <1>5, <3>3
      <3>5. /\ DOMAIN M = D /\ \A a \in D : M[a].hash = N[a].hash
        BY <3>3 DEF Hung, N
      <3>6. y \in DOMAIN N /\ z \in DOMAIN N /\ IsFiniteSet(DOMAIN N) /\ y # z
        BY <1>3, <1>4, <3>1 DEF N
      <3>7. Shaped(M, HungSub(N, sub, y, z))
        BY <1>2, <1>3, <3>2, <3>3, <3>6, HungShape
      <3>8. root \in Places /\ root # z
        BY <1>3
      <3>9. ASSUME Good
            PROVE  Sorted(M, HungSub(N, sub, y, z)) /\ Rules(M, HungSub(N, sub, y, z), root, {})
        <4>0. root # NIL
          BY <1>2, <1>4, <3>6, <3>9 DEF Rules
        <4>1. Sorted(N, sub) /\ Rules(N, sub, root, {z}) /\ Fits(N, sub, y, N[z].hash, {z})
              /\ Before(t, N[z].hash, N[y].hash) /\ root \in DOMAIN N
          BY <1>2, <1>3, <3>1, <3>2, <3>8, <3>9, <4>0 DEF N, Places
        <4>2. Sorted(M, HungSub(N, sub, y, z))
          BY <1>2, <1>3, <3>2, <3>3, <3>6, <4>1, HungOrder
        <4>3. Rules(M, HungSub(N, sub, y, z), root, {})
          BY <1>2, <3>3, <3>6, <3>8, <4>1, HungRoot
        <4> QED  BY <4>2, <4>3
      <3> QED  BY <3>4, <3>5, <3>7, <3>8, <3>9
    <2> QED  BY <2>1, <2>2
  <1>7. Shapes'
    BY <1>1, <1>5, <1>6 DEF Shapes
  <1>8. Cursors'
    <2>1. Places' = Places
      BY <1>6 DEF Places
    <2> QED  BY <1>1, <1>3, <1>6, <2>1 DEF Cursors, Places
  <1>9. Known'
    <2>1. Loose = {z} /\ Loose' = {} /\ N = nodes
      BY <1>1 DEF Loose, N
    <2>2. {nodes'[a].hash : a \in D} = {N[a].hash : a \in D \ {z}} \cup {h}
      BY <1>3, <1>6
    <2>3. {nodes'[a].hash : a \in D} = {N[a].hash : a \in D}
      BY <1>6
    <2>4. {nodes'[a].hash : a \in DOMAIN nodes'} = {nodes[a].hash : a \in DOMAIN nodes}
      BY <1>6, <2>1, <2>3
    <2>5. ASSUME caller = "keeper"  PROVE files' = {nodes'[a].hash : a \in DOMAIN nodes' \ Loose'}
      <3>1. files = {N[a].hash : a \in D \ {z}} /\ files' = files \cup {h}
        BY <1>1, <2>1, <2>5 DEF Known
      <3> QED  BY <1>6, <2>1, <2>2, <3>1
    <2>6. caller = "library" => files' = files
      BY <1>1
    <2> QED  BY <1>1, <2>4, <2>5, <2>6 DEF Known
  <1> QED  BY <1>6, <1>7, <1>8, <1>9

-----------------------------------------------------------------------------
(* ecache_delete.                                                          *)
LEMMA UnlinkKeeps ==
  ASSUME TypeOK, HeapTiled, Held, Cursors, Shapes, Phases, Known, Delete
  PROVE  Held' /\ Shapes' /\ Cursors' /\ Known' /\ x' \in Places' /\ y' \in Places'
  <1> DEFINE U == Unlink(Tree, x)
             E == DOMAIN nodes \ {x}
             u == x
  <1>1. /\ pc = "search" /\ pc' \in {"sibling", "return"} /\ x # NIL /\ nodes[x].hash = call.hash
        /\ root' = U.tree.root /\ nodes' = U.tree.n /\ x' = U.x /\ y' = U.xp
        /\ Free({x}) /\ files' = files \ {call.hash}
        /\ UNCHANGED <<caller, fat, map, mapsize, fatsize, drift, lost, todo, call>>
    BY DEF Delete, Grow, handle, caches
  <1>2. call.kind = "delete" /\ caller = "keeper" /\ Good /\ Good'
    <2>1. call.kind = "delete" /\ caller = "keeper"
      BY <1>1 DEF Phases
    <2> QED  BY <1>1, <2>1 DEF Good
  <1>3. PICK sub : Shaped(nodes, sub) /\ Sorted(nodes, sub) /\ Rules(nodes, sub, root, {})
    BY <1>1, <1>2 DEF Shapes, Top, Loose
  <1>4. x \in DOMAIN nodes /\ root \in DOMAIN nodes /\ IsFiniteSet(DOMAIN nodes) /\ NIL \notin DOMAIN nodes
    <2>1. x \in DOMAIN nodes
      BY <1>1 DEF Cursors, Places
    <2>2. root # NIL
      BY <1>3, <2>1 DEF Rules, Shaped
    <2> QED  BY <1>3, <2>1, <2>2, HeldFacts DEF Cursors, Places, Shaped
  <1>5. Unlinked(nodes, Unlink([root |-> root, n |-> nodes], x), x)
    BY <1>3, <1>4, UnlinkIs
  <1>6. Unlinked(nodes, U, x)
    BY <1>5 DEF Tree
  <1> HIDE DEF U
  <1>7. PICK M, S : /\ U.tree = [root |-> U.tree.root, n |-> M]
                    /\ DOMAIN M = E /\ \A a \in E : M[a].hash = nodes[a].hash
                    /\ Shaped(M, S) /\ Sorted(M, S)
                    /\ U.tree.root \in E \cup {NIL} /\ Rules(M, S, U.tree.root, {})
                    /\ U.x \in E \cup {NIL} /\ U.xp \in E \cup {NIL}
                    /\ U.xp = NIL => U.x = U.tree.root
    BY <1>6 DEF Unlinked
  <1>8. nodes' = M /\ Places' = E \cup {NIL}
    <2>1. nodes' = M
      BY <1>1, <1>7
    <2> QED  BY <1>7, <2>1 DEF Places
  <1>9. Held'
    <2>1. /\ Used(blocks) = DOMAIN nodes \cup lost \cup Caches
          /\ Caches \cap (DOMAIN nodes \cup lost) = {} /\ DOMAIN nodes \cap lost = {}
      BY DEF Held
    <2>2. {x} \subseteq Used(blocks)
      BY <1>4, <2>1
    <2>3. /\ allocated' = Taken(blocks') /\ Used(blocks') = Used(blocks) \ {x}
          /\ SameSizes(blocks, blocks', Used(blocks))
      BY <1>1, <2>2, FreeHolds
    <2>4. Used(blocks') = E \cup lost \cup Caches
      BY <1>4, <2>1, <2>3
    <2>5. DOMAIN nodes' = E
      BY <1>7, <1>8
    <2>6. \A a \in E : blocks'[a].size >= NodeSize
      BY <2>1, <2>3 DEF Held, SameSizes
    <2>7. /\ fat' # NIL => blocks'[fat'].size >= fatsize' /\ fat' # map'
          /\ map' # NIL => blocks'[map'].size >= mapsize'
      BY <1>1, <2>1, <2>3 DEF Held, SameSizes, Caches
    <2> HIDE DEF E
    <2>8. E \cap lost = {} /\ Caches \cap (E \cup lost) = {} /\ Caches' = Caches
      BY <1>1, <2>1 DEF E, Caches
    <2> QED  BY <1>1, <2>3, <2>4, <2>5, <2>6, <2>7, <2>8 DEF Held
  <1>10. Shapes'
    <2>1. Top' = root' /\ Loose' = {}
      BY <1>1 DEF Top, Loose
    <2> QED  BY <1>1, <1>7, <1>8, <2>1 DEF Shapes
  <1>11. Cursors'
    <2>1. DOMAIN nodes' = E /\ call'.kind = "delete"
      BY <1>1, <1>2, <1>7, <1>8
    <2> QED  BY <1>1, <1>7, <1>8, <2>1 DEF Cursors
  <1>12. Known'
    <2>1. files = {nodes[a].hash : a \in DOMAIN nodes}
      BY <1>1, <1>2 DEF Known, Loose
    <2>2. ASSUME NEW a \in E  PROVE nodes[a].hash # call.hash
      <3>1. sub[root] = DOMAIN nodes
        BY <1>3 DEF Rules
      <3> QED  BY <1>1, <1>3, <1>4, <3>1, Distinct
    <2>3. files' = {nodes[a].hash : a \in E}
      BY <1>1, <1>4, <2>1, <2>2
    <2>4. DOMAIN nodes' \ Loose' = E /\ \A a \in E : nodes'[a].hash = nodes[a].hash
      BY <1>1, <1>7, <1>8 DEF Loose
    <2>5. files' = {nodes'[a].hash : a \in DOMAIN nodes' \ Loose'}
      BY <2>3, <2>4
    <2>6. caller' = "keeper"
      BY <1>1, <1>2
    <2> QED  BY <2>5, <2>6 DEF Known
  <1>13. x' \in Places' /\ y' \in Places'
    BY <1>1, <1>7, <1>8
  <1> QED  BY <1>9, <1>10, <1>11, <1>12, <1>13

-----------------------------------------------------------------------------
(* The other steps.                                                        *)
LEMMA StillHeld ==
  ASSUME Held, UNCHANGED <<blocks, allocated, fat, map, nodes, lost>>,
         fat # NIL => fatsize' = fatsize, map # NIL => mapsize' = mapsize
  PROVE  Held'
  BY DEF Held, Caches

LEMMA CoalesceKeeps ==
  ASSUME HeapTiled, Held, Cursors, Shapes, Known, Coalesce
  PROVE  Held' /\ Shapes' /\ Cursors' /\ Known'
  <1>1. PICK a \in Pairs(blocks) : blocks' = Merge(blocks, a)
    BY DEF Coalesce, FirstOf
  <1>2. /\ pc = "merge" /\ pc' = "merge"
        /\ UNCHANGED <<allocated, fat, map, mapsize, fatsize, nodes, lost, caller, broken, call, root,
                       x, y, z, stored, files, drift, todo>>
    BY DEF Coalesce, volume, handle, locals, caches
  <1>3. Used(blocks') = Used(blocks) /\ SameSizes(blocks, blocks', Used(blocks))
        /\ Taken(blocks') = Taken(blocks)
    BY <1>1, MergeHolds DEF HeapTiled
  <1>4. Held'
    BY <1>2, <1>3 DEF Held, SameSizes, Caches
  <1>5. Top' = Top
    BY <1>2 DEF Top
  <1>6. Shapes'
    BY <1>2, <1>5, StillShapes
  <1>7. Cursors' /\ Known'
    BY <1>2 DEF Cursors, Known, Places, Loose
  <1> QED  BY <1>4, <1>6, <1>7

\* Steps of the calls that look on.
LEMMA LookKeeps ==
  ASSUME Held, Cursors, Shapes, Known, Phases, HeapTiled,
         NoRoom \/ Coalesced \/ OutOfMemory \/ Search \/ Missing \/ Crash
  PROVE  Held' /\ Shapes' /\ Cursors' /\ Known'
  <1>1. UNCHANGED <<blocks, allocated, fat, map, fatsize, nodes, lost, caller, broken, root, stored,
                    files, drift, todo>>
    BY DEF NoRoom, Coalesced, OutOfMemory, Search, Missing, Crash, heap, volume, handle, locals,
           caches
  <1>2. Held'
    <2>1. map # NIL => mapsize' = mapsize
      BY MountGoesOn DEF NoRoom, Coalesced, OutOfMemory, Search, Missing, Crash, caches
    <2> QED  BY <1>1, <2>1, StillHeld
  <1>3. pc # "descend" /\ pc' # "descend" /\ Top' = Top
    <2>1. CASE OutOfMemory
      <3>1. /\ pc = "again"
            /\ pc' = "return" \/ (pc' \in {"idle", "malloc"} /\ call.kind \in {"mount", "map"})
        BY <2>1 DEF OutOfMemory, CacheDone
      <3> QED  BY <1>1, <3>1 DEF Top, Phases
    <2>2. CASE NoRoom \/ Coalesced \/ Search \/ Missing
      BY <1>1, <2>2 DEF NoRoom, Coalesced, Search, Missing, Top
    <2>3. CASE Crash
      BY <1>1, <2>3 DEF Crash, Top
    <2> QED  BY <2>1, <2>2, <2>3
  <1>4. Shapes'
    BY <1>1, <1>3, StillShapes
  <1>5. Known'
    <2>1. call'.kind \in {"index", "add"} => call' = call
      BY MountGoesOn DEF NoRoom, Coalesced, OutOfMemory, Search, Missing, Crash, locals, NoCall
    <2>2. Loose' = Loose
      BY <1>3 DEF Loose
    <2> QED  BY <1>1, <2>1, <2>2 DEF Known
  <1>6. Cursors'
    <2>1. CASE NoRoom \/ Coalesced \/ Missing \/ Crash
      BY <2>1 DEF NoRoom, Coalesced, Missing, Crash, locals, handle, Cursors, Places
    <2>2. CASE OutOfMemory
      <3>1. pc' \in {"idle", "malloc", "return"} /\ call.kind # "delete"
        BY <2>2, MountGoesOn DEF OutOfMemory, Phases
      <3> QED  BY <1>1, <3>1 DEF Cursors, Places
    <2>3. CASE Search
      <3>1. x \in DOMAIN nodes /\ pc = "search" /\ pc' = "search" /\ x' = Child(Tree, x, call.hash)
            /\ call' = call
        BY <2>3 DEF Search, Cursors, Places
      <3>2. Child(Tree, x, call.hash) \in Places
        <4>1. PICK sub : Shaped(nodes, sub)
          BY DEF Shapes
        <4>2. nodes[x].l \in Places /\ nodes[x].r \in Places
          BY <3>1, <4>1, NodeFacts DEF Shaped, Places
        <4> QED  BY <4>2 DEF Child, Tree
      <3> QED  BY <1>1, <3>1, <3>2 DEF Cursors, Places
    <2> QED  BY <2>1, <2>2, <2>3
  <1> QED  BY <1>2, <1>4, <1>5, <1>6

\* Calls that begin, and those that leave the heap and the nodes alone.
LEMMA BeginKeeps ==
  ASSUME Held, Cursors, Shapes, Known, Phases, HeapTiled,
         Insert \/ Erase \/ Mount \/ Index \/ IndexNext \/ Indexed \/ Put \/ Remove
  PROVE  Held' /\ Shapes' /\ Cursors' /\ Known'
  <1>1. UNCHANGED <<blocks, allocated, fat, map, mapsize, nodes, lost, caller, broken, stored>>
    BY DEF Insert, Erase, Mount, Index, IndexNext, Indexed, Put, Remove, heap, volume, handle, caches
  <1>2. fat # NIL => fatsize' = fatsize
    BY DEF Insert, Erase, Mount, Index, IndexNext, Indexed, Put, Remove, volume, Phases
  <1>3. Held'
    BY <1>1, <1>2, StillHeld
  <1>4. /\ pc \in {"idle", "index"} /\ call.kind = "none" /\ root = NIL /\ stored \in Places
        /\ Places' = Places
    <2>1. pc \in {"idle", "index"}
      BY DEF Insert, Erase, Mount, Index, IndexNext, Indexed, Put, Remove, Keeper, Library
    <2> QED  BY <1>1, <2>1 DEF Phases, Cursors, Places
  <1>5. \/ pc' \in {"idle", "index"} /\ UNCHANGED <<call, root>>
        \/ root' = stored /\ pc' = "malloc"
        \/ root' = stored /\ pc' = "search" /\ x' = stored
    <2>1. CASE Index \/ Indexed \/ Remove
      BY <2>1 DEF Index, Indexed, Remove, Library, locals
    <2>2. CASE Insert \/ Mount \/ IndexNext
      BY <2>2 DEF Insert, Mount, IndexNext, Begin
    <2>3. CASE Erase
      BY <2>3 DEF Erase, Begin
    <2>4. CASE Put
      BY <2>4 DEF Put, Begin, Library
    <2> QED  BY <2>1, <2>2, <2>3, <2>4
  <1>6. Top' = Top /\ pc # "descend" /\ pc' # "descend" /\ Loose' = {} /\ Loose = {}
    BY <1>1, <1>4, <1>5 DEF Top, Loose
  <1>7. Shapes'
    BY <1>1, <1>6, StillShapes
  <1>8. Cursors'
    BY <1>1, <1>4, <1>5 DEF Cursors, Places
  <1>9. Known'
    <2>1. CASE Insert \/ Erase
      <3>1. UNCHANGED files /\ caller = "keeper"
        BY <2>1 DEF Insert, Erase, Keeper, volume
      <3> QED  BY <1>1, <1>6, <3>1 DEF Known
    <2>2. CASE Mount \/ Indexed
      <3>1. /\ UNCHANGED <<files, drift, todo>>
            /\ call'.kind \notin {"index", "add"}
        BY <1>4, <2>2 DEF Mount, Indexed, Begin, volume, handle, locals
      <3> QED  BY <1>1, <1>6, <3>1 DEF Known
    <2>3. CASE Index
      <3>1. /\ UNCHANGED <<files, drift, call>> /\ todo' = files /\ caller = "library"
        BY <2>3 DEF Index, Library, volume, locals
      <3> QED  BY <1>1, <1>4, <1>6, <3>1 DEF Known
    <2>4. CASE IndexNext
      <3>1. UNCHANGED <<files, drift>> /\ todo' \subseteq todo /\ call'.hash \in todo
        BY <2>4 DEF IndexNext, Begin, volume
      <3> QED  BY <1>1, <1>6, <3>1 DEF Known
    <2>5. CASE Put
      <3>1. PICK h \in Names[caller] \ files, written \in BOOLEAN :
              /\ files' = IF written THEN files \cup {h} ELSE files
              /\ IF stored = NIL
                 THEN UNCHANGED <<drift, pc, call, root, x>>
                 ELSE /\ drift' = IF written THEN drift ELSE drift \cup {h}
                      /\ Begin("add", h, "malloc")
        BY <2>5 DEF Put
      <3>2. UNCHANGED todo /\ caller = "library"
        BY <2>5 DEF Put, Library, handle
      <3>3. files \subseteq files' /\ drift \subseteq drift'
        BY <3>1
      <3>4. call'.kind \in {"index", "add"} => call'.hash \in files' \cup drift'
        <4>1. CASE stored = NIL
          BY <1>4, <3>1, <4>1
        <4>2. CASE stored # NIL
          BY <3>1, <4>2 DEF Begin
        <4> QED  BY <4>1, <4>2
      <3> QED  BY <1>1, <3>2, <3>3, <3>4 DEF Known
    <2>6. CASE Remove
      <3>1. PICK h \in files : /\ files' = files \ {h}
                               /\ drift' = IF stored = NIL THEN drift ELSE drift \cup {h}
        BY <2>6 DEF Remove
      <3>2. UNCHANGED <<todo, call>> /\ caller = "library" /\ pc = "idle"
        BY <2>6 DEF Remove, Library, handle, locals
      <3>3. todo = {}
        BY <1>4, <3>2 DEF Phases
      <3>4. stored = NIL => DOMAIN nodes = {}
        <4> SUFFICES ASSUME stored = NIL  PROVE DOMAIN nodes = {}
          OBVIOUS
        <4>1. Good
          BY <3>2 DEF Good, Phases
        <4>2. PICK sub : Shaped(nodes, sub) /\ Rules(nodes, sub, Top, Loose)
          BY <4>1 DEF Shapes
        <4>3. Top = NIL
          BY <3>2 DEF Top
        <4> QED  BY <1>6, <4>2, <4>3 DEF Rules, Shaped
      <3>5. {nodes[a].hash : a \in DOMAIN nodes} \subseteq files' \cup drift'
        <4>1. CASE stored = NIL
          BY <3>4, <4>1
        <4>2. CASE stored # NIL
          <5>1. {nodes[a].hash : a \in DOMAIN nodes} \subseteq files \cup drift
            BY <3>2 DEF Known
          <5> QED  BY <3>1, <4>2, <5>1
        <4> QED  BY <4>1, <4>2
      <3>6. call'.kind \notin {"index", "add"}
        BY <1>4, <3>2
      <3> QED  BY <1>1, <3>2, <3>3, <3>5, <3>6 DEF Known
    <2> QED  BY <2>1, <2>2, <2>3, <2>4, <2>5, <2>6
  <1> QED  BY <1>3, <1>7, <1>8, <1>9

LEMMA ReturnKeeps ==
  ASSUME Held, Cursors, Shapes, Known, Phases, Return
  PROVE  Held' /\ Shapes' /\ Cursors' /\ Known'
  <1>1. /\ pc = "return" /\ pc' \in {"idle", "index"} /\ call' = NoCall /\ root' = NIL
        /\ stored' = (IF call.kind = "add" THEN stored ELSE root)
        /\ broken' = (broken \/ stored' # root)
        /\ UNCHANGED <<blocks, allocated, fat, map, mapsize, fatsize, nodes, lost, caller, files, drift,
                       todo>>
    BY DEF Return, heap, volume, caches
  <1>2. Held'
    BY <1>1, StillHeld
  <1>3. ASSUME Good'  PROVE Good /\ Top' = Top
    <2>1. CASE caller = "keeper"
      <3>1. call.kind # "add"
        BY <2>1 DEF Phases
      <3> QED  BY <1>1, <2>1, <3>1 DEF Good, Top
    <2>2. CASE caller # "keeper"
      <3>1. ~broken'
        BY <1>1, <1>3, <2>2 DEF Good
      <3> QED  BY <1>1, <3>1 DEF Good, Top
    <2> QED  BY <2>1, <2>2
  <1>4. Loose' = {} /\ Loose = {}
    BY <1>1 DEF Loose
  <1>5. Shapes'
    <2>1. PICK sub : Shaped(nodes, sub) /\ (Good => Sorted(nodes, sub) /\ Rules(nodes, sub, Top, Loose))
      BY DEF Shapes
    <2>2. Good' => Sorted(nodes', sub) /\ Rules(nodes', sub, Top', Loose')
      BY <1>1, <1>3, <1>4, <2>1
    <2> QED  BY <1>1, <2>1, <2>2 DEF Shapes
  <1>6. Cursors'
    <2>1. stored' \in Places /\ Places' = Places
      BY <1>1 DEF Cursors, Places
    <2> QED  BY <1>1, <2>1 DEF Cursors, Places
  <1>7. Known'
    BY <1>1, <1>4 DEF Known, NoCall
  <1> QED  BY <1>2, <1>5, <1>6, <1>7

LEMMA CloseKeeps ==
  ASSUME TypeOK, HeapTiled, Held, Cursors, Shapes, Known, Phases, Close \/ Unload
  PROVE  Held' /\ Shapes' /\ Cursors' /\ Known'
  <1> DEFINE B == Below(Tree, stored)
  <1>1. /\ pc = "idle" /\ nodes' = [a \in {} |-> Leaf(0)] /\ lost' = lost \cup (DOMAIN nodes \ B)
        /\ stored' = NIL /\ UNCHANGED <<caller, map, mapsize, fatsize, todo, pc, call, root, x, y, z>>
        /\ (caller = "keeper" => files' = {})
    BY DEF Close, Unload, Closed, Library, locals, caches
  <1>2. call.kind = "none" /\ root = NIL /\ stored \in Places /\ todo = {}
    BY <1>1 DEF Phases, Cursors
  <1>3. B \subseteq DOMAIN nodes
    BY DEF Below, Reach, Tree
  <1> HIDE DEF B
  <1>4. PICK F : Free(B \cup F) /\ F \subseteq {fat} \ {NIL} /\ fat' = (IF F = {} THEN fat ELSE NIL)
    <2>1. CASE Close
      <3>1. Free(B) /\ fat' = fat /\ B \cup {} = B
        BY <2>1 DEF Close, B, caches
      <3>2. Free(B \cup {})
        BY <3>1
      <3> QED  BY <3>1, <3>2
    <2>2. CASE Unload
      <3>1. Free(B \cup ({fat} \ {NIL})) /\ fat' = NIL
        BY <2>2 DEF Unload, B
      <3>2. {fat} \ {NIL} = {} => fat = NIL
        OBVIOUS
      <3> QED  BY <3>1, <3>2
    <2> QED  BY <2>1, <2>2
  <1>5. Held'
    <2>1. /\ Used(blocks) = DOMAIN nodes \cup lost \cup Caches
          /\ Caches \cap (DOMAIN nodes \cup lost) = {} /\ DOMAIN nodes \cap lost = {}
          /\ fat # NIL => blocks[fat].size >= fatsize /\ fat # map
          /\ map # NIL => blocks[map].size >= mapsize
      BY DEF Held
    <2>2. F \subseteq Caches
      BY <1>4 DEF Caches
    <2>3. B \cup F \subseteq Used(blocks)
      BY <1>3, <2>1, <2>2
    <2>4. /\ allocated' = Taken(blocks') /\ Used(blocks') = Used(blocks) \ (B \cup F)
          /\ SameSizes(blocks, blocks', Used(blocks))
      BY <1>4, <2>3, FreeHolds
    <2>5. DOMAIN nodes' = {}
      BY <1>1
    <2>6. Caches' = Caches \ F
      BY <1>1, <1>4, <2>1 DEF Caches
    <2>7. Used(blocks') = DOMAIN nodes' \cup lost' \cup Caches'
      BY <1>1, <1>3, <2>1, <2>2, <2>4, <2>5, <2>6
    <2>8. Caches' \cap (DOMAIN nodes' \cup lost') = {}
      BY <1>1, <2>1, <2>5, <2>6
    <2>9. Caches' \subseteq Used(blocks')
      BY <2>7
    <2>10. /\ fat' # NIL => blocks'[fat'].size >= fatsize' /\ fat' # map'
           /\ map' # NIL => blocks'[map'].size >= mapsize'
      <3>1. fat' # NIL => fat' = fat /\ fat \in Used(blocks)
        BY <1>4, <2>1 DEF Caches
      <3>2. map # NIL => map \in Used(blocks)
        BY <2>1 DEF Caches
      <3> QED  BY <1>1, <2>1, <2>4, <3>1, <3>2 DEF SameSizes
    <2> QED  BY <2>4, <2>5, <2>7, <2>8, <2>10 DEF Held
  <1>6. Shapes'
    <2> DEFINE S == [a \in {NIL} |-> {}]
    <2>1. /\ DOMAIN nodes' = {} /\ nodes' \in [{} -> Node({})] /\ S[NIL] = {}
          /\ S \in [{} \cup {NIL} -> SUBSET {}]
      BY <1>1
    <2> HIDE DEF S
    <2>2. Shaped(nodes', S) /\ Sorted(nodes', S) /\ Rules(nodes', S, NIL, {})
      BY <2>1 DEF Shaped, Sorted, Rules
    <2>3. Top' = NIL /\ Loose' = {}
      BY <1>1 DEF Top, Loose
    <2> QED  BY <1>1, <2>2, <2>3 DEF Shapes
  <1>7. Cursors'
    BY <1>1, <1>2 DEF Cursors, Places
  <1>8. Known'
    <2>1. DOMAIN nodes' = {}
      BY <1>1
    <2> QED  BY <1>1, <1>2, <2>1 DEF Known
  <1> QED  BY <1>5, <1>6, <1>7, <1>8

\* A step that does nothing to the heap but rearrange the nodes.
LEMMA SameNodesHeld ==
  ASSUME Held, UNCHANGED <<blocks, allocated, fat, map, mapsize, fatsize, lost>>,
         DOMAIN nodes' = DOMAIN nodes
  PROVE  Held'
  BY DEF Held, Caches

LEMMA SameNodesKnown ==
  ASSUME Known, UNCHANGED <<caller, files, drift, todo, call>>, pc # "descend", pc' # "descend",
         DOMAIN nodes' = DOMAIN nodes, \A a \in DOMAIN nodes : nodes'[a].hash = nodes[a].hash
  PROVE  Known'
  <1>1. Loose = {} /\ Loose' = {}
    BY DEF Loose
  <1>2. {nodes'[a].hash : a \in DOMAIN nodes'} = {nodes[a].hash : a \in DOMAIN nodes}
    OBVIOUS
  <1>3. {nodes'[a].hash : a \in DOMAIN nodes' \ Loose'} = {nodes[a].hash : a \in DOMAIN nodes \ Loose}
    BY <1>1
  <1> QED  BY <1>2, <1>3 DEF Known

LEMMA StepKeeps ==
  ASSUME TypeOK, HeapTiled, Phases, Held, Cursors, Shapes, Known, [Next]_vars
  PROVE  Held' /\ Shapes' /\ Cursors' /\ Known'
  <1>1. CASE Malloc
    BY <1>1, MallocCache, MallocNode
  <1>2. CASE Coalesce
    BY <1>2, CoalesceKeeps
  <1>3. CASE NoRoom \/ Coalesced \/ OutOfMemory \/ Search \/ Missing \/ Crash
    BY <1>3, LookKeeps
  <1>4. CASE Descend
    <2>1. /\ UNCHANGED <<blocks, allocated, fat, map, mapsize, fatsize, lost, caller, files, drift, todo,
                       call, nodes, z>>
          /\ pc = "descend" /\ pc' = "descend"
      BY <1>4 DEF Descend, heap, volume, handle, caches
    <2>2. Held'
      BY <2>1, SameNodesHeld
    <2>3. Known'
      BY <2>1 DEF Known, Loose
    <2> QED  BY <1>4, <2>2, <2>3, DescendKeeps
  <1>5. CASE Duplicate
    BY <1>5, DuplicateKeeps
  <1>6. CASE Link
    <2>1. UNCHANGED <<blocks, allocated, fat, map, mapsize, fatsize, lost>>
      BY <1>6 DEF Link, heap, handle, caches
    <2> QED  BY <1>6, <2>1, LinkKeeps, SameNodesHeld
  <1>7. CASE FixInsert \/ InsertFixed
    <2>1. /\ UNCHANGED <<blocks, allocated, fat, map, mapsize, fatsize, lost, caller, files, drift, todo,
                       call>>
          /\ pc # "descend" /\ pc' # "descend"
      BY <1>7 DEF FixInsert, InsertFixed, heap, volume, handle, caches
    <2>2. /\ Shapes' /\ Cursors' /\ DOMAIN nodes' = DOMAIN nodes
          /\ \A a \in DOMAIN nodes : nodes'[a].hash = nodes[a].hash
      BY <1>7, InsertKeeps
    <2> QED  BY <2>1, <2>2, SameNodesHeld, SameNodesKnown
  <1>8. CASE FixSibling \/ FixParent \/ FixNephews \/ DeleteFixed
    <2>1. /\ UNCHANGED <<blocks, allocated, fat, map, mapsize, fatsize, lost, caller, files, drift, todo,
                       call>>
          /\ pc # "descend" /\ pc' # "descend"
      BY <1>8 DEF FixSibling, FixParent, FixNephews, DeleteFixed, heap, volume, handle, caches
    <2>2. /\ Shapes' /\ Cursors' /\ DOMAIN nodes' = DOMAIN nodes
          /\ \A a \in DOMAIN nodes : nodes'[a].hash = nodes[a].hash
      BY <1>8, DeleteKeeps
    <2> QED  BY <2>1, <2>2, SameNodesHeld, SameNodesKnown
  <1>9. CASE Delete
    BY <1>9, UnlinkKeeps
  <1>10. CASE Return
    BY <1>10, ReturnKeeps
  <1>11. CASE Insert \/ Erase \/ Mount \/ Index \/ IndexNext \/ Indexed \/ Put \/ Remove
    BY <1>11, BeginKeeps
  <1>12. CASE Close \/ Unload
    BY <1>12, CloseKeeps
  <1>13. CASE UNCHANGED vars
    <2>1. UNCHANGED <<blocks, allocated, fat, map, mapsize, fatsize, lost, caller, files, drift, todo, call,
                      nodes, pc, root, x, y, z, stored, broken>>
      BY <1>13 DEF vars, heap, volume, handle, locals, caches
    <2>2. Held' /\ Cursors' /\ Known'
      BY <2>1 DEF Held, Caches, Cursors, Known, Places, Loose
    <2>3. \A sub : Going(sub)' <=> Going(sub)
      BY <2>1 DEF Going, Good, Places, Tree
    <2>4. Shapes'
      BY <2>1, <2>3 DEF Shapes, Good, Top, Loose
    <2> QED  BY <2>2, <2>4
  <1> QED  BY <1>1, <1>2, <1>3, <1>4, <1>5, <1>6, <1>7, <1>8, <1>9, <1>10, <1>11, <1>12, <1>13
           DEF Next, HeapStep, InsertStep, DeleteStep, Client

-----------------------------------------------------------------------------
\* The values the variables take, addresses left out.
Values ==
  /\ caller \in Callers /\ mounted \in BOOLEAN /\ indexed \in BOOLEAN
  /\ fatsize \in FatSizes \cup {0} /\ files \subseteq Hashes /\ drift \subseteq Hashes /\ todo \subseteq Hashes
  /\ mapsize \in {0} \cup {MapSize[n] : n \in FatSizes}
  /\ call \in [kind : Kinds, hash : Hashes \cup {0}]

LEMMA StepValues == TypeOK /\ Phases /\ [Next]_vars => Values'
  <1> SUFFICES ASSUME TypeOK, Phases, [Next]_vars  PROVE Values'
    OBVIOUS
  <1>1. Values
    BY DEF TypeOK, Values
  <1>2. NoCall \in [kind : Kinds, hash : Hashes \cup {0}]
    BY DEF NoCall, Kinds
  <1>3. ASSUME NEW k \in Kinds, NEW h \in Hashes \cup {0}, NEW at, Begin(k, h, at)
        PROVE  call' \in [kind : Kinds, hash : Hashes \cup {0}]
    BY <1>3 DEF Begin
  <1>4. \A h : h \in Names[caller] => h \in Hashes
    BY <1>1 DEF Values, Callers, Hashes
  <1>5. CASE Malloc \/ OutOfMemory \/ Return
    <2>1. UNCHANGED <<caller, mounted, indexed, fatsize, files, drift, todo>>
      BY <1>5 DEF Malloc, OutOfMemory, Return, volume, handle
    <2>2. \/ call' \in {call, NoCall} /\ mapsize' = mapsize
          \/ call.kind = "mount" /\ CacheDone
      BY <1>5 DEF Malloc, OutOfMemory, Return, caches
    <2>3. CASE call' \in {call, NoCall} /\ mapsize' = mapsize
      BY <1>1, <1>2, <2>1, <2>3 DEF Values
    <2>4. CASE call.kind = "mount" /\ CacheDone
      <3>1. fatsize \in FatSizes
        BY <2>4 DEF Phases
      <3>2. call' \in {NoCall, [kind |-> "map", hash |-> 0]} /\ mapsize' \in {mapsize, MapSize[fatsize]}
        BY <2>4 DEF CacheDone
      <3>3. [kind |-> "map", hash |-> 0] \in [kind : Kinds, hash : Hashes \cup {0}]
        BY DEF Kinds
      <3> QED  BY <1>1, <1>2, <2>1, <3>1, <3>2, <3>3 DEF Values
    <2> QED  BY <2>2, <2>3, <2>4
  <1>6. CASE NoRoom \/ Coalesce \/ Coalesced \/ Descend \/ Duplicate \/ FixInsert \/ InsertFixed
    BY <1>1, <1>6 DEF NoRoom, Coalesce, Coalesced, Descend, Duplicate, FixInsert, InsertFixed, volume,
                      handle, locals, caches, Values
  <1>7. CASE Link
    <2>1. call.hash \in Hashes
      BY <1>7 DEF Link, Phases
    <2> QED  BY <1>1, <1>7, <2>1 DEF Link, handle, caches, Values
  <1>8. CASE Search \/ Missing \/ Delete \/ FixSibling \/ FixParent \/ FixNephews \/ DeleteFixed \/ Crash
    BY <1>1, <1>8 DEF Search, Missing, Delete, FixSibling, FixParent, FixNephews, DeleteFixed, Crash,
                      volume, handle, locals, caches, Values
  <1>9. CASE Insert \/ Erase
    <2>1. UNCHANGED <<caller, mounted, indexed, mapsize, fatsize, files, drift, todo>>
      BY <1>9 DEF Insert, Erase, volume, handle, caches
    <2>2. \E h \in Names[caller] : Begin("insert", h, "malloc") \/ Begin("delete", h, "search")
      BY <1>9 DEF Insert, Erase
    <2>3. call' \in [kind : Kinds, hash : Hashes \cup {0}]
      BY <1>3, <1>4, <2>2 DEF Kinds
    <2> QED  BY <1>1, <2>1, <2>3 DEF Values
  <1>10. CASE Mount
    <2>1. UNCHANGED <<caller, indexed, mapsize, files, drift, todo>> /\ mounted' = TRUE /\ fatsize' \in FatSizes
          /\ Begin("mount", 0, "malloc")
      BY <1>10 DEF Mount, handle, caches
    <2>2. call' \in [kind : Kinds, hash : Hashes \cup {0}]
      BY <1>3, <2>1 DEF Kinds
    <2> QED  BY <1>1, <2>1, <2>2 DEF Values
  <1>11. CASE Index \/ Indexed
    BY <1>1, <1>11 DEF Index, Indexed, volume, handle, locals, caches, Values
  <1>12. CASE IndexNext
    <2>1. UNCHANGED <<caller, mounted, indexed, mapsize, fatsize, files, drift>>
      BY <1>12 DEF IndexNext, volume, caches
    <2>2. PICK h \in todo : Begin("index", h, "malloc") /\ todo' = todo \ {h}
      BY <1>12 DEF IndexNext
    <2>3. call' \in [kind : Kinds, hash : Hashes \cup {0}]
      BY <1>1, <1>3, <2>2 DEF Kinds, Values
    <2> QED  BY <1>1, <2>1, <2>2, <2>3 DEF Values
  <1>13. CASE Put
    <2>1. UNCHANGED <<caller, mounted, indexed, mapsize, fatsize, todo>>
      BY <1>13 DEF Put, handle, caches
    <2>2. PICK h \in Names[caller] \ files :
            /\ files' \subseteq files \cup {h}
            /\ \/ UNCHANGED <<drift, call>>
               \/ drift' \subseteq drift \cup {h} /\ Begin("add", h, "malloc")
      BY <1>13 DEF Put
    <2>3. h \in Hashes
      BY <1>4
    <2>4. call' \in [kind : Kinds, hash : Hashes \cup {0}]
      BY <1>1, <1>3, <2>2, <2>3 DEF Kinds, Values
    <2> QED  BY <1>1, <2>1, <2>2, <2>3, <2>4 DEF Values
  <1>14. CASE Remove
    BY <1>1, <1>14 DEF Remove, handle, locals, caches, Values
  <1>15. CASE Close \/ Unload
    <2>1. /\ UNCHANGED <<caller, mapsize, fatsize, todo, call>> /\ mounted' \in BOOLEAN /\ indexed' = FALSE
          /\ files' \subseteq files /\ drift' = {}
      BY <1>1, <1>15 DEF Close, Unload, Closed, locals, caches, Values
    <2> QED  BY <1>1, <2>1 DEF Values
  <1>16. CASE UNCHANGED vars
    BY <1>1, <1>16 DEF vars, volume, handle, locals, caches, Values
  <1> QED  BY <1>5, <1>6, <1>7, <1>8, <1>9, <1>10, <1>11, <1>12, <1>13, <1>14, <1>15, <1>16
           DEF Next, HeapStep, InsertStep, DeleteStep, Client

\* The blocks in use are in the pool.
LEMMA UsedInPool ==
  ASSUME NEW b, Tiled(b)
  PROVE  Used(b) \subseteq 0 .. Pool /\ NIL \notin Used(b)
  BY DEF Used, Tiled, NIL

\* Each address is one that was known, or that of a node.
LEMMA StepPlaces ==
  ASSUME TypeOK, HeapTiled, Phases, Held, Cursors, Shapes, Known, [Next]_vars, Shapes', Cursors'
  PROVE  {stored, x, y, z}' \subseteq {NIL, stored, root, x, y, z} \cup Places'
  <1> DEFINE Old == {NIL, stored, root, x, y, z} \cup Places'
  <1>1. \A sub : Going(sub)' => {x, y, root, stored}' \subseteq Places' /\ z' \in Places'
    BY DEF Going, Single, Places
  <1>2. pc' = "descend" => {stored, x, y, z}' \subseteq Old
    BY <1>1 DEF Shapes
  <1>3. CASE Malloc \/ Descend
    BY <1>2, <1>3 DEF Malloc, Descend, handle
  <1>4. CASE NoRoom \/ Coalesce \/ Coalesced \/ OutOfMemory \/ Duplicate \/ InsertFixed \/ Link
               \/ Missing \/ FixSibling \/ DeleteFixed \/ Crash
    BY <1>4 DEF NoRoom, Coalesce, Coalesced, OutOfMemory, Duplicate, InsertFixed, Link, Missing,
                FixSibling, DeleteFixed, Crash, handle, locals
  <1>5. CASE FixInsert
    <2>1. UNCHANGED <<stored, x, y>> /\ pc' = "fixinsert"
      BY <1>5 DEF FixInsert, handle
    <2>2. z' \in Places'
      BY <2>1 DEF Cursors, Places
    <2> QED  BY <2>1, <2>2
  <1>6. CASE Search
    <2>1. UNCHANGED <<stored, y, z>> /\ pc' = "search"
      BY <1>6 DEF Search, handle
    <2>2. x' \in Places'
      BY <2>1 DEF Cursors
    <2> QED  BY <2>1, <2>2
  <1>7. CASE Delete
    <2>1. UNCHANGED <<stored, z>>
      BY <1>7 DEF Delete, handle
    <2>2. x' \in Places' /\ y' \in Places'
      BY <1>7, UnlinkKeeps
    <2> QED  BY <2>1, <2>2
  <1>8. CASE FixParent
    <2>1. UNCHANGED <<stored, z>> /\ pc' = "sibling" /\ x' = y
      BY <1>8 DEF FixParent, handle
    <2>2. y' \in Places'
      BY <2>1 DEF Cursors, Places
    <2> QED  BY <2>1, <2>2
  <1>9. CASE FixNephews
    <2>1. UNCHANGED <<stored, y, z>> /\ pc' = "deleted"
      BY <1>9 DEF FixNephews, handle
    <2>2. x' \in Places'
      BY <2>1 DEF Cursors
    <2> QED  BY <2>1, <2>2
  <1>10. CASE Return
    BY <1>10 DEF Return
  <1>11. CASE Insert \/ Erase \/ Mount \/ IndexNext
    BY <1>11 DEF Insert, Erase, Mount, IndexNext, Begin, handle
  <1>12. CASE Index \/ Indexed \/ Remove \/ UNCHANGED vars
    BY <1>12 DEF Index, Indexed, Remove, handle, locals, vars
  <1>13. CASE Put
    BY <1>13 DEF Put, Begin, handle
  <1>14. CASE Close \/ Unload
    BY <1>14 DEF Close, Unload, Closed, locals
  <1> QED  BY <1>3, <1>4, <1>5, <1>6, <1>7, <1>8, <1>9, <1>10, <1>11, <1>12, <1>13, <1>14
           DEF Next, HeapStep, InsertStep, DeleteStep, Client

LEMMA StepInv == Inv /\ [Next]_vars => Inv'
  <1> SUFFICES ASSUME Inv, [Next]_vars  PROVE Inv'
    OBVIOUS
  <1>1. TypeOK /\ HeapTiled /\ Phases /\ Held /\ Cursors /\ Shapes /\ Known /\ Sized
    <2>1. TypeOK /\ HeapTiled /\ Phases /\ Held /\ Cursors /\ Shapes /\ Known
      BY DEF Inv
    <2>2. Sized
      BY <2>1, DirIndexAssumption DEF TypeOK, Sized, Phases
    <2> QED  BY <2>1, <2>2
  <1>2. HeapTiled'
    BY <1>1, StepTiled
  <1>3. Phases' /\ Values'
    BY <1>1, StepPhases, StepValues
  <1>4. Held' /\ Shapes' /\ Cursors' /\ Known'
    BY <1>1, StepKeeps
  <1>5. TypeOK'
    <2>1. Used(blocks') \subseteq 0 .. Pool
      BY <1>2, UsedInPool DEF HeapTiled
    <2>2. Used(blocks') = DOMAIN nodes' \cup lost' \cup Caches'
      BY <1>4 DEF Held
    <2>3. Places' \subseteq 0 .. Pool \cup {NIL} /\ {fat', map'} \subseteq 0 .. Pool \cup {NIL}
      BY <2>1, <2>2 DEF Places, Caches
    <2>4. {stored, x, y, z}' \subseteq {NIL, stored, root, x, y, z} \cup Places'
      BY <1>1, <1>4, StepPlaces
    <2>5. {NIL, stored, root, x, y, z} \subseteq 0 .. Pool \cup {NIL}
      BY <1>1 DEF TypeOK
    <2>6. root' \in Places'
      BY <1>4 DEF Cursors
    <2>7. {fat, map, stored, root, x, y, z}' \subseteq 0 .. Pool \cup {NIL}
      BY <2>3, <2>4, <2>5, <2>6
    <2> QED  BY <1>3, <2>7 DEF TypeOK, Values
  <1> QED  BY <1>2, <1>3, <1>4, <1>5 DEF Inv

LEMMA InitInv == Init => Inv
  <1> SUFFICES ASSUME Init  PROVE Inv
    OBVIOUS
  <1>1. TypeOK
    BY DEF Init, TypeOK, NoCall, Kinds
  <1>2. HeapTiled
    BY WholeTiled DEF Init, HeapTiled
  <1>3. Phases
    BY DEF Init, Phases, NoCall
  <1>4. nodes = [a \in {} |-> Leaf(0)] /\ DOMAIN nodes = {} /\ Loose = {} /\ Top = NIL
    BY DEF Init, Loose, Top
  <1>5. Held
    <2>1. Used(blocks) = {}
      BY DEF Init, Used, Whole
    <2>2. Ground(blocks, {}) = {}
      BY DEF Ground
    <2>3. Cardinality({}) = 0
      BY FS_EmptySet
    <2>4. Taken(blocks) = 0
      BY <2>1, <2>2, <2>3, Zenon DEF Taken
    <2> QED  BY <1>4, <2>1, <2>4 DEF Init, Held, Caches
  <1>6. Cursors
    BY DEF Init, Cursors, Places
  <1>7. Shapes
    <2> DEFINE S == [a \in {NIL} |-> {}]
    <2>1. nodes \in [{} -> Node({})] /\ S[NIL] = {} /\ S \in [{} \cup {NIL} -> SUBSET {}]
      BY <1>4
    <2> HIDE DEF S
    <2>2. Shaped(nodes, S) /\ Sorted(nodes, S) /\ Rules(nodes, S, NIL, {})
      BY <1>4, <2>1 DEF Shaped, Sorted, Rules
    <2>3. pc # "descend"
      BY DEF Init
    <2> QED  BY <1>4, <2>2, <2>3 DEF Shapes
  <1>8. Known
    BY <1>4 DEF Init, Known, NoCall
  <1> QED  BY <1>1, <1>2, <1>3, <1>5, <1>6, <1>7, <1>8 DEF Inv

\* Between two calls the tree is in order below the stored root.
LEMMA IdleTree ==
  ASSUME Inv, pc = "idle", Good
  PROVE  \E sub : /\ Shaped(nodes, sub) /\ Sorted(nodes, sub) /\ sub[stored] = DOMAIN nodes
                  /\ stored \in Places /\ IsFiniteSet(DOMAIN nodes)
  <1>1. PICK sub : Shaped(nodes, sub) /\ Sorted(nodes, sub) /\ Rules(nodes, sub, Top, Loose)
    BY DEF Inv, Shapes
  <1>2. Top = stored /\ Loose = {}
    BY DEF Top, Loose
  <1>3. stored \in Places
    BY DEF Inv, Phases, Cursors
  <1>4. IsFiniteSet(DOMAIN nodes)
    BY HeldFacts DEF Inv
  <1> QED  BY <1>1, <1>2, <1>3, <1>4 DEF Rules

(* Between two calls each block in use belongs to one user and is large    *)
(* enough for it, _allocated counts them, and unless a root was lost       *)
(* ecache_free reaches every node.                                         *)
THEOREM HeapIsOwned == Spec => []Owned
  <1>1. Inv => Owned
    <2> SUFFICES ASSUME Inv  PROVE Owned
      OBVIOUS
    <2>1. TypeOK /\ HeapTiled /\ Held
      BY DEF Inv
    <2>2. allocated = MapThenSumSet(LAMBDA a : blocks[a].size + Header, InUse)
      <3>1. InUse = Used(blocks) /\ InUse \subseteq DOMAIN blocks
        BY DEF InUse, Used
      <3>2. Bytes(blocks, InUse) = Cardinality(Ground(blocks, InUse))
        BY <2>1, <3>1, BytesAreCounted DEF HeapTiled
      <3>3. allocated = Cardinality(Ground(blocks, InUse))
        BY <2>1, <3>1, Zenon DEF Held, Taken
      <3> QED  BY <3>2, <3>3 DEF Bytes
    <2>3. InUse = DOMAIN nodes \cup lost \cup Caches
      BY <2>1 DEF Held, InUse, Used
    <2>4. ASSUME pc = "idle", ~broken  PROVE DOMAIN nodes = Below(Tree, stored)
      <3>1. PICK sub : /\ Shaped(nodes, sub) /\ Sorted(nodes, sub) /\ sub[stored] = DOMAIN nodes
                       /\ stored \in Places /\ IsFiniteSet(DOMAIN nodes)
        BY <2>4, IdleTree DEF Good
      <3>2. Tree.n = nodes
        BY DEF Tree
      <3>3. Below(Tree, stored) = sub[stored]
        BY <3>1, <3>2, BelowIsSub DEF Places
      <3> QED  BY <3>1, <3>3
    <2> QED  BY <2>1, <2>2, <2>3, <2>4 DEF Owned, Held
  <1> QED  BY <1>1, InitInv, StepInv, PTL DEF Spec

(* ecache_find from the stored root answers as the disk does, or as the    *)
(* calls of a keeper have left it; names that were removed behind the      *)
(* index, or whose entry was not written, are left out.                    *)
THEOREM LookupsAreExact == Spec => []LookupExact
  <1>1. Inv => LookupExact
    <2> SUFFICES ASSUME Inv, pc = "idle", NEW h \in Names[caller] \ drift
                 PROVE  IF caller = "keeper" THEN Hit(h) <=> h \in files ELSE Hit(h) => h \in files
      BY DEF LookupExact
    <2>1. Known /\ Loose = {} /\ caller \in Callers
      BY DEF Inv, Loose, TypeOK
    <2>2. Hit(h) => \E a \in DOMAIN nodes : nodes[a].hash = h
      BY DEF Hit, Path
    <2>3. CASE caller = "keeper"
      <3>1. files = {nodes[a].hash : a \in DOMAIN nodes}
        BY <2>1, <2>3 DEF Known
      <3>2. ASSUME h \in files  PROVE Hit(h)
        <4>1. PICK a \in DOMAIN nodes : nodes[a].hash = h
          BY <3>1, <3>2
        <4>2. PICK sub : /\ Shaped(nodes, sub) /\ Sorted(nodes, sub) /\ sub[stored] = DOMAIN nodes
                         /\ stored \in Places /\ IsFiniteSet(DOMAIN nodes)
          BY <2>3, IdleTree DEF Good
        <4>3. stored \in DOMAIN nodes
          BY <4>1, <4>2 DEF Shaped, Places
        <4> QED  BY <4>1, <4>2, <4>3, PathFinds
      <3> QED  BY <2>2, <2>3, <3>1, <3>2
    <2>4. CASE caller = "library"
      <3>1. {nodes[a].hash : a \in DOMAIN nodes} \subseteq files \cup drift
        BY <2>1, <2>4 DEF Known
      <3> QED  BY <2>2, <2>4, <3>1
    <2> QED  BY <2>1, <2>3, <2>4 DEF Callers
  <1> QED  BY <1>1, InitInv, StepInv, PTL DEF Spec

-----------------------------------------------------------------------------
(* The colours.  A node weighs one when it is black.  H[a] is the weight   *)
(* of every way from a down to an empty place; on the side t of u it is    *)
(* one too small, and nowhere when u is null.                              *)
Weights(N) == [a \in DOMAIN N |-> IF N[a].black THEN 1 ELSE 0]

Even(N, W, H, u, t) ==
  /\ W \in [DOMAIN N -> {0, 1}] /\ H \in [DOMAIN N \cup {NIL} -> Int] /\ H[NIL] = 0
  /\ \A a \in DOMAIN N, s \in Sides :
       H[a] = W[a] + H[N[a][s]] + (IF a = u /\ s = t THEN 1 ELSE 0)

\* A red node has a black parent, unless it is one of V.
Calm(N, W, V) ==
  \A a \in DOMAIN N : W[a] = 0 /\ N[a].p # NIL /\ W[N[a].p] = 0 => a \in V

\* A red-black tree below q.
Balanced(N, W, q) ==
  /\ Calm(N, W, {}) /\ (q # NIL => W[q] = 1)
  /\ \E H : Even(N, W, H, NIL, "l")

\* _fix_insert: v is red, and may have a red parent.
Reddened(N, W, v) == W[v] = 0 /\ Calm(N, W, {v}) /\ \E H : Even(N, W, H, NIL, "l")

\* The ways below u over its child v are one too light.
Lighter(N, W, v, u) == \E t \in Sides : \E H : N[u][t] = v /\ Even(N, W, H, u, t)

(* _fix_delete: the ways over v, whose parent is u, are one too light, or  *)
(* v is the root; it may be red, and may have red children.                *)
Short(N, W, v, u, q) ==
  /\ Calm(N, W, {a \in DOMAIN N : a = v \/ N[a].p = v})
  /\ v # q => W[q] = 1
  /\ v # NIL => N[v].p = u
  /\ u = NIL => v = q /\ \E H : Even(N, W, H, NIL, "l")
  /\ u # NIL => Lighter(N, W, v, u)

\* v and its sibling are black.
Shorter(N, W, v, u, q) ==
  /\ Calm(N, W, {}) /\ W[q] = 1 /\ (v # NIL => W[v] = 1) /\ Lighter(N, W, v, u)
  /\ \A a \in DOMAIN N : N[a].p = u => W[a] = 1

(* What is true of the colours, as long as no node with two children was   *)
(* deleted and no root was lost.                                           *)
Colours ==
  ~broken =>
    /\ pc = "fixinsert" => Reddened(nodes, Weights(nodes), z)
    /\ pc = "sibling"   => Short(nodes, Weights(nodes), x, y, root)
    /\ pc = "nephews"   => Shorter(nodes, Weights(nodes), x, y, root)
    /\ pc = "deleted"   => x = root
    /\ pc = "descend"   => ~nodes[z].black
    /\ pc \notin {"fixinsert", "sibling", "nephews", "crashed"} =>
         Balanced(nodes, Weights(nodes), Top)

LEMMA WeightsAre ==
  ASSUME NEW D, NEW N \in [D -> Node(D)]
  PROVE  /\ Weights(N) \in [D -> {0, 1}]
         /\ \A a \in D : (Weights(N)[a] = 1 <=> N[a].black) /\ (Weights(N)[a] = 0 <=> ~N[a].black)
  BY DEF Weights

\* The links after a rotation, whatever the colours.
Spun(N, M, u, s) ==
  LET v == N[u][Other(s)]
      c == N[v][s]
  IN /\ DOMAIN M = DOMAIN N
     /\ \A a \in DOMAIN N :
          /\ M[a].p = IF a = v THEN N[u].p ELSE IF a = u THEN v ELSE IF a = c THEN u ELSE N[a].p
          /\ \A t \in Sides :
               M[a][t] = IF a = u THEN (IF t = s THEN N[u][s] ELSE c)
                         ELSE IF a = v THEN (IF t = s THEN u ELSE N[v][t])
                         ELSE IF N[a][t] = u THEN v ELSE N[a][t]

(* Ways above a rotation do not change when those below it weigh as much   *)
(* as they did, which has to be seen for the two nodes that turn.  Of the  *)
(* others only the outer child d may get another weight.                   *)
LEMMA SpunEven ==
  ASSUME NEW N, NEW sub, Shaped(N, sub), NEW u \in DOMAIN N, NEW s \in Sides, NEW v, NEW d,
         N[u][Other(s)] = v, v # NIL, N[v][Other(s)] = d,
         NEW M, Spun(N, M, u, s),
         NEW W, NEW H, NEW e, NEW t, Even(N, W, H, e, t),
         NEW X \in [DOMAIN N -> {0, 1}], NEW G \in [DOMAIN N \cup {NIL} -> Int], NEW f, NEW g,
         \A a \in DOMAIN N \ {u, v}, k \in Sides : (a = e /\ k = t) <=> (a = f /\ k = g),
         G[NIL] = 0, G[v] = H[u],
         \A a \in DOMAIN N \ {u, v} : /\ G[a] - X[a] = H[a] - W[a]
                                      /\ a # d => G[a] = H[a],
         \A a \in {u, v}, k \in Sides :
           G[a] = X[a] + G[M[a][k]] + (IF a = f /\ k = g THEN 1 ELSE 0)
  PROVE  Even(M, X, G, f, g)
  <1> DEFINE D == DOMAIN N
  <1>1. /\ v \in D /\ v # u /\ NIL \notin D
        /\ d # NIL => N[d].p = v
        /\ \A a \in D, k \in Sides : N[a][k] = v => a = u
        /\ \A a \in D, k \in Sides : N[a][k] \in D \cup {NIL}
        /\ \A a \in D, k \in Sides : N[a][k] # NIL => N[N[a][k]].p = a
    <2>1. NIL \notin D /\ \A a \in D, k \in Sides : N[a][k] # NIL => N[N[a][k]].p = a
      BY DEF Shaped
    <2>2. \A a \in D, k \in Sides : N[a][k] \in D \cup {NIL}
      BY NodeFacts DEF Shaped
    <2> QED  BY <2>1, <2>2, Around
  <1>2. ASSUME NEW a \in D \ {u, v}, NEW k \in Sides
        PROVE  G[a] = X[a] + G[M[a][k]] + (IF a = f /\ k = g THEN 1 ELSE 0)
    <2> DEFINE b == N[a][k]
               j == IF a = e /\ k = t THEN 1 ELSE 0
               j2 == IF a = f /\ k = g THEN 1 ELSE 0
    <2>1. H[a] = W[a] + H[b] + j
      BY DEF Even
    <2>2. j = j2 /\ j \in Int
      OBVIOUS
    <2>3. M[a][k] = IF b = u THEN v ELSE b
      BY <1>2 DEF Spun
    <2>4. b = NIL \/ (b \in D /\ b # v /\ b # d)
      <3>1. ASSUME b = d, b # NIL  PROVE FALSE
        <4>1. N[b].p = a /\ N[d].p = v
          BY <1>1, <3>1
        <4> QED  BY <3>1, <4>1
      <3>2. b # v
        BY <1>1
      <3> QED  BY <1>1, <3>1, <3>2
    <2>5. G[M[a][k]] = H[b]
      <3>1. CASE b = NIL
        BY <1>1, <2>3, <3>1 DEF Even
      <3>2. CASE b = u
        BY <2>3, <3>2
      <3>3. CASE b # NIL /\ b # u
        BY <2>3, <2>4, <3>3
      <3> QED  BY <3>1, <3>2, <3>3
    <2>6. G[a] \in Int /\ X[a] \in Int /\ H[a] \in Int /\ W[a] \in Int /\ H[b] \in Int
          /\ G[a] - X[a] = H[a] - W[a]
      <3>1. H \in [D \cup {NIL} -> Int] /\ W \in [D -> {0, 1}]
        BY DEF Even
      <3> QED  BY <1>1, <3>1
    <2> HIDE DEF j, j2, b
    <2>7. G[a] = X[a] + G[M[a][k]] + j2
      BY <2>1, <2>2, <2>5, <2>6
    <2> QED  BY <2>7 DEF j2
  <1>3. DOMAIN M = D
    BY DEF Spun
  <1> QED  BY <1>2, <1>3 DEF Even

\* The links of the two nodes that turn.
LEMMA SpunPair ==
  ASSUME NEW N, NEW sub, Shaped(N, sub), NEW u \in DOMAIN N, NEW s \in Sides, NEW v,
         N[u][Other(s)] = v, v # NIL, NEW M, Spun(N, M, u, s)
  PROVE  /\ M[u][s] = N[u][s] /\ M[u][Other(s)] = N[v][s]
         /\ M[v][s] = u /\ M[v][Other(s)] = N[v][Other(s)]
         /\ {N[u][s], N[v][s], N[v][Other(s)]} \subseteq (DOMAIN N \ {u, v}) \cup {NIL}
         /\ v \in DOMAIN N /\ v # u /\ NIL \notin DOMAIN N
         /\ s # Other(s) /\ \A k \in Sides : k = s \/ k = Other(s)
  <1>1. s # Other(s) /\ Other(s) \in Sides /\ \A k \in Sides : k = s \/ k = Other(s)
    BY SideFacts
  <1>2. /\ v \in DOMAIN N /\ v # u /\ NIL \notin DOMAIN N
        /\ {N[u][s], N[v][s], N[v][Other(s)]} \subseteq (DOMAIN N \ {u, v}) \cup {NIL}
    <2>1. N[u][Other(s)] # NIL /\ NIL \notin DOMAIN N
      BY DEF Shaped
    <2>2. /\ v \in DOMAIN N /\ v # u
          /\ {N[v][s], N[v][Other(s)], N[u][s]} \subseteq DOMAIN N \cup {NIL}
          /\ N[v][s] # u /\ N[v][s] # v /\ N[v][Other(s)] # u /\ N[v][Other(s)] # v
          /\ N[u][s] # u /\ N[u][s] # v
      BY <2>1, Around
    <2> QED  BY <2>1, <2>2
  <1> QED  BY <1>1, <1>2 DEF Spun

\* A red node takes the place and the colour of its black parent.
LEMMA SwapEven ==
  ASSUME NEW N, NEW sub, Shaped(N, sub), NEW u \in DOMAIN N, NEW s \in Sides, NEW v,
         N[u][Other(s)] = v, v # NIL, NEW M, Spun(N, M, u, s),
         NEW W, NEW H, NEW e, NEW t, Even(N, W, H, e, t), W[u] = 1, W[v] = 0,
         e = u => t = s, e # v,
         NEW X \in [DOMAIN N -> {0, 1}],
         \A a \in DOMAIN N : X[a] = IF a = u THEN 0 ELSE IF a = v THEN 1 ELSE W[a]
  PROVE  \E G : Even(M, X, G, e, t)
  <1> DEFINE D == DOMAIN N
             G == [a \in D \cup {NIL} |-> IF a = u THEN H[v] ELSE IF a = v THEN H[u] ELSE H[a]]
             j == IF e = u THEN 1 ELSE 0
             A == N[u][s]
             c == N[v][s]
             d == N[v][Other(s)]
  <1>1. /\ M[u][s] = A /\ M[u][Other(s)] = c /\ M[v][s] = u /\ M[v][Other(s)] = d
        /\ {A, c, d} \subseteq (D \ {u, v}) \cup {NIL}
        /\ v \in D /\ v # u /\ NIL \notin D
        /\ s # Other(s) /\ (\A k \in Sides : k = s \/ k = Other(s)) /\ Other(s) \in Sides
    BY SpunPair, SideFacts
  <1>2. H \in [D \cup {NIL} -> Int] /\ W \in [D -> {0, 1}] /\ H[NIL] = 0
    BY DEF Even
  <1>3. H[u] = 1 + H[A] + j /\ H[u] = 1 + H[v] /\ H[v] = H[c] /\ H[v] = H[d]
    <2>1. \A a \in D, k \in Sides : H[a] = W[a] + H[N[a][k]] + (IF a = e /\ k = t THEN 1 ELSE 0)
      BY DEF Even
    <2>2. H[u] = W[u] + H[A] + (IF u = e /\ s = t THEN 1 ELSE 0)
      BY <2>1
    <2>3. H[u] = W[u] + H[v] + (IF u = e /\ Other(s) = t THEN 1 ELSE 0)
      BY <1>1, <2>1
    <2>4. H[v] = W[v] + H[c] + (IF v = e /\ s = t THEN 1 ELSE 0)
      BY <1>1, <2>1
    <2>5. H[v] = W[v] + H[d] + (IF v = e /\ Other(s) = t THEN 1 ELSE 0)
      BY <1>1, <2>1
    <2>6. {H[u], H[v], H[A], H[c], H[d]} \subseteq Int
      BY <1>1, <1>2
    <2> HIDE DEF A, c, d
    <2> QED  BY <1>1, <2>2, <2>3, <2>4, <2>5, <2>6
  <1>4. /\ G \in [D \cup {NIL} -> Int] /\ G[NIL] = 0 /\ G[v] = H[u] /\ G[u] = H[v]
        /\ \A a \in D \ {u, v} : G[a] = H[a]
        /\ G[A] = H[A] /\ G[c] = H[c] /\ G[d] = H[d]
    BY <1>1, <1>2
  <1> HIDE DEF G, A, c, d
  <1>5. {H[u], H[v], H[A], H[c], H[d]} \subseteq Int
    BY <1>1, <1>2
  <1>6. \A a \in {u, v}, k \in Sides :
          G[a] = X[a] + G[M[a][k]] + (IF a = e /\ k = t THEN 1 ELSE 0)
    <2>1. X[u] = 0 /\ X[v] = 1
      BY <1>1
    <2>2. G[u] = X[u] + G[M[u][s]] + (IF u = e /\ s = t THEN 1 ELSE 0)
      BY <1>1, <1>3, <1>4, <1>5, <2>1
    <2>3. G[u] = X[u] + G[M[u][Other(s)]] + (IF u = e /\ Other(s) = t THEN 1 ELSE 0)
      <3>1. (IF u = e /\ Other(s) = t THEN 1 ELSE 0) = 0
        BY <1>1
      <3>2. G[M[u][Other(s)]] = H[c] /\ G[u] = H[c]
        BY <1>1, <1>3, <1>4
      <3> QED  BY <1>5, <2>1, <3>1, <3>2
    <2>4. G[v] = X[v] + G[M[v][s]] + (IF v = e /\ s = t THEN 1 ELSE 0)
      BY <1>1, <1>3, <1>4, <1>5, <2>1
    <2>5. G[v] = X[v] + G[M[v][Other(s)]] + (IF v = e /\ Other(s) = t THEN 1 ELSE 0)
      BY <1>1, <1>3, <1>4, <1>5, <2>1
    <2> QED  BY <1>1, <2>2, <2>3, <2>4, <2>5
  <1>7. \A a \in D \ {u, v} : G[a] - X[a] = H[a] - W[a]
    BY <1>4
  <1>8. Even(M, X, G, e, t)
    BY <1>4, <1>6, <1>7, SpunEven
  <1> QED  BY <1>8

\* Two red nodes turn.
LEMMA RedEven ==
  ASSUME NEW N, NEW sub, Shaped(N, sub), NEW u \in DOMAIN N, NEW s \in Sides, NEW v,
         N[u][Other(s)] = v, v # NIL, NEW M, Spun(N, M, u, s),
         NEW W, NEW H, Even(N, W, H, NIL, "l"), W[u] = 0, W[v] = 0
  PROVE  Even(M, W, H, NIL, "l")
  <1> DEFINE D == DOMAIN N
             A == N[u][s]
             c == N[v][s]
             d == N[v][Other(s)]
  <1>1. /\ M[u][s] = A /\ M[u][Other(s)] = c /\ M[v][s] = u /\ M[v][Other(s)] = d
        /\ {A, c, d} \subseteq (D \ {u, v}) \cup {NIL}
        /\ v \in D /\ v # u /\ NIL \notin D
        /\ s # Other(s) /\ (\A k \in Sides : k = s \/ k = Other(s)) /\ Other(s) \in Sides
    BY SpunPair, SideFacts
  <1>2. H \in [D \cup {NIL} -> Int] /\ W \in [D -> {0, 1}] /\ H[NIL] = 0
    BY DEF Even
  <1>3. H[u] = H[A] /\ H[u] = H[v] /\ H[v] = H[c] /\ H[v] = H[d]
    <2>1. \A a \in D, k \in Sides : H[a] = W[a] + H[N[a][k]]
      <3>1. \A a \in D, k \in Sides : H[a] = W[a] + H[N[a][k]] + (IF a = NIL /\ k = "l" THEN 1 ELSE 0)
        BY DEF Even
      <3>2. \A a \in D, k \in Sides : N[a][k] \in D \cup {NIL}
        BY NodeFacts DEF Shaped
      <3> QED  BY <1>1, <1>2, <3>1, <3>2
    <2>2. {H[u], H[v], H[A], H[c], H[d]} \subseteq Int
      BY <1>1, <1>2
    <2> QED  BY <1>1, <2>1, <2>2
  <1> HIDE DEF A, c, d
  <1>4. \A a \in {u, v}, k \in Sides :
          H[a] = W[a] + H[M[a][k]] + (IF a = NIL /\ k = "l" THEN 1 ELSE 0)
    <2>1. {H[u], H[v], H[A], H[c], H[d]} \subseteq Int /\ u # NIL /\ v # NIL
      BY <1>1, <1>2
    <2>2. H[u] = W[u] + H[M[u][s]] /\ H[u] = W[u] + H[M[u][Other(s)]]
      BY <1>1, <1>3, <2>1
    <2>3. H[v] = W[v] + H[M[v][s]] /\ H[v] = W[v] + H[M[v][Other(s)]]
      BY <1>1, <1>3, <2>1
    <2>4. \A a \in {u, v}, k \in Sides : H[a] = W[a] + H[M[a][k]]
      BY <1>1, <2>2, <2>3
    <2> QED  BY <2>1, <2>4
  <1> QED  BY <1>2, <1>3, <1>4, SpunEven

\* The sibling takes the place and the colour of u, which makes up for the
\* black node that is missing on the side s of u; d turns black.
LEMMA NephewEven ==
  ASSUME NEW N, NEW sub, Shaped(N, sub), NEW u \in DOMAIN N, NEW s \in Sides, NEW v, NEW d,
         N[u][Other(s)] = v, v # NIL, N[v][Other(s)] = d, d # NIL, NEW M, Spun(N, M, u, s),
         NEW W, NEW H, Even(N, W, H, u, s), W[v] = 1, W[d] = 0,
         NEW X \in [DOMAIN N -> {0, 1}],
         \A a \in DOMAIN N : X[a] = IF a = u \/ a = d THEN 1 ELSE IF a = v THEN W[u] ELSE W[a]
  PROVE  \E G : Even(M, X, G, NIL, "l")
  <1> DEFINE D == DOMAIN N
             G == [a \in D \cup {NIL} |-> IF a = u THEN H[v] ELSE IF a = v THEN H[u]
                                          ELSE IF a = d THEN H[d] + 1 ELSE H[a]]
             A == N[u][s]
             c == N[v][s]
  <1>1. /\ M[u][s] = A /\ M[u][Other(s)] = c /\ M[v][s] = u /\ M[v][Other(s)] = d
        /\ {A, c, d} \subseteq (D \ {u, v}) \cup {NIL}
        /\ v \in D /\ v # u /\ NIL \notin D
        /\ s # Other(s) /\ (\A k \in Sides : k = s \/ k = Other(s)) /\ Other(s) \in Sides
    BY SpunPair, SideFacts
  <1>2. H \in [D \cup {NIL} -> Int] /\ W \in [D -> {0, 1}] /\ H[NIL] = 0
    BY DEF Even
  <1>3. H[u] = W[u] + H[A] + 1 /\ H[u] = W[u] + H[v] /\ H[v] = 1 + H[c] /\ H[v] = 1 + H[d]
    <2>1. \A a \in D, k \in Sides : H[a] = W[a] + H[N[a][k]] + (IF a = u /\ k = s THEN 1 ELSE 0)
      BY DEF Even
    <2>2. H[u] = W[u] + H[A] + (IF u = u /\ s = s THEN 1 ELSE 0)
      BY <2>1
    <2>3. H[u] = W[u] + H[v] + (IF u = u /\ Other(s) = s THEN 1 ELSE 0)
      BY <1>1, <2>1
    <2>4. H[v] = W[v] + H[c] + (IF v = u /\ s = s THEN 1 ELSE 0)
      BY <1>1, <2>1
    <2>5. H[v] = W[v] + H[d] + (IF v = u /\ Other(s) = s THEN 1 ELSE 0)
      BY <1>1, <2>1
    <2>6. {H[u], H[v], H[A], H[c], H[d], W[u]} \subseteq Int
      BY <1>1, <1>2
    <2> HIDE DEF A, c
    <2> QED  BY <1>1, <2>2, <2>3, <2>4, <2>5, <2>6
  <1>4. A # d /\ c # d
    <2>1. N[d].p = v
      BY Around
    <2>2. A # NIL => N[A].p = u
      BY Around
    <2>3. c # d
      BY <1>1, Beside
    <2> HIDE DEF A, c
    <2> QED  BY <1>1, <2>1, <2>2, <2>3
  <1>5. /\ G \in [D \cup {NIL} -> Int] /\ G[NIL] = 0 /\ G[v] = H[u] /\ G[u] = H[v]
        /\ G[d] = H[d] + 1
        /\ \A a \in D \ {u, v, d} : G[a] = H[a]
        /\ G[A] = H[A] /\ G[c] = H[c]
    <2> HIDE DEF A, c
    <2> QED  BY <1>1, <1>2, <1>4
  <1> HIDE DEF G, A, c
  <1>6. {H[u], H[v], H[A], H[c], H[d], W[u]} \subseteq Int
    BY <1>1, <1>2
  <1>7. \A a \in {u, v}, k \in Sides :
          G[a] = X[a] + G[M[a][k]] + (IF a = NIL /\ k = "l" THEN 1 ELSE 0)
    <2>1. X[u] = 1 /\ X[v] = W[u] /\ u # NIL /\ v # NIL
      BY <1>1
    <2>2. G[u] = X[u] + G[M[u][s]]
      BY <1>1, <1>3, <1>5, <1>6, <2>1
    <2>3. G[u] = X[u] + G[M[u][Other(s)]]
      BY <1>1, <1>3, <1>5, <1>6, <2>1
    <2>4. G[v] = X[v] + G[M[v][s]]
      BY <1>1, <1>3, <1>5, <1>6, <2>1
    <2>5. G[v] = X[v] + G[M[v][Other(s)]]
      BY <1>1, <1>3, <1>5, <1>6, <2>1
    <2>6. G[u] \in Int /\ G[v] \in Int
      BY <1>5, <1>6
    <2> QED  BY <1>1, <1>6, <1>5, <2>1, <2>2, <2>3, <2>4, <2>5, <2>6
  <1>8. \A a \in D \ {u, v} : G[a] - X[a] = H[a] - W[a] /\ (a # d => G[a] = H[a])
    <2>1. \A a \in D : H[a] \in Int
      BY <1>2
    <2>2. X[d] = 1 /\ d \in D
      BY <1>1
    <2> QED  BY <1>1, <1>5, <2>1, <2>2
  <1>9. \A a \in D \ {u, v}, k \in Sides : (a = u /\ k = s) <=> (a = NIL /\ k = "l")
    BY <1>1
  <1>10. Even(M, X, G, NIL, "l")
    BY <1>5, <1>7, <1>8, <1>9, SpunEven
  <1> QED  BY <1>10

\* No two red nodes meet that did not: the nodes between the two that turn
\* and below u are black.
LEMMA SwapCalm ==
  ASSUME NEW N, NEW sub, Shaped(N, sub), NEW u \in DOMAIN N, NEW s \in Sides, NEW v,
         N[u][Other(s)] = v, v # NIL, NEW M, Spun(N, M, u, s),
         NEW W \in [DOMAIN N -> {0, 1}], NEW V, Calm(N, W, V), W[v] = 0,
         N[u][s] # NIL => W[N[u][s]] = 1, N[v][s] \notin V,
         NEW X \in [DOMAIN N -> {0, 1}],
         \A a \in DOMAIN N : X[a] = IF a = u THEN 0 ELSE IF a = v THEN 1 ELSE W[a]
  PROVE  Calm(M, X, V \ {N[v][Other(s)]})
  <1> DEFINE D == DOMAIN N
             c == N[v][s]
             d == N[v][Other(s)]
  <1>1. /\ v \in D /\ v # u /\ NIL \notin D /\ DOMAIN M = D
        /\ \A a \in D : M[a].p = IF a = v THEN N[u].p ELSE IF a = u THEN v
                                 ELSE IF a = c THEN u ELSE N[a].p
    BY SpunPair DEF Spun
  <1>2. /\ c # NIL => N[c].p = v
        /\ d # NIL => N[d].p = v
        /\ \A a \in D : N[a].p # NIL => N[a].p \in D /\ \E k \in Sides : N[N[a].p][k] = a
        /\ \A k \in Sides : k = s \/ k = Other(s)
    <2>1. \A a \in D : N[a].p # NIL => \E k \in Sides : N[N[a].p][k] = a
      BY DEF Shaped
    <2>2. \A a \in D : N[a].p # NIL => N[a].p \in D
      BY NodeFacts DEF Shaped
    <2> QED  BY <2>1, <2>2, Around, SideFacts
  <1> HIDE DEF c, d
  <1>3. SUFFICES ASSUME NEW a \in D, X[a] = 0, M[a].p # NIL, X[M[a].p] = 0
                 PROVE  a \in V /\ a # d
    BY <1>1 DEF Calm, d
  <1>4. a # v /\ a # u
    BY <1>1, <1>3
  <1>5. a # c
    <2> SUFFICES ASSUME a = c  PROVE FALSE
      OBVIOUS
    <2>1. W[c] = 0 /\ N[c].p = v /\ c # NIL
      BY <1>1, <1>2, <1>3, <1>4
    <2> QED  BY <1>1, <2>1 DEF Calm, c
  <1>6. M[a].p = N[a].p /\ W[a] = 0
    BY <1>1, <1>3, <1>4, <1>5
  <1>7. N[a].p # v /\ N[a].p \in D
    BY <1>1, <1>2, <1>3, <1>6
  <1>8. N[a].p # u
    <2> SUFFICES ASSUME N[a].p = u  PROVE FALSE
      OBVIOUS
    <2>1. PICK k \in Sides : N[u][k] = a
      BY <1>1, <1>2
    <2>2. a = N[u][s]
      BY <1>2, <1>4, <2>1
    <2> QED  BY <1>1, <1>6, <2>2
  <1>9. W[N[a].p] = 0
    BY <1>1, <1>3, <1>6, <1>7, <1>8
  <1>10. a \in V
    BY <1>1, <1>6, <1>7, <1>9 DEF Calm
  <1>11. a # d
    BY <1>1, <1>2, <1>7
  <1> QED  BY <1>10, <1>11

\* Of two red nodes that turn the lower one has a red parent again.
LEMMA RedCalm ==
  ASSUME NEW N, NEW sub, Shaped(N, sub), NEW u \in DOMAIN N, NEW s \in Sides, NEW v,
         N[u][Other(s)] = v, v # NIL, NEW M, Spun(N, M, u, s),
         NEW W \in [DOMAIN N -> {0, 1}], Calm(N, W, {v}), W[u] = 0, W[v] = 0
  PROVE  Calm(M, W, {u})
  <1> DEFINE D == DOMAIN N
             c == N[v][s]
  <1>1. /\ v \in D /\ v # u /\ NIL \notin D /\ DOMAIN M = D
        /\ \A a \in D : M[a].p = IF a = v THEN N[u].p ELSE IF a = u THEN v
                                 ELSE IF a = c THEN u ELSE N[a].p
    BY SpunPair DEF Spun
  <1>2. c # NIL => N[c].p = v
    BY Around
  <1> HIDE DEF c
  <1>3. SUFFICES ASSUME NEW a \in D, W[a] = 0, M[a].p # NIL, W[M[a].p] = 0, a # u
                 PROVE  FALSE
    BY <1>1 DEF Calm
  <1>4. CASE a = v
    <2>1. M[a].p = N[u].p
      BY <1>1, <1>4
    <2> QED  BY <1>1, <1>3, <2>1 DEF Calm
  <1>5. CASE a # v /\ a = c
    BY <1>1, <1>2, <1>3, <1>5 DEF Calm
  <1>6. CASE a # v /\ a # c
    <2>1. M[a].p = N[a].p
      BY <1>1, <1>3, <1>6
    <2> QED  BY <1>3, <1>6, <2>1 DEF Calm
  <1> QED  BY <1>4, <1>5, <1>6

LEMMA NephewCalm ==
  ASSUME NEW N, NEW sub, Shaped(N, sub), NEW u \in DOMAIN N, NEW s \in Sides, NEW v, NEW d,
         N[u][Other(s)] = v, v # NIL, N[v][Other(s)] = d, d # NIL, NEW M, Spun(N, M, u, s),
         NEW W \in [DOMAIN N -> {0, 1}], Calm(N, W, {}),
         NEW X \in [DOMAIN N -> {0, 1}],
         \A a \in DOMAIN N : X[a] = IF a = u \/ a = d THEN 1 ELSE IF a = v THEN W[u] ELSE W[a]
  PROVE  Calm(M, X, {})
  <1> DEFINE D == DOMAIN N
             c == N[v][s]
  <1>1. /\ v \in D /\ v # u /\ NIL \notin D /\ DOMAIN M = D
        /\ \A a \in D : M[a].p = IF a = v THEN N[u].p ELSE IF a = u THEN v
                                 ELSE IF a = c THEN u ELSE N[a].p
    BY SpunPair DEF Spun
  <1>2. /\ \A a \in D : N[a].p # NIL => N[a].p \in D /\ \E k \in Sides : N[N[a].p][k] = a
        /\ \A k \in Sides : k = s \/ k = Other(s)
        /\ N[u].p # u /\ N[u].p # v
    <2>1. \A a \in D : N[a].p # NIL => \E k \in Sides : N[N[a].p][k] = a
      BY DEF Shaped
    <2>2. \A a \in D : N[a].p # NIL => N[a].p \in D
      BY NodeFacts DEF Shaped
    <2> QED  BY <2>1, <2>2, Around, SideFacts
  <1>3. \A a \in D : N[a].p = v => a = c \/ a = d
    <2> SUFFICES ASSUME NEW a \in D, N[a].p = v  PROVE a = c \/ a = d
      OBVIOUS
    <2>1. PICK k \in Sides : N[v][k] = a
      BY <1>1, <1>2
    <2> QED  BY <1>2, <2>1
  <1> HIDE DEF c
  <1>4. SUFFICES ASSUME NEW a \in D, X[a] = 0, M[a].p # NIL, X[M[a].p] = 0
                 PROVE  FALSE
    BY <1>1 DEF Calm
  <1>5. a # u /\ a # d
    BY <1>4
  <1>6. CASE a = v
    <2>1. M[a].p = N[u].p /\ W[u] = 0 /\ N[u].p \in D
      BY <1>1, <1>2, <1>4, <1>6
    <2>2. W[N[u].p] = 0
      BY <1>2, <1>4, <2>1
    <2> QED  BY <1>4, <2>1, <2>2 DEF Calm
  <1>7. CASE a # v /\ a = c
    BY <1>1, <1>4, <1>5, <1>7
  <1>8. CASE a # v /\ a # c
    <2>1. M[a].p = N[a].p /\ W[a] = 0
      BY <1>1, <1>4, <1>5, <1>8
    <2>2. N[a].p \in D /\ N[a].p # v /\ W[N[a].p] = 0
      BY <1>1, <1>2, <1>3, <1>4, <1>5, <1>8, <2>1
    <2> QED  BY <1>4, <2>1, <2>2 DEF Calm
  <1> QED  BY <1>6, <1>7, <1>8

\* What painting and turning do to the colours, the root and the links.
LEMMA PaintColours ==
  ASSUME NEW T, IsTree(T), NEW S, NEW b \in BOOLEAN
  PROVE  /\ IsTree(Paint(T, S, b)) /\ Paint(T, S, b).root = T.root
         /\ DOMAIN Paint(T, S, b).n = DOMAIN T.n
         /\ \A a \in DOMAIN T.n :
              /\ Paint(T, S, b).n[a].black = IF a \in S THEN b ELSE T.n[a].black
              /\ Paint(T, S, b).n[a].p = T.n[a].p
              /\ \A k \in Sides : Paint(T, S, b).n[a][k] = T.n[a][k]
  <1>1. Painted(T, Paint(T, S, b))
    BY PaintKeeps
  <1>2. Paint(T, S, b).root = T.root /\ Paint(T, S, b).n = Dyed(T.n, S, b)
    BY DEF Paint, Dyed, IsTree
  <1>3. \A a \in DOMAIN T.n : Dyed(T.n, S, b)[a].black = IF a \in S THEN b ELSE T.n[a].black
    BY DyedIs DEF IsTree, Shaped
  <1> QED  BY <1>1, <1>2, <1>3 DEF Painted

LEMMA RotateColours ==
  ASSUME NEW T, IsTree(T), NEW u \in DOMAIN T.n, NEW s \in Sides, T.n[u][Other(s)] # NIL
  PROVE  /\ IsTree(Rotate(T, u, s)) /\ Spun(T.n, Rotate(T, u, s).n, u, s)
         /\ Rotate(T, u, s).root = IF T.n[u].p = NIL THEN T.n[u][Other(s)] ELSE T.root
         /\ DOMAIN Rotate(T, u, s).n = DOMAIN T.n
         /\ \A a \in DOMAIN T.n : Rotate(T, u, s).n[a].black = T.n[a].black
  <1> DEFINE R == Rotate(T, u, s)
             q == T.root
             N == T.n
  <1>1. Rebalanced(T, R) /\ Turned(N, R.n, u, s)
    BY RotateKeeps
  <1>2. R.root = IF N[u].p = NIL THEN N[u][Other(s)] ELSE q
    <2>1. T = [root |-> q, n |-> N] /\ u \in DOMAIN N /\ N[u][Other(s)] # NIL
      BY DEF IsTree
    <2>2. PICK sub : Shaped(N, sub)
      BY DEF IsTree
    <2> HIDE DEF q, N
    <2>3. PICK M : Rotate([root |-> q, n |-> N], u, s)
                     = [root |-> IF N[u].p = NIL THEN N[u][Other(s)] ELSE q, n |-> M]
      BY <2>1, <2>2, RotateIs
    <2> QED  BY <2>1, <2>3
  <1> HIDE DEF R, q
  <1>3. IsTree(R) /\ Spun(N, R.n, u, s) /\ DOMAIN R.n = DOMAIN N
        /\ \A a \in DOMAIN N : R.n[a].black = N[a].black
    BY <1>1 DEF Rebalanced, Turned, Spun
  <1> QED  BY <1>2, <1>3 DEF R, q

\* Two sets of nodes are painted, then u turns.
LEMMA PaintedTurn ==
  ASSUME NEW T, IsTree(T), NEW S1, NEW b1 \in BOOLEAN, NEW S2, NEW b2 \in BOOLEAN,
         NEW u \in DOMAIN T.n, NEW s \in Sides, T.n[u][Other(s)] # NIL,
         NEW R, R = Rotate(Paint(Paint(T, S1, b1), S2, b2), u, s)
  PROVE  /\ IsTree(R) /\ Spun(T.n, R.n, u, s) /\ DOMAIN R.n = DOMAIN T.n
         /\ R.root = IF T.n[u].p = NIL THEN T.n[u][Other(s)] ELSE T.root
         /\ \A a \in DOMAIN T.n : R.n[a].black = IF a \in S2 THEN b2
                                                 ELSE IF a \in S1 THEN b1 ELSE T.n[a].black
  <1> DEFINE A == Paint(T, S1, b1)
             B == Paint(A, S2, b2)
  <1>1. /\ IsTree(A) /\ A.root = T.root /\ DOMAIN A.n = DOMAIN T.n
        /\ \A a \in DOMAIN T.n : /\ A.n[a].black = IF a \in S1 THEN b1 ELSE T.n[a].black
                                 /\ A.n[a].p = T.n[a].p
                                 /\ \A k \in Sides : A.n[a][k] = T.n[a][k]
    BY PaintColours
  <1> HIDE DEF A
  <1>2. /\ IsTree(B) /\ B.root = A.root /\ DOMAIN B.n = DOMAIN A.n
        /\ \A a \in DOMAIN A.n : /\ B.n[a].black = IF a \in S2 THEN b2 ELSE A.n[a].black
                                 /\ B.n[a].p = A.n[a].p
                                 /\ \A k \in Sides : B.n[a][k] = A.n[a][k]
    BY <1>1, PaintColours
  <1>3. R = Rotate(B, u, s)
    BY DEF A
  <1> HIDE DEF B
  <1>4. /\ DOMAIN B.n = DOMAIN T.n
        /\ \A a \in DOMAIN T.n : /\ B.n[a].p = T.n[a].p
                                 /\ \A k \in Sides : B.n[a][k] = T.n[a][k]
                                 /\ B.n[a].black = IF a \in S2 THEN b2
                                                   ELSE IF a \in S1 THEN b1 ELSE T.n[a].black
    BY <1>1, <1>2
  <1>5. /\ Other(s) \in Sides /\ T.n[u][Other(s)] \in DOMAIN T.n
    <2>1. Other(s) \in Sides
      BY SideFacts
    <2>2. T.n[u][Other(s)] \in DOMAIN T.n \cup {NIL}
      BY <2>1, NodeFacts DEF IsTree, Shaped
    <2> QED  BY <2>1, <2>2
  <1>6. B.n[u][Other(s)] # NIL /\ u \in DOMAIN B.n
    BY <1>4, <1>5
  <1>7. /\ IsTree(R) /\ Spun(B.n, R.n, u, s) /\ DOMAIN R.n = DOMAIN B.n
        /\ R.root = IF B.n[u].p = NIL THEN B.n[u][Other(s)] ELSE B.root
        /\ \A a \in DOMAIN B.n : R.n[a].black = B.n[a].black
    BY <1>2, <1>3, <1>6, RotateColours
  <1>8. Spun(T.n, R.n, u, s)
    BY <1>4, <1>5, <1>7 DEF Spun
  <1> QED  BY <1>1, <1>2, <1>4, <1>5, <1>7, <1>8

\* Where only colours change the ways are the same.
LEMMA SameWays ==
  ASSUME NEW N, NEW M, DOMAIN M = DOMAIN N,
         \A a \in DOMAIN N : M[a].p = N[a].p /\ \A k \in Sides : M[a][k] = N[a][k],
         NEW W
  PROVE  /\ \A V : Calm(N, W, V) => Calm(M, W, V)
         /\ \A H, u, t : Even(N, W, H, u, t) => Even(M, W, H, u, t)
  BY DEF Calm, Even

\* Two sets of nodes are painted, nothing turns; and the weights, then.
LEMMA TwicePainted ==
  ASSUME NEW T, IsTree(T), NEW S1, NEW b1 \in BOOLEAN, NEW S2, NEW b2 \in BOOLEAN,
         NEW R, R = Paint(Paint(T, S1, b1), S2, b2)
  PROVE  /\ IsTree(R) /\ R.root = T.root /\ DOMAIN R.n = DOMAIN T.n
         /\ \A a \in DOMAIN T.n : /\ R.n[a].p = T.n[a].p
                                  /\ \A k \in Sides : R.n[a][k] = T.n[a][k]
                                  /\ R.n[a].black = IF a \in S2 THEN b2
                                                    ELSE IF a \in S1 THEN b1 ELSE T.n[a].black
  <1> DEFINE A == Paint(T, S1, b1)
  <1>1. /\ IsTree(A) /\ A.root = T.root /\ DOMAIN A.n = DOMAIN T.n
        /\ \A a \in DOMAIN T.n : /\ A.n[a].black = IF a \in S1 THEN b1 ELSE T.n[a].black
                                 /\ A.n[a].p = T.n[a].p
                                 /\ \A k \in Sides : A.n[a][k] = T.n[a][k]
    BY PaintColours
  <1>2. R = Paint(A, S2, b2)
    OBVIOUS
  <1> HIDE DEF A
  <1>3. /\ IsTree(R) /\ R.root = A.root /\ DOMAIN R.n = DOMAIN A.n
        /\ \A a \in DOMAIN A.n : /\ R.n[a].black = IF a \in S2 THEN b2 ELSE A.n[a].black
                                 /\ R.n[a].p = A.n[a].p
                                 /\ \A k \in Sides : R.n[a][k] = A.n[a][k]
    BY <1>1, <1>2, PaintColours
  <1> QED  BY <1>1, <1>3

(* R is T with S1 black and S2, of which no node need be in S1, red.       *)
BlackThenRed(T, R, S1, S2) ==
  /\ DOMAIN R.n = DOMAIN T.n
  /\ Weights(R.n) \in [DOMAIN T.n -> {0, 1}]
  /\ \A a \in DOMAIN T.n : Weights(R.n)[a] = IF a \in S2 THEN 0
                                             ELSE IF a \in S1 THEN 1 ELSE Weights(T.n)[a]

LEMMA NewWeights ==
  ASSUME NEW T, NEW R, DOMAIN R.n = DOMAIN T.n, NEW S1, NEW S2,
         NEW b \in BOOLEAN, NEW r \in BOOLEAN, b, ~r,
         \A a \in DOMAIN T.n : R.n[a].black = IF a \in S2 THEN r
                                              ELSE IF a \in S1 THEN b ELSE T.n[a].black
  PROVE  BlackThenRed(T, R, S1, S2)
  <1>1. /\ \A a \in DOMAIN T.n : Weights(R.n)[a] = IF R.n[a].black THEN 1 ELSE 0
        /\ \A a \in DOMAIN T.n : Weights(T.n)[a] = IF T.n[a].black THEN 1 ELSE 0
        /\ Weights(R.n) \in [DOMAIN T.n -> {0, 1}]
    BY DEF Weights
  <1>2. ASSUME NEW a \in DOMAIN T.n
        PROVE  Weights(R.n)[a] = IF a \in S2 THEN 0
                                 ELSE IF a \in S1 THEN 1 ELSE Weights(T.n)[a]
    <2>1. CASE a \in S2
      <3>1. ~R.n[a].black
        BY <2>1, Zenon
      <3> QED  BY ONLY <1>1, <2>1, <3>1, a \in DOMAIN T.n
    <2>2. CASE a \notin S2 /\ a \in S1
      <3>1. R.n[a].black
        BY <2>2, Zenon
      <3> QED  BY ONLY <1>1, <2>2, <3>1, a \in DOMAIN T.n
    <2>3. CASE a \notin S2 /\ a \notin S1
      <3>1. R.n[a].black = T.n[a].black
        BY <2>3, Zenon
      <3> QED  BY ONLY <1>1, <2>3, <3>1, a \in DOMAIN T.n
    <2> QED  BY ONLY <2>1, <2>2, <2>3
  <1> QED  BY ONLY <1>1, <1>2, DOMAIN R.n = DOMAIN T.n DEF BlackThenRed

Repainted(T, R, S1, S2) ==
  /\ IsTree(R) /\ R.root = T.root /\ BlackThenRed(T, R, S1, S2)
  /\ \A a \in DOMAIN T.n : /\ R.n[a].p = T.n[a].p
                           /\ \A k \in Sides : R.n[a][k] = T.n[a][k]

RepaintedTurn(T, R, S1, S2, u, s) ==
  /\ IsTree(R) /\ Spun(T.n, R.n, u, s) /\ BlackThenRed(T, R, S1, S2)
  /\ R.root = IF T.n[u].p = NIL THEN T.n[u][Other(s)] ELSE T.root

LEMMA PaintedBlackRed ==
  ASSUME NEW T, IsTree(T), NEW S1, NEW S2, NEW R,
         NEW b \in BOOLEAN, NEW r \in BOOLEAN, b, ~r, R = Paint(Paint(T, S1, b), S2, r)
  PROVE  Repainted(T, R, S1, S2)
  <1>1. /\ IsTree(R) /\ R.root = T.root /\ DOMAIN R.n = DOMAIN T.n
        /\ \A a \in DOMAIN T.n : /\ R.n[a].p = T.n[a].p
                                 /\ \A k \in Sides : R.n[a][k] = T.n[a][k]
                                 /\ R.n[a].black = IF a \in S2 THEN r
                                                   ELSE IF a \in S1 THEN b ELSE T.n[a].black
    <2>1. IsTree(T) /\ b \in BOOLEAN /\ r \in BOOLEAN /\ R = Paint(Paint(T, S1, b), S2, r)
      OBVIOUS
    <2> QED  BY ONLY <2>1, TwicePainted
  <1>2. BlackThenRed(T, R, S1, S2)
    BY <1>1, NewWeights, Zenon
  <1> QED  BY ONLY <1>1, <1>2 DEF Repainted

LEMMA TurnedBlackRed ==
  ASSUME NEW T, IsTree(T), NEW S1, NEW S2, NEW R, NEW u \in DOMAIN T.n, NEW s \in Sides,
         T.n[u][Other(s)] # NIL,
         NEW b \in BOOLEAN, NEW r \in BOOLEAN, b, ~r,
         R = Rotate(Paint(Paint(T, S1, b), S2, r), u, s)
  PROVE  RepaintedTurn(T, R, S1, S2, u, s)
  <1>1. /\ IsTree(R) /\ Spun(T.n, R.n, u, s) /\ DOMAIN R.n = DOMAIN T.n
        /\ R.root = IF T.n[u].p = NIL THEN T.n[u][Other(s)] ELSE T.root
        /\ \A a \in DOMAIN T.n : R.n[a].black = IF a \in S2 THEN r
                                                ELSE IF a \in S1 THEN b ELSE T.n[a].black
    <2>1. /\ IsTree(T) /\ b \in BOOLEAN /\ r \in BOOLEAN
          /\ R = Rotate(Paint(Paint(T, S1, b), S2, r), u, s)
          /\ u \in DOMAIN T.n /\ s \in Sides /\ T.n[u][Other(s)] # NIL
      OBVIOUS
    <2> QED  BY ONLY <2>1, PaintedTurn
  <1>2. BlackThenRed(T, R, S1, S2)
    BY <1>1, NewWeights, Zenon
  <1> QED  BY ONLY <1>1, <1>2 DEF RepaintedTurn

\* Of those the uses are these.
LEMMA BlackRed ==
  ASSUME NEW T, IsTree(T), NEW S1, NEW S2, NEW R
  PROVE  /\ R = Paint(Paint(T, S1, TRUE), S2, FALSE) => Repainted(T, R, S1, S2)
         /\ \A u \in DOMAIN T.n, s \in Sides :
              T.n[u][Other(s)] # NIL /\ R = Rotate(Paint(Paint(T, S1, TRUE), S2, FALSE), u, s)
                => RepaintedTurn(T, R, S1, S2, u, s)
  <1>1. ASSUME NEW b \in BOOLEAN, NEW r \in BOOLEAN, b, ~r, R = Paint(Paint(T, S1, b), S2, r)
        PROVE  Repainted(T, R, S1, S2)
    BY <1>1, PaintedBlackRed, Zenon
  <1>2. ASSUME NEW b \in BOOLEAN, NEW r \in BOOLEAN, b, ~r, NEW u \in DOMAIN T.n, NEW s \in Sides,
               T.n[u][Other(s)] # NIL, R = Rotate(Paint(Paint(T, S1, b), S2, r), u, s)
        PROVE  RepaintedTurn(T, R, S1, S2, u, s)
    BY <1>2, TurnedBlackRed, Zenon
  <1>3. TRUE \in BOOLEAN /\ FALSE \in BOOLEAN /\ TRUE /\ ~FALSE
    OBVIOUS
  <1> QED  BY ONLY <1>1, <1>2, <1>3, Zenon

-----------------------------------------------------------------------------
(* _fix_insert and the colours.                                            *)
LEMMA TreeFacts ==
  ASSUME NEW T, IsTree(T)
  PROVE  /\ NIL \notin DOMAIN T.n /\ T.n \in [DOMAIN T.n -> Node(DOMAIN T.n)]
         /\ Weights(T.n) \in [DOMAIN T.n -> {0, 1}]
         /\ \A a \in DOMAIN T.n :
              /\ (Weights(T.n)[a] = 1 <=> T.n[a].black) /\ (Weights(T.n)[a] = 0 <=> ~T.n[a].black)
              /\ T.n[a].p \in DOMAIN T.n \cup {NIL}
              /\ T.n[a].p # NIL => \E k \in Sides : T.n[T.n[a].p][k] = a
              /\ \A k \in Sides : /\ T.n[a][k] \in DOMAIN T.n \cup {NIL}
                                  /\ T.n[a][k] # NIL => T.n[T.n[a][k]].p = a /\ T.n[a][k] # a
                                                        /\ T.n[a][k] # T.n[a][Other(k)]
  <1>1. PICK sub : Shaped(T.n, sub)
    BY DEF IsTree
  <1>2. NIL \notin DOMAIN T.n /\ T.n \in [DOMAIN T.n -> Node(DOMAIN T.n)]
    BY <1>1 DEF Shaped
  <1>3. \A a \in DOMAIN T.n :
              /\ T.n[a].p \in DOMAIN T.n \cup {NIL}
              /\ T.n[a].p # NIL => \E k \in Sides : T.n[T.n[a].p][k] = a
    <2>1. \A a \in DOMAIN T.n : T.n[a].p \in DOMAIN T.n \cup {NIL}
      BY <1>2, NodeFacts
    <2> QED  BY <1>1, <2>1 DEF Shaped
  <1>4. \A a \in DOMAIN T.n, k \in Sides :
              /\ T.n[a][k] \in DOMAIN T.n \cup {NIL}
              /\ T.n[a][k] # NIL => T.n[T.n[a][k]].p = a /\ T.n[a][k] # a
                                    /\ T.n[a][k] # T.n[a][Other(k)]
    <2>1. \A a \in DOMAIN T.n, k \in Sides : T.n[a][k] \in DOMAIN T.n \cup {NIL}
      BY <1>2, NodeFacts
    <2> QED  BY <1>1, <2>1, Beside
  <1> QED  BY <1>2, <1>3, <1>4, WeightsAre

\* The parent and the uncle turn black, the grandparent red.
LEMMA PushUpColours ==
  ASSUME NEW T, IsTree(T), NEW u \in DOMAIN T.n, NEW p \in DOMAIN T.n, NEW g \in DOMAIN T.n,
         T.n[u].p = p, T.n[p].p = g, ~T.n[p].black, Red(T, Uncle(T, u)),
         Reddened(T.n, Weights(T.n), u)
  PROVE  Reddened(PushUp(T, u).n, Weights(PushUp(T, u).n), g)
  <1> DEFINE N == T.n
             D == DOMAIN N
             W == Weights(N)
             e == Uncle(T, u)
             s == SideOf(T, p)
             M == PushUp(T, u).n
             X == Weights(M)
  <1>1. /\ NIL \notin D /\ W \in [D -> {0, 1}]
        /\ \A a \in D : (W[a] = 1 <=> N[a].black) /\ (W[a] = 0 <=> ~N[a].black)
        /\ \A a \in D : N[a].p # NIL => N[a].p \in D /\ \E k \in Sides : N[N[a].p][k] = a
        /\ \A a \in D, k \in Sides : /\ N[a][k] \in D \cup {NIL}
                                     /\ N[a][k] # NIL => N[N[a][k]].p = a /\ N[a][k] # a
    BY TreeFacts
  <1>2. s \in Sides /\ N[g][s] = p /\ Other(s) \in Sides /\ \A k \in Sides : k = s \/ k = Other(s)
    BY <1>1, SideIs, SideFacts
  <1>3. e = N[g][Other(s)]
    BY DEF Uncle
  <1>4. PushUp(T, u) = Paint(Paint(T, {p, e}, TRUE), {g}, FALSE)
    BY DEF PushUp
  <1> HIDE DEF e, s
  <1>5. Repainted(T, PushUp(T, u), {p, e}, {g})
    BY <1>4, BlackRed, Zenon
  <1>8. /\ X \in [D -> {0, 1}]
        /\ \A a \in D : X[a] = IF a = g THEN 0 ELSE IF a = p \/ a = e THEN 1 ELSE W[a]
        /\ DOMAIN M = D /\ \A a \in D : M[a].p = N[a].p /\ \A k \in Sides : M[a][k] = N[a][k]
    <2> HIDE DEF e
    <2> QED  BY <1>5 DEF Repainted, BlackThenRed
  <1>9. /\ Calm(N, W, {u}) /\ W[p] = 0 /\ e \in D /\ W[e] = 0 /\ N[e].p = g
    <2>1. e # NIL /\ ~N[e].black /\ e \in D
      BY <1>1, <1>2, <1>3 DEF Red, e
    <2> QED  BY <1>1, <1>2, <1>3, <2>1 DEF Reddened
  <1>10. PICK H : Even(N, W, H, NIL, "l")
    BY DEF Reddened
  <1> HIDE DEF X, W, M
  <1>11. p # u /\ g # p /\ g # e /\ W[g] = 1
    <2>1. p # u /\ g # p /\ g # e
      BY <1>1, <1>2, <1>3, <1>9
    <2> QED  BY <1>1, <1>9, <2>1 DEF Calm
  <1>12. Calm(M, X, {g})
    <2> SUFFICES ASSUME NEW a \in D, X[a] = 0, M[a].p # NIL, X[M[a].p] = 0, a # g
                 PROVE  FALSE
      BY <1>8 DEF Calm
    <2>1. a # p /\ a # e /\ W[a] = 0 /\ M[a].p = N[a].p /\ N[a].p \in D
      BY <1>1, <1>8
    <2>2. N[a].p # g
      <3> SUFFICES ASSUME N[a].p = g  PROVE FALSE
        OBVIOUS
      <3>1. PICK k \in Sides : N[g][k] = a
        BY <1>1
      <3> QED  BY <1>2, <1>3, <2>1, <3>1
    <2>3. N[a].p # p /\ W[N[a].p] = 0
      BY <1>8, <2>1, <2>2
    <2> QED  BY <1>9, <2>1, <2>3 DEF Calm
  <1> DEFINE G == [a \in D \cup {NIL} |-> IF a = p \/ a = e THEN H[a] + 1 ELSE H[a]]
  <1>13. H \in [D \cup {NIL} -> Int] /\ H[NIL] = 0
         /\ \A a \in D, k \in Sides : H[a] = W[a] + H[N[a][k]]
    <2>1. H \in [D \cup {NIL} -> Int] /\ H[NIL] = 0 /\ W \in [D -> {0, 1}]
      BY <1>10 DEF Even
    <2>2. \A a \in D, k \in Sides : H[a] = W[a] + H[N[a][k]] + (IF a = NIL /\ k = "l" THEN 1 ELSE 0)
      BY <1>10 DEF Even
    <2>3. \A a \in D, k \in Sides : N[a][k] \in D \cup {NIL}
      BY <1>1
    <2> QED  BY <1>1, <2>1, <2>2, <2>3
  <1>14. G \in [D \cup {NIL} -> Int] /\ G[NIL] = 0
         /\ \A a \in D \cup {NIL} : G[a] = IF a = p \/ a = e THEN H[a] + 1 ELSE H[a]
    BY <1>1, <1>9, <1>13
  <1> HIDE DEF G
  <1>15. ASSUME NEW a \in D, NEW k \in Sides
         PROVE  G[a] = X[a] + G[M[a][k]] + (IF a = NIL /\ k = "l" THEN 1 ELSE 0)
    <2> DEFINE b == N[a][k]
    <2>1. /\ b \in D \cup {NIL} /\ M[a][k] = b /\ H[a] = W[a] + H[b] /\ a # NIL
          /\ H[a] \in Int /\ H[b] \in Int
      BY <1>1, <1>8, <1>13
    <2>2. b = p \/ b = e <=> a = g
      <3>1. b = p \/ b = e => a = g
        BY <1>1, <1>9
      <3>2. a = g => b = p \/ b = e
        BY <1>2, <1>3
      <3> QED  BY <3>1, <3>2
    <2> HIDE DEF b
    <2>3. CASE a = g
      <3>1. G[b] = H[b] + 1 /\ G[a] = H[a] /\ X[a] = 0 /\ W[a] = 1
        BY <1>8, <1>11, <1>14, <2>1, <2>2, <2>3
      <3> QED  BY <2>1, <3>1
    <2>4. CASE a = p \/ a = e
      <3>1. G[b] = H[b] /\ G[a] = H[a] + 1 /\ X[a] = 1 /\ W[a] = 0
        BY <1>8, <1>9, <1>11, <1>14, <2>1, <2>2, <2>4
      <3> QED  BY <2>1, <3>1
    <2>5. CASE a # g /\ a # p /\ a # e
      <3>1. G[b] = H[b] /\ G[a] = H[a] /\ X[a] = W[a] /\ W[a] \in Int
        BY <1>1, <1>8, <1>14, <2>1, <2>2, <2>5
      <3> QED  BY <2>1, <3>1
    <2> QED  BY <2>3, <2>4, <2>5
  <1>16. Even(M, X, G, NIL, "l")
    BY <1>8, <1>14, <1>15 DEF Even
  <1>17. X[g] = 0
    BY <1>8
  <1> QED  BY <1>12, <1>16, <1>17 DEF Reddened, X, M

\* The lower of two red nodes hangs outside, and the uncle is black.
LEMMA OuterUp ==
  ASSUME NEW T, IsTree(T), NEW g \in DOMAIN T.n, NEW k \in Sides, NEW q, NEW r,
         T.n[g][k] = q, q # NIL, T.n[q][k] = r, r # NIL, ~T.n[q].black,
         ~Red(T, T.n[g][Other(k)]), Reddened(T.n, Weights(T.n), r),
         NEW R, R = Rotate(Paint(Paint(T, {q}, TRUE), {g}, FALSE), g, Other(k))
  PROVE  Reddened(R.n, Weights(R.n), r)
  <1> DEFINE N == T.n
             D == DOMAIN N
             W == Weights(N)
             X == Weights(R.n)
             s == Other(k)
  <1>1. s \in Sides /\ Other(s) = k /\ s # k
    BY SideFacts
  <1>2. PICK sub : Shaped(N, sub)
    BY DEF IsTree
  <1>3. /\ NIL \notin D /\ W \in [D -> {0, 1}] /\ q \in D /\ r \in D /\ q # g /\ r # g /\ r # q
        /\ N[q].p = g /\ N[q][s] # r /\ W[q] = 0
        /\ N[g][s] # NIL => W[N[g][s]] = 1
    <2>1. /\ N[g][Other(s)] = q /\ q \in D /\ r \in D /\ q # g /\ r # g /\ r # q /\ N[q].p = g
      BY <1>1, <1>2, Around
    <2>2. N[q][k] # N[q][s]
      BY <1>1, <1>2, <2>1, Beside
    <2>3. N[g][s] \in D \cup {NIL}
      BY <1>1, TreeFacts
    <2> QED  BY <2>1, <2>2, <2>3, TreeFacts DEF Red
  <1>4. W[r] = 0 /\ Calm(N, W, {r}) /\ \E H : Even(N, W, H, NIL, "l")
    BY DEF Reddened
  <1>5. W[g] = 1
    BY <1>3, <1>4 DEF Calm
  <1>6. RepaintedTurn(T, R, {q}, {g}, g, s)
    BY <1>1, <1>3, BlackRed, Zenon
  <1>7. /\ X \in [D -> {0, 1}] /\ Spun(N, R.n, g, s)
        /\ \A a \in D : X[a] = IF a = g THEN 0 ELSE IF a = q THEN 1 ELSE W[a]
    BY <1>6 DEF RepaintedTurn, BlackThenRed
  <1>8. N[g][Other(s)] = q /\ N[q][Other(s)] = r
    BY <1>1
  <1> HIDE DEF W, X, s
  <1>9. Calm(R.n, X, {r} \ {N[q][Other(s)]})
    <2>1. N[q][s] \notin {r} /\ q # NIL /\ g \in DOMAIN N /\ Calm(N, W, {r})
      BY <1>3, <1>4
    <2> HIDE DEF N
    <2> QED  BY ONLY <1>1, <1>2, <1>3, <1>7, <1>8, <2>1, SwapCalm
  <1>10. Calm(R.n, X, {r})
    BY <1>9 DEF Calm
  <1>11. PICK H : Even(N, W, H, NIL, "l")
    BY <1>4
  <1>12. \E G : Even(R.n, X, G, NIL, "l")
    <2>1. NIL # g /\ NIL # q /\ q # NIL /\ g \in DOMAIN N
      BY <1>3
    <2> HIDE DEF N
    <2> QED  BY ONLY <1>1, <1>2, <1>3, <1>5, <1>7, <1>8, <1>11, <2>1, SwapEven
  <1>13. X[r] = 0
    BY <1>3, <1>4, <1>7
  <1> QED  BY <1>10, <1>12, <1>13 DEF Reddened, X

LEMMA RotateUpColours ==
  ASSUME NEW T, IsTree(T), NEW u \in DOMAIN T.n, NEW p \in DOMAIN T.n, NEW g \in DOMAIN T.n,
         T.n[u].p = p, T.n[p].p = g, ~T.n[p].black, ~Red(T, Uncle(T, u)),
         Reddened(T.n, Weights(T.n), u)
  PROVE  LET R == RotateUp(T, u) IN Reddened(R.tree.n, Weights(R.tree.n), R.z)
  <1> DEFINE N == T.n
             D == DOMAIN N
             s == SideOf(T, p)
             in == SideOf(T, u) # s
  <1>1. /\ SideOf(T, u) \in Sides /\ N[p][SideOf(T, u)] = u /\ p # u /\ u # NIL
        /\ s \in Sides /\ N[g][s] = p /\ g # p /\ p # NIL /\ g # NIL
        /\ Other(s) \in Sides /\ Other(s) # s /\ NIL \notin D
    BY TreeFacts, SideIs, SideFacts
  <1>2. ~Red(T, N[g][Other(s)])
    BY DEF Uncle
  <1>3. PICK sub : Shaped(N, sub)
    BY DEF IsTree
  <1>4. CASE ~in
    <2> DEFINE R == Rotate(Paint(Paint(T, {p}, TRUE), {g}, FALSE), g, Other(s))
    <2>1. RotateUp(T, u) = [tree |-> R, z |-> u]
      BY <1>4, Zenon DEF RotateUp
    <2>2. N[p][s] = u
      BY <1>1, <1>4
    <2> HIDE DEF s, R
    <2>3. R = Rotate(Paint(Paint(T, {p}, TRUE), {g}, FALSE), g, Other(s))
      BY Zenon DEF R
    <2>4. Reddened(R.n, Weights(R.n), u)
      BY <1>1, <1>2, <2>2, <2>3, OuterUp, Zenon
    <2> QED  BY <2>1, <2>4
  <1>5. CASE in
    <2> DEFINE A == Rotate(T, p, s)
               R == Rotate(Paint(Paint(A, {u}, TRUE), {g}, FALSE), g, Other(s))
    <2>1. RotateUp(T, u) = [tree |-> R, z |-> p]
      BY <1>5, Zenon DEF RotateUp
    <2>2. N[p][Other(s)] = u
      BY <1>1, <1>5, SideFacts
    <2> HIDE DEF s
    <2>3. /\ IsTree(A) /\ Spun(N, A.n, p, s) /\ DOMAIN A.n = D
          /\ \A a \in D : A.n[a].black = N[a].black
      BY <1>1, <2>2, RotateColours
    <2> HIDE DEF A
    <2>4. Weights(A.n) = Weights(N)
      BY <2>3 DEF Weights
    <2>5. /\ Weights(N) \in [D -> {0, 1}] /\ Weights(N)[p] = 0 /\ Weights(N)[u] = 0
          /\ Calm(N, Weights(N), {u})
      BY TreeFacts DEF Reddened
    <2>6. Calm(A.n, Weights(N), {p})
      BY <1>1, <1>3, <2>2, <2>3, <2>5, RedCalm
    <2>7. PICK H : Even(N, Weights(N), H, NIL, "l")
      BY DEF Reddened
    <2>8. Even(A.n, Weights(N), H, NIL, "l")
      BY <1>1, <1>3, <2>2, <2>3, <2>5, <2>7, RedEven
    <2>9. Reddened(A.n, Weights(A.n), p)
      BY <2>4, <2>5, <2>6, <2>8 DEF Reddened
    <2>10. g # u
      BY <1>1, <1>3, <2>2, Around
    <2>11. A.n[g][s] = u /\ A.n[u][s] = p /\ A.n[g][Other(s)] = N[g][Other(s)]
      <3>1. A.n[g][s] = u
        BY <1>1, <2>2, <2>3, <2>10 DEF Spun
      <3>2. A.n[u][s] = p
        BY <1>1, <2>2, <2>3 DEF Spun
      <3>3. N[g][Other(s)] # p
        BY <1>1, TreeFacts
      <3>4. A.n[g][Other(s)] = N[g][Other(s)]
        BY <1>1, <2>2, <2>3, <2>10, <3>3 DEF Spun
      <3> QED  BY <3>1, <3>2, <3>4
    <2>12. ~A.n[u].black
      BY <2>3, <2>5, TreeFacts
    <2>13. ~Red(A, A.n[g][Other(s)])
      <3>1. N[g][Other(s)] \in D \cup {NIL}
        BY <1>1, TreeFacts
      <3> QED  BY <1>2, <2>3, <2>11, <3>1 DEF Red
    <2> HIDE DEF R
    <2>14. R = Rotate(Paint(Paint(A, {u}, TRUE), {g}, FALSE), g, Other(s))
      BY Zenon DEF R
    <2>15. g \in DOMAIN A.n
      BY <2>3
    <2>16. Reddened(R.n, Weights(R.n), p)
      BY <1>1, <2>3, <2>9, <2>11, <2>12, <2>13, <2>14, <2>15, OuterUp, Zenon
    <2> QED  BY <2>1, <2>16
  <1> QED  BY <1>4, <1>5

\* One set is painted.
LEMMA PaintedOne ==
  ASSUME NEW T, IsTree(T), NEW S, NEW R, NEW b \in BOOLEAN, R = Paint(T, S, b)
  PROVE  /\ b => Repainted(T, R, S, {})
         /\ ~b => Repainted(T, R, {}, S)
  <1>1. /\ IsTree(R) /\ R.root = T.root /\ DOMAIN R.n = DOMAIN T.n
        /\ \A a \in DOMAIN T.n : /\ R.n[a].p = T.n[a].p
                                 /\ \A k \in Sides : R.n[a][k] = T.n[a][k]
                                 /\ R.n[a].black = IF a \in S THEN b ELSE T.n[a].black
    BY PaintColours
  <1>2. /\ \A a \in DOMAIN T.n : Weights(R.n)[a] = IF R.n[a].black THEN 1 ELSE 0
        /\ \A a \in DOMAIN T.n : Weights(T.n)[a] = IF T.n[a].black THEN 1 ELSE 0
        /\ Weights(R.n) \in [DOMAIN T.n -> {0, 1}]
    BY <1>1 DEF Weights
  <1>3. ASSUME NEW a \in DOMAIN T.n, a \notin S  PROVE Weights(R.n)[a] = Weights(T.n)[a]
    <2>1. R.n[a].black = T.n[a].black
      BY <1>1, <1>3, Zenon
    <2> QED  BY ONLY <1>2, <2>1, a \in DOMAIN T.n
  <1>4. ASSUME b, NEW a \in DOMAIN T.n, a \in S  PROVE Weights(R.n)[a] = 1
    <2>1. R.n[a].black
      BY <1>1, <1>4, Zenon
    <2> QED  BY ONLY <1>2, <2>1, a \in DOMAIN T.n
  <1>5. ASSUME ~b, NEW a \in DOMAIN T.n, a \in S  PROVE Weights(R.n)[a] = 0
    <2>1. ~R.n[a].black
      BY <1>1, <1>5, Zenon
    <2> QED  BY ONLY <1>2, <2>1, a \in DOMAIN T.n
  <1>6. ASSUME b  PROVE Repainted(T, R, S, {})
    <2>1. \A a \in DOMAIN T.n : /\ a \in S => Weights(R.n)[a] = 1
                                /\ a \notin S => Weights(R.n)[a] = Weights(T.n)[a]
      BY <1>3, <1>4, <1>6, Zenon
    <2>2. BlackThenRed(T, R, S, {})
      BY ONLY <1>1, <1>2, <2>1 DEF BlackThenRed
    <2> QED  BY ONLY <1>1, <2>2 DEF Repainted
  <1>7. ASSUME ~b  PROVE Repainted(T, R, {}, S)
    <2>1. \A a \in DOMAIN T.n : /\ a \in S => Weights(R.n)[a] = 0
                                /\ a \notin S => Weights(R.n)[a] = Weights(T.n)[a]
      BY <1>3, <1>5, <1>7, Zenon
    <2>2. BlackThenRed(T, R, {}, S)
      BY ONLY <1>1, <1>2, <2>1 DEF BlackThenRed
    <2> QED  BY ONLY <1>1, <2>2 DEF Repainted
  <1> QED  BY <1>6, <1>7, Zenon

LEMMA PaintedBlack ==
  ASSUME NEW T, IsTree(T), NEW S, NEW R
  PROVE  /\ R = Paint(T, S, TRUE)  => Repainted(T, R, S, {})
         /\ R = Paint(T, S, FALSE) => Repainted(T, R, {}, S)
  <1>1. ASSUME NEW b \in BOOLEAN, R = Paint(T, S, b)
        PROVE  (b => Repainted(T, R, S, {})) /\ (~b => Repainted(T, R, {}, S))
    BY <1>1, PaintedOne, Zenon
  <1>2. TRUE \in BOOLEAN /\ FALSE \in BOOLEAN /\ TRUE /\ ~FALSE
    OBVIOUS
  <1> QED  BY ONLY <1>1, <1>2, Zenon

\* All ways weigh the same.
Level(N, W, H) ==
  /\ W \in [DOMAIN N -> {0, 1}] /\ H \in [DOMAIN N \cup {NIL} -> Int] /\ H[NIL] = 0
  /\ \A a \in DOMAIN N, s \in Sides : H[a] = W[a] + H[N[a][s]] + 0

LEMMA EvenIs ==
  ASSUME NEW N, NIL \notin DOMAIN N, NEW W, NEW H
  PROVE  Even(N, W, H, NIL, "l") <=> Level(N, W, H)
  <1>1. ASSUME NEW a \in DOMAIN N, NEW s \in Sides
        PROVE  (IF a = NIL /\ s = "l" THEN 1 ELSE 0) = 0
    OBVIOUS
  <1> QED  BY <1>1, Zenon DEF Even, Level

\* What the proofs below need of the links.
Mutual(N) ==
  /\ NIL \notin DOMAIN N
  /\ \A a \in DOMAIN N :
       /\ N[a].p \in DOMAIN N \cup {NIL}
       /\ N[a].p # NIL => \E k \in Sides : N[N[a].p][k] = a
       /\ \A k \in Sides : /\ N[a][k] \in DOMAIN N \cup {NIL}
                           /\ N[a][k] # NIL => N[N[a][k]].p = a /\ N[a][k] # a
                                               /\ N[a][k] # N[a][Other(k)]

LEMMA MutualIs ==
  ASSUME NEW T, IsTree(T)
  PROVE  Mutual(T.n) /\ Weights(T.n) \in [DOMAIN T.n -> {0, 1}]
  BY TreeFacts DEF Mutual

(* A node turns black: a red one over which the ways were too light, or    *)
(* the root.                                                               *)
LEMMA BlackenWays ==
  ASSUME NEW N, Mutual(N), NEW v \in DOMAIN N,
         NEW W \in [DOMAIN N -> {0, 1}], NEW X \in [DOMAIN N -> {0, 1}],
         \A a \in DOMAIN N : X[a] = IF a = v THEN 1 ELSE W[a]
  PROVE  /\ Calm(N, W, {a \in DOMAIN N : a = v \/ N[a].p = v}) => Calm(N, X, {})
         /\ N[v].p = NIL /\ (\E H : Even(N, W, H, NIL, "l")) => \E H : Even(N, X, H, NIL, "l")
         /\ \A u \in DOMAIN N : W[v] = 0 /\ Lighter(N, W, v, u) => \E H : Even(N, X, H, NIL, "l")
  <1> DEFINE D == DOMAIN N
  <1>2. /\ NIL \notin D
        /\ \A a \in D, k \in Sides : /\ N[a][k] \in D \cup {NIL}
                                     /\ N[a][k] # NIL => N[N[a][k]].p = a /\ N[a][k] # a
                                                         /\ N[a][k] # N[a][Other(k)]
        /\ \A a \in D : N[a].p # NIL => N[a].p \in D
    BY DEF Mutual
  <1>3. ASSUME Calm(N, W, {a \in D : a = v \/ N[a].p = v})  PROVE Calm(N, X, {})
    <2> SUFFICES ASSUME NEW a \in D, X[a] = 0, N[a].p # NIL, X[N[a].p] = 0
                 PROVE  FALSE
      BY DEF Calm
    <2>1. a # v /\ N[a].p # v /\ W[a] = 0 /\ W[N[a].p] = 0 /\ N[a].p # NIL
      BY <1>2
    <2> QED  BY <1>3, <2>1 DEF Calm
  <1>4. ASSUME N[v].p = NIL, NEW H, Even(N, W, H, NIL, "l")
        PROVE  \E G : Even(N, X, G, NIL, "l")
    <2> DEFINE G == [a \in D \cup {NIL} |-> IF a = v THEN H[a] + 1 - W[v] ELSE H[a]]
    <2>1. /\ H \in [D \cup {NIL} -> Int] /\ H[NIL] = 0
          /\ \A a \in D, k \in Sides : H[a] = W[a] + H[N[a][k]] + 0
      <3>1. Level(N, W, H)
        BY <1>2, <1>4, EvenIs
      <3> QED  BY <3>1 DEF Level
    <2>2. /\ G \in [D \cup {NIL} -> Int] /\ G[NIL] = 0 /\ G[v] = H[v] + 1 - W[v]
          /\ \A a \in D \cup {NIL} : a # v => G[a] = H[a]
      BY <1>2, <2>1
    <2> HIDE DEF G
    <2>3. ASSUME NEW a \in D, NEW k \in Sides  PROVE G[a] = X[a] + G[N[a][k]] + 0
      <3> DEFINE b == N[a][k]
      <3>1. b # v /\ b \in D \cup {NIL}
        BY <1>2, <1>4
      <3> HIDE DEF b
      <3>2. G[b] = H[b] /\ H[b] \in Int /\ W[a] \in Int /\ H[a] \in Int /\ W[a] \in Int
        BY <1>2, <2>1, <2>2, <3>1
      <3>3. H[a] = W[a] + H[b] + 0
        BY <2>1 DEF b
      <3>4. G[a] = X[a] + G[b] + 0
        <4>1. CASE a = v
          <5>1. G[a] = H[a] + 1 - W[a] /\ X[a] = 1
            BY <2>2, <4>1
          <5> QED  BY ONLY <3>2, <3>3, <5>1
        <4>2. CASE a # v
          <5>1. G[a] = H[a] /\ X[a] = W[a]
            BY <2>2, <4>2
          <5> QED  BY ONLY <3>2, <3>3, <5>1
        <4> QED  BY <4>1, <4>2
      <3> QED  BY <3>4 DEF b
    <2>4. Even(N, X, G, NIL, "l")
      BY <1>2, <2>2, <2>3, EvenIs DEF Level
    <2> QED  BY <2>4
  <1>5. ASSUME NEW u \in D, W[v] = 0, NEW t \in Sides, NEW H, N[u][t] = v, Even(N, W, H, u, t)
        PROVE  \E G : Even(N, X, G, NIL, "l")
    <2> DEFINE G == [a \in D \cup {NIL} |-> IF a = v THEN H[a] + 1 ELSE H[a]]
    <2>1. /\ H \in [D \cup {NIL} -> Int] /\ H[NIL] = 0
          /\ \A a \in D, k \in Sides : H[a] = W[a] + H[N[a][k]] + (IF a = u /\ k = t THEN 1 ELSE 0)
      BY <1>5 DEF Even
    <2>2. /\ G \in [D \cup {NIL} -> Int] /\ G[NIL] = 0 /\ G[v] = H[v] + 1
          /\ \A a \in D \cup {NIL} : a # v => G[a] = H[a]
      BY <1>2, <2>1
    <2> HIDE DEF G
    <2>3. ASSUME NEW a \in D, NEW k \in Sides  PROVE G[a] = X[a] + G[N[a][k]] + 0
      <3> DEFINE b == N[a][k]
      <3>1. b = v <=> a = u /\ k = t
        BY <1>2, <1>5, SideFacts
      <3>2. u # v /\ v # NIL
        BY <1>2, <1>5
      <3>3. b \in D \cup {NIL} /\ H[b] \in Int /\ W[a] \in Int /\ H[a] \in Int /\ H[v] \in Int
        BY <1>2, <2>1
      <3>4. H[a] = W[a] + H[b] + (IF b = v THEN 1 ELSE 0)
        <4>1. H[a] = W[a] + H[b] + (IF a = u /\ k = t THEN 1 ELSE 0)
          BY <2>1
        <4> HIDE DEF b
        <4>2. CASE b = v
          BY ONLY <3>1, <4>1, <4>2
        <4>3. CASE b # v
          BY ONLY <3>1, <4>1, <4>3
        <4> QED  BY <4>2, <4>3
      <3>5. b = v => a # v
        BY <3>1, <3>2
      <3> HIDE DEF b
      <3>6. G[a] = X[a] + G[b] + 0
        <4>1. CASE b = v
          <5>1. G[a] = H[a] /\ X[a] = W[a] /\ G[b] = H[b] + 1
            BY <2>2, <3>5, <4>1
          <5> QED  BY ONLY <3>3, <3>4, <4>1, <5>1
        <4>2. CASE b # v /\ a = v
          <5>1. G[a] = H[a] + 1 /\ X[a] = 1 /\ W[a] = 0 /\ G[b] = H[b]
            BY <1>5, <2>2, <3>3, <4>2
          <5> QED  BY ONLY <3>3, <3>4, <4>2, <5>1
        <4>3. CASE b # v /\ a # v
          <5>1. G[a] = H[a] /\ X[a] = W[a] /\ G[b] = H[b]
            BY <2>2, <3>3, <4>3
          <5> QED  BY ONLY <3>3, <3>4, <4>3, <5>1
        <4> QED  BY <4>1, <4>2, <4>3
      <3> QED  BY <3>6 DEF b
    <2>4. Even(N, X, G, NIL, "l")
      BY <1>2, <2>2, <2>3, EvenIs DEF Level
    <2> QED  BY <2>4
  <1> QED  BY <1>3, <1>4, <1>5 DEF Lighter

Blackened(T, R, v) ==
  LET N == T.n
      W == Weights(T.n)
      X == Weights(R.n)
  IN /\ R.root = T.root /\ X[v] = 1 /\ \A a \in DOMAIN N : W[a] = 1 => X[a] = 1
     /\ Calm(N, W, {a \in DOMAIN N : a = v \/ N[a].p = v}) => Calm(R.n, X, {})
     /\ N[v].p = NIL /\ (\E H : Even(N, W, H, NIL, "l")) => \E H : Even(R.n, X, H, NIL, "l")
     /\ \A u \in DOMAIN N : W[v] = 0 /\ Lighter(N, W, v, u) => \E H : Even(R.n, X, H, NIL, "l")

LEMMA Blacken ==
  ASSUME NEW T, IsTree(T), NEW v \in DOMAIN T.n, NEW R, R = Paint(T, {v}, TRUE)
  PROVE  Blackened(T, R, v)
  <1> DEFINE N == T.n
             M == R.n
             D == DOMAIN N
             W == Weights(N)
             X == Weights(M)
  <1>1. Repainted(T, R, {v}, {})
    BY PaintedBlack, Zenon
  <1>2. /\ R.root = T.root /\ X \in [D -> {0, 1}] /\ DOMAIN M = D
        /\ \A a \in D : X[a] = IF a = v THEN 1 ELSE W[a]
        /\ \A a \in D : M[a].p = N[a].p /\ \A k \in Sides : M[a][k] = N[a][k]
    BY <1>1 DEF Repainted, BlackThenRed
  <1>3. Mutual(N) /\ W \in [D -> {0, 1}] /\ v \in D
    BY MutualIs
  <1> HIDE DEF N, M, W, X
  <1>4. /\ Calm(N, W, {a \in D : a = v \/ N[a].p = v}) => Calm(N, X, {})
        /\ N[v].p = NIL /\ (\E H : Even(N, W, H, NIL, "l")) => \E H : Even(N, X, H, NIL, "l")
        /\ \A u \in D : W[v] = 0 /\ Lighter(N, W, v, u) => \E H : Even(N, X, H, NIL, "l")
    BY ONLY <1>2, <1>3, BlackenWays
  <1>5. /\ Calm(N, X, {}) => Calm(M, X, {})
        /\ (\E H : Even(N, X, H, NIL, "l")) => \E H : Even(M, X, H, NIL, "l")
    BY <1>2, SameWays
  <1>6. X[v] = 1 /\ \A a \in D : W[a] = 1 => X[a] = 1
    BY <1>2, <1>3
  <1>7. /\ R.root = T.root /\ X[v] = 1 /\ \A a \in DOMAIN N : W[a] = 1 => X[a] = 1
        /\ Calm(N, W, {a \in DOMAIN N : a = v \/ N[a].p = v}) => Calm(M, X, {})
        /\ N[v].p = NIL /\ (\E H : Even(N, W, H, NIL, "l")) => \E H : Even(M, X, H, NIL, "l")
        /\ \A u \in DOMAIN N : W[v] = 0 /\ Lighter(N, W, v, u) => \E H : Even(M, X, H, NIL, "l")
    BY <1>2, <1>4, <1>5, <1>6, Zenon
  <1> QED  BY ONLY <1>7, Zenon DEF Blackened, N, M, W, X, D

-----------------------------------------------------------------------------
(* _fix_delete and the colours.                                            *)

\* The side on which the ways are too light is the one the code computes.
LEMMA LightSide ==
  ASSUME NEW N, Mutual(N), NEW W, NEW v, NEW u \in DOMAIN N, Lighter(N, W, v, u),
         NEW s, s = IF N[u].l = v THEN "l" ELSE "r"
  PROVE  s \in Sides /\ N[u][s] = v /\ \E H : Even(N, W, H, u, s)
  <1>1. PICK t \in Sides : \E H : N[u][t] = v /\ Even(N, W, H, u, t)
    BY DEF Lighter
  <1>2. PICK H : Even(N, W, H, u, t)
    BY <1>1
  <1>3. N[u][t] = v
    BY <1>1
  <1>4. s = t
    <2> SUFFICES ASSUME s # t  PROVE FALSE
      OBVIOUS
    <2>1. t = "r" /\ N[u].l = v /\ s = "l"
      BY <1>3, SideFacts
    <2>2. N[u]["l"] = v /\ N[u]["r"] = v
      BY <1>3, <2>1
    <2>3. v = NIL
      BY <2>2, SideFacts DEF Mutual
    <2>4. /\ H \in [DOMAIN N \cup {NIL} -> Int] /\ W \in [DOMAIN N -> {0, 1}]
          /\ H[u] = W[u] + H[N[u]["l"]] + (IF u = u /\ "l" = t THEN 1 ELSE 0)
          /\ H[u] = W[u] + H[N[u]["r"]] + (IF u = u /\ "r" = t THEN 1 ELSE 0)
      BY <1>2, SideFacts DEF Even
    <2>5. (IF u = u /\ "l" = t THEN 1 ELSE 0) = 0 /\ (IF u = u /\ "r" = t THEN 1 ELSE 0) = 1
      BY <2>1
    <2>6. H[v] \in Int /\ W[u] \in Int /\ H[u] = W[u] + H[v] + 0 /\ H[u] = W[u] + H[v] + 1
      BY <2>2, <2>3, <2>4, <2>5
    <2> QED  BY ONLY <2>6
  <1> QED  BY <1>1, <1>2, <1>4

\* The children of u are v and the sibling.
LEMMA TwoChildren ==
  ASSUME NEW N, Mutual(N), NEW u \in DOMAIN N, NEW s \in Sides, NEW a \in DOMAIN N, N[a].p = u
  PROVE  a = N[u][s] \/ a = N[u][Other(s)]
  <1>1. PICK k \in Sides : N[u][k] = a
    BY DEF Mutual
  <1> QED  BY <1>1, SideFacts

\* A red sibling takes the place of the parent.
LEMMA SiblingUpColours ==
  ASSUME NEW T, IsTree(T), NEW q \in DOMAIN T.n, T.n[q].p = NIL, NEW v, NEW u \in DOMAIN T.n, v # q,
         Short(T.n, Weights(T.n), v, u, q), Black(T, v),
         NEW s, s = IF T.n[u].l = v THEN "l" ELSE "r",
         NEW w, w = T.n[u][Other(s)], w # NIL, T.root = q,
         NEW R, R = IF Red(T, w) THEN Rotate(Paint(Paint(T, {w}, TRUE), {u}, FALSE), u, s) ELSE T
  PROVE  Shorter(R.n, Weights(R.n), v, u, R.root)
  <1> DEFINE N == T.n
             D == DOMAIN N
             W == Weights(N)
             M == R.n
             X == Weights(M)
  <1>1. Mutual(N) /\ W \in [D -> {0, 1}] /\ NIL \notin D
        /\ \A a \in D : (W[a] = 1 <=> N[a].black) /\ (W[a] = 0 <=> ~N[a].black)
    BY MutualIs, TreeFacts DEF Mutual
  <1>2. /\ Calm(N, W, {a \in D : a = v \/ N[a].p = v}) /\ W[q] = 1
        /\ v # NIL => N[v].p = u
        /\ Lighter(N, W, v, u)
    BY <1>1 DEF Short
  <1>3. s \in Sides /\ N[u][s] = v /\ \E H : Even(N, W, H, u, s)
    BY <1>1, <1>2, LightSide
  <1>4. PICK H : Even(N, W, H, u, s)
    BY <1>3
  <1>5. /\ v \in D \cup {NIL} /\ Other(s) \in Sides /\ w \in D /\ N[w].p = u /\ w # u
        /\ v # NIL => W[v] = 1 /\ v # u
    <2>1. Other(s) \in Sides
      BY <1>3, SideFacts
    <2>2. w \in D /\ N[w].p = u /\ w # u
      BY <1>1, <2>1 DEF Mutual
    <2>3. v \in D \cup {NIL} /\ (v # NIL => v # u)
      BY <1>1, <1>3 DEF Mutual
    <2>4. v # NIL => W[v] = 1
      BY <1>1, <2>3 DEF Black, Red
    <2> QED  BY <2>1, <2>2, <2>3, <2>4
  <1>6. PICK sub : Shaped(N, sub)
    BY DEF IsTree
  <1>7. Calm(N, W, {})
    <2> SUFFICES ASSUME NEW a \in D, W[a] = 0, N[a].p # NIL, W[N[a].p] = 0  PROVE FALSE
      BY DEF Calm
    <2>1. a = v \/ N[a].p = v
      BY <1>2 DEF Calm
    <2>2. v # NIL /\ W[v] = 0
      BY <1>1, <2>1
    <2> QED  BY <1>5, <2>2
  <1>8. CASE Red(T, w)
    <2>1. W[w] = 0 /\ W[u] = 1 /\ w # v
      <3>1. W[w] = 0
        BY <1>1, <1>5, <1>8 DEF Red
      <3> QED  BY <1>1, <1>5, <1>7, <3>1 DEF Calm
    <2>2. RepaintedTurn(T, R, {w}, {u}, u, s)
      <3>1. R = Rotate(Paint(Paint(T, {w}, TRUE), {u}, FALSE), u, s)
        BY <1>8, Zenon
      <3>2. T.n[u][Other(s)] # NIL
        OBVIOUS
      <3> QED  BY <1>3, <3>1, <3>2, BlackRed, Zenon
    <2>3. /\ X \in [D -> {0, 1}] /\ Spun(N, M, u, s)
          /\ \A a \in D : X[a] = IF a = u THEN 0 ELSE IF a = w THEN 1 ELSE W[a]
          /\ R.root = IF N[u].p = NIL THEN w ELSE q
      BY <2>2, Zenon DEF RepaintedTurn, BlackThenRed
    <2>4. /\ DOMAIN M = D /\ M[u][s] = v
          /\ \A a \in D : M[a].p = IF a = w THEN N[u].p ELSE IF a = u THEN w
                                   ELSE IF a = N[w][s] THEN u ELSE N[a].p
      <3> HIDE DEF N, D, M, X, W
      <3>1. Spun(N, M, u, s) /\ N[u][s] = v /\ N[u][Other(s)] = w /\ w # u /\ u \in DOMAIN N
            /\ s \in Sides /\ D = DOMAIN N
        BY <1>3, <1>5, <2>3 DEF N, D
      <3> QED  BY ONLY <3>1 DEF Spun
    <2>5. /\ w = N[u][Other(s)] /\ u \in DOMAIN N /\ w # NIL /\ NIL \notin {} /\ (u = u => s = s)
          /\ N[u][s] # NIL => W[N[u][s]] = 1
          /\ N[w][s] \notin {}
      BY <1>3, <1>5
    <2>6. N[w][s] # NIL => N[w][s] \in D /\ W[N[w][s]] = 1 /\ N[w][s] # u
      <3> DEFINE c == N[w][s]
      <3>1. ASSUME c # NIL  PROVE c \in D /\ N[c].p = w /\ c # u
        <4>1. c \in D /\ N[c].p = w
          <5> HIDE DEF N, W
          <5> QED  BY <1>1, <1>3, <1>5, <3>1 DEF Mutual
        <4>2. c # u
          BY <1>3, <1>5, <1>6, <2>5, Around
        <4> QED  BY <4>1, <4>2
      <3> HIDE DEF c
      <3>2. c # NIL => c \in D /\ W[c] = 1 /\ c # u
        BY <1>1, <1>5, <1>7, <2>1, <3>1 DEF Calm
      <3> QED  BY <3>2 DEF c
    <2> HIDE DEF N, M, W, X
    <2>7. Calm(M, X, {} \ {N[w][Other(s)]})
      BY ONLY <1>1, <1>3, <1>6, <1>7, <2>1, <2>3, <2>5, SwapCalm DEF D
    <2>8. \E G : Even(M, X, G, u, s)
      BY ONLY <1>1, <1>3, <1>4, <1>5, <1>6, <2>1, <2>3, <2>5, SwapEven DEF D
    <2>9. Calm(M, X, {})
      BY <2>7 DEF Calm
    <2>10. Lighter(M, X, v, u)
      BY <1>3, <2>4, <2>8 DEF Lighter
    <2>11. X[R.root] = 1
      <3>1. CASE N[u].p = NIL
        BY <1>5, <2>3, <3>1
      <3>2. CASE N[u].p # NIL
        <4>1. q # u /\ q \in D
          BY <3>2 DEF N
        <4> QED  BY <1>2, <2>3, <3>2, <4>1
      <3> QED  BY <3>1, <3>2
    <2>12. v # NIL => X[v] = 1
      BY <1>5, <2>1, <2>3
    <2>13. ASSUME NEW a \in DOMAIN M, M[a].p = u  PROVE X[a] = 1
      <3>0. a \in D
        BY <2>4
      <3>1. CASE a = w
        BY <1>5, <2>3, <3>1
      <3>2. CASE a = u
        BY <1>5, <2>4, <2>13, <3>2
      <3>3. CASE a # w /\ a # u /\ a = N[w][s]
        <4>1. a # NIL
          BY <1>1, <3>0
        <4> QED  BY <2>3, <2>6, <3>0, <3>3, <4>1
      <3>4. CASE a # w /\ a # u /\ a # N[w][s]
        <4>1. N[a].p = u
          BY <2>4, <2>13, <3>0, <3>4
        <4>2. a = v
          BY <1>1, <1>3, <2>5, <3>0, <3>4, <4>1, TwoChildren DEF D
        <4>3. a # NIL
          BY <1>1, <3>0
        <4> QED  BY <2>12, <4>2, <4>3
      <3> QED  BY <3>1, <3>2, <3>3, <3>4
    <2>14. Shorter(M, X, v, u, R.root)
      BY <2>9, <2>10, <2>11, <2>12, <2>13 DEF Shorter
    <2> QED  BY <2>14 DEF M, X
  <1>9. CASE ~Red(T, w)
    <2>1. R = T
      BY <1>9, Zenon
    <2>2. W[w] = 1
      BY <1>1, <1>5, <1>9 DEF Red
    <2>3. ASSUME NEW a \in D, N[a].p = u  PROVE W[a] = 1
      <3>1. a = v \/ a = w
        BY <1>1, <1>3, <2>3, TwoChildren
      <3>2. a # NIL
        BY <1>1
      <3> QED  BY <1>5, <2>2, <3>1, <3>2
    <2>4. Shorter(N, W, v, u, q)
      BY <1>2, <1>5, <1>7, <2>3 DEF Shorter
    <2> QED  BY <2>1, <2>4
  <1> QED  BY <1>8, <1>9

(* The sibling w turns red.  The ways over u are too light, then, instead  *)
(* of those over its child v.                                              *)
LEMMA ParentWays ==
  ASSUME NEW N, Mutual(N), NEW v, NEW u \in DOMAIN N, NEW s \in Sides, N[u][s] = v,
         NEW w, w = N[u][Other(s)], w # NIL, N[u].p # w,
         NEW W, NEW H, Even(N, W, H, u, s),
         NEW X \in [DOMAIN N -> {0, 1}],
         \A a \in DOMAIN N : X[a] = IF a = w THEN 0 ELSE W[a], W[w] = 1,
         NEW g, NEW t, \A a \in DOMAIN N, k \in Sides : N[a][k] = u <=> a = g /\ k = t
  PROVE  \E G : Even(N, X, G, g, t)
  <1> DEFINE D == DOMAIN N
             G == [a \in D \cup {NIL} |-> IF a = u \/ a = w THEN H[a] - 1 ELSE H[a]]
  <1>1. /\ NIL \notin D /\ w \in D /\ w # u /\ N[w].p = u /\ v # w /\ v # u /\ v \in D \cup {NIL}
        /\ Other(s) \in Sides /\ Other(s) # s
        /\ \A a \in D, k \in Sides : N[a][k] \in D \cup {NIL} /\ N[a][k] # a
        /\ \A a \in D, k \in Sides : N[a][k] = w => a = u /\ k = Other(s)
    <2>1. Other(s) \in Sides /\ Other(s) # s
      BY SideFacts
    <2>2. NIL \notin D /\ \A a \in D, k \in Sides : N[a][k] \in D \cup {NIL} /\ N[a][k] # a
      BY DEF Mutual
    <2>3. w \in D /\ w # u /\ N[w].p = u
      BY <2>1 DEF Mutual
    <2>4. v # w /\ v # u /\ v \in D \cup {NIL}
      BY <2>1, <2>2, <2>3 DEF Mutual
    <2>5. ASSUME NEW a \in D, NEW k \in Sides, N[a][k] = w  PROVE a = u /\ k = Other(s)
      <3>1. a = u
        BY <2>3, <2>5 DEF Mutual
      <3>2. k # s
        BY <2>4, <2>5, <3>1
      <3> QED  BY <3>1, <3>2, SideFacts
    <2> QED  BY <2>1, <2>2, <2>3, <2>4, <2>5
  <1>2. /\ H \in [D \cup {NIL} -> Int] /\ W \in [D -> {0, 1}] /\ H[NIL] = 0
        /\ \A a \in D, k \in Sides : H[a] = W[a] + H[N[a][k]] + (IF a = u /\ k = s THEN 1 ELSE 0)
    BY DEF Even
  <1>3. /\ G \in [D \cup {NIL} -> Int] /\ G[NIL] = 0 /\ G[u] = H[u] - 1 /\ G[w] = H[w] - 1
        /\ \A a \in D \cup {NIL} : a # u /\ a # w => G[a] = H[a]
    BY <1>1, <1>2
  <1> HIDE DEF G
  <1>4. ASSUME NEW a \in D, NEW k \in Sides
        PROVE  G[a] = X[a] + G[N[a][k]] + (IF a = g /\ k = t THEN 1 ELSE 0)
    <2> DEFINE b == N[a][k]
               i == IF a = u /\ k = s THEN 1 ELSE 0
               j == IF a = g /\ k = t THEN 1 ELSE 0
    <2>1. H[a] = W[a] + H[b] + i
      BY <1>2
    <2>2. b \in D \cup {NIL} /\ b # a /\ H[b] \in Int /\ W[a] \in Int /\ H[a] \in Int
      BY <1>1, <1>2
    <2>3. (b = u => j = 1) /\ (b # u => j = 0)
      OBVIOUS
    <2>4. (a = u /\ k = s => i = 1) /\ (~(a = u /\ k = s) => i = 0)
      OBVIOUS
    <2>5. (a = u /\ k = s => b = v) /\ (b = w <=> a = u /\ k # s)
      BY <1>1, SideFacts
    <2> HIDE DEF b, i, j
    <2>6. G[a] = X[a] + G[b] + j
      <3>1. CASE a = u /\ k = s
        <4>1. i = 1 /\ j = 0 /\ G[b] = H[b] /\ G[a] = H[a] - 1 /\ X[a] = W[a]
          BY <1>1, <1>3, <2>3, <2>4, <2>5, <3>1
        <4> QED  BY ONLY <2>1, <2>2, <4>1
      <3>2. CASE a = u /\ k # s
        <4>1. i = 0 /\ j = 0 /\ G[b] = H[b] - 1 /\ G[a] = H[a] - 1 /\ X[a] = W[a]
          BY <1>1, <1>3, <2>2, <2>3, <2>4, <2>5, <3>2
        <4> QED  BY ONLY <2>1, <2>2, <4>1
      <3>3. CASE a = w
        <4>1. i = 0 /\ j = 0 /\ G[b] = H[b] /\ G[a] = H[a] - 1 /\ X[a] = 0 /\ W[a] = 1
          <5>1. b # u
            <6>1. b # NIL => N[b].p = a
              BY DEF Mutual, b
            <6> QED  BY <1>1, <3>3, <6>1
          <5> QED  BY <1>1, <1>3, <2>2, <2>3, <2>4, <2>5, <3>3, <5>1
        <4> QED  BY ONLY <2>1, <2>2, <4>1
      <3>4. CASE a # u /\ a # w /\ b = u
        <4>1. i = 0 /\ j = 1 /\ G[b] = H[b] - 1 /\ G[a] = H[a] /\ X[a] = W[a]
          BY <1>1, <1>3, <2>2, <2>3, <2>4, <2>5, <3>4
        <4> QED  BY ONLY <2>1, <2>2, <4>1
      <3>5. CASE a # u /\ a # w /\ b # u
        <4>1. i = 0 /\ j = 0 /\ G[b] = H[b] /\ G[a] = H[a] /\ X[a] = W[a]
          BY <1>1, <1>3, <2>2, <2>3, <2>4, <2>5, <3>5
        <4> QED  BY ONLY <2>1, <2>2, <4>1
      <3> QED  BY <3>1, <3>2, <3>3, <3>4, <3>5
    <2> QED  BY <2>6 DEF b, j
  <1> QED  BY <1>3, <1>4 DEF Even

LEMMA ParentColours ==
  ASSUME NEW T, IsTree(T), NEW q \in DOMAIN T.n, T.n[q].p = NIL, NEW v, NEW u \in DOMAIN T.n,
         T.n[u].p = NIL => u = q,
         Shorter(T.n, Weights(T.n), v, u, q), NEW s, s = IF T.n[u].l = v THEN "l" ELSE "r",
         NEW w, w = T.n[u][Other(s)], w # NIL,
         \A k \in Sides : Black(T, T.n[w][k]),
         NEW R, R = Paint(T, {w}, FALSE)
  PROVE  Short(R.n, Weights(R.n), u, T.n[u].p, q)
  <1> DEFINE N == T.n
             D == DOMAIN N
             W == Weights(N)
             M == R.n
             X == Weights(M)
  <1>1. Mutual(N) /\ W \in [D -> {0, 1}] /\ NIL \notin D
        /\ \A a \in D : (W[a] = 1 <=> N[a].black) /\ (W[a] = 0 <=> ~N[a].black)
    <2>1. Mutual(N) /\ W \in [D -> {0, 1}]
      BY MutualIs
    <2>2. NIL \notin D /\ \A a \in D : (W[a] = 1 <=> N[a].black) /\ (W[a] = 0 <=> ~N[a].black)
      <3>1. IsTree(T)
        OBVIOUS
      <3> QED  BY ONLY <3>1, TreeFacts
    <2> QED  BY <2>1, <2>2
  <1>2. /\ Calm(N, W, {}) /\ W[q] = 1 /\ Lighter(N, W, v, u)
        /\ \A a \in D : N[a].p = u => W[a] = 1
    BY DEF Shorter
  <1>3. s \in Sides /\ N[u][s] = v /\ \E H : Even(N, W, H, u, s)
    BY <1>1, <1>2, LightSide
  <1> DEFINE g == N[u].p
             t == SideOf(T, u)
  <1>4. Other(s) \in Sides /\ s # Other(s) /\ w \in D /\ N[w].p = u /\ w # u /\ W[w] = 1 /\ q # w /\ g # w
    <2>1. Other(s) \in Sides /\ s # Other(s)
      BY <1>3, SideFacts
    <2>2. w \in D /\ N[w].p = u /\ w # u
      <3>1. u \in D /\ N[u][Other(s)] = w
        OBVIOUS
      <3> HIDE DEF N
      <3>2. w \in D \cup {NIL} /\ (w # NIL => N[w].p = u /\ w # u)
        BY ONLY <1>1, <2>1, <3>1 DEF Mutual, D
      <3> QED  BY <3>2
    <2>3. PICK sub : Shaped(N, sub)
      BY DEF IsTree
    <2>4. g # w
      <3>1. N[u][Other(s)] = w /\ u \in DOMAIN N /\ N[u][Other(s)] # NIL
        OBVIOUS
      <3>2. N[u].p # N[u][Other(s)]
        BY ONLY <1>3, <2>3, <3>1, Around
      <3> QED  BY <3>1, <3>2
    <2> QED  BY <1>1, <1>2, <2>1, <2>2, <2>4
  <1>5. Repainted(T, R, {}, {w})
    BY PaintedBlack, Zenon
  <1>6. /\ R.root = T.root /\ X \in [D -> {0, 1}] /\ DOMAIN M = D
        /\ \A a \in D : X[a] = IF a = w THEN 0 ELSE W[a]
        /\ \A a \in D : M[a].p = N[a].p /\ \A k \in Sides : M[a][k] = N[a][k]
    BY <1>5, Zenon DEF Repainted, BlackThenRed
  <1>7. \A c \in {N[w][s], N[w][Other(s)]} : c # NIL => W[c] = 1
    <2>1. \A k \in Sides : Black(T, N[w][k])
      OBVIOUS
    <2>2. \A c \in D \cup {NIL} : Black(T, c) /\ c # NIL => N[c].black
      BY Zenon DEF Black, Red
    <2> HIDE DEF N, D, W
    <2>3. \A k \in Sides : N[w][k] \in D \cup {NIL}
      BY <1>1, <1>4 DEF Mutual, D
    <2>4. ASSUME NEW k \in Sides, N[w][k] # NIL  PROVE W[N[w][k]] = 1
      <3>1. N[N[w][k]].black
        BY <2>1, <2>2, <2>3, <2>4, Zenon
      <3>2. N[w][k] \in D
        BY <2>3, <2>4
      <3> QED  BY <1>1, <3>1, <3>2, Zenon
    <2> QED  BY <1>3, <1>4, <2>4
  <1> HIDE DEF N, M, W, X
  <1>8. Calm(M, X, {a \in D : a = u \/ M[a].p = u})
    <2> SUFFICES ASSUME NEW a \in D, X[a] = 0, M[a].p # NIL, X[M[a].p] = 0, a # u, M[a].p # u
                 PROVE  FALSE
      BY <1>6 DEF Calm
    <2>1. M[a].p = N[a].p /\ N[a].p \in D /\ a # NIL
      <3>1. M[a].p = N[a].p /\ N[a].p # NIL /\ a # NIL
        BY <1>1, <1>6
      <3>2. N[a].p \in D \cup {NIL}
        BY <1>1 DEF Mutual
      <3> QED  BY <3>1, <3>2
    <2>4. a # w
      BY <1>4, <2>1
    <2>5. W[a] = 0
      BY <1>6, <2>4
    <2>2. CASE N[a].p = w
      <3>1. a = N[w][s] \/ a = N[w][Other(s)]
        BY <1>1, <1>3, <1>4, <2>2, TwoChildren
      <3>2. W[a] = 1
        BY <1>7, <2>1, <3>1
      <3> QED  BY <2>5, <3>2
    <2>3. CASE N[a].p # w
      <3>1. W[N[a].p] = 0
        BY <1>6, <2>1, <2>3
      <3> QED  BY <1>2, <2>1, <2>5, <3>1 DEF Calm
    <2> QED  BY <2>2, <2>3
  <1>9. X[q] = 1 /\ q \in D
    BY <1>2, <1>4, <1>6 DEF N
  <1>10. PICK H : Even(N, W, H, u, s)
    BY <1>3
  <1>11. u \in DOMAIN N /\ w = N[u][Other(s)] /\ w # NIL /\ N[u].p # w
    BY <1>4 DEF N
  <1>12. ASSUME NEW e, NEW k0, \A a \in D, k \in Sides : N[a][k] = u <=> a = e /\ k = k0
         PROVE  \E G : Even(M, X, G, e, k0)
    <2>1. \E G : Even(N, X, G, e, k0)
      <3>1. /\ Mutual(N) /\ u \in DOMAIN N /\ s \in Sides /\ N[u][s] = v /\ X \in [DOMAIN N -> {0, 1}]
            /\ \A a \in DOMAIN N : X[a] = IF a = w THEN 0 ELSE W[a]
            /\ W[w] = 1
            /\ \A a \in DOMAIN N, k \in Sides : N[a][k] = u <=> a = e /\ k = k0
        BY <1>1, <1>3, <1>4, <1>6, <1>11, <1>12
      <3> HIDE DEF D
      <3> QED  BY ONLY <1>10, <1>11, <3>1, ParentWays, SMTT(30)
    <2> QED  BY <1>6, <2>1, SameWays
  <1>13. CASE g = NIL
    <2>1. \A a \in D, k \in Sides : N[a][k] = u <=> a = NIL /\ k = "l"
      <3>1. ASSUME NEW a \in D, NEW k \in Sides, N[a][k] = u  PROVE FALSE
        <4>1. u # NIL /\ N[u].p = NIL /\ a # NIL
          BY <1>1, <1>11, <1>13
        <4>2. N[u].p = a
          BY <1>1, <3>1, <4>1 DEF Mutual
        <4> QED  BY <4>1, <4>2
      <3> QED  BY <1>1, <3>1
    <2>2. \E G : Even(M, X, G, NIL, "l")
      BY <1>12, <2>1
    <2>3. u = q
      BY <1>13 DEF N
    <2> QED  BY <1>6, <1>8, <1>9, <1>11, <1>13, <2>2, <2>3, Zenon DEF Short, M, X
  <1>14. CASE g # NIL
    <2>1. g \in D /\ t \in Sides /\ N[g][t] = u
      BY <1>14, SideIs DEF N
    <2> HIDE DEF t
    <2>2. \A a \in D, k \in Sides : N[a][k] = u <=> a = g /\ k = t
      <3>1. ASSUME NEW a \in D, NEW k \in Sides, N[a][k] = u  PROVE a = g /\ k = t
        <4>1. a = g
          BY <1>1, <1>11, <3>1 DEF Mutual
        <4>2. N[g][t] # N[g][Other(t)]
          BY <1>1, <1>11, <2>1 DEF Mutual
        <4> QED  BY <2>1, <3>1, <4>1, <4>2, SideFacts
      <3> QED  BY <2>1, <3>1
    <2>3. \E G : Even(M, X, G, g, t)
      BY <1>12, <2>2
    <2>4. M[g][t] = u
      BY <1>6, <2>1
    <2>5. Lighter(M, X, u, g)
      BY <2>1, <2>3, <2>4 DEF Lighter
    <2>6. M[u].p = g
      BY <1>6, <1>11
    <2>7. Short(M, X, u, g, q)
      BY <1>6, <1>8, <1>9, <1>14, <2>5, <2>6 DEF Short
    <2> QED  BY <1>6, <2>7, Zenon DEF M, X, N
  <1> QED  BY <1>13, <1>14

\* The far nephew d is red and the sibling v2 black.
FarIsRed(T, A, u, s, q, v2, d) ==
  /\ s \in Sides /\ IsTree(A) /\ A.root = q /\ DOMAIN A.n = DOMAIN T.n
  /\ A.n[u].p = T.n[u].p /\ A.n[u].black = T.n[u].black
  /\ v2 # NIL /\ d # NIL /\ Weights(A.n)[v2] = 1 /\ Weights(A.n)[d] = 0
  /\ v2 # q /\ Weights(A.n)[q] = 1
  /\ Calm(A.n, Weights(A.n), {}) /\ \E H : Even(A.n, Weights(A.n), H, u, s)

\* So it is FarRed is done.
LEMMA FarRedColours ==
  ASSUME NEW T, IsTree(T), NEW q \in DOMAIN T.n, T.n[q].p = NIL, T.root = q,
         NEW v, NEW u \in DOMAIN T.n,
         Shorter(T.n, Weights(T.n), v, u, q), NEW s, s = IF T.n[u].l = v THEN "l" ELSE "r",
         NEW w, w = T.n[u][Other(s)], w # NIL,
         ~(Black(T, T.n[w][s]) /\ Black(T, T.n[w][Other(s)])),
         NEW A, A = FarRed(T, u, s),
         NEW v2, v2 = A.n[u][Other(s)], NEW d, d = A.n[v2][Other(s)]
  PROVE  FarIsRed(T, A, u, s, q, v2, d)
  <1> DEFINE N == T.n
             D == DOMAIN N
             W == Weights(N)
  <1>0. IsTree(T)
    OBVIOUS
  <1>1. Mutual(N) /\ W \in [D -> {0, 1}] /\ NIL \notin D
        /\ \A a \in D : (W[a] = 1 <=> N[a].black) /\ (W[a] = 0 <=> ~N[a].black)
    BY ONLY <1>0, MutualIs, TreeFacts
  <1>2. /\ Calm(N, W, {}) /\ W[q] = 1 /\ Lighter(N, W, v, u)
        /\ \A a \in D : N[a].p = u => W[a] = 1
    BY DEF Shorter
  <1>3. s \in Sides /\ N[u][s] = v /\ \E H : Even(N, W, H, u, s)
    BY <1>1, <1>2, LightSide
  <1>4. PICK H : Even(N, W, H, u, s)
    BY <1>3
  <1>5. PICK sub : Shaped(N, sub)
    BY ONLY <1>0 DEF IsTree
  <1>6. N[u][Other(s)] = w /\ w # NIL /\ u \in D /\ q \in D /\ N[q].p = NIL
    OBVIOUS
  <1>7. s # Other(s) /\ Other(s) \in Sides /\ Other(Other(s)) = s
    BY <1>3, SideFacts
  <1>8. w \in D /\ N[w].p = u /\ w # u /\ W[w] = 1
    <2>1. w \in D \cup {NIL} /\ (w # NIL => N[w].p = u /\ w # u)
      <3> HIDE DEF N
      <3> QED  BY ONLY <1>1, <1>6, <1>7 DEF Mutual, D
    <2> QED  BY <1>2, <1>6, <2>1
  <1>9. w # q /\ u # NIL
    BY <1>1, <1>6, <1>8
  <1> DEFINE d0 == N[w][Other(s)]
             e == N[w][s]
  <1>10. /\ d0 \in D \cup {NIL} /\ e \in D \cup {NIL}
         /\ e # NIL => N[e].p = w
    <2> HIDE DEF N
    <2> QED  BY ONLY <1>1, <1>3, <1>7, <1>8 DEF Mutual, D
  <1>11. (Red(T, d0) => W[d0] = 0 /\ d0 # NIL) /\ (~Red(T, d0) /\ d0 # NIL => W[d0] = 1)
         /\ (~Red(T, d0) => W[e] = 0 /\ e # NIL)
    BY <1>1, <1>10, Zenon DEF Red, Black
  <1>12. CASE Red(T, d0)
    <2>1. A = T
      BY <1>12, Zenon DEF FarRed
    <2> QED  BY <1>0, <1>2, <1>3, <1>6, <1>8, <1>9, <1>11, <1>12, <2>1, Zenon DEF FarIsRed
  <1>13. CASE ~Red(T, d0)
    <2>1. A = Rotate(Paint(Paint(T, {e}, TRUE), {w}, FALSE), w, Other(s))
      BY <1>13, Zenon DEF FarRed
    <2>2. RepaintedTurn(T, A, {e}, {w}, w, Other(s))
      <3>1. T.n[w][Other(Other(s))] # NIL
        BY <1>7, <1>11, <1>13
      <3> HIDE DEF e
      <3> QED  BY <1>0, <1>7, <1>8, <2>1, <3>1, BlackRed, Zenon
    <2> DEFINE M == A.n
               X == Weights(M)
    <2>3. /\ X \in [D -> {0, 1}] /\ Spun(N, M, w, Other(s)) /\ DOMAIN M = D
          /\ \A a \in D : X[a] = IF a = w THEN 0 ELSE IF a = e THEN 1 ELSE W[a]
          /\ A.root = q /\ IsTree(A)
      <3> HIDE DEF e
      <3> QED  BY <1>1, <1>6, <1>8, <2>2, Zenon DEF RepaintedTurn, BlackThenRed
    <2>4. e \in D /\ e # w /\ e # u /\ N[e].p = w /\ W[e] = 0 /\ e # NIL /\ e # q
      <3>1. e \in D /\ N[e].p = w /\ e # NIL /\ W[e] = 0
        BY <1>10, <1>11, <1>13, Zenon
      <3>2. e # w
        BY <1>8, <3>1
      <3>3. e # u
        <4>1. N[u].p # N[u][Other(s)]
          BY ONLY <1>3, <1>5, <1>6, Around
        <4> QED  BY <1>6, <3>1, <4>1
      <3> QED  BY <1>6, <1>9, <3>1, <3>2, <3>3, Zenon
    <2>13. N[w][Other(Other(s))] = e /\ N[e][Other(s)] # u
      <3>1. N[e][Other(s)] # NIL => N[N[e][Other(s)]].p = e
        <4> HIDE DEF N, e
        <4> QED  BY ONLY <1>1, <1>7, <2>4 DEF Mutual, D
      <3>2. N[u].p # N[w][s]
        <4>1. PICK H0 : Even(N, W, H0, u, s)
          BY <1>4
        <4>2. ~(N[u].p \in sub[u])
          <5>1. N[u][Other(s)] # NIL
            BY <1>6
          <5> QED  BY ONLY <1>3, <1>5, <1>6, <5>1, Around
        <4>3. w \in sub[u] /\ sub[w] \subseteq sub[u]
          BY ONLY <1>5, <1>6, <1>7, Beside
        <4>4. N[w][s] \in sub[w]
          <5>1. N[w][s] # NIL
            BY <2>4
          <5> QED  BY ONLY <1>3, <1>5, <1>8, <5>1, Beside
        <4> QED  BY <4>2, <4>3, <4>4
      <3> QED  BY <1>7, <1>9, <3>1, <3>2, Zenon
    <2>14. \A a \in D : /\ M[a].p = IF a = e THEN N[w].p ELSE IF a = w THEN e
                                    ELSE IF a = N[e][Other(s)] THEN w ELSE N[a].p
                        /\ \A t \in Sides :
                             M[a][t] = IF a = w THEN (IF t = Other(s) THEN N[w][Other(s)] ELSE N[e][Other(s)])
                                       ELSE IF a = e THEN (IF t = Other(s) THEN w ELSE N[e][t])
                                       ELSE IF N[a][t] = w THEN e ELSE N[a][t]
      <3> HIDE DEF e, N, M, X, W
      <3> QED  BY ONLY <2>3, <2>13 DEF Spun
    <2>5. M[u][Other(s)] = e
      <3> HIDE DEF e, N, M
      <3> QED  BY <1>6, <1>7, <1>8, <2>4, <2>14, Zenon
    <2>6. M[e][Other(s)] = w /\ M[u].p = N[u].p
      <3> HIDE DEF e, N, M
      <3> QED  BY <1>6, <1>7, <1>8, <2>4, <2>13, <2>14, Zenon
    <2>7. Calm(M, X, {} \ {N[e][Other(Other(s))]})
      <3>1. /\ N[w][Other(Other(s))] = e /\ N[e][Other(s)] \notin {}
            /\ N[w][Other(s)] # NIL => W[N[w][Other(s)]] = 1
        BY <1>7, <1>11, <1>13, Zenon
      <3> HIDE DEF N, M, W, X, e, D
      <3> QED  BY ONLY <1>1, <1>2, <1>5, <1>7, <1>8, <2>3, <2>4, <3>1, SwapCalm DEF D
    <2>8. Calm(M, X, {})
      BY <2>7, Zenon DEF Calm
    <2>9. \E G : Even(M, X, G, u, s)
      <3>1. /\ N[w][Other(Other(s))] = e /\ u # e /\ (u = w => s = Other(s))
        BY <1>7, <1>8, <2>4
      <3> HIDE DEF N, M, W, X, e, D
      <3> QED  BY ONLY <1>1, <1>4, <1>5, <1>7, <1>8, <2>3, <2>4, <3>1, SwapEven DEF D
    <2>10. X[e] = 1 /\ X[w] = 0 /\ X[q] = 1
      <3> HIDE DEF e
      <3> QED  BY <1>2, <1>6, <1>8, <1>9, <2>3, <2>4, Zenon
    <2>11. M[u].black = N[u].black
      <3>1. X[u] = W[u]
        <4> HIDE DEF e
        <4> QED  BY <1>6, <1>8, <2>3, <2>4, Zenon
      <3>2. (X[u] = 1 <=> M[u].black) /\ M[u].black \in BOOLEAN
        <4>1. IsTree(A) /\ u \in DOMAIN A.n
          BY <1>6, <2>3, Zenon
        <4> QED  BY ONLY <4>1, TreeFacts, NodeFacts
      <3>3. N[u].black \in BOOLEAN
        BY <1>0, <1>6, TreeFacts, NodeFacts
      <3> QED  BY <1>1, <1>6, <3>1, <3>2, <3>3
    <2> HIDE DEF e
    <2>12. v2 = e /\ d = w
      BY <2>5, <2>6
    <2> QED  BY <1>3, <1>6, <2>4, <2>12, <2>3, <2>6, <2>8, <2>9, <2>10, <2>11, Zenon DEF FarIsRed
  <1> QED  BY <1>12, <1>13, Zenon

(* The sibling takes the place and the colour of the parent, which turns   *)
(* black with the far nephew: no way is too light any more.                *)
LEMMA NephewColours ==
  ASSUME NEW T, IsTree(T), NEW q \in DOMAIN T.n, T.n[q].p = NIL, T.root = q,
         NEW v, NEW u \in DOMAIN T.n, T.n[u].p = NIL => u = q,
         Shorter(T.n, Weights(T.n), v, u, q), NEW s, s = IF T.n[u].l = v THEN "l" ELSE "r",
         NEW w, w = T.n[u][Other(s)], w # NIL,
         ~(Black(T, T.n[w][s]) /\ Black(T, T.n[w][Other(s)])),
         NEW R, R = NephewUp(T, u, s)
  PROVE  Balanced(R.n, Weights(R.n), R.root) /\ R.root # NIL
  <1> DEFINE A == FarRed(T, u, s)
             N == A.n
             D == DOMAIN N
             v2 == N[u][Other(s)]
             d == N[v2][Other(s)]
             W == Weights(N)
             M == R.n
             X == Weights(M)
  <1>1. /\ s \in Sides /\ IsTree(A) /\ A.root = q /\ D = DOMAIN T.n
        /\ N[u].p = T.n[u].p /\ N[u].black = T.n[u].black
        /\ v2 # NIL /\ d # NIL /\ W[v2] = 1 /\ W[d] = 0 /\ v2 # q /\ W[q] = 1
        /\ Calm(N, W, {}) /\ \E H : Even(N, W, H, u, s)
    <2>1. A = FarRed(T, u, s) /\ v2 = A.n[u][Other(s)] /\ d = A.n[v2][Other(s)]
      OBVIOUS
    <2>2. /\ IsTree(T) /\ q \in DOMAIN T.n /\ T.n[q].p = NIL /\ T.root = q /\ u \in DOMAIN T.n
          /\ Shorter(T.n, Weights(T.n), v, u, q) /\ s = (IF T.n[u].l = v THEN "l" ELSE "r")
          /\ w = T.n[u][Other(s)] /\ w # NIL
          /\ ~(Black(T, T.n[w][s]) /\ Black(T, T.n[w][Other(s)]))
      OBVIOUS
    <2>3. FarIsRed(T, A, u, s, q, v2, d)
      <3> HIDE DEF A, v2, d
      <3> QED  BY ONLY <2>1, <2>2, FarRedColours, Zenon
    <2> QED  BY ONLY <2>3 DEF FarIsRed
  <1>3. R = Rotate(Paint(Paint(A, {v2}, T.n[u].black), {u, d}, TRUE), u, s)
    BY Zenon DEF NephewUp
  <1>4. /\ T.n[u].black \in BOOLEAN /\ (W[u] = 1 <=> T.n[u].black) /\ W \in [D -> {0, 1}]
    <2>1. N \in [D -> Node(D)] /\ Weights(N) \in [D -> {0, 1}] /\ (Weights(N)[u] = 1 <=> N[u].black)
      BY <1>1, TreeFacts, Zenon
    <2>2. N[u].black \in BOOLEAN
      BY <1>1, <2>1, NodeFacts, Zenon
    <2> QED  BY <1>1, <2>1, <2>2, Zenon
  <1>5. u \in D /\ u \in DOMAIN T.n /\ s \in Sides /\ N[u][Other(s)] # NIL
    BY <1>1, Zenon
  <1>6. PICK sub : Shaped(N, sub)
    BY <1>1, Zenon DEF IsTree
  <1>7. /\ v2 \in D /\ v2 # u /\ d \in D /\ d # u /\ d # v2
    <2>1. N[u][Other(s)] = v2 /\ N[v2][Other(s)] = d /\ u \in DOMAIN N
      BY <1>5
    <2> HIDE DEF N, v2, d
    <2> QED  BY ONLY <1>1, <1>5, <1>6, <2>1, Around DEF D
  <1>8. /\ IsTree(R) /\ Spun(N, M, u, s) /\ DOMAIN M = D
        /\ R.root = IF N[u].p = NIL THEN v2 ELSE q
        /\ \A a \in D : M[a].black = IF a \in {u, d} THEN TRUE
                                     ELSE IF a \in {v2} THEN T.n[u].black ELSE N[a].black
    <2>1. ASSUME NEW b \in BOOLEAN, NEW c \in BOOLEAN, R = Rotate(Paint(Paint(A, {v2}, c), {u, d}, b), u, s)
          PROVE  /\ IsTree(R) /\ Spun(N, M, u, s) /\ DOMAIN M = D
                 /\ R.root = IF N[u].p = NIL THEN v2 ELSE A.root
                 /\ \A a \in D : M[a].black = IF a \in {u, d} THEN b
                                              ELSE IF a \in {v2} THEN c ELSE N[a].black
      <3>1. IsTree(A) /\ u \in DOMAIN A.n /\ s \in Sides /\ A.n[u][Other(s)] # NIL
            /\ v2 = A.n[u][Other(s)]
        BY <1>1, <1>5, Zenon
      <3>2. b \in BOOLEAN /\ c \in BOOLEAN
        OBVIOUS
      <3> HIDE DEF A, d, v2
      <3> QED  BY ONLY <2>1, <3>1, <3>2, PaintedTurn DEF N, D, M
    <2>2. TRUE \in BOOLEAN
      OBVIOUS
    <2>3. /\ IsTree(R) /\ Spun(N, M, u, s) /\ DOMAIN M = D
          /\ R.root = IF N[u].p = NIL THEN v2 ELSE A.root
          /\ \A a \in D : M[a].black = IF a \in {u, d} THEN TRUE
                                       ELSE IF a \in {v2} THEN T.n[u].black ELSE N[a].black
      BY ONLY <1>3, <1>4, <2>1, <2>2, Zenon
    <2> QED  BY <1>1, <2>3, Zenon
  <1>9. /\ X \in [D -> {0, 1}]
        /\ \A a \in D : X[a] = IF a = u \/ a = d THEN 1 ELSE IF a = v2 THEN W[u] ELSE W[a]
    <2>1. /\ X \in [D -> {0, 1}] /\ \A a \in D : (X[a] = 1 <=> M[a].black)
      <3>1. DOMAIN R.n = D
        BY <1>8, Zenon
      <3> HIDE DEF D
      <3> QED  BY ONLY <1>8, <3>1, TreeFacts
    <2>2. \A a \in D : (W[a] = 1 <=> N[a].black)
      <3> HIDE DEF A
      <3> QED  BY <1>1, TreeFacts, Zenon
    <2>3. ASSUME NEW a \in D
          PROVE  X[a] = IF a = u \/ a = d THEN 1 ELSE IF a = v2 THEN W[u] ELSE W[a]
      <3> HIDE DEF A, d, v2, W, X, M, N, D
      <3>1. CASE a = u \/ a = d
        <4>1. M[a].black
          BY <1>8, <3>1, Zenon
        <4>2. X[a] = 1
          BY ONLY <2>1, <4>1, a \in D
        <4> QED  BY ONLY <3>1, <4>2
      <3>2. CASE a # u /\ a # d /\ a = v2
        <4>1. M[a].black = T.n[u].black
          BY <1>8, <3>2, Zenon
        <4>2. X[a] = 1 <=> W[u] = 1
          BY <1>4, <2>1, <4>1, Zenon
        <4>3. X[a] \in {0, 1} /\ W[u] \in {0, 1}
          BY <1>4, <1>5, <2>1
        <4> QED  BY ONLY <3>2, <4>2, <4>3
      <3>3. CASE a # u /\ a # d /\ a # v2
        <4>1. M[a].black = N[a].black
          BY <1>8, <3>3, Zenon
        <4>2. X[a] = 1 <=> W[a] = 1
          BY <2>1, <2>2, <4>1, Zenon
        <4>3. X[a] \in {0, 1} /\ W[a] \in {0, 1}
          BY <1>4, <2>1
        <4> QED  BY ONLY <3>3, <4>2, <4>3
      <3> QED  BY ONLY <3>1, <3>2, <3>3
    <2> QED  BY <2>1, <2>3, Zenon
  <1>10. N[u][Other(s)] = v2 /\ N[v2][Other(s)] = d /\ u \in DOMAIN N
    BY <1>5
  <1>11. PICK H : Even(N, W, H, u, s)
    BY <1>1, Zenon
  <1> HIDE DEF N, v2, d, W, X, M
  <1>12. Calm(M, X, {})
    BY ONLY <1>1, <1>4, <1>5, <1>6, <1>8, <1>9, <1>10, NephewCalm DEF D
  <1>13. \E G : Even(M, X, G, NIL, "l")
    BY ONLY <1>1, <1>4, <1>5, <1>6, <1>8, <1>9, <1>10, <1>11, NephewEven DEF D
  <1>14. R.root # NIL /\ X[R.root] = 1
    <2>1. q # NIL
      BY TreeFacts
    <2>2. CASE N[u].p = NIL
      <3>1. u = q
        BY <1>1, <2>2
      <3> QED  BY <1>1, <1>7, <1>8, <1>9, <2>2, <3>1
    <2>3. CASE N[u].p # NIL
      <3>1. q \in D
        BY <1>1
      <3> QED  BY <1>1, <1>7, <1>8, <1>9, <2>1, <2>3, <3>1
    <2> QED  BY <2>2, <2>3
  <1> QED  BY <1>12, <1>13, <1>14 DEF Balanced, M, X

(* A node with one child at the most gives its place to that child.  When  *)
(* it was black the ways over its place are one too light.                 *)
RemovedWays(M, W, X, u, c, g, Q) ==
  /\ W[u] = 0 => Balanced(M, X, Q)
  /\ W[u] = 1 => Short(M, X, c, g, Q)

LEMMA RemovedColours ==
  ASSUME NEW N, Mutual(N), NEW u \in DOMAIN N, NEW s \in Sides, N[u][s] = NIL,
         NEW c, c = N[u][Other(s)], NEW M, Removed(N, M, u, c),
         NEW W \in [DOMAIN N -> {0, 1}], NEW X \in [DOMAIN N \ {u} -> {0, 1}],
         \A a \in DOMAIN N \ {u} : X[a] = W[a],
         NEW q \in DOMAIN N, Balanced(N, W, q), N[u].p = NIL <=> q = u,
         NEW Q, Q = IF q = u THEN c ELSE q
  PROVE  RemovedWays(M, W, X, u, c, N[u].p, Q)
  <1> DEFINE D == DOMAIN N
             E == D \ {u}
             g == N[u].p
  <1>1. /\ NIL \notin D /\ c \in E \cup {NIL} /\ g \in D \cup {NIL} /\ Other(s) \in Sides
        /\ c # NIL => N[c].p = u
        /\ \A a \in D, k \in Sides : N[a][k] \in D \cup {NIL} /\ (N[a][k] # NIL => N[N[a][k]].p = a)
        /\ \A a \in D : N[a].p \in D \cup {NIL}
    <2>1. Other(s) \in Sides
      BY SideFacts
    <2>2. c \in D \cup {NIL} /\ (c # NIL => N[c].p = u /\ c # u)
      BY <2>1 DEF Mutual
    <2> QED  BY <2>1, <2>2 DEF Mutual
  <1>2. /\ DOMAIN M = E
        /\ \A a \in E : /\ M[a].p = IF a = c THEN g ELSE N[a].p
                        /\ \A k \in Sides : M[a][k] = IF N[a][k] = u THEN c ELSE N[a][k]
    BY DEF Removed
  <1>3. Calm(N, W, {}) /\ W[q] = 1 /\ \E H : Even(N, W, H, NIL, "l")
    BY <1>1 DEF Balanced
  <1>4. PICK H : Even(N, W, H, NIL, "l")
    BY <1>3
  <1>5. /\ H \in [D \cup {NIL} -> Int] /\ H[NIL] = 0
        /\ \A a \in D, k \in Sides : H[a] = W[a] + H[N[a][k]] + 0
    <2>1. Level(N, W, H)
      BY <1>1, <1>4, EvenIs
    <2> QED  BY <2>1 DEF Level
  <1>6. H[u] = W[u] /\ H[c] = 0
    <2>1. H[u] = W[u] + H[NIL] + 0 /\ H[u] = W[u] + H[c] + 0
      BY <1>1, <1>5
    <2>2. H[u] \in Int /\ W[u] \in Int /\ H[c] \in Int /\ H[NIL] = 0
      <3>1. c \in D \cup {NIL}
        BY <1>1
      <3> QED  BY <1>5, <3>1
    <2> QED  BY ONLY <2>1, <2>2
  <1> DEFINE G == [a \in E \cup {NIL} |-> H[a]]
  <1>7. G \in [E \cup {NIL} -> Int] /\ G[NIL] = 0 /\ \A a \in E \cup {NIL} : G[a] = H[a]
    BY <1>5
  <1> HIDE DEF G
  <1>8. ASSUME NEW e, NEW t, W[u] \in {0, 1},
               W[u] = 1 => \A a \in E, k \in Sides : N[a][k] = u <=> a = e /\ k = t,
               W[u] = 0 => e = NIL
        PROVE  Even(M, X, G, e, t)
    <2>1. ASSUME NEW a \in E, NEW k \in Sides
          PROVE  G[a] = X[a] + G[M[a][k]] + (IF a = e /\ k = t THEN 1 ELSE 0)
      <3> DEFINE b == N[a][k]
                 d == M[a][k]
                 j == IF a = e /\ k = t THEN 1 ELSE 0
      <3>1. H[a] = W[a] + H[b] + 0 /\ H[a] \in Int /\ W[a] \in Int /\ X[a] = W[a] /\ G[a] = H[a]
        <4>1. a \in D
          OBVIOUS
        <4> QED  BY <1>5, <1>7, <4>1
      <3>2. b \in D \cup {NIL} /\ H[b] \in Int /\ d = IF b = u THEN c ELSE b
        BY <1>1, <1>2, <1>5
      <3>3. j = IF a = e /\ k = t THEN 1 ELSE 0
        OBVIOUS
      <3>30. W[u] = 1 => (b = u <=> a = e /\ k = t)
        BY <1>8
      <3>31. W[u] = 0 => a # e
        BY <1>1, <1>8
      <3> HIDE DEF b, d, j
      <3>4. G[a] = X[a] + G[d] + j
        <4>1. CASE b = u
          <5>1. G[d] = 0
            BY <1>1, <1>6, <1>7, <3>2, <4>1
          <5>2. H[b] = j
            <6>1. CASE W[u] = 1
              BY <1>6, <3>3, <3>30, <4>1, <6>1
            <6>2. CASE W[u] = 0
              BY <1>6, <3>3, <3>31, <4>1, <6>2
            <6> QED  BY <1>8, <6>1, <6>2
          <5> QED  BY ONLY <3>1, <3>2, <5>1, <5>2
        <4>2. CASE b # u
          <5>1. G[d] = H[b]
            BY <1>7, <3>2, <4>2
          <5>2. j = 0
            BY <1>8, <3>3, <3>30, <3>31, <4>2
          <5> QED  BY ONLY <3>1, <3>2, <5>1, <5>2
        <4> QED  BY <4>1, <4>2
      <3> QED  BY <3>4 DEF d, j
    <2> QED  BY <1>2, <1>7, <2>1 DEF Even
  <1>9. ASSUME W[u] = 0  PROVE Balanced(M, X, Q)
    <2>1. Q = q /\ q \in E /\ X[Q] = 1
      BY <1>3, <1>9
    <2>2. Calm(M, X, {})
      <3> SUFFICES ASSUME NEW a \in E, X[a] = 0, M[a].p # NIL, X[M[a].p] = 0  PROVE FALSE
        BY <1>2 DEF Calm
      <3>1. W[a] = 0
        OBVIOUS
      <3>2. CASE a = c
        <4>1. N[a].p = u /\ u # NIL
          BY <1>1, <3>2
        <4> QED  BY <1>3, <1>9, <3>1, <4>1 DEF Calm
      <3>3. CASE a # c
        <4>1. M[a].p = N[a].p
          BY <1>2, <3>3
        <4>2. N[a].p # NIL /\ W[N[a].p] = 0
          <5>1. N[a].p \in D
            BY <1>1, <4>1
          <5>2. CASE N[a].p = u
            BY <1>1, <1>9, <5>2
          <5>3. CASE N[a].p # u
            BY <1>1, <4>1, <5>1, <5>3
          <5> QED  BY <5>2, <5>3
        <4> QED  BY <1>3, <3>1, <4>2 DEF Calm
      <3> QED  BY <3>2, <3>3
    <2>3. Even(M, X, G, NIL, "l")
      <3>1. W[u] \in {0, 1} /\ W[u] # 1
        BY <1>9
      <3> QED  BY <1>8, <3>1
    <2> QED  BY <2>1, <2>2, <2>3 DEF Balanced
  <1>10. ASSUME W[u] = 1  PROVE Short(M, X, c, g, Q)
    <2>1. Calm(M, X, {a \in DOMAIN M : a = c \/ M[a].p = c})
      <3> SUFFICES ASSUME NEW a \in E, X[a] = 0, M[a].p # NIL, X[M[a].p] = 0, a # c  PROVE FALSE
        BY <1>2 DEF Calm
      <3>1. W[a] = 0 /\ M[a].p = N[a].p
        BY <1>2
      <3>2. N[a].p \in D
        BY <1>1, <3>1
      <3>3. CASE N[a].p = u
        <4>1. PICK k \in Sides : N[u][k] = a
          BY <1>1, <3>3 DEF Mutual
        <4> QED  BY <1>1, <4>1, SideFacts
      <3>4. CASE N[a].p # u
        <4>1. W[N[a].p] = 0 /\ N[a].p # NIL
          BY <1>1, <3>1, <3>2, <3>4
        <4> QED  BY <1>3, <3>1, <4>1 DEF Calm
      <3> QED  BY <3>3, <3>4
    <2>2. c # Q => X[Q] = 1
      BY <1>3
    <2>3. c # NIL => M[c].p = g
      BY <1>1, <1>2
    <2>4. CASE g = NIL
      <3>1. c = Q
        BY <2>4
      <3>2. \A a \in E, k \in Sides : N[a][k] = u <=> a = NIL /\ k = "l"
        BY <1>1, <2>4
      <3>3. Even(M, X, G, NIL, "l")
        <4>1. W[u] \in {0, 1}
          OBVIOUS
        <4> QED  BY <1>8, <1>10, <3>2, <4>1
      <3> QED  BY <2>1, <2>2, <2>3, <2>4, <3>1, <3>3 DEF Short
    <2>5. CASE g # NIL
      <3>1. PICK t \in Sides : N[g][t] = u
        BY <2>5 DEF Mutual
      <3>2. \A a \in E, k \in Sides : N[a][k] = u <=> a = g /\ k = t
        <4>1. ASSUME NEW a \in E, NEW k \in Sides, N[a][k] = u  PROVE a = g /\ k = t
          <5>1. a = g
            BY <1>1, <4>1
          <5>2. N[g][t] # N[g][Other(t)]
            BY <1>1, <2>5, <3>1 DEF Mutual
          <5> QED  BY <3>1, <4>1, <5>1, <5>2, SideFacts
        <4> QED  BY <3>1, <4>1
      <3>3. Even(M, X, G, g, t)
        <4>1. W[u] \in {0, 1} /\ W[u] # 0
          BY <1>10
        <4> QED  BY <1>8, <3>2, <4>1
      <3>4. M[g][t] = c
        <4>1. g \in E
          <5>1. g # u
            BY <1>1, <2>5, <3>1 DEF Mutual
          <5> QED  BY <1>1, <2>5, <5>1
        <4> QED  BY <1>2, <3>1, <4>1
      <3>5. Lighter(M, X, c, g)
        BY <3>3, <3>4 DEF Lighter
      <3> QED  BY <2>1, <2>2, <2>3, <2>5, <3>5 DEF Short
    <2> QED  BY <2>4, <2>5
  <1> QED  BY <1>9, <1>10 DEF RemovedWays, g

-----------------------------------------------------------------------------
(* Steps that add or take a node that is not in the tree.                  *)
LEMMA WeightsSame ==
  ASSUME NEW N, NEW M, NEW a, a \in DOMAIN N, a \in DOMAIN M
  PROVE  /\ (M[a].black = N[a].black => Weights(M)[a] = Weights(N)[a])
         /\ Weights(N)[a] \in {0, 1} /\ (~N[a].black => Weights(N)[a] = 0)
  <1>1. /\ Weights(N)[a] = IF N[a].black THEN 1 ELSE 0
        /\ Weights(M)[a] = IF M[a].black THEN 1 ELSE 0
    BY DEF Weights
  <1>2. ASSUME M[a].black = N[a].black  PROVE Weights(M)[a] = Weights(N)[a]
    BY <1>1, <1>2, Zenon
  <1>3. Weights(N)[a] \in {0, 1}
    BY <1>1
  <1>4. ASSUME ~N[a].black  PROVE Weights(N)[a] = 0
    BY <1>1, <1>4, Zenon
  <1> QED  BY <1>2, <1>3, <1>4, Zenon

LEMMA WeightsType == \A N : Weights(N) \in [DOMAIN N -> {0, 1}]
  BY DEF Weights

\* The new node, red and without children, is linked.
LEMMA HungColours ==
  ASSUME NEW N, NEW M, DOMAIN M = DOMAIN N, NEW v \in DOMAIN N, Mutual(N),
         \A a \in DOMAIN N : M[a].black = N[a].black /\ (M[a].p = N[a].p \/ a = v),
         \A a \in DOMAIN N, k \in Sides : M[a][k] = N[a][k] \/ (N[a][k] = NIL /\ M[a][k] = v),
         N[v].l = NIL, ~N[v].black, NEW q, Balanced(N, Weights(N), q)
  PROVE  Reddened(M, Weights(M), v)
  <1> DEFINE D == DOMAIN N
             W == Weights(N)
             X == Weights(M)
  <1>0. NIL \notin D /\ \A a \in D : N[a].p \in D \cup {NIL}
    BY DEF Mutual
  <1>1. /\ X \in [D -> {0, 1}] /\ W[v] = 0 /\ \A a \in D : X[a] = W[a]
    BY WeightsSame, WeightsType
  <1>2. Calm(N, W, {}) /\ \E H : Even(N, W, H, NIL, "l")
    BY DEF Balanced
  <1> HIDE DEF W, X
  <1>3. PICK H : Even(N, W, H, NIL, "l")
    BY <1>2
  <1>4. Level(N, W, H)
    BY <1>0, <1>3, EvenIs
  <1>5. H[v] = 0
    <2>1. "l" \in Sides /\ N[v]["l"] = NIL
      BY DEF Sides
    <2>2. H[v] = W[v] + H[NIL] + 0 /\ H[NIL] = 0
      BY <1>4, <2>1 DEF Level
    <2> QED  BY <1>1, <2>2
  <1>6. Level(M, X, H)
    <2>1. ASSUME NEW a \in D, NEW k \in Sides  PROVE H[M[a][k]] = H[N[a][k]]
      BY <1>4, <1>5 DEF Level
    <2>2. ASSUME NEW a \in D, NEW k \in Sides  PROVE H[a] = X[a] + H[M[a][k]] + 0
      <3>1. H[a] = W[a] + H[N[a][k]] + 0
        BY <1>4 DEF Level
      <3> QED  BY <1>1, <2>1, <3>1
    <2> QED  BY <1>1, <1>4, <2>2 DEF Level
  <1>7. Calm(M, X, {v})
    <2> SUFFICES ASSUME NEW a \in D, X[a] = 0, M[a].p # NIL, X[M[a].p] = 0, a # v  PROVE FALSE
      BY DEF Calm
    <2>1. M[a].p = N[a].p /\ W[a] = 0
      BY <1>1
    <2>2. CASE N[a].p \in D
      BY <1>1, <1>2, <2>1, <2>2 DEF Calm
    <2>3. CASE N[a].p \notin D
      BY <1>0, <2>1, <2>3
    <2> QED  BY <2>2, <2>3
  <1>8. Even(M, X, H, NIL, "l")
    BY <1>0, <1>6, EvenIs
  <1> QED  BY <1>1, <1>7, <1>8 DEF Reddened, X

\* A leaf from the heap, which nothing leads to yet.
LEMMA SproutColours ==
  ASSUME NEW N, Mutual(N), NEW u, u \notin DOMAIN N, u # NIL, NEW h,
         NEW q \in DOMAIN N \cup {NIL}, Balanced(N, Weights(N), q)
  PROVE  Balanced(Sprout(N, u, h), Weights(Sprout(N, u, h)), q)
  <1> DEFINE D == DOMAIN N
             E == D \cup {u}
             M == Sprout(N, u, h)
             W == Weights(N)
             X == Weights(M)
  <1>1. NIL \notin E /\ \A a \in D : N[a].p \in D \cup {NIL} /\ \A k \in Sides : N[a][k] \in D \cup {NIL}
    BY DEF Mutual
  <1>2. /\ DOMAIN M = E /\ \A a \in D : M[a] = N[a]
        /\ ~M[u].black /\ M[u].p = NIL /\ \A k \in Sides : M[u][k] = NIL
    BY DEF Sprout, Leaf, Sides
  <1>3. /\ X \in [E -> {0, 1}] /\ X[u] = 0 /\ \A a \in D : X[a] = W[a]
    <2>1. X \in [E -> {0, 1}]
      BY <1>2, WeightsType
    <2>2. u \in E
      OBVIOUS
    <2>3. X[u] = 0
      BY <1>2, <2>2, WeightsSame
    <2>4. \A a \in D : X[a] = W[a]
      BY <1>2, WeightsSame
    <2> QED  BY <2>1, <2>3, <2>4
  <1>4. Calm(N, W, {}) /\ (q # NIL => W[q] = 1) /\ \E H : Even(N, W, H, NIL, "l")
    BY DEF Balanced
  <1> HIDE DEF M, W, X
  <1>5. PICK H : Even(N, W, H, NIL, "l")
    BY <1>4
  <1>6. Level(N, W, H)
    BY <1>1, <1>5, EvenIs
  <1> DEFINE G == [a \in E \cup {NIL} |-> IF a = u THEN 0 ELSE H[a]]
  <1>7. G \in [E \cup {NIL} -> Int] /\ G[NIL] = 0 /\ G[u] = 0 /\ \A a \in D \cup {NIL} : G[a] = H[a]
    BY <1>1, <1>6 DEF Level
  <1> HIDE DEF G
  <1>8. ASSUME NEW a \in E, NEW k \in Sides  PROVE G[a] = X[a] + G[M[a][k]] + 0
    <2>1. CASE a = u
      BY <1>2, <1>3, <1>7, <2>1
    <2>2. CASE a \in D
      <3>1. H[a] = W[a] + H[N[a][k]] + 0
        BY <1>6, <2>2 DEF Level
      <3>2. G[M[a][k]] = H[N[a][k]] /\ G[a] = H[a] /\ X[a] = W[a]
        BY <1>1, <1>2, <1>3, <1>7, <2>2
      <3> QED  BY <3>1, <3>2
    <2> QED  BY <2>1, <2>2
  <1>9. Even(M, X, G, NIL, "l")
    <2>1. Level(M, X, G)
      BY <1>2, <1>3, <1>7, <1>8 DEF Level
    <2> QED  BY <1>1, <1>2, <2>1, EvenIs
  <1>10. Calm(M, X, {})
    <2> SUFFICES ASSUME NEW a \in E, X[a] = 0, M[a].p # NIL, X[M[a].p] = 0  PROVE FALSE
      BY <1>2 DEF Calm
    <2>1. a \in D /\ M[a].p = N[a].p /\ N[a].p \in D
      BY <1>1, <1>2
    <2> QED  BY <1>3, <1>4, <2>1 DEF Calm
  <1>11. q # NIL => X[q] = 1
    BY <1>3, <1>4
  <1> QED  BY <1>9, <1>10, <1>11 DEF Balanced, M, X

\* It goes again.
LEMMA DroppedColours ==
  ASSUME NEW N, Mutual(N), NEW u \in DOMAIN N, N[u].p = NIL, \A k \in Sides : N[u][k] = NIL,
         NEW q, q # u, q \in DOMAIN N \cup {NIL}, Balanced(N, Weights(N), q),
         NEW M, M = [a \in DOMAIN N \ {u} |-> N[a]]
  PROVE  Balanced(M, Weights(M), q)
  <1> DEFINE D == DOMAIN N
             E == D \ {u}
             W == Weights(N)
             X == Weights(M)
  <1>1. /\ NIL \notin D
        /\ \A a \in E : /\ N[a].p \in E \cup {NIL}
                        /\ \A k \in Sides : N[a][k] \in E \cup {NIL}
    <2>1. ASSUME NEW a \in E  PROVE N[a].p \in E \cup {NIL}
      <3>1. N[a].p \in D \cup {NIL} /\ (N[a].p # NIL => \E k \in Sides : N[N[a].p][k] = a) /\ a # NIL
        BY DEF Mutual
      <3> QED  BY <3>1
    <2>2. ASSUME NEW a \in E, NEW k \in Sides  PROVE N[a][k] \in E \cup {NIL}
      <3>1. N[a][k] \in D \cup {NIL} /\ (N[a][k] # NIL => N[N[a][k]].p = a) /\ a # NIL
        BY DEF Mutual
      <3> QED  BY <3>1
    <2> QED  BY <2>1, <2>2 DEF Mutual
  <1>2. DOMAIN M = E /\ \A a \in E : M[a] = N[a]
    OBVIOUS
  <1>3. X \in [E -> {0, 1}] /\ \A a \in E : X[a] = W[a]
    <2>1. X \in [E -> {0, 1}]
      BY <1>2, WeightsType
    <2>2. \A a \in E : X[a] = W[a]
      BY <1>2, WeightsSame
    <2> QED  BY <2>1, <2>2
  <1>4. Calm(N, W, {}) /\ (q # NIL => W[q] = 1) /\ \E H : Even(N, W, H, NIL, "l")
    BY DEF Balanced
  <1> HIDE DEF W, X
  <1>5. PICK H : Even(N, W, H, NIL, "l")
    BY <1>4
  <1>6. Level(N, W, H)
    BY <1>1, <1>5, EvenIs
  <1> DEFINE G == [a \in E \cup {NIL} |-> H[a]]
  <1>7. G \in [E \cup {NIL} -> Int] /\ G[NIL] = 0 /\ \A a \in E \cup {NIL} : G[a] = H[a]
    BY <1>6 DEF Level
  <1> HIDE DEF G
  <1>8. ASSUME NEW a \in E, NEW k \in Sides  PROVE G[a] = X[a] + G[M[a][k]] + 0
    <2>1. H[a] = W[a] + H[N[a][k]] + 0
      BY <1>6 DEF Level
    <2>2. G[M[a][k]] = H[N[a][k]] /\ G[a] = H[a] /\ X[a] = W[a]
      BY <1>1, <1>2, <1>3, <1>7
    <2> QED  BY <2>1, <2>2
  <1>9. Even(M, X, G, NIL, "l")
    <2>1. Level(M, X, G)
      BY <1>2, <1>3, <1>7, <1>8 DEF Level
    <2> QED  BY <1>1, <1>2, <2>1, EvenIs
  <1>10. Calm(M, X, {})
    <2> SUFFICES ASSUME NEW a \in E, X[a] = 0, M[a].p # NIL, X[M[a].p] = 0  PROVE FALSE
      BY <1>2 DEF Calm
    <2>1. M[a].p = N[a].p /\ N[a].p \in E
      BY <1>1, <1>2
    <2> QED  BY <1>3, <1>4, <2>1 DEF Calm
  <1>11. q # NIL => X[q] = 1
    BY <1>3, <1>4
  <1> QED  BY <1>9, <1>10, <1>11 DEF Balanced, X

-----------------------------------------------------------------------------
(* The steps and the colours.                                              *)
LEMMA ActiveTree ==
  ASSUME Inv, ~broken, pc \notin {"idle", "index", "descend"}
  PROVE  /\ IsTree(Tree) /\ Tree.n = nodes /\ Tree.root = root /\ Mutual(nodes)
         /\ nodes \in [DOMAIN nodes -> Node(DOMAIN nodes)]
         /\ root \in DOMAIN nodes \cup {NIL}
         /\ root = NIL => DOMAIN nodes = {}
         /\ root # NIL => nodes[root].p = NIL
         /\ \A u \in DOMAIN nodes : nodes[u].p = NIL => u = root
  <1>1. IsTree(Tree) /\ Ordered(Tree)
    BY TreeIs DEF Inv, Good
  <1>2. Tree.n = nodes /\ Tree.root = root
    BY DEF Tree
  <1>3. PICK sub : Shaped(nodes, sub) /\ Rules(nodes, sub, root, {})
    BY <1>1, <1>2 DEF Ordered
  <1>4. sub[root] = DOMAIN nodes /\ (root # NIL => nodes[root].p = NIL) /\ sub[NIL] = {}
        /\ nodes \in [DOMAIN nodes -> Node(DOMAIN nodes)]
    BY <1>3 DEF Rules, Shaped
  <1>5. root \in DOMAIN nodes \cup {NIL} /\ IsFiniteSet(DOMAIN nodes)
    BY <1>1, <1>2 DEF IsTree
  <1>6. ASSUME NEW u \in DOMAIN nodes, nodes[u].p = NIL  PROVE u = root
    <2>1. root \in DOMAIN nodes /\ u \in sub[root]
      BY <1>4, <1>5
    <2> QED  BY <1>3, <1>5, <1>6, <2>1, OnlyRoot
  <1>7. Mutual(nodes)
    BY <1>1, <1>2, MutualIs
  <1> QED  BY <1>1, <1>2, <1>4, <1>5, <1>6, <1>7

LEMMA FixInsertColours ==
  ASSUME Inv, Colours, ~broken, FixInsert
  PROVE  Colours'
  <1>1. /\ pc = "fixinsert" /\ pc' = "fixinsert" /\ nodes[z].p # NIL /\ Red(Tree, nodes[z].p)
        /\ nodes[nodes[z].p].p # NIL /\ z \in DOMAIN nodes
    BY DEF FixInsert, RedTop, Above, Inv, Cursors
  <1>2. IsTree(Tree) /\ Tree.n = nodes /\ Mutual(nodes)
    BY <1>1, ActiveTree
  <1>3. Reddened(nodes, Weights(nodes), z)
    BY <1>1 DEF Colours
  <1> DEFINE p == nodes[z].p
             g == nodes[p].p
  <1>4. p \in DOMAIN nodes /\ g \in DOMAIN nodes
    BY <1>1, <1>2 DEF Mutual
  <1>5. ~nodes[p].black
    BY <1>1, <1>2, Zenon DEF Red
  <1>6. Reddened(nodes', Weights(nodes'), z')
    <2>1. CASE Red(Tree, Uncle(Tree, z))
      <3>1. nodes' = PushUp(Tree, z).n /\ z' = g
        BY <2>1 DEF FixInsert, Grow, Above
      <3>2. Reddened(PushUp(Tree, z).n, Weights(PushUp(Tree, z).n), g)
        <4> HIDE DEF p, g
        <4>1. Tree.n[z].p = p /\ Tree.n[p].p = g
          BY <1>2 DEF p, g
        <4> QED  BY <1>1, <1>2, <1>3, <1>4, <1>5, <2>1, <4>1, PushUpColours, Zenon
      <3> QED  BY <3>1, <3>2
    <2>2. CASE ~Red(Tree, Uncle(Tree, z))
      <3>1. nodes' = RotateUp(Tree, z).tree.n /\ z' = RotateUp(Tree, z).z
        BY <2>2 DEF FixInsert, Grow
      <3>2. Reddened(RotateUp(Tree, z).tree.n, Weights(RotateUp(Tree, z).tree.n), RotateUp(Tree, z).z)
        <4> HIDE DEF p, g
        <4>1. Tree.n[z].p = p /\ Tree.n[p].p = g
          BY <1>2 DEF p, g
        <4> QED  BY <1>1, <1>2, <1>3, <1>4, <1>5, <2>2, <4>1, RotateUpColours, Zenon
      <3> QED  BY <3>1, <3>2
    <2> QED  BY <2>1, <2>2
  <1> QED  BY <1>1, <1>6 DEF Colours

LEMMA InsertFixedColours ==
  ASSUME Inv, Colours, ~broken, InsertFixed
  PROVE  Colours'
  <1>1. /\ pc = "fixinsert" /\ pc' = "return" /\ ~(nodes[z].p # NIL /\ Red(Tree, nodes[z].p))
        /\ z \in DOMAIN nodes
    BY DEF InsertFixed, RedTop, Above, Inv, Cursors
  <1>2. /\ IsTree(Tree) /\ Tree.n = nodes /\ Tree.root = root
        /\ root \in DOMAIN nodes \cup {NIL}
        /\ (root = NIL => DOMAIN nodes = {}) /\ (root # NIL => nodes[root].p = NIL)
    BY <1>1, ActiveTree
  <1>3. Reddened(nodes, Weights(nodes), z)
    BY <1>1 DEF Colours
  <1> DEFINE W == Weights(nodes)
             R == Paint(Tree, {root}, TRUE)
             X == Weights(R.n)
  <1>4. nodes' = R.n /\ root' = R.root
    BY DEF InsertFixed, Grow
  <1>5. Calm(nodes, W, {})
    <2> SUFFICES ASSUME NEW a \in DOMAIN nodes, W[a] = 0, nodes[a].p # NIL, W[nodes[a].p] = 0
                 PROVE  FALSE
      BY DEF Calm
    <2>1. a = z
      BY <1>3 DEF Reddened, Calm
    <2>2. nodes[a].p \in DOMAIN nodes
      BY <1>1, <2>1, ActiveTree DEF Mutual
    <2>3. ~nodes[nodes[a].p].black
      <3>1. IsTree(Tree)
        BY <1>2
      <3>2. \A b \in DOMAIN Tree.n : Weights(Tree.n)[b] = 0 <=> ~Tree.n[b].black
        BY ONLY <3>1, TreeFacts
      <3> QED  BY <1>2, <2>2, <3>2, Zenon
    <2>4. Red(Tree, nodes[a].p)
      BY <1>2, <2>3, Zenon DEF Red
    <2> QED  BY <1>1, <2>1, <2>4
  <1>6. root \in DOMAIN nodes
    BY <1>1, <1>2
  <1>7. \E H : Even(nodes, W, H, NIL, "l")
    BY <1>3 DEF Reddened
  <1>8. Calm(nodes, W, {a \in DOMAIN nodes : a = root \/ nodes[a].p = root})
    BY <1>5 DEF Calm
  <1>9. /\ R.root = Tree.root /\ X[root] = 1
        /\ Calm(nodes, W, {a \in DOMAIN nodes : a = root \/ nodes[a].p = root}) => Calm(R.n, X, {})
        /\ nodes[root].p = NIL /\ (\E H : Even(nodes, W, H, NIL, "l")) => \E H : Even(R.n, X, H, NIL, "l")
    <2> HIDE DEF R
    <2>1. IsTree(Tree) /\ root \in DOMAIN Tree.n /\ R = Paint(Tree, {root}, TRUE)
      BY <1>2, <1>6 DEF R
    <2>2. Tree.n = nodes
      BY DEF Tree
    <2>3. Blackened(Tree, R, root)
      BY ONLY <2>1, Blacken, Zenon
    <2> QED  BY ONLY <2>2, <2>3, Zenon DEF Blackened, W, X
  <1>10. Balanced(R.n, X, R.root)
    <2>1. nodes[root].p = NIL /\ root # NIL
      <3>1. NIL \notin DOMAIN nodes
        BY <1>1, ActiveTree DEF Mutual
      <3> QED  BY <1>2, <1>6, <3>1
    <2> HIDE DEF R, X, W
    <2> QED  BY <1>2, <1>7, <1>8, <1>9, <2>1 DEF Balanced
  <1>11. Balanced(nodes', Weights(nodes'), root') /\ Top' = root'
    BY <1>1, <1>4, <1>10 DEF Top
  <1> QED  BY <1>1, <1>11 DEF Colours

LEMMA FixSiblingColours ==
  ASSUME Inv, Colours, ~broken, FixSibling
  PROVE  Colours'
  <1>1. /\ pc = "sibling" /\ pc' = "nephews" /\ x # root /\ Black(Tree, x) /\ Sibling # NIL
        /\ y \in DOMAIN nodes /\ x' = x /\ y' = y
    BY DEF FixSibling, ToFix, Inv, Cursors
  <1>2. /\ IsTree(Tree) /\ Tree.n = nodes /\ Tree.root = root /\ Mutual(nodes)
        /\ root \in DOMAIN nodes \cup {NIL}
        /\ (root = NIL => DOMAIN nodes = {}) /\ (root # NIL => nodes[root].p = NIL)
    BY <1>1, ActiveTree
  <1>3. Short(nodes, Weights(nodes), x, y, root)
    BY <1>1 DEF Colours
  <1>4. root \in DOMAIN nodes /\ nodes[root].p = NIL
    <2>1. root \in DOMAIN nodes
      BY <1>1, <1>2
    <2> QED  BY <1>2, <2>1 DEF Mutual
  <1> DEFINE s == IF nodes[y].l = x THEN "l" ELSE "r"
             w == nodes[y][Other(s)]
             R == IF Red(Tree, w) THEN Rotate(Paint(Paint(Tree, {w}, TRUE), {y}, FALSE), y, s) ELSE Tree
  <1>5. nodes' = R.n /\ root' = R.root /\ w # NIL
    BY <1>1 DEF FixSibling, Sibling, Side, Grow
  <1>6. Shorter(R.n, Weights(R.n), x, y, R.root)
    <2>1. /\ IsTree(Tree) /\ root \in DOMAIN Tree.n /\ Tree.n[root].p = NIL /\ y \in DOMAIN Tree.n
          /\ x # root /\ Short(Tree.n, Weights(Tree.n), x, y, root) /\ Black(Tree, x)
          /\ s = IF Tree.n[y].l = x THEN "l" ELSE "r"
          /\ w = Tree.n[y][Other(s)] /\ w # NIL /\ Tree.root = root
          /\ R = IF Red(Tree, w) THEN Rotate(Paint(Paint(Tree, {w}, TRUE), {y}, FALSE), y, s) ELSE Tree
      <3>1. nodes = Tree.n
        BY DEF Tree
      <3> QED  BY <1>1, <1>2, <1>3, <1>4, <1>5, <3>1
    <2> HIDE DEF s, w, R
    <2> QED  BY ONLY <2>1, SiblingUpColours, Zenon
  <1>7. Shorter(nodes', Weights(nodes'), x', y', root')
    BY <1>1, <1>5, <1>6
  <1> QED  BY <1>1, <1>7 DEF Colours

LEMMA FixParentColours ==
  ASSUME Inv, Colours, ~broken, FixParent
  PROVE  Colours'
  <1>1. /\ pc = "nephews" /\ pc' = "sibling" /\ Sibling # NIL
        /\ y \in DOMAIN nodes /\ x' = y /\ y' = nodes[y].p
        /\ Black(Tree, Near) /\ Black(Tree, Far)
    BY DEF FixParent, Inv, Cursors
  <1>2. /\ IsTree(Tree) /\ Tree.n = nodes /\ Tree.root = root /\ Mutual(nodes)
        /\ root \in DOMAIN nodes \cup {NIL}
        /\ (root = NIL => DOMAIN nodes = {}) /\ (root # NIL => nodes[root].p = NIL)
        /\ (nodes[y].p = NIL => y = root)
    BY <1>1, ActiveTree
  <1>3. Shorter(nodes, Weights(nodes), x, y, root)
    BY <1>1 DEF Colours
  <1>4. root \in DOMAIN nodes /\ nodes[root].p = NIL
    <2>1. root \in DOMAIN nodes
      BY <1>1, <1>2
    <2> QED  BY <1>2, <2>1 DEF Mutual
  <1> DEFINE s == IF nodes[y].l = x THEN "l" ELSE "r"
             w == nodes[y][Other(s)]
             R == Paint(Tree, {w}, FALSE)
  <1>5. nodes' = R.n /\ root' = R.root /\ w # NIL
        /\ \A k \in Sides : Black(Tree, nodes[w][k])
    BY <1>1, SideFacts DEF FixParent, Sibling, Side, Grow, Near, Far
  <1>6. Short(R.n, Weights(R.n), y, Tree.n[y].p, root)
    <2>1. /\ IsTree(Tree) /\ root \in DOMAIN Tree.n /\ Tree.n[root].p = NIL /\ y \in DOMAIN Tree.n
          /\ Tree.n[y].p = NIL => y = root
          /\ Shorter(Tree.n, Weights(Tree.n), x, y, root)
          /\ s = IF Tree.n[y].l = x THEN "l" ELSE "r"
          /\ w = Tree.n[y][Other(s)] /\ w # NIL
          /\ \A k \in Sides : Black(Tree, Tree.n[w][k])
          /\ R = Paint(Tree, {w}, FALSE)
      <3>1. nodes = Tree.n
        BY DEF Tree
      <3> QED  BY <1>1, <1>2, <1>3, <1>4, <1>5, <3>1
    <2> HIDE DEF s, w, R
    <2> QED  BY ONLY <2>1, ParentColours, Zenon
  <1>7. Short(nodes', Weights(nodes'), x', y', root')
    <2>1. Tree.n[y].p = y' /\ Tree.root = root
      BY <1>1, <1>2
    <2>2. R.root = Tree.root
      BY DEF Paint, Tree
    <2> HIDE DEF R
    <2> QED  BY <1>1, <1>5, <1>6, <2>1, <2>2
  <1> QED  BY <1>1, <1>7 DEF Colours

LEMMA FixNephewsColours ==
  ASSUME Inv, Colours, ~broken, FixNephews
  PROVE  Colours'
  <1>1. /\ pc = "nephews" /\ pc' = "deleted" /\ Sibling # NIL
        /\ y \in DOMAIN nodes
        /\ ~(Black(Tree, Near) /\ Black(Tree, Far))
    BY DEF FixNephews, Inv, Cursors
  <1>2. /\ IsTree(Tree) /\ Tree.n = nodes /\ Tree.root = root /\ Mutual(nodes)
        /\ root \in DOMAIN nodes \cup {NIL}
        /\ (root = NIL => DOMAIN nodes = {}) /\ (root # NIL => nodes[root].p = NIL)
        /\ (nodes[y].p = NIL => y = root)
    BY <1>1, ActiveTree
  <1>3. Shorter(nodes, Weights(nodes), x, y, root)
    BY <1>1 DEF Colours
  <1>4. root \in DOMAIN nodes /\ nodes[root].p = NIL
    <2>1. root \in DOMAIN nodes
      BY <1>1, <1>2
    <2> QED  BY <1>2, <2>1 DEF Mutual
  <1> DEFINE s == IF nodes[y].l = x THEN "l" ELSE "r"
             w == nodes[y][Other(s)]
             R == NephewUp(Tree, y, s)
  <1>5. w # NIL /\ ~(Black(Tree, nodes[w][s]) /\ Black(Tree, nodes[w][Other(s)]))
    BY <1>1 DEF Sibling, Side, Near, Far
  <1>6. nodes' = R.n /\ root' = R.root /\ x' = R.root
    BY <1>2, Zenon DEF FixNephews, Sibling, Side, Grow, Far, Near, NephewUp, FarRed
  <1>7. Balanced(R.n, Weights(R.n), R.root) /\ R.root # NIL
    <2>1. /\ IsTree(Tree) /\ root \in DOMAIN Tree.n /\ Tree.n[root].p = NIL /\ y \in DOMAIN Tree.n
          /\ Tree.n[y].p = NIL => y = root
          /\ Tree.root = root
          /\ Shorter(Tree.n, Weights(Tree.n), x, y, root)
          /\ s = IF Tree.n[y].l = x THEN "l" ELSE "r"
          /\ w = Tree.n[y][Other(s)] /\ w # NIL
          /\ ~(Black(Tree, Tree.n[w][s]) /\ Black(Tree, Tree.n[w][Other(s)]))
          /\ R = NephewUp(Tree, y, s)
      <3>1. nodes = Tree.n
        BY DEF Tree
      <3> QED  BY <1>1, <1>2, <1>3, <1>4, <1>5, <3>1
    <2> HIDE DEF s, w, R
    <2> QED  BY ONLY <2>1, NephewColours, ZenonT(40)
  <1> HIDE DEF R
  <1>8. Balanced(nodes', Weights(nodes'), Top') /\ x' = root'
    BY <1>1, <1>6, <1>7 DEF Top
  <1> QED  BY <1>1, <1>8 DEF Colours

\* ecache_delete takes the node out, which has one child at the most.
LEMMA DeleteColours ==
  ASSUME Inv, Colours, ~broken', Delete
  PROVE  Colours'
  <1> DEFINE N == nodes
             W == Weights(N)
             U == Unlink(Tree, x)
             c == IF N[x].l = NIL THEN N[x].r ELSE N[x].l
             Q == IF x = root THEN c ELSE root
             M == nodes'
             X == Weights(M)
  <1>1. /\ pc = "search" /\ x # NIL /\ ~broken /\ NIL \in {N[x].l, N[x].r}
        /\ nodes' = U.tree.n /\ root' = U.tree.root /\ x' = U.x /\ y' = U.xp
    BY Zenon DEF Delete, Grow
  <1>2. pc' = IF U.fix THEN "sibling" ELSE "return"
    BY DEF Delete
  <1>3. /\ IsTree(Tree) /\ Tree.n = nodes /\ Tree = [root |-> root, n |-> nodes] /\ Mutual(nodes)
        /\ root \in DOMAIN nodes \cup {NIL}
        /\ (root = NIL => DOMAIN nodes = {}) /\ (root # NIL => nodes[root].p = NIL)
        /\ \A u \in DOMAIN nodes : nodes[u].p = NIL => u = root
    <2>1. pc \notin {"idle", "index", "descend"}
      BY <1>1
    <2> QED  BY <1>1, <2>1, ActiveTree DEF Tree
  <1>4. x \in DOMAIN N /\ root \in DOMAIN N /\ (N[x].p = NIL <=> root = x)
    <2>1. x \in DOMAIN N
      BY <1>1 DEF Inv, Cursors, Places
    <2>2. root \in DOMAIN N /\ root # NIL
      BY <1>3, <2>1 DEF Mutual
    <2> QED  BY <1>3, <2>1, <2>2
  <1>5. Balanced(N, W, root)
    BY <1>1 DEF Colours, Top
  <1>6. PICK K : /\ U.tree = [root |-> IF N[x].p = NIL THEN c ELSE root, n |-> K]
                 /\ U.x = c /\ U.xp = N[x].p /\ U.fix = N[x].black
                 /\ Removed(N, K, x, c)
    <2>1. PICK sub : Shaped(N, sub)
      BY <1>3 DEF IsTree
    <2>2. N[x].l = NIL \/ N[x].r = NIL
      BY <1>1
    <2> QED  BY <1>3, <1>4, <2>1, <2>2, UnlinkOneIs
  <1>7. M = K /\ root' = Q /\ x' = c /\ y' = N[x].p /\ Removed(N, M, x, c)
    <2> HIDE DEF U, c
    <2> QED  BY <1>1, <1>4, <1>6 DEF Q
  <1>8. PICK s \in Sides : N[x][s] = NIL /\ c = N[x][Other(s)]
    <2>1. CASE N[x].l = NIL
      BY <2>1, SideFacts
    <2>2. CASE N[x].l # NIL
      BY <1>1, <2>2, SideFacts
    <2> QED  BY <2>1, <2>2
  <1>9. /\ X \in [DOMAIN N \ {x} -> {0, 1}] /\ W \in [DOMAIN N -> {0, 1}]
        /\ \A a \in DOMAIN N \ {x} : X[a] = W[a]
    <2>1. DOMAIN M = DOMAIN N \ {x} /\ \A a \in DOMAIN N \ {x} : M[a].black = N[a].black
      BY <1>7 DEF Removed
    <2> HIDE DEF M, N
    <2> QED  BY <2>1, WeightsSame, WeightsType DEF X, W
  <1>10. RemovedWays(M, W, X, x, c, N[x].p, Q)
    <2>1. /\ Mutual(N) /\ x \in DOMAIN N /\ s \in Sides /\ N[x][s] = NIL /\ c = N[x][Other(s)]
          /\ Removed(N, M, x, c) /\ W \in [DOMAIN N -> {0, 1}] /\ X \in [DOMAIN N \ {x} -> {0, 1}]
          /\ \A a \in DOMAIN N \ {x} : X[a] = W[a]
          /\ root \in DOMAIN N /\ Balanced(N, W, root) /\ (N[x].p = NIL <=> root = x)
          /\ Q = IF root = x THEN c ELSE root
      BY <1>3, <1>4, <1>5, <1>7, <1>8, <1>9
    <2> HIDE DEF N, W, M, X, c, Q
    <2> QED  BY ONLY <2>1, RemovedColours
  <1> HIDE DEF U, c, Q
  <1>11. CASE N[x].black
    <2>1. pc' = "sibling"
      BY <1>2, <1>6, <1>11, Zenon
    <2>2. W[x] = 1
      <3>1. W[x] = IF N[x].black THEN 1 ELSE 0
        BY <1>4 DEF Weights
      <3> QED  BY <1>11, <3>1
    <2>3. Short(M, X, c, N[x].p, Q)
      BY <1>10, <2>2 DEF RemovedWays
    <2>4. Short(nodes', Weights(nodes'), x', y', root')
      BY <1>7, <2>3
    <2> QED  BY <2>1, <2>4 DEF Colours
  <1>12. CASE ~N[x].black
    <2>1. pc' = "return"
      BY <1>2, <1>6, <1>12, Zenon
    <2>2. W[x] = 0
      <3>1. W[x] = IF N[x].black THEN 1 ELSE 0
        BY <1>4 DEF Weights
      <3> QED  BY <1>12, <3>1
    <2>3. Balanced(M, X, Q)
      BY <1>10, <2>2 DEF RemovedWays
    <2>4. Balanced(nodes', Weights(nodes'), Top')
      BY <1>7, <2>1, <2>3 DEF Top
    <2> QED  BY <2>1, <2>4 DEF Colours
  <1> QED  BY <1>11, <1>12

LEMMA NoColours ==
  ASSUME NEW N, DOMAIN N = {}
  PROVE  Balanced(N, Weights(N), NIL)
  <1> DEFINE H == [a \in {NIL} |-> 0]
             W == Weights(N)
  <1>1. W \in [{} -> {0, 1}] /\ H \in [{} \cup {NIL} -> Int] /\ H[NIL] = 0
    BY WeightsType
  <1> HIDE DEF H, W
  <1>2. Even(N, W, H, NIL, "l")
    BY <1>1 DEF Even
  <1>3. Calm(N, W, {})
    BY DEF Calm
  <1> QED  BY <1>2, <1>3 DEF Balanced, W

\* x turns black in the end.
LEMMA DeleteFixedColours ==
  ASSUME Inv, Colours, ~broken, DeleteFixed
  PROVE  Colours'
  <1> DEFINE N == nodes
             W == Weights(N)
             R == Paint(Tree, {x}, TRUE)
             X == Weights(R.n)
  <1>1. /\ pc = "deleted" \/ (pc = "sibling" /\ ~ToFix)
        /\ nodes' = R.n /\ root' = R.root /\ pc' = "return"
    BY DEF DeleteFixed, Grow
  <1>2. /\ IsTree(Tree) /\ Tree.n = N /\ Tree.root = root /\ Mutual(N)
        /\ root \in DOMAIN N \cup {NIL}
        /\ (root = NIL => DOMAIN N = {}) /\ (root # NIL => N[root].p = NIL)
        /\ \A u \in DOMAIN N : N[u].p = NIL => u = root
    BY <1>1, ActiveTree
  <1>3. x \in DOMAIN N \cup {NIL} /\ NIL \notin DOMAIN N
    BY <1>1, <1>2 DEF Inv, Cursors, Places, Mutual
  <1>4. Balanced(R.n, X, R.root)
    <2>1. CASE x = NIL
      <3>1. x = root
        BY <1>1, <2>1 DEF Colours, ToFix, Black, Red
      <3>2. DOMAIN N = {} /\ DOMAIN R.n = DOMAIN Tree.n /\ R.root = Tree.root
        BY <1>2, <2>1, <3>1 DEF Paint
      <3> HIDE DEF R
      <3> QED  BY <1>2, <2>1, <3>1, <3>2, NoColours
    <2>2. CASE x \in DOMAIN N
      <3>1. /\ R.root = Tree.root /\ X[x] = 1 /\ \A a \in DOMAIN N : W[a] = 1 => X[a] = 1
            /\ Calm(N, W, {a \in DOMAIN N : a = x \/ N[a].p = x}) => Calm(R.n, X, {})
            /\ N[x].p = NIL /\ (\E H : Even(N, W, H, NIL, "l")) => \E H : Even(R.n, X, H, NIL, "l")
            /\ \A u \in DOMAIN N : W[x] = 0 /\ Lighter(N, W, x, u) => \E H : Even(R.n, X, H, NIL, "l")
        <4> HIDE DEF R
        <4>1. IsTree(Tree) /\ x \in DOMAIN Tree.n /\ R = Paint(Tree, {x}, TRUE)
          BY <1>2, <2>2 DEF R
        <4>2. Tree.n = nodes
          BY DEF Tree
        <4>3. Blackened(Tree, R, x)
          BY ONLY <4>1, Blacken, Zenon
        <4> QED  BY ONLY <4>2, <4>3, Zenon DEF Blackened, N, W, X
      <3>2. x # NIL
        BY <1>3, <2>2
      <3>3. CASE pc = "deleted"
        <4>1. x = root /\ Balanced(N, W, root)
          BY <3>3 DEF Colours, Top
        <4> HIDE DEF N, W, X, R
        <4>2. Calm(N, W, {a \in DOMAIN N : a = x \/ N[a].p = x}) /\ \E H : Even(N, W, H, NIL, "l")
          BY <4>1 DEF Balanced, Calm
        <4> QED  BY <1>2, <3>1, <3>2, <4>1, <4>2 DEF Balanced
      <3>4. CASE pc = "sibling"
        <4>1. Short(N, W, x, y, root)
          BY <3>4 DEF Colours
        <4>2. CASE x = root
          <5> HIDE DEF N, W, X, R
          <5>1. N[x].p = NIL
            BY <1>2, <3>2, <4>2
          <5>2. N[x].p = y
            BY <3>2, <4>1 DEF Short
          <5>3. /\ Calm(N, W, {a \in DOMAIN N : a = x \/ N[a].p = x})
                /\ y = NIL => \E H : Even(N, W, H, NIL, "l")
            BY <4>1 DEF Short
          <5>4. Calm(R.n, X, {}) /\ \E H : Even(R.n, X, H, NIL, "l")
            BY <3>1, <5>1, <5>2, <5>3
          <5> QED  BY <1>2, <3>1, <4>2, <5>4 DEF Balanced
        <4>3. CASE x # root
          <5>1. ~N[x].black
            <6>1. Red(Tree, x)
              BY <1>1, <3>4, <4>3, Zenon DEF ToFix, Black
            <6> QED  BY <1>2, <6>1, Zenon DEF Red
          <5>2. W[x] = 0
            BY <2>2, <5>1, WeightsSame, Zenon
          <5>3. y = N[x].p /\ y \in DOMAIN N
            BY <1>2, <2>2, <3>2, <4>1, <4>3 DEF Short, Mutual
          <5>4. y # NIL /\ root \in DOMAIN N
            BY <1>2, <1>3, <2>2, <5>3
          <5> HIDE DEF N, W, X, R
          <5>5. Calm(R.n, X, {}) /\ W[root] = 1 /\ X[root] = 1
            BY <3>1, <4>1, <4>3, <5>4 DEF Short
          <5>6. \E H : Even(R.n, X, H, NIL, "l")
            BY <3>1, <4>1, <5>2, <5>3, <5>4 DEF Short
          <5> QED  BY <1>2, <3>1, <5>5, <5>6 DEF Balanced
        <4> QED  BY <4>2, <4>3
      <3> QED  BY <1>1, <3>3, <3>4
    <2> QED  BY <1>3, <2>1, <2>2
  <1>5. Balanced(nodes', Weights(nodes'), Top')
    BY <1>1, <1>4 DEF Top
  <1> QED  BY <1>1, <1>5 DEF Colours

LEMMA ShapedMutual ==
  ASSUME Inv
  PROVE  Mutual(nodes) /\ IsFiniteSet(DOMAIN nodes)
  <1> DEFINE T == [root |-> NIL, n |-> nodes]
  <1>1. IsFiniteSet(DOMAIN nodes)
    BY HeldFacts DEF Inv
  <1>2. \E sub : Shaped(nodes, sub)
    BY DEF Inv, Shapes
  <1>3. T.n = nodes /\ T.root = NIL /\ T = [root |-> T.root, n |-> T.n]
    OBVIOUS
  <1>4. IsTree(T)
    BY <1>1, <1>2, <1>3 DEF IsTree
  <1> HIDE DEF T
  <1>5. Mutual(T.n)
    BY <1>4, MutualIs
  <1> QED  BY <1>1, <1>3, <1>5

\* The new node, which is red, is hung up.
LEMMA LinkColours ==
  ASSUME Inv, Colours, ~broken, Link
  PROVE  Colours'
  <1> DEFINE N == nodes
             h == call.hash
  <1>1. /\ pc = "descend" /\ pc' = "fixinsert" /\ x = NIL /\ z' = z
        /\ nodes' = Attach(Tree, z, y, h).n
    BY DEF Link, Grow
  <1>2. PICK sub : Shaped(N, sub) /\ Going(sub)
    BY <1>1 DEF Inv, Shapes
  <1>3. /\ Single(N, sub, z) /\ {x, y, root, stored} \subseteq Places \ {z}
        /\ y # NIL => x = Child(Tree, y, h) /\ N[y].hash # h
        /\ z \in DOMAIN N
    BY <1>2 DEF Going, Single
  <1>4. Mutual(N) /\ Tree = [root |-> root, n |-> N]
    BY ShapedMutual DEF Tree
  <1>5. Balanced(N, Weights(N), root) /\ ~N[z].black /\ N[z].l = NIL
    BY <1>1, <1>3 DEF Colours, Top, Single
  <1>6. /\ DOMAIN nodes' = DOMAIN N
        /\ \A a \in DOMAIN N : nodes'[a].black = N[a].black /\ (nodes'[a].p = N[a].p \/ a = z)
        /\ \A a \in DOMAIN N, k \in Sides :
             nodes'[a][k] = N[a][k] \/ (N[a][k] = NIL /\ nodes'[a][k] = z)
    <2>1. CASE y = NIL
      <3> HIDE DEF N, h
      <3>1. PICK M : /\ Attach([root |-> root, n |-> N], z, NIL, h) = [root |-> z, n |-> M]
                     /\ Relinked(N, M) /\ SameColours(N, M)
        <4>1. Shaped(N, sub) /\ Single(N, sub, z)
          BY <1>2, <1>3
        <4> QED  BY ONLY <4>1, AttachRoot
      <3>2. nodes' = M
        BY <1>1, <1>4, <2>1, <3>1
      <3> QED  BY <3>1, <3>2 DEF Relinked, SameColours, Sides
    <2>2. CASE y # NIL
      <3>1. y \in DOMAIN N /\ y # z /\ N[y].hash # h /\ Child(Tree, y, h) = NIL
        BY <1>1, <1>3, <2>2 DEF Places
      <3>2. h \in Nat /\ N[y].hash \in Nat
        <4>1. N[y].hash \in Nat
          BY <1>2, <3>1, NodeFacts DEF Shaped
        <4>2. h = N[z].hash
          BY <1>2 DEF Going
        <4>3. N[z].hash \in Nat
          BY <1>2, <1>3, NodeFacts DEF Shaped
        <4> QED  BY <4>1, <4>2, <4>3
      <3> HIDE DEF N, h
      <3>3. PICK t \in Sides : NIL = N[y][t] /\ t = (IF h < N[y].hash THEN "l" ELSE "r")
        BY <1>4, <3>1, <3>2, ChildIs
      <3>4. PICK M : Attach([root |-> root, n |-> N], z, y, h) = [root |-> root, n |-> M]
                     /\ Hung(N, M, y, z, t)
        BY <1>2, <1>3, <3>1, <3>3, AttachIs
      <3>5. nodes' = M
        BY <1>1, <1>4, <3>4
      <3> QED  BY <3>3, <3>4, <3>5 DEF Hung
    <2> QED  BY <2>1, <2>2
  <1>7. Reddened(nodes', Weights(nodes'), z)
    <2> HIDE DEF N
    <2> QED  BY <1>3, <1>4, <1>5, <1>6, HungColours
  <1> QED  BY <1>1, <1>7 DEF Colours

\* A leaf from the heap, or one of the caches.
LEMMA MallocColours ==
  ASSUME Inv, Colours, ~broken, Malloc
  PROVE  Colours'
  <1>1. Balanced(nodes, Weights(nodes), root) /\ pc \in {"malloc", "again"}
    BY DEF Malloc, Colours, Top
  <1>2. CASE call.kind \in {"mount", "map"}
    <2>1. nodes' = nodes /\ stored' = stored /\ root' = root /\ pc' \in {"idle", "malloc"}
      BY <1>2 DEF Malloc, handle, CacheDone
    <2>2. root = NIL /\ stored = NIL
      BY <1>2 DEF Inv, Phases
    <2> QED  BY <1>1, <2>1, <2>2 DEF Colours, Top
  <1>3. CASE call.kind \notin {"mount", "map"}
    <2>1. PICK a \in DOMAIN blocks : /\ a \in Room(blocks, Want)
                                     /\ nodes' = Sprout(nodes, a, call.hash) /\ z' = a
      BY <1>3 DEF Malloc, FirstOf, Sprout
    <2>2. pc' = "descend" /\ root' = root
      BY <1>3 DEF Malloc
    <2>3. a \notin DOMAIN nodes /\ a # NIL
      <3>1. a # NIL
        BY HeldFacts DEF NIL, Inv
      <3>2. a \notin Used(blocks)
        BY <2>1 DEF Room, Used
      <3> QED  BY <3>1, <3>2 DEF Held, Inv
    <2>4. Balanced(nodes', Weights(nodes'), root)
      <3>1. Mutual(nodes) /\ root \in DOMAIN nodes \cup {NIL}
        BY ShapedMutual DEF Inv, Cursors, Places
      <3> QED  BY <1>1, <2>1, <2>3, <3>1, SproutColours
    <2>5. ~nodes'[z'].black
      BY <2>1 DEF Sprout, Leaf
    <2> QED  BY <2>2, <2>4, <2>5 DEF Colours, Top
  <1> QED  BY <1>2, <1>3

\* The hash is known: the leaf goes again.
LEMMA DuplicateColours ==
  ASSUME Inv, Colours, ~broken, Duplicate
  PROVE  Colours'
  <1>1. /\ pc = "descend" /\ pc' = "return" /\ nodes' = [a \in DOMAIN nodes \ {z} |-> nodes[a]]
        /\ root' = root
    BY DEF Duplicate, locals
  <1>2. PICK sub : Shaped(nodes, sub) /\ Going(sub)
    BY <1>1 DEF Inv, Shapes
  <1>3. /\ z \in DOMAIN nodes /\ nodes[z].p = NIL /\ \A k \in Sides : nodes[z][k] = NIL
        /\ root # z /\ root \in DOMAIN nodes \cup {NIL}
    BY <1>2 DEF Going, Single, Sides, Places
  <1>4. Mutual(nodes) /\ Balanced(nodes, Weights(nodes), root)
    BY <1>1, ShapedMutual DEF Colours, Top
  <1>5. Balanced(nodes', Weights(nodes'), root)
    BY <1>1, <1>3, <1>4, DroppedColours
  <1> QED  BY <1>1, <1>5 DEF Colours, Top

\* Steps that leave the tree alone.
LEMMA LookColours ==
  ASSUME Inv, Colours, ~broken,
         \/ NoRoom \/ Coalesce \/ Coalesced \/ OutOfMemory \/ Descend \/ Search \/ Missing
         \/ Insert \/ Erase \/ Mount \/ Index \/ IndexNext \/ Indexed \/ Put \/ Remove
  PROVE  Colours'
  <1> DEFINE Busy == {"fixinsert", "sibling", "nephews", "deleted", "crashed"}
  <1>1. /\ nodes' = nodes /\ z' = z /\ pc \notin Busy /\ pc' \notin Busy
        /\ pc' = "descend" => pc = "descend"
    BY DEF NoRoom, Coalesce, Coalesced, OutOfMemory, Descend, Search, Missing, Insert, Erase,
           Mount, Index, IndexNext, Indexed, Put, Remove, Begin, Keeper, Library, locals, CacheDone
  <1>2. Top' = Top
    <2>1. CASE NoRoom \/ Coalesce \/ Coalesced \/ Descend \/ Search \/ Missing
      BY <2>1 DEF NoRoom, Coalesce, Coalesced, Descend, Search, Missing, handle, locals, Top
    <2>2. CASE OutOfMemory
      <3>1. call.kind \in {"mount", "map"} => root = NIL /\ stored = NIL
        BY DEF Inv, Phases
      <3> QED  BY <2>2, <3>1 DEF OutOfMemory, CacheDone, handle, Top
    <2>3. CASE Insert \/ Erase \/ Mount \/ IndexNext
      BY <2>3 DEF Insert, Erase, Mount, IndexNext, Begin, Keeper, Library, handle, Top
    <2>4. CASE Index \/ Indexed \/ Remove
      BY <2>4 DEF Index, Indexed, Remove, Library, handle, locals, Top
    <2>5. CASE Put
      BY <2>5 DEF Put, Begin, Library, handle, Top
    <2> QED  BY <2>1, <2>2, <2>3, <2>4, <2>5
  <1>3. Balanced(nodes, Weights(nodes), Top)
    BY <1>1 DEF Colours
  <1>4. pc' = "descend" => ~nodes'[z'].black
    BY <1>1 DEF Colours
  <1>5. Balanced(nodes', Weights(nodes'), Top')
    BY <1>1, <1>2, <1>3
  <1> QED  BY <1>1, <1>4, <1>5 DEF Colours

\* The caller gets the root; or the handle is emptied.
LEMMA ReturnColours ==
  ASSUME Colours, ~broken', Return
  PROVE  Colours'
  <1>1. /\ pc = "return" /\ pc' \in {"idle", "index"} /\ nodes' = nodes
        /\ stored' = root /\ ~broken
    BY DEF Return
  <1>2. Balanced(nodes, Weights(nodes), root)
    BY <1>1 DEF Colours, Top
  <1>3. Balanced(nodes', Weights(nodes'), Top')
    BY <1>1, <1>2 DEF Top
  <1> QED  BY <1>1, <1>3 DEF Colours

LEMMA CloseColours ==
  ASSUME Close \/ Unload
  PROVE  Colours'
  <1>1. pc' = "idle" /\ stored' = NIL /\ DOMAIN nodes' = {}
    BY DEF Close, Unload, Closed, Library
  <1>2. Balanced(nodes', Weights(nodes'), Top')
    BY <1>1, NoColours DEF Top
  <1> QED  BY <1>1, <1>2 DEF Colours

LEMMA StepColours == Inv /\ Colours /\ [Next]_vars => Colours'
  <1> SUFFICES ASSUME Inv, Colours, [Next]_vars, ~broken'  PROVE Colours'
    BY DEF Colours
  <1>1. CASE Close \/ Unload
    BY <1>1, CloseColours
  <1>2. CASE ~(Close \/ Unload)
    <2>1. ~broken
      BY <1>2 DEF Next, HeapStep, InsertStep, DeleteStep, Client, Malloc, NoRoom, Coalesce,
                  Coalesced, OutOfMemory, Descend, Duplicate, Link, FixInsert, InsertFixed,
                  Search, Missing, Delete, FixSibling, FixParent, FixNephews, DeleteFixed,
                  Crash, Return, Insert, Erase, Mount, Index, IndexNext, Indexed, Put, Remove,
                  vars
    <2>2. CASE HeapStep
      BY <2>1, <2>2, MallocColours, LookColours DEF HeapStep
    <2>3. CASE InsertStep
      BY <2>1, <2>3, DuplicateColours, LinkColours, FixInsertColours, InsertFixedColours,
         LookColours DEF InsertStep
    <2>4. CASE DeleteStep
      BY <2>1, <2>4, DeleteColours, FixSiblingColours, FixParentColours, FixNephewsColours,
         DeleteFixedColours, LookColours DEF DeleteStep
    <2>5. CASE Crash
      BY <2>5 DEF Crash, Colours
    <2>6. CASE Return
      BY <2>6, ReturnColours
    <2>7. CASE Client
      BY <1>2, <2>1, <2>7, LookColours DEF Client
    <2>8. CASE UNCHANGED vars
      <3>1. UNCHANGED <<nodes, stored, root, x, y, z, pc, broken>>
        BY <2>8 DEF vars, handle, locals
      <3>2. Top' = Top
        BY <3>1 DEF Top
      <3> QED  BY <2>1, <3>1, <3>2 DEF Colours
    <2> QED  BY <2>2, <2>3, <2>4, <2>5, <2>6, <2>7, <2>8 DEF Next
  <1> QED  BY <1>1, <1>2

LEMMA InitColours == Init => Colours
  <1> SUFFICES ASSUME Init  PROVE Colours
    OBVIOUS
  <1>1. pc = "idle" /\ stored = NIL /\ DOMAIN nodes = {}
    BY DEF Init
  <1>2. Balanced(nodes, Weights(nodes), Top)
    BY <1>1, NoColours DEF Top
  <1> QED  BY <1>1, <1>2 DEF Colours

-----------------------------------------------------------------------------
(* Equal ways: equally many black nodes above the empty places.            *)
BlackOver(N, W, sub, a) == {b \in DOMAIN N : W[b] = 1 /\ a \in sub[b]}

LEMMA AboveIs ==
  ASSUME NEW N, NEW sub, Shaped(N, sub), IsFiniteSet(DOMAIN N), NEW W \in [DOMAIN N -> {0, 1}],
         NEW c \in DOMAIN N, N[c].p # NIL
  PROVE  /\ N[c].p \in DOMAIN N /\ sub[c] \subseteq sub[N[c].p] /\ N[c].p \in sub[N[c].p]
         /\ N[c].p \notin sub[c] /\ \E s \in Sides : N[N[c].p][s] = c
         /\ Cardinality(BlackOver(N, W, sub, c)) = Cardinality(BlackOver(N, W, sub, N[c].p)) + W[c]
  <1> DEFINE D == DOMAIN N
             p == N[c].p
             A == BlackOver(N, W, sub, c)
             B == BlackOver(N, W, sub, p)
  <1>1. p \in D /\ p # NIL
    BY NodeFacts DEF Shaped
  <1>2. PICK s \in Sides : N[p][s] = c
    BY DEF Shaped
  <1>3. sub[c] \subseteq sub[p] /\ p \in sub[p] /\ p \notin sub[c] /\ c \in sub[c]
    BY <1>1, <1>2, Beside DEF Shaped
  <1>4. ASSUME NEW b \in D  PROVE c \in sub[b] <=> b = c \/ p \in sub[b]
    <2>1. ASSUME c \in sub[b], b # c  PROVE p \in sub[b]
      BY <2>1, Downward
    <2>2. ASSUME p \in sub[b]  PROVE c \in sub[b]
      <3>1. sub[p] \subseteq sub[b]
        BY <2>2, Downward
      <3> QED  BY <1>3, <3>1
    <2> QED  BY <1>3, <2>1, <2>2
  <1>5. A = B \cup {b \in {c} : W[b] = 1} /\ c \notin B /\ B \subseteq D
    BY <1>3, <1>4 DEF BlackOver
  <1> HIDE DEF A, B, p
  <1>6. IsFiniteSet(B)
    BY <1>5, FS_Subset
  <1>7. Cardinality(A) = Cardinality(B) + W[c] /\ Cardinality(B) \in Nat
    <2>0. Cardinality(B) \in Nat
      BY <1>6, FS_CardinalityType
    <2>1. CASE W[c] = 1
      <3>1. A = B \cup {c}
        BY <1>5, <2>1
      <3>2. Cardinality(B \cup {c}) = Cardinality(B) + 1
        BY <1>5, <1>6, FS_AddElement
      <3> QED  BY <2>0, <2>1, <3>1, <3>2
    <2>2. CASE W[c] = 0
      <3>1. A = B
        BY <1>5, <2>2
      <3> QED  BY <2>0, <2>2, <3>1
    <2> QED  BY <2>0, <2>1, <2>2
  <1> QED  BY <1>1, <1>2, <1>3, <1>7 DEF A, B, p

LEMMA WaysAreCounted ==
  ASSUME NEW N, NEW sub, Shaped(N, sub), IsFiniteSet(DOMAIN N), NEW W, NEW H, Level(N, W, H),
         NEW q \in DOMAIN N, sub[q] = DOMAIN N, N[q].p = NIL, W[q] = 1
  PROVE  \A a \in DOMAIN N : H[q] = Cardinality(BlackOver(N, W, sub, a)) + H[a] - W[a]
  <1> DEFINE D == DOMAIN N
             n(a) == Cardinality(BlackOver(N, W, sub, a))
             Counted(a) == H[q] = n(a) + H[a] - W[a]
             F == {D \ sub[a] : a \in {b \in D : ~Counted(b)}}
  <1>1. /\ W \in [D -> {0, 1}] /\ H \in [D \cup {NIL} -> Int]
        /\ \A a \in D, s \in Sides : H[a] = W[a] + H[N[a][s]] + 0
    BY DEF Level
  <1>2. \A a \in D : n(a) \in Nat
    <2>1. ASSUME NEW a \in D  PROVE n(a) \in Nat
      <3>1. BlackOver(N, W, sub, a) \subseteq D
        BY DEF BlackOver
      <3> QED  BY <3>1, FS_Subset, FS_CardinalityType
    <2> QED  BY <2>1
  <1>3. Counted(q)
    <2>1. BlackOver(N, W, sub, q) = {q}
      <3>1. q \in sub[q]
        OBVIOUS
      <3>2. ASSUME NEW b \in D, q \in sub[b]  PROVE b = q
        BY <3>2, Downward
      <3> QED  BY <3>1, <3>2 DEF BlackOver
    <2>2. n(q) = 1
      BY <2>1, FS_Singleton
    <2> HIDE DEF n
    <2> QED  BY <1>1, <2>2
  <1>4. F = {}
    <2> SUFFICES ASSUME F # {}  PROVE FALSE
      OBVIOUS
    <2>1. F \subseteq SUBSET D
      OBVIOUS
    <2>2. \E s \in F : \A t \in F : t \subseteq s => t = s
      <3> HIDE DEF F
      <3> QED  BY <2>1, SmallestSet
    <2>3. \A t \in F : \E c \in D : ~Counted(c) /\ t = D \ sub[c]
      <3> HIDE DEF Counted
      <3> QED  OBVIOUS
    <2>4. PICK c \in D : ~Counted(c) /\ \A t \in F : t \subseteq D \ sub[c] => t = D \ sub[c]
      <3> HIDE DEF Counted, F
      <3> QED  BY <2>2, <2>3
    <2>5. c # q
      <3> HIDE DEF Counted
      <3> QED  BY <1>3, <2>4
    <2>6. N[c].p # NIL
      BY <2>5, OnlyRoot
    <2> DEFINE p == N[c].p
    <2>7. /\ p \in D /\ sub[c] \subseteq sub[p] /\ p \in sub[p] /\ p \notin sub[c]
          /\ (\E s \in Sides : N[p][s] = c) /\ n(c) = n(p) + W[c]
      BY <1>1, <2>6, AboveIs
    <2>8. Counted(p)
      <3> HIDE DEF Counted, p
      <3>1. D \ sub[p] \subseteq D \ sub[c] /\ D \ sub[p] # D \ sub[c]
        BY <2>7
      <3>2. D \ sub[p] \notin F
        <4> HIDE DEF F
        <4> QED  BY <2>4, <3>1
      <3> QED  BY <2>7, <3>2
    <2> HIDE DEF n, p
    <2>9. H[p] = W[p] + H[c] + 0
      BY <1>1, <2>7
    <2>10. {H[q], H[p], H[c], W[p], W[c], n(p), n(c)} \subseteq Int
      <3>1. W[p] \in Int /\ W[c] \in Int /\ H[p] \in Int /\ H[c] \in Int /\ H[q] \in Int
        BY <1>1, <2>7
      <3> QED  BY <1>2, <2>7, <3>1
    <2>11. n(c) = n(p) + W[c]
      BY <2>7
    <2> QED  BY <2>4, <2>8, <2>9, <2>10, <2>11
  <1>5. \A a \in D : Counted(a)
    <2> HIDE DEF Counted
    <2> QED  BY <1>4
  <1> QED  BY <1>5

(* Between two calls the tree is a red-black one: as long as no node with  *)
(* two children was deleted (ecache_delete), and no root lost.             *)
THEOREM IndexIsRedBlack == Spec => []RedBlack
  <1>1. Inv /\ Colours => RedBlack
    <2> SUFFICES ASSUME Inv, Colours, pc = "idle", stored # NIL, ~broken
                 PROVE  /\ nodes[stored].p = NIL /\ nodes[stored].black
                        /\ \A a \in DOMAIN nodes \ {stored} :
                             nodes[a].black \/ nodes[nodes[a].p].black
                        /\ \A a, b \in DOMAIN nodes :
                             NIL \in {nodes[a].l, nodes[a].r} /\ NIL \in {nodes[b].l, nodes[b].r}
                               => BlackAbove(a) = BlackAbove(b)
      BY DEF RedBlack
    <2> DEFINE N == nodes
               D == DOMAIN nodes
               W == Weights(nodes)
    <2>1. PICK sub : /\ Shaped(N, sub) /\ Sorted(N, sub) /\ Rules(N, sub, stored, {})
                     /\ stored \in D /\ IsFiniteSet(D) /\ sub[stored] = D /\ N[stored].p = NIL
      <3>1. PICK sub : Shaped(N, sub) /\ Sorted(N, sub) /\ Rules(N, sub, stored, {})
        BY DEF Inv, Shapes, Good, Top, Loose
      <3>2. stored \in D /\ IsFiniteSet(D)
        BY HeldFacts DEF Inv, Phases, Cursors, Places
      <3> QED  BY <3>1, <3>2 DEF Rules
    <2>2. Mutual(N)
      BY ShapedMutual
    <2>3. Balanced(N, W, stored)
      BY DEF Colours, Top
    <2>4. \A a \in D : (W[a] = 1 <=> N[a].black) /\ (W[a] = 0 <=> ~N[a].black)
      BY <2>1, WeightsAre DEF Shaped
    <2>5. W[stored] = 1 /\ N[stored].black
      BY <2>1, <2>3, <2>4 DEF Balanced
    <2>6. ASSUME NEW a \in D \ {stored}  PROVE N[a].black \/ N[N[a].p].black
      <3>1. N[a].p \in D
        BY <2>1, <2>2, OnlyRoot DEF Mutual
      <3>2. N[a].p # NIL
        BY <2>2, <3>1 DEF Mutual
      <3>3. ~(W[a] = 0 /\ W[N[a].p] = 0)
        BY <2>3, <3>2 DEF Balanced, Calm
      <3> QED  BY <2>4, <3>1, <3>3, Zenon
    <2>7. PICK H : Level(N, W, H)
      <3>1. NIL \notin D /\ \E H : Even(N, W, H, NIL, "l")
        BY <2>2, <2>3 DEF Balanced, Mutual
      <3> HIDE DEF N, W
      <3> QED  BY <3>1, EvenIs DEF N
    <2>8. ASSUME NEW a \in D, NIL \in {N[a].l, N[a].r}  PROVE BlackAbove(a) = H[stored]
      <3>1. H[stored] = Cardinality(BlackOver(N, W, sub, a)) + H[a] - W[a]
        BY <2>1, <2>5, <2>7, WaysAreCounted
      <3>2. PICK s \in Sides : N[a][s] = NIL
        BY <2>8, SideFacts
      <3>3. H[a] = W[a] + H[NIL] + 0 /\ H[NIL] = 0 /\ W[a] \in {0, 1}
        BY <2>7, <3>2 DEF Level
      <3>4. \A b \in D : Below(Tree, b) = sub[b]
        <4>1. Tree.n = N
          BY DEF Tree
        <4> QED  BY <2>1, <4>1, BelowIsSub
      <3>5. {b \in D : N[b].black /\ a \in Below(Tree, b)} = BlackOver(N, W, sub, a)
        BY <2>4, <3>4, Zenon DEF BlackOver
      <3>6. BlackAbove(a) = Cardinality(BlackOver(N, W, sub, a))
        BY <3>5, Zenon DEF BlackAbove
      <3>7. Cardinality(BlackOver(N, W, sub, a)) \in Nat
        <4>1. BlackOver(N, W, sub, a) \subseteq D
          BY DEF BlackOver
        <4> QED  BY <2>1, <4>1, FS_Subset, FS_CardinalityType
      <3> QED  BY <3>1, <3>3, <3>6, <3>7
    <2> QED  BY <2>1, <2>5, <2>6, <2>8
  <1>2. Inv /\ Colours /\ [Next]_vars => (Inv /\ Colours)'
    BY StepInv, StepColours
  <1> QED  BY <1>1, <1>2, InitInv, InitColours, PTL DEF Spec
=============================================================================
