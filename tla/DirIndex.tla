------------------------------ MODULE DirIndex ------------------------------
(***************************************************************************)
(* The index of an open directory: the names on disk, the tree that        *)
(* answers for them (src/src/ecache.c as entry.c, ctable.c and nifat32.c   *)
(* call it) and the heap the nodes come from (std/mm.c).                   *)
(*                                                                         *)
(* The API lock lets one call run at a time; each turn of a loop is a step *)
(* of the model.  Two kinds of callers are modelled.  The library itself   *)
(* indexes a directory, adds entries and closes; entry_add discards the    *)
(* root ecache_insert returns.  Callers of ecache.h that keep the root, as *)
(* entry_index does, and the unit test, also delete.                       *)
(* A name stands for its hash: two names with one hash are left out, and   *)
(* so is indexing an open handle a second time.                            *)
(***************************************************************************)
EXTENDS EntryCache, FiniteSetsExt

CONSTANTS
  Names,           (* bound: the hashes of names each caller uses          *)
  NodeSize,        (* sizeof(ecache_t)                                     *)
  FatSizes,        (* sizes of the FAT caches of the volumes there are     *)
  MapSize          (* sizes of their bitmaps                               *)

Callers == {"library", "keeper"}
Hashes  == Names["library"] \cup Names["keeper"]

ASSUME DirIndexAssumption ==
  /\ Names \in [Callers -> SUBSET Nat]
  /\ NodeSize \in Nat \ {0} /\ FatSizes \subseteq Nat \ {0}
  /\ MapSize \in [FatSizes -> Nat \ {0}]

Kinds  == {"none", "mount", "map", "index", "add", "insert", "delete"}
NoCall == [kind |-> "none", hash |-> 0]

VARIABLES
  caller,    (* who calls; never changes                                   *)
  blocks,    (* the heap                                                   *)
  allocated, (* _allocated                                                 *)
  fat,       (* _fat, the FAT cache                                        *)
  map,       (* _bitmap                                                    *)
  mapsize,   (* the size it was asked for with                             *)
  fatsize,   (* the size of the FAT cache of the volume last mounted       *)
  mounted,   (* a volume is mounted                                        *)
  files,     (* the names in the directory, or those a keeper has put in   *)
  drift,     (* names the index may know that are not on disk              *)
  nodes,     (* the nodes of the handle's tree                             *)
  lost,      (* nodes that were not freed when it was closed               *)
  stored,    (* index.root of the handle, the root a caller keeps          *)
  indexed,   (* the handle has been indexed                                *)
  todo,      (* names entry_index has not come to                          *)
  pc,        (* where the call is                                          *)
  call,      (* the call under way                                         *)
  root,      (* its local root                                             *)
  x, y, z,   (* its local x, x's parent, and z                             *)
  broken     (* a root has moved unnoticed, or a node with two children    *)
             (* has been deleted                                           *)

heap   == <<blocks, allocated>>
caches == <<fat, map, mapsize>>
volume == <<mounted, fatsize, files, drift>>
handle == <<stored, indexed, todo, lost>>
locals == <<call, root, x, y, z>>
vars   == <<caller, heap, caches, volume, nodes, handle, pc, locals, broken>>

Tree == [root |-> root, n |-> nodes]

Init ==
  /\ caller \in Callers
  /\ blocks = Whole /\ allocated = 0
  /\ fat = NIL /\ map = NIL /\ mapsize = 0 /\ fatsize = 0 /\ mounted = FALSE /\ files = {} /\ drift = {}
  /\ nodes = [a \in {} |-> Leaf(0)]
  /\ stored = NIL /\ indexed = FALSE /\ todo = {} /\ lost = {}
  /\ pc = "idle" /\ call = NoCall
  /\ root = NIL /\ x = NIL /\ y = NIL /\ z = NIL /\ broken = FALSE

-----------------------------------------------------------------------------
(* nft32_malloc_s: first fit, and when there is no room once more after    *)
(* all free neighbours have been merged.                                   *)
Want ==
  CASE call.kind = "mount" -> fatsize
    [] call.kind = "map"   -> mapsize
    [] OTHER               -> NodeSize

(* NIFAT32_init goes on behind fat_cache_init: with MAP_CACHE fatmap_init  *)
(* makes the bitmap, but keeps the one there is.                           *)
CacheDone ==
  \/ pc' = "idle" /\ call' = NoCall /\ UNCHANGED mapsize
  \/ /\ map = NIL
     /\ pc' = "malloc" /\ call' = [kind |-> "map", hash |-> 0]
     /\ mapsize' = MapSize[fatsize]

Malloc ==
  /\ pc \in {"malloc", "again"}
  /\ \E a \in DOMAIN blocks :
       /\ FirstOf(a, Room(blocks, Want))
       /\ blocks' = Take(blocks, a, Want)
       /\ allocated' = allocated + blocks'[a].size + Header
       /\ \/ /\ call.kind = "mount"
             /\ fat' = a /\ CacheDone
             /\ UNCHANGED <<map, nodes, x, y, z>>
          \/ /\ call.kind = "map"
             /\ map' = a /\ pc' = "idle" /\ call' = NoCall
             /\ UNCHANGED <<fat, mapsize, nodes, x, y, z>>
          \/ /\ call.kind \notin {"mount", "map"}
             /\ nodes' = [c \in DOMAIN nodes \cup {a} |->
                            IF c = a THEN Leaf(call.hash) ELSE nodes[c]]
             /\ x' = root /\ y' = NIL /\ z' = a
             /\ pc' = "descend"
             /\ UNCHANGED <<caches, call>>
  /\ UNCHANGED <<caller, volume, handle, root, broken>>

NoRoom ==
  /\ pc = "malloc" /\ Room(blocks, Want) = {}
  /\ pc' = "merge"
  /\ UNCHANGED <<caller, heap, caches, volume, nodes, handle, locals, broken>>

Coalesce ==
  /\ pc = "merge"
  /\ \E a \in DOMAIN blocks : FirstOf(a, Pairs(blocks)) /\ blocks' = Merge(blocks, a)
  /\ UNCHANGED <<caller, allocated, caches, volume, nodes, handle, pc, locals, broken>>

\* Mutant: a single pair is merged.
Coalesced_Once ==
  /\ pc = "merge"
  /\ pc' = "again"
  /\ UNCHANGED <<caller, heap, caches, volume, nodes, handle, locals, broken>>

Coalesced ==
  /\ pc = "merge" /\ Pairs(blocks) = {}
  /\ pc' = "again"
  /\ UNCHANGED <<caller, heap, caches, volume, nodes, handle, locals, broken>>

\* NULL: ecache_insert returns its root; the mount goes on without the cache.
OutOfMemory ==
  /\ pc = "again" /\ Room(blocks, Want) = {}
  /\ CASE call.kind = "mount" -> CacheDone
       [] call.kind = "map"   -> pc' = "idle" /\ call' = NoCall /\ UNCHANGED mapsize
       [] OTHER               -> pc' = "return" /\ UNCHANGED <<call, mapsize>>
  /\ UNCHANGED <<caller, heap, fat, map, volume, nodes, handle, root, x, y, z, broken>>

\* nft32_free_s of each of a set of blocks.
Free(S) ==
  /\ blocks' = Release(blocks, S)
  /\ allocated' = allocated - MapThenSumSet(LAMBDA a : blocks[a].size + Header, S)
-----------------------------------------------------------------------------
(* ecache_insert: down to an empty place, or to a node with the hash.      *)
Descend ==
  /\ pc = "descend" /\ x # NIL /\ nodes[x].hash # call.hash
  /\ y' = x /\ x' = Child(Tree, x, call.hash)
  /\ UNCHANGED <<caller, heap, caches, volume, nodes, handle, pc, call, root, z, broken>>

Duplicate ==
  /\ pc = "descend" /\ x # NIL /\ nodes[x].hash = call.hash
  /\ Free({z})
  /\ nodes' = [a \in DOMAIN nodes \ {z} |-> nodes[a]]
  /\ pc' = "return"
  /\ UNCHANGED <<caller, caches, volume, handle, locals, broken>>

Grow(T) == root' = T.root /\ nodes' = T.n

Link ==
  /\ pc = "descend" /\ x = NIL
  /\ Grow(Attach(Tree, z, y, call.hash))
  /\ files' = IF caller = "keeper" THEN files \cup {call.hash} ELSE files
  /\ pc' = "fixinsert"
  /\ UNCHANGED <<caller, heap, caches, mounted, fatsize, drift, handle, call, x, y, z, broken>>

\* The loop of _fix_insert goes on; the grandparent is z->p->p.
Above  == nodes[z].p
RedTop == Above # NIL /\ Red(Tree, Above)

FixInsert ==
  /\ pc = "fixinsert" /\ RedTop /\ nodes[Above].p # NIL
  /\ IF Red(Tree, Uncle(Tree, z))
     THEN Grow(PushUp(Tree, z)) /\ z' = nodes[Above].p
     ELSE LET R == RotateUp(Tree, z) IN Grow(R.tree) /\ z' = R.z
  /\ UNCHANGED <<caller, heap, caches, volume, handle, pc, call, x, y, broken>>

InsertFixed ==
  /\ pc = "fixinsert" /\ ~RedTop
  /\ Grow(Paint(Tree, {root}, TRUE))
  /\ pc' = "return"
  /\ UNCHANGED <<caller, heap, caches, volume, handle, call, x, y, z, broken>>
-----------------------------------------------------------------------------
\* ecache_find in ecache_delete.
Search ==
  /\ pc = "search" /\ x # NIL /\ nodes[x].hash # call.hash
  /\ x' = Child(Tree, x, call.hash)
  /\ UNCHANGED <<caller, heap, caches, volume, nodes, handle, pc, call, root, y, z, broken>>

Missing ==
  /\ pc = "search" /\ x = NIL
  /\ pc' = "return"
  /\ UNCHANGED <<caller, heap, caches, volume, nodes, handle, locals, broken>>

Delete ==
  /\ pc = "search" /\ x # NIL /\ nodes[x].hash = call.hash
  /\ LET U == Unlink(Tree, x) IN
       /\ Grow(U.tree) /\ x' = U.x /\ y' = U.xp
       /\ pc' = IF U.fix THEN "sibling" ELSE "return"
  /\ Free({x})
  /\ files' = files \ {call.hash}
  /\ broken' = (broken \/ NIL \notin {nodes[x].l, nodes[x].r})
  /\ UNCHANGED <<caller, caches, mounted, fatsize, drift, handle, call, z>>

(* _fix_delete: the side of x, which may be null, and its sibling w.       *)
Side    == IF nodes[y].l = x THEN "l" ELSE "r"
Sibling == nodes[y][Other(Side)]
ToFix   == x # root /\ Black(Tree, x)

FixSibling ==
  /\ pc = "sibling" /\ ToFix /\ Sibling # NIL
  /\ Grow(IF Red(Tree, Sibling)
          THEN Rotate(Paint(Paint(Tree, {Sibling}, TRUE), {y}, FALSE), y, Side)
          ELSE Tree)
  /\ pc' = "nephews"
  /\ UNCHANGED <<caller, heap, caches, volume, handle, call, x, y, z, broken>>

Near == nodes[Sibling][Side]
Far  == nodes[Sibling][Other(Side)]

FixParent ==
  /\ pc = "nephews" /\ Sibling # NIL
  /\ Black(Tree, Near) /\ Black(Tree, Far)
  /\ Grow(Paint(Tree, {Sibling}, FALSE))
  /\ x' = y /\ y' = nodes[y].p
  /\ pc' = "sibling"
  /\ UNCHANGED <<caller, heap, caches, volume, handle, call, z, broken>>

\* Mutant: the far nephew is not made black.
FixNephews_FarRed ==
  /\ pc = "nephews" /\ Sibling # NIL
  /\ ~(Black(Tree, Near) /\ Black(Tree, Far))
  /\ LET s == Side
         A == IF Red(Tree, Far) THEN Tree
              ELSE Rotate(Paint(Paint(Tree, {Near}, TRUE), {Sibling}, FALSE),
                          Sibling, Other(s))
         w == A.n[y][Other(s)]
         B == Paint(Paint(A, {w}, nodes[y].black), {y}, TRUE)
         C == Rotate(B, y, s)
     IN Grow(C) /\ x' = C.root
  /\ pc' = "deleted"
  /\ UNCHANGED <<caller, heap, caches, volume, handle, call, y, z, broken>>

FixNephews ==
  /\ pc = "nephews" /\ Sibling # NIL
  /\ ~(Black(Tree, Near) /\ Black(Tree, Far))
  /\ LET s == Side
         A == IF Red(Tree, Far) THEN Tree
              ELSE Rotate(Paint(Paint(Tree, {Near}, TRUE), {Sibling}, FALSE),
                          Sibling, Other(s))
         w == A.n[y][Other(s)]
         B == Paint(Paint(A, {w}, nodes[y].black), {y, A.n[w][Other(s)]}, TRUE)
         C == Rotate(B, y, s)
     IN Grow(C) /\ x' = C.root
  /\ pc' = "deleted"
  /\ UNCHANGED <<caller, heap, caches, volume, handle, call, y, z, broken>>

DeleteFixed ==
  /\ pc = "deleted" \/ (pc = "sibling" /\ ~ToFix)
  /\ Grow(Paint(Tree, {x}, TRUE))
  /\ pc' = "return"
  /\ UNCHANGED <<caller, heap, caches, volume, handle, call, x, y, z, broken>>

(* A null pointer is followed: gp in _fix_insert, the sibling w in         *)
(* _fix_delete.                                                            *)
Crash ==
  /\ \/ pc = "fixinsert" /\ RedTop /\ nodes[Above].p = NIL
     \/ pc = "sibling" /\ ToFix /\ Sibling = NIL
     \/ pc = "nephews" /\ Sibling = NIL
  /\ pc' = "crashed"
  /\ UNCHANGED <<caller, heap, caches, volume, nodes, handle, locals, broken>>

(* entry_index and the keepers store the root they are given, entry_add    *)
(* does not.                                                               *)
Return ==
  /\ pc = "return"
  /\ stored' = IF call.kind = "add" THEN stored ELSE root
  /\ broken' = (broken \/ stored' # root)
  /\ pc' = IF call.kind = "index" THEN "index" ELSE "idle"
  /\ call' = NoCall /\ root' = NIL /\ x' = NIL /\ y' = NIL /\ z' = NIL
  /\ UNCHANGED <<caller, heap, caches, volume, nodes, indexed, todo, lost>>
-----------------------------------------------------------------------------
Begin(kind, h, at) ==
  /\ call' = [kind |-> kind, hash |-> h]
  /\ pc' = at /\ root' = stored
  /\ x' = IF kind = "delete" THEN stored ELSE NIL

(* What ecache_find finds, from the stored root on. *)
Path(h) ==
  {a \in DOMAIN nodes :
     \A C \in SUBSET DOMAIN nodes :
       (stored \in C /\ \A b \in C : nodes[b].hash # h /\ Child(Tree, b, h) # NIL
                                         => Child(Tree, b, h) \in C) => a \in C}
Hit(h) == stored # NIL /\ \E a \in Path(h) : nodes[a].hash = h

Keeper  == pc = "idle" /\ caller = "keeper"
Library == pc = "idle" /\ caller = "library"

Insert ==
  /\ Keeper
  /\ \E h \in Names[caller] : Begin("insert", h, "malloc")
  /\ UNCHANGED <<caller, heap, caches, volume, nodes, handle, y, z, broken>>

Erase ==
  /\ Keeper
  /\ \E h \in Names[caller] : Begin("delete", h, "search")
  /\ UNCHANGED <<caller, heap, caches, volume, nodes, handle, y, z, broken>>

\* NIFAT32_init: fat_cache_init.
Mount ==
  /\ Library /\ ~mounted
  /\ mounted' = TRUE /\ fatsize' \in FatSizes
  /\ Begin("mount", 0, "malloc")
  /\ UNCHANGED <<caller, heap, caches, files, drift, nodes, handle, y, z, broken>>

\* NIFAT32_open_content of the directory, NIFAT32_index_content.
Index ==
  /\ Library /\ mounted /\ ~indexed
  /\ indexed' = TRUE /\ todo' = files
  /\ pc' = "index"
  /\ UNCHANGED <<caller, heap, caches, volume, nodes, stored, lost, locals, broken>>

\* _index_handler for the next entry.
IndexNext ==
  /\ pc = "index"
  /\ \E h \in todo : Begin("index", h, "malloc") /\ todo' = todo \ {h}
  /\ UNCHANGED <<caller, heap, caches, volume, nodes, stored, indexed, lost, y, z, broken>>

Indexed ==
  /\ pc = "index" /\ todo = {}
  /\ pc' = "idle"
  /\ UNCHANGED <<caller, heap, caches, volume, nodes, handle, locals, broken>>

(* NIFAT32_put_content: neither the index nor a scan finds the name.       *)
(* entry_add tells the index, when it has a root, and writes the entry,    *)
(* which may fail.                                                         *)
Put ==
  /\ Library /\ mounted
  /\ \E h \in Names[caller] \ files, written \in BOOLEAN :
       /\ ~Hit(h)
       /\ files' = IF written THEN files \cup {h} ELSE files
       /\ IF stored = NIL
          THEN UNCHANGED <<drift, pc, call, root, x>>
          ELSE /\ drift' = IF written THEN drift ELSE drift \cup {h}
               /\ Begin("add", h, "malloc")
  /\ UNCHANGED <<caller, heap, caches, mounted, fatsize, nodes, handle, y, z, broken>>

(* NIFAT32_delete_content through the file's own handle, whose index is    *)
(* NO_ECACHE: the index of the directory is not told.                      *)
Remove ==
  /\ Library /\ mounted
  /\ \E h \in files :
       /\ files' = files \ {h}
       /\ drift' = IF stored = NIL THEN drift ELSE drift \cup {h}
  /\ UNCHANGED <<caller, heap, caches, mounted, fatsize, nodes, handle, pc, locals, broken>>

(* The handle is emptied: what its root does not lead to is lost. *)
Closed ==
  /\ nodes' = [a \in {} |-> Leaf(0)]
  /\ lost' = lost \cup (DOMAIN nodes \ Below(Tree, stored))
  /\ stored' = NIL /\ indexed' = FALSE /\ drift' = {} /\ broken' = FALSE

\* Mutant: the children of the root are forgotten.
Close_RootOnly ==
  /\ pc = "idle" /\ (indexed \/ stored # NIL)
  /\ Free({stored} \ {NIL}) /\ Closed
  /\ files' = IF caller = "keeper" THEN {} ELSE files
  /\ UNCHANGED <<caller, caches, mounted, fatsize, todo, pc, locals>>

\* NIFAT32_close_content (destroy_content), ecache_free.
Close ==
  /\ pc = "idle" /\ (indexed \/ stored # NIL)
  /\ Free(Below(Tree, stored)) /\ Closed
  /\ files' = IF caller = "keeper" THEN {} ELSE files
  /\ UNCHANGED <<caller, caches, mounted, fatsize, todo, pc, locals>>

\* NIFAT32_unload: fat_cache_unload, ctable_destroy.  Nobody unloads the bitmap.
Unload ==
  /\ Library /\ mounted
  /\ mounted' = FALSE /\ fat' = NIL
  /\ Free(Below(Tree, stored) \cup ({fat} \ {NIL})) /\ Closed
  /\ UNCHANGED <<caller, map, mapsize, fatsize, files, todo, pc, locals>>

HeapStep   == Malloc \/ NoRoom \/ Coalesce \/ Coalesced \/ OutOfMemory
InsertStep == Descend \/ Duplicate \/ Link \/ FixInsert \/ InsertFixed
DeleteStep == Search \/ Missing \/ Delete \/ FixSibling \/ FixParent \/ FixNephews
                \/ DeleteFixed
Client     == Insert \/ Erase \/ Mount \/ Index \/ IndexNext \/ Indexed \/ Put \/ Remove
                \/ Close \/ Unload
Next       == HeapStep \/ InsertStep \/ DeleteStep \/ Crash \/ Return \/ Client

Spec == Init /\ [][Next]_vars
-----------------------------------------------------------------------------
InUse == {a \in DOMAIN blocks : ~blocks[a].free}

(* The blocks of the pool neither overlap nor get lost, whatever has been  *)
(* split, freed and merged (__malloc_s, __coalesce_memory).                *)
HeapTiled == Tiled(blocks)

TypeOK ==
  /\ caller \in Callers /\ mounted \in BOOLEAN /\ indexed \in BOOLEAN
  /\ fatsize \in FatSizes \cup {0} /\ files \subseteq Hashes /\ drift \subseteq Hashes /\ todo \subseteq Hashes
  /\ {fat, map, stored, root, x, y, z} \subseteq 0 .. Pool \cup {NIL}
  /\ mapsize \in {0} \cup {MapSize[n] : n \in FatSizes}
  /\ call \in [kind : Kinds, hash : Hashes \cup {0}]

(* Types, and between two calls the heap and its users agree: _allocated   *)
(* is what the blocks in use take; these are the FAT cache, the bitmap,    *)
(* which stays when the volume is unloaded, the nodes and what a close     *)
(* lost, each in a block of its own that is large enough; and as long as   *)
(* no root was lost the nodes are those below the stored root, so that     *)
(* ecache_free finds each of them.                                         *)
Caches == {fat, map} \ {NIL}

Owned ==
  /\ TypeOK
  /\ pc = "idle" =>
       /\ allocated = MapThenSumSet(LAMBDA a : blocks[a].size + Header, InUse)
       /\ InUse = DOMAIN nodes \cup lost \cup Caches
       /\ Caches \cap (DOMAIN nodes \cup lost) = {} /\ DOMAIN nodes \cap lost = {}
       /\ fat # NIL => blocks[fat].size >= fatsize /\ fat # map
       /\ map # NIL => blocks[map].size >= mapsize
       /\ \A a \in DOMAIN nodes : blocks[a].size >= NodeSize
       /\ ~broken => DOMAIN nodes = Below(Tree, stored)

(* nft32_malloc_s returns NULL only when no stretch of neighbouring free   *)
(* blocks has room: the second try comes after all of them were merged.    *)
MallocComplete ==
  pc = "again" /\ Room(blocks, Want) = {} =>
    \A a, c \in DOMAIN blocks :
      (a <= c /\ \A b \in DOMAIN blocks : a <= b /\ b <= c => blocks[b].free)
        => End(blocks, c) - (a + Header) < Want

(* ecache_find from the stored root: a keeper finds what it has put in and *)
(* not deleted, nothing else; and entry_search, which scans the directory  *)
(* when the index does not know a name, answers as the disk does, also     *)
(* when the stored root is no longer the root.  Names that were removed    *)
(* behind the index, or whose entry was not written, are left out.         *)
LookupExact ==
  pc = "idle" => \A h \in Names[caller] \ drift :
    IF caller = "keeper" THEN Hit(h) <=> h \in files ELSE Hit(h) => h \in files

(* "balanced binary tree ... Red&Black" (entry.h): the root is black, no   *)
(* red node has a red child, and from the root to each place for a new     *)
(* node there are as many black ones; until a node with two children is    *)
(* deleted, or a root is lost.                                             *)
BlackAbove(a) == Cardinality({b \in DOMAIN nodes : nodes[b].black /\ a \in Below(Tree, b)})

RedBlack ==
  pc = "idle" /\ stored # NIL /\ ~broken =>
    /\ nodes[stored].p = NIL /\ nodes[stored].black
    /\ \A a \in DOMAIN nodes \ {stored} : nodes[a].black \/ nodes[nodes[a].p].black
    /\ \A a, b \in DOMAIN nodes :
         NIL \in {nodes[a].l, nodes[a].r} /\ NIL \in {nodes[b].l, nodes[b].r}
           => BlackAbove(a) = BlackAbove(b)

(* "Returns 1 if operation was success. Returns 0 if something went        *)
(* wrong." (nifat32.h of NIFAT32_put_content): it does not follow a null   *)
(* pointer.                                                                *)
PutReturns == call.kind = "add" => pc # "crashed"
=============================================================================
