------------------------------ MODULE Content -------------------------------
(***************************************************************************)
(* Files as the callers of NiFAT32 see them: handles of the content table  *)
(* (src/src/ctable.c) on chains of clusters, and the calls of nifat32.c    *)
(* that create, read, write, truncate, copy and delete what they lead to.  *)
(*                                                                         *)
(* Each call runs under the API lock from its first to its last line and   *)
(* is one step, its loops are functions over the chain.  What the layers   *)
(* below promise is taken from their own modules: read_fat answers right   *)
(* (FatTable), alloc_cluster gives some FREE cluster or refuses            *)
(* (ClusterChain), a directory finds, adds, removes and spoils entries by  *)
(* name (Directory).  A cell is the unit of data: a sector's worth.        *)
(*                                                                         *)
(* The directories are open all the time, on handles that are not counted  *)
(* here.  A caller does not use a handle it has closed, nor one whose      *)
(* clusters another call has given back since it was opened (stale).       *)
(***************************************************************************)
EXTENDS Integers, Sequences, FiniteSets, Functions

CONSTANTS
  Clusters,     (* data clusters of the volume                             *)
  FREE, END,    (* the other words of the FAT                              *)
  Dirs, Names,  (* directories, and the names of files in them             *)
  Modes,        (* the modes files are opened with, subsets of {"R", "W"}  *)
  TableSize,    (* CONTENT_TABLE_SIZE                                      *)
  CellsPer,     (* cells per cluster                                       *)
  Offsets,      (* bound: offsets of reads, writes and truncations         *)
  Sizes,        (* bound: their sizes, and the clusters reserved           *)
  MaxMoves,     (* bound: calls that write, truncate, copy or link         *)
  Worlds        (* the sets of calls and faults a volume may meet:         *)
                (* "trunc", "meta", "deep", "link", the calls; "front", a  *)
                (* truncation that starts behind the first cluster; "io",  *)
                (* transfers that fail; "add", entry_add that fails        *)

ASSUME ContentAssumption ==
  /\ FREE # END /\ {FREE, END} \cap Clusters = {}
  /\ IsFiniteSet(Clusters) /\ TableSize \in Nat \ {0} /\ CellsPer \in Nat \ {0}
  /\ Modes \subseteq SUBSET {"R", "W"}
  /\ Offsets \subseteq Nat /\ Sizes \subseteq Nat \ {0} /\ MaxMoves \in Nat
  /\ Worlds \subseteq SUBSET {"trunc", "meta", "deep", "link", "front", "io", "add"}

Handles == 0 .. TableSize - 1
Entries == [dir : Dirs, name : Names, dca : Clusters]
Closed  == [open |-> FALSE]
Opened  == [open : {TRUE}, entry : Entries, mode : Modes]
Cells   == (0 .. MaxMoves) \X Nat   \* a cell names the write and the byte it holds

VARIABLES
  fat,      (* the table: the link of each cluster                         *)
  data,     (* the cells of each cluster                                   *)
  entries,  (* what the directories show                                   *)
  table,    (* _content_table                                              *)
  stale,    (* history: open handles whose first cluster was given back    *)
  moves,    (* calls that wrote, truncated, copied or linked so far        *)
  world     (* what this volume meets; never changes                       *)

vars == <<fat, data, entries, table, stale, moves, world>>

Init ==
  /\ fat = [c \in Clusters |-> FREE]
  /\ data = [c \in Clusters |-> [i \in 1 .. CellsPer |-> <<0, 0>>]]
  /\ entries = {} /\ table = [h \in Handles |-> Closed] /\ stale = {}
  /\ moves = 0 /\ world \in Worlds

-----------------------------------------------------------------------------
Least(a, b) == IF a < b THEN a ELSE b

(* The clusters a walk from c visits. *)
Chain(c) ==
  LET walk[n \in Nat] ==
        IF n = 0 THEN <<c>>
        ELSE LET s == walk[n - 1] IN
             IF fat[s[Len(s)]] \in Clusters THEN Append(s, fat[s[Len(s)]]) ELSE s
  IN walk[Cardinality(Clusters) - 1]

(* What the chain holds, cell after cell. *)
File(c) ==
  [i \in 1 .. CellsPer * Len(Chain(c)) |->
     data[Chain(c)[((i - 1) \div CellsPer) + 1]][((i - 1) % CellsPer) + 1]]

Free == {c \in Clusters : fat[c] = FREE}

(* What alloc_cluster may yield in n calls: it can refuse at any of them.  *)
Fresh(n) == UNION {Injection(1 .. k, Free) : k \in 0 .. Least(n, Cardinality(Free))}

\* Mutant: the last of the new clusters is not reserved.
Appended_NoEnd(s, new) ==
  LET all == s \o new IN
  [c \in Clusters |->
     IF \E i \in Len(s) .. Len(all) - 1 : i > 0 /\ all[i] = c
       THEN all[1 + CHOOSE i \in Len(s) .. Len(all) - 1 : i > 0 /\ all[i] = c]
       ELSE fat[c]]

(* _add_cluster_to_chain, once for each of the new clusters, from the last *)
(* cluster of s on.                                                        *)
Appended(s, new) ==
  LET all == s \o new IN
  [c \in Clusters |->
     CASE new # <<>> /\ c = all[Len(all)] -> END
       [] \E i \in Len(s) .. Len(all) - 1 : i > 0 /\ all[i] = c ->
            all[1 + CHOOSE i \in Len(s) .. Len(all) - 1 : i > 0 /\ all[i] = c]
       [] OTHER -> fat[c]]

\* dealloc_chain of the clusters of s.
Freed(s) == [c \in Clusters |-> IF c \in Range(s) THEN FREE ELSE fat[c]]

\* Mutant: the offset is not reset behind the first transfer.
Loop_KeepsOffset(off, n) ==
  LET left[k \in Nat] ==
        IF k = 0 THEN [off |-> off, size |-> n]
        ELSE LET l == left[k - 1] IN
             IF l.off > CellsPer THEN [l EXCEPT !.off = @ - CellsPer]
             ELSE [l EXCEPT !.size = @ - Least(@, CellsPer - l.off)]
  IN left

(* The loops of NIFAT32_read_content2buffer and _write_buffer2content: the *)
(* offset and the size that are left behind the first k clusters.  An      *)
(* offset of a whole cluster moves nothing there and ends in the next one. *)
Loop(off, n) ==
  LET left[k \in Nat] ==
        IF k = 0 THEN [off |-> off, size |-> n]
        ELSE LET l == left[k - 1] IN
             IF l.off > CellsPer THEN [l EXCEPT !.off = @ - CellsPer]
             ELSE [off |-> 0, size |-> l.size - Least(l.size, CellsPer - l.off)]
  IN left

\* Mutant: each transfer starts at the head of the buffer again.
Byte_FromHead(left, n, k, i) ==
  LET l == left[k - 1] IN
  IF l.off < i /\ i <= l.off + l.size - left[k].size THEN i - l.off ELSE 0

(* The byte of the buffer that cell i of the k-th cluster is moved from or *)
(* to; 0 if none.                                                          *)
Byte(left, n, k, i) ==
  LET l == left[k - 1] IN
  IF l.off < i /\ i <= l.off + l.size - left[k].size THEN n - l.size + i - l.off ELSE 0

(* NIFAT32_read_content2buffer: what the buffer holds afterwards. *)
ReadOut(c, off, n) ==
  LET s    == Chain(c)
      left == Loop(off, n)
  IN [b \in 1 .. n - left[Len(s)].size |->
        LET p == CHOOSE p \in (1 .. Len(s)) \X (1 .. CellsPer) : Byte(left, n, p[1], p[2]) = b
        IN data[s[p[1]]][p[2]]]
-----------------------------------------------------------------------------
(* The history of stale handles goes with every call; what a truncation    *)
(* frees under its own handle, that handle's user cannot know.             *)
AgingBut(own) ==
  stale' = {h \in Handles : /\ table'[h].open
                            /\ \/ h \in stale
                               \/ /\ table[h].open /\ h \notin own
                                  /\ fat[table'[h].entry.dca] # FREE
                                  /\ fat'[table'[h].entry.dca] = FREE}

Aging == AgingBut({})

Usable(h)   == table[h].open /\ h \notin stale
Writable(h) == Usable(h) /\ "W" \in table[h].mode

Found(d, n) == {e \in entries : e.dir = d /\ e.name = n}

\* The entry a handle's name and parent cluster lead to.
FoundBy(h) == Found(table[h].entry.dir, table[h].entry.name)

\* alloc_ci, and setup_content.
Setup(e, m) ==
  LET empty == {h \in Handles : ~table[h].open} IN
  /\ empty # {}
  /\ table' = [table EXCEPT ![CHOOSE h \in empty : \A k \in empty : h <= k] =
                 [open |-> TRUE, entry |-> e, mode |-> m]]

(* NIFAT32_open_content of a file that is there. *)
Open(d, n, m) ==
  /\ \E e \in Found(d, n) : Setup(e, m)
  /\ UNCHANGED <<fat, data, entries, moves, world>> /\ Aging

(* NIFAT32_open_content with CR_MODE of a file that is not.  When          *)
(* entry_add fails the cluster is given back, and the handle leads to it.  *)
OpenCreate(d, n, m) ==
  /\ Found(d, n) = {}
  /\ \E c \in Free :
       LET e == [dir |-> d, name |-> n, dca |-> c] IN
       /\ Setup(e, m)
       /\ \/ fat' = [fat EXCEPT ![c] = END] /\ entries' = entries \cup {e}
          \/ "add" \in world /\ UNCHANGED <<fat, entries>>
  /\ UNCHANGED <<data, moves, world>> /\ Aging

(* NIFAT32_close_content. *)
Close(h) ==
  /\ table[h].open
  /\ table' = [table EXCEPT ![h] = Closed]
  /\ UNCHANGED <<fat, data, entries, moves, world>> /\ Aging

(* NIFAT32_unload: ctable_destroy. *)
Unload ==
  /\ \E h \in Handles : table[h].open
  /\ table' = [h \in Handles |-> Closed]
  /\ UNCHANGED <<fat, data, entries, moves, world>> /\ Aging

(* NIFAT32_put_content: the entry is there before its reserved clusters    *)
(* are appended, as many as can be had.                                    *)
Put(d, n, reserve) ==
  /\ Found(d, n) = {}
  /\ \E s \in Fresh(reserve) \ {<<>>} :
       /\ fat' = Appended(<<>>, s)
       /\ entries' = entries \cup {[dir |-> d, name |-> n, dca |-> s[1]]}
  /\ UNCHANGED <<data, table, moves, world>> /\ Aging

\* Mutant: only the first cluster is freed.
Delete_KeepsTail(h) ==
  /\ Usable(h)
  /\ \E e \in FoundBy(h) : fat' = Freed(<<e.dca>>) /\ entries' = entries \ {e}
  /\ table' = [table EXCEPT ![h] = Closed]
  /\ UNCHANGED <<data, moves, world>> /\ Aging

(* NIFAT32_delete_content. *)
Delete(h) ==
  /\ Usable(h)
  /\ \E e \in FoundBy(h) : fat' = Freed(Chain(e.dca)) /\ entries' = entries \ {e}
  /\ table' = [table EXCEPT ![h] = Closed]
  /\ UNCHANGED <<data, moves, world>> /\ Aging

(* NIFAT32_change_meta stores an entry without a checksum, which no search *)
(* finds any more.                                                         *)
ChangeMeta(h) ==
  /\ "meta" \in world /\ Usable(h)
  /\ \E e \in FoundBy(h) : entries' = entries \ {e}
  /\ UNCHANGED <<fat, data, table, moves, world>> /\ Aging

-----------------------------------------------------------------------------
(* Which bytes of a write reach the disk.  A transfer that fails in the    *)
(* chain as it was ends the call; one in a new cluster is not noticed.     *)
Kept(left, n, old, all) ==
  LET bytes(k) == n - left[k].size IN
  {1 .. n} \cup
  (IF "io" \notin world THEN {}
   ELSE IF all = old THEN {1 .. q : q \in 0 .. bytes(old)}
   ELSE {{b \in 1 .. n : ~(bytes(k - 1) + q < b /\ b <= bytes(k))} :
           k \in old + 1 .. all, q \in 0 .. CellsPer - 1})

(* NIFAT32_write_buffer2content: over the chain, and then over clusters    *)
(* appended to it as long as there are bytes left and clusters to be had.  *)
Write(h, off, n) ==
  /\ Writable(h) /\ moves < MaxMoves
  /\ LET s    == Chain(table[h].entry.dca)
         left == Loop(off, n)
     IN \E new \in Fresh(Cardinality(Clusters)) :
          LET all == s \o new IN
          /\ \A k \in Len(s) .. Len(all) - 1 : left[k].size > 0
          /\ fat' = Appended(s, new)
          /\ \E kept \in Kept(left, n, Len(s), Len(all)) :
               data' = [c \in Clusters |-> [i \in 1 .. CellsPer |->
                          LET to == {b \in kept : \E k \in DOMAIN all :
                                       all[k] = c /\ Byte(left, n, k, i) = b}
                          IN IF to = {} THEN data[c][i]
                             ELSE <<moves + 1, CHOOSE b \in to : TRUE>>]]
  /\ moves' = moves + 1
  /\ UNCHANGED <<entries, table, world>> /\ Aging

(* NIFAT32_truncate_content.  Behind an offset of more than a cluster the  *)
(* first cluster is freed, and the link read from it leads nowhere; else   *)
(* the chain ends with the cluster the size does not fill any more, and    *)
(* the walk with it.  The entry is stored without a checksum.              *)
Truncate(h, off, size) ==
  /\ "trunc" \in world /\ Writable(h) /\ moves < MaxMoves
  /\ LET s == Chain(table[h].entry.dca)
         k == size \div CellsPer + 1
     IN \/ /\ off > CellsPer /\ "front" \in world
           /\ fat' = Freed(<<s[1]>>)
        \/ /\ off <= CellsPer
           /\ fat' = IF k \in DOMAIN s THEN [fat EXCEPT ![s[k]] = END] ELSE fat
  /\ IF FoundBy(h) = {} THEN UNCHANGED entries
     ELSE \E e \in FoundBy(h) : entries' = entries \ {e}
  /\ moves' = moves + 1
  /\ UNCHANGED <<data, table, world>> /\ AgingBut({h})

(* NIFAT32_copy_content with DEEP_COPY, of a file: the first cluster of    *)
(* the destination is overwritten, the others of the copy are new and are  *)
(* linked behind it, whatever was there.                                   *)
DeepCopy(src, dst) ==
  /\ "deep" \in world /\ Usable(src) /\ Usable(dst) /\ moves < MaxMoves
  /\ table[src].entry.dca # table[dst].entry.dca
  /\ LET s == Chain(table[src].entry.dca)
         d == table[dst].entry.dca
     IN \E new \in Fresh(Len(s) - 1) :
          LET to == <<d>> \o new IN
          /\ fat' = Appended(<<d>>, new)
          /\ data' = [c \in Clusters |->
                        IF c \in Range(to)
                        THEN data[s[CHOOSE k \in DOMAIN to : to[k] = c]] ELSE data[c]]
  /\ moves' = moves + 1
  /\ UNCHANGED <<entries, table, world>> /\ Aging

(* The same when the copy of the last of these clusters fails, as the      *)
(* first one does for a file copied onto itself (its two area locks        *)
(* conflict): the destination is freed as it is linked by then, its entry  *)
(* stays.                                                                  *)
DeepCopyFails(src, dst) ==
  /\ {"deep", "io"} \subseteq world /\ Usable(src) /\ Usable(dst) /\ moves < MaxMoves
  /\ LET s == Chain(table[src].entry.dca)
         d == table[dst].entry.dca
     IN \E new \in Fresh(Len(s) - 1) :
          LET to == <<d>> \o new IN
          /\ s[1] = d => new = <<>>
          /\ fat' = Freed(IF new = <<>> THEN Chain(d) ELSE <<d>>)
          /\ data' = [c \in Clusters |->
                        IF \E k \in 1 .. Len(new) : to[k] = c
                        THEN data[s[CHOOSE k \in DOMAIN to : to[k] = c]] ELSE data[c]]
  /\ moves' = moves + 1
  /\ UNCHANGED <<entries, table, world>> /\ Aging

(* NIFAT32_copy_content with SHALLOW_COPY, between two directories: the    *)
(* entry of the destination becomes a copy of the source's, name included. *)
ShallowCopy(src, dst) ==
  /\ "link" \in world /\ Usable(src) /\ Usable(dst) /\ moves < MaxMoves
  /\ table[src].entry.dir # table[dst].entry.dir
  /\ \E e \in FoundBy(src), f \in FoundBy(dst) :
       /\ fat' = Freed(Chain(f.dca))
       /\ entries' = (entries \ {f}) \cup {[e EXCEPT !.dir = f.dir]}
  /\ table' = [table EXCEPT ![dst].entry.dca = table[src].entry.dca]
  /\ moves' = moves + 1
  /\ UNCHANGED <<data, world>> /\ Aging

-----------------------------------------------------------------------------
Next ==
  \/ \E d \in Dirs, n \in Names :
       \/ \E m \in Modes : Open(d, n, m) \/ OpenCreate(d, n, m)
       \/ \E size \in Sizes : Put(d, n, size)
  \/ \E h \in Handles :
       \/ Close(h) \/ Delete(h) \/ ChangeMeta(h)
       \/ \E off \in Offsets, size \in Sizes : Write(h, off, size) \/ Truncate(h, off, size)
       \/ \E dst \in Handles : DeepCopy(h, dst) \/ DeepCopyFails(h, dst) \/ ShallowCopy(h, dst)
  \/ Unload

Spec == Init /\ [][Next]_vars

-----------------------------------------------------------------------------
TypeOK ==
  /\ fat \in [Clusters -> Clusters \cup {FREE, END}]
  /\ data \in [Clusters -> [1 .. CellsPer -> Cells]]
  /\ entries \subseteq Entries
  /\ table \in [Handles -> Opened \cup {Closed}]
  /\ stale \subseteq {h \in Handles : table[h].open}
  /\ moves \in 0 .. MaxMoves /\ world \in Worlds

(* Where files begin: what entries and usable handles lead to.  After a    *)
(* truncation a file may have no more than its handle.                     *)
Heads == {e.dca : e \in entries} \cup {table[h].entry.dca : h \in {k \in Handles : Usable(k)}}

\* The README describes what becomes of files in the other worlds.
Orderly == world \cap {"add", "front", "link"} = {} /\ ~({"deep", "io"} \subseteq world)

(* Whatever is created, written, truncated, copied and deleted through     *)
(* several handles, a file is a whole chain and shares no cluster with     *)
(* another one: no call leaves a handle or an entry of a file it did not   *)
(* delete on a cluster that is free or somebody else's.  And creating,     *)
(* growing and deleting files leaks no cluster, also when a write fails or *)
(* the volume is full: what is not FREE belongs to an entry.               *)
FilesWhole ==
  /\ TypeOK
  /\ Orderly => \A c \in Heads :
       /\ fat[Chain(c)[Len(Chain(c))]] = END
       /\ \A d \in Heads \ {c} : Range(Chain(c)) \cap Range(Chain(d)) = {}
  /\ world \subseteq {"io"} =>
       Clusters \ Free = UNION {Range(Chain(e.dca)) : e \in entries}

(* NIFAT32_read_content2buffer delivers the file's cells from the offset   *)
(* on, up to the size or the end of the file, wherever cluster boundaries  *)
(* fall, the offset of a whole cluster included.  An offset behind the end *)
(* is left out: nifat32.h:245 says that the function will then "return     *)
(* buff_size", but the loop comes to the end of the chain and answers 0.   *)
ReadExact ==
  Orderly => \A c \in Heads, off \in Offsets, n \in Sizes :
    off <= Len(File(c)) =>
      ReadOut(c, off, n) = SubSeq(File(c), off + 1, Least(off + n, Len(File(c))))

\* What file c holds before and after differs at most within the range.
StoredAt(c, off, n) ==
  LET old == File(c)
      now == File(c)'
  IN /\ Len(now) >= Len(old)
     /\ \A i \in 1 .. Len(now) :
          IF off < i /\ i <= off + n THEN now[i] = <<moves', i - off>>
          ELSE i <= Len(old) => now[i] = old[i]

(* NIFAT32_write_buffer2content stores the buffer at the offset as far as  *)
(* the file reaches or can be made to reach, leaves the rest of the file   *)
(* as it was, and does not touch another file.                             *)
WriteStores ==
  [][\A h \in Handles, off \in Offsets, n \in Sizes :
       Orderly /\ "io" \notin world /\ Write(h, off, n) =>
         /\ StoredAt(table[h].entry.dca, off, n)
         /\ \A c \in Heads \ {table[h].entry.dca} : File(c)' = File(c)]_vars
=============================================================================
