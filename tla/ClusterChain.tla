---------------------------- MODULE ClusterChain ----------------------------
(***************************************************************************)
(* Clusters and chains of NiFAT32 (src/src/cluster.c): the allocator,      *)
(* dealloc_chain, and _add_cluster_to_chain of nifat32.c, by threads that  *)
(* each keep one file.                                                     *)
(*                                                                         *)
(* An entry of the FAT is read and written in one step each: FatTable      *)
(* shows what that takes.  What is left are the steps between the FAT      *)
(* calls.  Only alloc_cluster runs under a lock of its own; cluster.h      *)
(* calls all of them thread-safe.                                          *)
(***************************************************************************)
EXTENDS Integers, FiniteSets

CONSTANTS
  Threads,
  Root,             (* fi->ext_root_cluster                                *)
  TotalClusters,    (* fi->total_clusters                                  *)
  FREE, BAD, RESERVED, END,
  NoHint,           (* NO_CLUSTER_OFFSET                                   *)
  FirstOffset,      (* CLUSTER_OFFSET                                      *)
  Worlds,           (* what a volume and its callers may be, see world     *)
  BadAtFirst,       (* clusters the table says are BAD                     *)
  None

Clusters == Root .. TotalClusters - 1
Words    == Clusters \cup {FREE, BAD, RESERVED, END}

ASSUME ShapeAssumption ==
  /\ Root \in Nat \ {0} /\ TotalClusters \in Nat
  /\ NoHint \notin Nat /\ FirstOffset \in Nat
  /\ BadAtFirst \subseteq Clusters
  /\ Worlds \subseteq [callers : SUBSET Threads, hints : SUBSET (Nat \cup {NoHint}),
                       map : {"none", "lazy", "loaded"}, damaged : SUBSET Clusters, faults : SUBSET {"read", "write"}]
ASSUME WordAssumption ==
  /\ FREE # BAD /\ FREE # RESERVED /\ FREE # END
  /\ BAD # RESERVED /\ BAD # END /\ RESERVED # END
  /\ {FREE, BAD, RESERVED, END} \cap Nat = {}
  /\ None \notin Threads /\ None \notin Words

VARIABLES
  world,      (* chosen at the start: the threads that call; what they     *)
              (* give as offt; the bitmap; the clusters whose entries hold *)
              (* arbitrary words; may read_fat come back with BAD for no   *)
              (* good reason, may write_fat return 0?                      *)
  fat,        (* the table, through read_fat and write_fat                 *)
  occupied,   (* _bitmap                                                   *)
  last,       (* last_allocated_cluster                                    *)
  lock,       (* who holds _allocater_lock                                 *)
  head, tail, (* the file of thread t: first and last cluster, or None     *)
  pc,
  from,       (* *curr_offt at the start of t's alloc_cluster              *)
  hinted,     (* is curr_offt the caller's own?                            *)
  at,         (* the cluster t's loop is at                                *)
  skip,       (* nfree_skip_step                                           *)
  next,       (* next_cluster of dealloc_chain                             *)
  report,     (* how t's last call ended                                   *)
  mine,       (* history: clusters given to t's file                       *)
  lost,       (* history: clusters of files whose owner is done with them  *)
  freeSince   (* history: clusters FREE ever since t got the lock          *)

callVars  == <<from, hinted, at, skip, next>>
tableVars == <<fat, occupied, freeSince>>
fileVars  == <<head, tail, mine, lost>>
vars      == <<world, tableVars, last, lock, fileVars, pc, callVars, report>>

Init ==
  /\ world \in Worlds
  /\ \E any \in [world.damaged -> Words] :
       fat = [c \in Clusters |-> IF c \in world.damaged THEN any[c]
                                ELSE IF c \in BadAtFirst THEN BAD ELSE FREE]
  /\ occupied = IF world.map = "loaded" THEN {c \in 0 .. TotalClusters - 1 :
                                              c \in Clusters => fat[c] # FREE}
                ELSE {}
  /\ last = FirstOffset
  /\ lock = None
  /\ head \in [Threads -> Clusters \cup {None}]
  /\ \A t \in Threads : head[t] # None <=> world.damaged # {} /\ t \in world.callers
  /\ tail = head
  /\ pc = [t \in Threads |-> "idle"]
  /\ from = [t \in Threads |-> 0] /\ hinted = [t \in Threads |-> TRUE]
  /\ at = [t \in Threads |-> FREE] /\ skip = [t \in Threads |-> 0]
  /\ next = [t \in Threads |-> FREE]
  /\ report = [t \in Threads |-> "none"]
  /\ mine = [t \in Threads |-> {}] /\ lost = {}
  /\ freeSince = [t \in Threads |-> {}]

-----------------------------------------------------------------------------
(* The FAT as its callers see it. *)

\* What the bitmap becomes when entry c is seen to hold, or is given, word w.
Noted(c, w) ==
  IF world.map = "none" \/ c \notin Clusters THEN occupied
  ELSE IF w = FREE THEN occupied \ {c} ELSE occupied \cup {c}

(* read_fat(c) returns w.  A lock timeout leaves the bitmap alone; when    *)
(* the copies cannot be read the entry is noted as BAD.                    *)
ReadFat(c, w) ==
  /\ \/ w = (IF c \in Clusters THEN fat[c] ELSE BAD) /\ occupied' = Noted(c, w)
     \/ "read" \in world.faults /\ w = BAD /\ occupied' \in {occupied, Noted(c, BAD)}
  /\ UNCHANGED <<fat, freeSince>>

(* write_fat(c, w) returns ok.  It fails for a cluster out of range, and   *)
(* when the lock or a copy cannot be had: the word may then be in place or *)
(* not.                                                                    *)
WriteFat(c, w, ok) ==
  \/ /\ c \in Clusters /\ (ok \/ "write" \in world.faults)
     /\ fat' = [fat EXCEPT ![c] = w]
     /\ occupied' = Noted(c, w)
     /\ freeSince' = [t \in Threads |-> IF w = FREE THEN freeSince[t]
                                                    ELSE freeSince[t] \ {c}]
  \/ /\ ~ok /\ (c \notin Clusters \/ "write" \in world.faults)
     /\ UNCHANGED tableVars

\* Mutant: the limit is taken for exclusive.
FindFree_ShortOfLimit(n) ==
  {c \in n .. TotalClusters - 2 :
     /\ world.map # "none" /\ c # 0
     /\ c \notin occupied /\ \A d \in n .. c - 1 : d \in occupied}

\* fatmap_find_free(n, 1): the first clear bit from n on, if there is one.
\* Cluster 0 is no answer: 0 stands for none, also when there is no bitmap.
FindFree(n) ==
  {c \in n .. TotalClusters - 1 :
     /\ world.map # "none" /\ c # 0
     /\ c \notin occupied /\ \A d \in n .. c - 1 : d \in occupied}

Goto(t, label) == pc' = [pc EXCEPT ![t] = label]

Return(t, how) ==
  /\ Goto(t, "idle")
  /\ report' = [report EXCEPT ![t] = how]
  /\ at' = [at EXCEPT ![t] = FREE] /\ skip' = [skip EXCEPT ![t] = 0]
  /\ next' = [next EXCEPT ![t] = FREE]
  /\ UNCHANGED <<from, hinted>>

-----------------------------------------------------------------------------
(* alloc_cluster.  A caller that does not get _allocater_lock in time goes *)
(* home with BAD and has changed nothing.                                  *)

Alloc(t, offt) ==
  /\ pc[t] = "idle" /\ lock = None
  /\ lock' = t
  /\ from' = [from EXCEPT ![t] = IF offt = NoHint THEN last ELSE offt]
  /\ hinted' = [hinted EXCEPT ![t] = offt # NoHint]
  /\ freeSince' = [freeSince EXCEPT ![t] = {c \in Clusters : fat[c] = FREE}]
  /\ report' = [report EXCEPT ![t] = "none"]
  /\ Goto(t, "find")
  /\ UNCHANGED <<fat, occupied, last, fileVars, at, skip, next>>

Find(t) ==
  /\ pc[t] = "find"
  /\ \/ \E c \in FindFree(from[t]) : at' = [at EXCEPT ![t] = c] /\ Goto(t, "probe")
     \/ /\ FindFree(from[t]) = {}
        /\ at' = [at EXCEPT ![t] = from[t]] /\ Goto(t, "scan")
  /\ UNCHANGED <<tableVars, last, lock, fileVars, from, hinted, skip, next, report>>

\* The bitmap is only a hint: the entry itself is read.
Probe(t) ==
  /\ pc[t] = "probe"
  /\ \E w \in Words :
       /\ ReadFat(at[t], w)
       /\ \/ w = FREE /\ Goto(t, "reserve") /\ UNCHANGED at
          \/ w # FREE /\ Goto(t, "scan") /\ at' = [at EXCEPT ![t] = from[t]]
  /\ UNCHANGED <<last, lock, fileVars, from, hinted, skip, next, report>>

\* Mutant: the increment is part of the else branch.
Scan_NoStep(t) ==
  /\ pc[t] = "scan" /\ at[t] < TotalClusters
  /\ \E w \in Words :
       /\ ReadFat(at[t], w)
       /\ \/ w = FREE /\ Goto(t, "reserve") /\ UNCHANGED <<at, skip>>
          \/ /\ w \in {BAD, RESERVED}
             /\ at' = [at EXCEPT ![t] = @ + skip[t]] /\ UNCHANGED <<skip, pc>>
          \/ /\ w \in Clusters \cup {END}
             /\ at' = [at EXCEPT ![t] = @ + 1] /\ UNCHANGED <<skip, pc>>
  /\ UNCHANGED <<last, lock, fileVars, from, hinted, next, report>>

\* The linear scan: behind each bad or reserved entry it skips one more.
Scan(t) ==
  /\ pc[t] = "scan" /\ at[t] < TotalClusters
  /\ \E w \in Words :
       /\ ReadFat(at[t], w)
       /\ \/ w = FREE /\ Goto(t, "reserve") /\ UNCHANGED <<at, skip>>
          \/ /\ w \in {BAD, RESERVED}
             /\ at' = [at EXCEPT ![t] = @ + skip[t] + 1]
             /\ skip' = [skip EXCEPT ![t] = @ + 1] /\ UNCHANGED pc
          \/ /\ w \in Clusters \cup {END}
             /\ at' = [at EXCEPT ![t] = @ + 1] /\ UNCHANGED <<skip, pc>>
  /\ UNCHANGED <<last, lock, fileVars, from, hinted, next, report>>

ScanOver(t) ==
  /\ pc[t] = "scan" /\ at[t] >= TotalClusters
  /\ last' = IF hinted[t] THEN last ELSE Root
  /\ lock' = None
  /\ Return(t, "full")
  /\ UNCHANGED <<tableVars, fileVars>>

\* Mutant: the cluster is handed out as it was found (NO_THREADSAFE).
Reserve_Not(t) ==
  /\ pc[t] = "reserve"
  /\ lock' = None
  /\ last' = IF hinted[t] THEN last ELSE at[t] + 1
  /\ mine' = [mine EXCEPT ![t] = @ \cup {at[t]}]
  /\ Goto(t, "end")
  /\ UNCHANGED <<tableVars, head, tail, lost, callVars, report>>

Reserve(t) ==
  /\ pc[t] = "reserve"
  /\ lock' = None
  /\ \/ /\ WriteFat(at[t], RESERVED, TRUE)
        /\ last' = IF hinted[t] THEN last ELSE at[t] + 1
        /\ mine' = [mine EXCEPT ![t] = @ \cup {at[t]}]
        /\ Goto(t, "end") /\ UNCHANGED <<callVars, report>>
     \/ /\ WriteFat(at[t], RESERVED, FALSE)
        /\ Return(t, "failed") /\ UNCHANGED <<last, mine>>
  /\ UNCHANGED <<head, tail, lost>>

-----------------------------------------------------------------------------
(* What callers do with the cluster: NIFAT32_put_content and entry_add     *)
(* start a chain with it, _add_cluster_to_chain appends it.                *)

SetEnd(t) ==
  /\ pc[t] = "end"
  /\ \/ /\ WriteFat(at[t], END, TRUE) /\ head[t] = None
        /\ head' = [head EXCEPT ![t] = at[t]] /\ tail' = [tail EXCEPT ![t] = at[t]]
        /\ Return(t, "allocated") /\ UNCHANGED <<mine, lost>>
     \/ /\ WriteFat(at[t], END, TRUE) /\ head[t] # None
        /\ Goto(t, "link")
        /\ UNCHANGED <<fileVars, callVars, report>>
     \/ /\ WriteFat(at[t], END, FALSE) /\ head[t] = None
        /\ mine' = [mine EXCEPT ![t] = @ \ {at[t]}] /\ lost' = lost \cup {at[t]}
        /\ Return(t, "failed") /\ UNCHANGED <<head, tail>>
     \/ /\ WriteFat(at[t], END, FALSE) /\ head[t] # None
        /\ Goto(t, "undo")
        /\ UNCHANGED <<fileVars, callVars, report>>
  /\ UNCHANGED <<last, lock>>

\* Mutant: the new cluster is linked behind the head.
Link_Head(t) ==
  /\ pc[t] = "link"
  /\ WriteFat(head[t], at[t], TRUE)
  /\ tail' = [tail EXCEPT ![t] = at[t]] /\ Return(t, "allocated")
  /\ UNCHANGED <<last, lock, head, mine, lost>>

Link(t) ==
  /\ pc[t] = "link"
  /\ \/ /\ WriteFat(tail[t], at[t], TRUE)
        /\ tail' = [tail EXCEPT ![t] = at[t]] /\ Return(t, "allocated")
     \/ /\ WriteFat(tail[t], at[t], FALSE)
        /\ Goto(t, "undo") /\ UNCHANGED <<tail, callVars, report>>
  /\ UNCHANGED <<last, lock, head, mine, lost>>

\* dealloc_cluster of the new cluster: an entry that reads FREE is left alone.
Undo(t) ==
  /\ pc[t] = "undo"
  /\ \E w \in Words :
       /\ ReadFat(at[t], w)
       /\ \/ w = FREE /\ Return(t, "failed")
          \/ w # FREE /\ Goto(t, "undo_write") /\ UNCHANGED <<callVars, report>>
  /\ UNCHANGED <<last, lock, fileVars>>

UndoWrite(t) ==
  /\ pc[t] = "undo_write"
  /\ \E ok \in BOOLEAN :
       /\ WriteFat(at[t], FREE, ok)
       /\ lost' = IF ok THEN lost ELSE lost \cup {at[t]}
  /\ mine' = [mine EXCEPT ![t] = @ \ {at[t]}]
  /\ Return(t, "failed")
  /\ UNCHANGED <<last, lock, head, tail>>

-----------------------------------------------------------------------------
(* dealloc_chain, by the owner of the chain, who forgets it.               *)

\* Mutant: the last cluster is remembered.
Dealloc_KeepsTail(t) ==
  /\ pc[t] = "idle" /\ head[t] # None
  /\ at' = [at EXCEPT ![t] = head[t]]
  /\ head' = [head EXCEPT ![t] = None]
  /\ report' = [report EXCEPT ![t] = "none"]
  /\ Goto(t, "next")
  /\ UNCHANGED <<tableVars, last, lock, tail, mine, lost, from, hinted, skip, next>>

Dealloc(t) ==
  /\ pc[t] = "idle" /\ head[t] # None
  /\ at' = [at EXCEPT ![t] = head[t]]
  /\ head' = [head EXCEPT ![t] = None] /\ tail' = [tail EXCEPT ![t] = None]
  /\ report' = [report EXCEPT ![t] = "none"]
  /\ Goto(t, "next")
  /\ UNCHANGED <<tableVars, last, lock, mine, lost, from, hinted, skip, next>>

ReadNext(t) ==
  /\ pc[t] = "next"
  /\ \E w \in Words : ReadFat(at[t], w) /\ next' = [next EXCEPT ![t] = w]
  /\ Goto(t, "status")
  /\ UNCHANGED <<last, lock, fileVars, from, hinted, at, skip, report>>

\* The owner is done: what its chain still had is nobody's now.
GiveUp(t, how, left) ==
  /\ mine' = [mine EXCEPT ![t] = {}] /\ lost' = lost \cup left
  /\ Return(t, how)
  /\ UNCHANGED <<head, tail>>

\* To the next cluster, or out of the loop with a result of 1.
Advance(t, left) ==
  IF next[t] \in {END, BAD, FREE} THEN GiveUp(t, "deallocated", left)
  ELSE /\ at' = [at EXCEPT ![t] = next[t]] /\ Goto(t, "next")
       /\ mine' = [mine EXCEPT ![t] = left]
       /\ UNCHANGED <<head, tail, lost, from, hinted, skip, next, report>>

Status(t) ==
  /\ pc[t] = "status"
  /\ \E w \in Words :
       /\ ReadFat(at[t], w)
       /\ \/ w = FREE /\ Advance(t, mine[t])
          \/ w # FREE /\ Goto(t, "clear") /\ UNCHANGED <<fileVars, callVars, report>>
  /\ UNCHANGED <<last, lock>>

\* Mutant: the entry is freed before its link is read.
Clear_LateRead(t) ==
  /\ pc[t] = "clear"
  /\ \/ WriteFat(at[t], FREE, TRUE) /\ GiveUp(t, "deallocated", mine[t] \ {at[t]})
     \/ WriteFat(at[t], FREE, FALSE) /\ GiveUp(t, "broken", mine[t])
  /\ UNCHANGED <<last, lock>>

Clear(t) ==
  /\ pc[t] = "clear"
  /\ \/ WriteFat(at[t], FREE, TRUE) /\ Advance(t, mine[t] \ {at[t]})
     \/ WriteFat(at[t], FREE, FALSE) /\ GiveUp(t, "broken", mine[t])
  /\ UNCHANGED <<last, lock>>

Work(t) ==
  \/ Find(t) \/ Probe(t) \/ Scan(t) \/ ScanOver(t) \/ Reserve(t)
  \/ SetEnd(t) \/ Link(t) \/ Undo(t) \/ UndoWrite(t)
  \/ ReadNext(t) \/ Status(t) \/ Clear(t)

Step(t) == Work(t) \/ Dealloc(t) \/ \E offt \in world.hints : Alloc(t, offt)

Next == UNCHANGED world /\ \E t \in world.callers : Step(t)

Spec     == Init /\ [][Next]_vars
\* A call that has the processor goes on: it never waits, apart from the
\* locks that Alloc and the FAT calls take, all held for bounded work.
FairSpec == Spec /\ \A t \in Threads : WF_vars(Work(t) /\ UNCHANGED world)

-----------------------------------------------------------------------------
(* The type invariant. *)
TypeOK ==
  /\ fat \in [Clusters -> Words]
  /\ occupied \subseteq 0 .. TotalClusters - 1
  /\ last \in Nat /\ lock \in Threads \cup {None}
  /\ head \in [Threads -> Clusters \cup {None}] /\ tail \in [Threads -> Clusters \cup {None}]
  /\ \A t \in Threads : head[t] = None <=> tail[t] = None
  /\ pc \in [Threads -> {"idle", "find", "probe", "scan", "reserve", "end", "link",
                         "undo", "undo_write", "next", "status", "clear"}]
  /\ from \in [Threads -> Nat] /\ hinted \in [Threads -> BOOLEAN]
  /\ at \in [Threads -> Nat \cup Words]
  /\ \A t \in Threads : pc[t] = "scan" => at[t] \in Nat
  /\ skip \in [Threads -> Nat]
  /\ next \in [Threads -> Words]
  /\ report \in [Threads -> {"none", "full", "failed", "allocated", "deallocated", "broken"}]
  /\ mine \in [Threads -> SUBSET Clusters] /\ lost \subseteq Clusters
  /\ freeSince \in [Threads -> SUBSET Clusters]

\* The table started clean and no FAT write fails; reads may.
Calm == world.damaged = {} /\ "write" \notin world.faults

\* Nor do reads fail.
Faultless == world.damaged = {} /\ world.faults = {}

\* The files are disjoint, and none holds a FREE, a BAD or a lost cluster.
OneOwner ==
  /\ \A t, u \in Threads : t # u => mine[t] \cap mine[u] = {}
  /\ \A t \in Threads : \A c \in mine[t] : fat[c] # FREE /\ c \notin lost \cup BadAtFirst

(* On a calm volume a cluster belongs to one file at most, is not FREE     *)
(* while it does and was not BAD when it was given: whatever allocations,  *)
(* appends and deallocations run at the same time.                         *)
Exclusive == Calm => OneOwner

\* Clusters reached from c by at most n links.
Reach(c) ==
  LET r[n \in Nat] == IF n = 0 THEN {c}
                      ELSE r[n - 1] \cup {fat[d] : d \in {e \in r[n - 1] : fat[e] \in Clusters}}
  IN r[TotalClusters]

(* Without faults a file is one chain between calls: from its head every   *)
(* cluster it was given is reached and no other, up to its tail, which is  *)
(* END.  When no call runs nothing has leaked: an entry that is not FREE   *)
(* belongs to a file or was BAD from the start.  (A read that fails ends   *)
(* the walk of dealloc_chain early, and the rest of the chain leaks.)      *)
FilesWhole == Faultless =>
  /\ \A t \in Threads : pc[t] = "idle" /\ head[t] # None =>
       /\ Reach(head[t]) = mine[t]
       /\ fat[tail[t]] = END /\ tail[t] \in mine[t]
  /\ (\A t \in Threads : pc[t] = "idle") =>
       {c \in Clusters : fat[c] # FREE} = BadAtFirst \cup (UNION {mine[t] : t \in Threads})

(* With a loaded bitmap alloc_cluster refuses only if there was no FREE    *)
(* cluster from its offset on: the gaps of the linear scan do not matter.  *)
NoMissedFree == Faultless /\ world.map = "loaded" =>
  \A t \in Threads : report[t] = "full" => \A c \in freeSince[t] : c < from[t]

(* cluster.h: dealloc_chain returns "1 if chain deallocated" and "0 if     *)
(* chain is broken (<BAD> or no <END>)".  True of whole chains only.       *)
DeallocWhole ==
  [][Faultless => \A t \in Threads : pc[t] # "idle" /\ report'[t] = "deallocated" => lost' = lost]_vars

(* Every call returns, whatever words the table holds: chains with cycles, *)
(* chains that run into each other, links out of range.                    *)
CallsReturn == \A t \in Threads : pc[t] # "idle" ~> pc[t] = "idle"
=============================================================================
