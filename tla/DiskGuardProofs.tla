-------------------------- MODULE DiskGuardProofs ---------------------------
(***************************************************************************)
(* The area locks of disk.c exclude, for any number of threads, sectors    *)
(* and slots: proofs for DiskGuard.                                        *)
(*                                                                         *)
(* Threads are kept apart by slots they do not know: _unlock_area frees a  *)
(* slot by its range, not by its owner.  The invariant therefore speaks of *)
(* slots and counts (SlotInv): slots that overlap are read-only, and of    *)
(* each kind of lock there are at least as many slots as holders.  What    *)
(* threads do to the disk follows from that (ThreadInv).                   *)
(***************************************************************************)
EXTENDS DiskGuard, FiniteSetTheorems, WellFoundedInduction, TLAPS

Readers == {t \in Threads : Reading(t) # {}}
Writers == {t \in Threads : Writing(t) # {}}
InUse   == {s \in Slots : areas[s].count # -1}

Overlap(a, b) == a.start < b.start + b.count /\ b.start < a.start + a.count

(* Two slots in use that overlap are both read-only. *)
Apart ==
  \A s, k \in InUse : s # k /\ Overlap(areas[s], areas[k]) => areas[s].ro /\ areas[k].ro

(* No fewer slots than holders of each kind of lock. *)
Backed == \A r \in Ranges, ro \in BOOLEAN :
            Cardinality(Holders(r, ro)) <= Cardinality(Taken(r, ro))

(* One slot for each lock held, and the lost ones. *)
Balanced == Cardinality(InUse) = lost + Cardinality(Readers) + Cardinality(Writers)

SlotInv ==
  /\ areas \in [Slots -> Areas] /\ lost \in Nat
  /\ IsFiniteSet(Readers) /\ IsFiniteSet(Writers)
  /\ Apart /\ Backed /\ Balanced

(* Where a thread is in its call: what it has locked are ranges, a copy    *)
(* fills its destination from its source in order, and what is in its      *)
(* buffer is the next sector of the source as it was when it was locked.   *)
Place(t) ==
  /\ pc[t] \notin {"idle", "write"} => src[t] \in Ranges
  /\ pc[t] \notin {"idle", "read"} => dst[t] \in Ranges
  /\ pc[t] \in {"copy_lock", "copy_read", "copy_write"} => src[t].count = dst[t].count
  /\ pc[t] \in {"idle", "copy_lock"} => next[t] = 0
  /\ pc[t] = "copy_read" => next[t] <= src[t].count
  /\ pc[t] = "copy_write" => /\ next[t] < src[t].count
                             /\ buffer[t] = seen[t][src[t].start + next[t]]

Types ==
  /\ disk \in [Sectors -> Data]
  /\ pc \in [Threads -> {"idle", "read", "write", "copy_lock", "copy_read",
                         "copy_write", "copy_unlock"}]
  /\ src \in [Threads -> Ranges \cup {NoRange}]
  /\ dst \in [Threads -> Ranges \cup {NoRange}]
  /\ next \in [Threads -> 0 .. MaxCount]
  /\ buffer \in [Threads -> Data]
  /\ seen \in [Threads -> [Sectors -> Data]]

ThreadInv == Types /\ \A t \in Threads : Place(t)

(* The inductive invariant. *)
GuardInv == SlotInv /\ ThreadInv /\ ReadsAtomic /\ CopyFaithful

-----------------------------------------------------------------------------
(* Small numbers: a set of them has a least one. *)
LEMMA LeastNumber ==
  ASSUME NEW S, S \subseteq Nat, S # {}
  PROVE  \E m \in S : \A k \in S : m <= k
  <1> DEFINE Below == {0 .. n : n \in S}
  <1>1. Below \subseteq FiniteSubsetsOf(Nat) /\ Below # {}
    <2>1. ASSUME NEW n \in S  PROVE 0 .. n \in FiniteSubsetsOf(Nat)
      <3>1. IsFiniteSet(0 .. n)
        BY FS_Interval
      <3> QED  BY <3>1 DEF FiniteSubsetsOf
    <2> QED  BY <2>1
  <1>2. PICK b \in Below : \A a \in Below : <<a, b>> \notin StrictSubsetOrdering(Nat)
    BY <1>1, FS_StrictSubsetOrderingWellFounded, WFMin
  <1>3. PICK m \in S : b = 0 .. m
    OBVIOUS
  <1>4. ASSUME NEW k \in S, k < m  PROVE FALSE
    <2>1. 0 .. k \in Below /\ 0 .. k \subseteq 0 .. m /\ 0 .. k # 0 .. m
      <3>1. k \in Nat /\ m \in Nat /\ m \in 0 .. m /\ m \notin 0 .. k
        BY <1>4
      <3> QED  BY <3>1, <1>4
    <2>2. <<0 .. k, 0 .. m>> \in StrictSubsetOrdering(Nat)
      BY <2>1 DEF StrictSubsetOrdering
    <2> QED  BY <2>1, <2>2, <1>2, <1>3
  <1> QED  BY <1>4

LEMMA FirstSlotIn ==
  ASSUME NEW S, S \subseteq Slots, S # {}
  PROVE  FirstSlot(S) \in S
  <1>1. \E m \in S : \A k \in S : m <= k
    <2>1. S \subseteq Nat
      BY SlotAssumption DEF Slots
    <2> QED  BY <2>1, LeastNumber
  <1> QED  BY <1>1 DEF FirstSlot

LEMMA FiniteSlots ==
  ASSUME NEW S, S \subseteq Slots
  PROVE  IsFiniteSet(S) /\ Cardinality(S) \in Nat /\ Cardinality(S) <= IO_THREADS_MAX
  <1>1. IsFiniteSet(Slots) /\ Cardinality(Slots) = IO_THREADS_MAX
    BY FS_Interval, SlotAssumption DEF Slots
  <1> QED  BY <1>1, FS_Subset, FS_CardinalityType

(* A range is what its two fields say, and is not empty. *)
LEMMA RangeFields ==
  ASSUME NEW r \in Ranges
  PROVE  /\ r.start \in Nat /\ r.count \in Nat \ {0}
         /\ r.count <= MaxCount /\ r.start + r.count <= NSectors
         /\ Span(r) # {} /\ Span(r) \subseteq Sectors
         /\ \A q \in Ranges : q.start = r.start /\ q.count = r.count => q = r
  <1>1. r.start \in Nat /\ r.count \in Nat \ {0} /\ r.count <= MaxCount
          /\ r.start + r.count <= NSectors
    BY SlotAssumption DEF Ranges, Sectors
  <1>2. r.start \in Span(r)
    BY <1>1 DEF Span
  <1>3. Span(r) \subseteq Sectors
    BY <1>1, SlotAssumption DEF Span, Sectors
  <1>4. ASSUME NEW q \in Ranges, q.start = r.start, q.count = r.count
        PROVE  q = r
    BY <1>4 DEF Ranges
  <1> QED  BY <1>1, <1>2, <1>3, <1>4

LEMMA AreaFields ==
  ASSUME NEW a \in Areas
  PROVE  /\ a.start \in Nat /\ a.count \in Int /\ a.ro \in BOOLEAN
         /\ a.count # -1 => /\ a.count > 0
                            /\ \E r \in Ranges : r.start = a.start /\ r.count = a.count
  <1>1. CASE a = FreeSlot
    BY <1>1 DEF FreeSlot
  <1>2. ASSUME NEW r \in Ranges, NEW ro \in BOOLEAN,
               a = [start |-> r.start, count |-> r.count, ro |-> ro]
        PROVE  a.start = r.start /\ a.count = r.count /\ a.ro = ro
    BY <1>2
  <1> QED  BY <1>1, <1>2, RangeFields DEF Areas

(* The holders of a range, from what threads are at. *)
LEMMA LockedRanges ==
  ASSUME ThreadInv, NEW t \in Threads
  PROVE  /\ Reading(t) # {} <=> pc[t] \notin {"idle", "write"}
         /\ Writing(t) # {} <=> pc[t] \in {"write", "copy_read", "copy_write"}
         /\ Reading(t) # {} => src[t] \in Ranges /\ Reading(t) = Span(src[t])
         /\ Writing(t) # {} => dst[t] \in Ranges /\ Writing(t) = Span(dst[t])
  BY RangeFields DEF ThreadInv, Types, Place, Reading, Writing

LEMMA FiniteHolders ==
  ASSUME SlotInv, NEW r \in Ranges, NEW ro \in BOOLEAN
  PROVE  IsFiniteSet(Holders(r, ro)) /\ Cardinality(Holders(r, ro)) \in Nat
  <1>1. Holders(r, ro) \subseteq IF ro THEN Readers ELSE Writers
    BY DEF Holders, Readers, Writers
  <1>2. IsFiniteSet(IF ro THEN Readers ELSE Writers)
    BY DEF SlotInv
  <1> QED  BY <1>1, <1>2, FS_Subset, FS_CardinalityType

-----------------------------------------------------------------------------
(* _lock_area on behalf of thread t keeps the slots in order. *)
LEMMA LockKeeps ==
  ASSUME SlotInv, NEW t \in Threads, NEW r \in Ranges, NEW ro \in BOOLEAN,
         LockArea(r, ro), UNCHANGED lost,
         t \notin Holders(r, ro), t \notin IF ro THEN Readers ELSE Writers,
         Readers' = IF ro THEN Readers \cup {t} ELSE Readers,
         Writers' = IF ro THEN Writers ELSE Writers \cup {t},
         \A q \in Ranges, m \in BOOLEAN :
            Holders(q, m)' = IF q = r /\ m = ro THEN Holders(q, m) \cup {t} ELSE Holders(q, m)
  PROVE  SlotInv'
  <1> DEFINE new == [start |-> r.start, count |-> r.count, ro |-> ro]
  <1>1. PICK s \in Slots : areas[s].count = -1 /\ areas' = [areas EXCEPT ![s] = new]
    <2>1. {s \in Slots : areas[s].count = -1} # {}
      BY DEF LockArea, Lockable
    <2>2. FirstSlot({s \in Slots : areas[s].count = -1}) \in {s \in Slots : areas[s].count = -1}
      BY <2>1, FirstSlotIn
    <2> QED  BY <2>2 DEF LockArea
  <1>2. new \in Areas /\ new.count \in Nat \ {0} /\ new.start = r.start /\ new.count = r.count
          /\ new.ro = ro
    BY RangeFields DEF Areas
  <1>3. areas' \in [Slots -> Areas]
    BY <1>1, <1>2 DEF SlotInv
  <1>4. InUse' = InUse \cup {s} /\ s \notin InUse
    BY <1>1, <1>2 DEF InUse, SlotInv
  <1>5. Cardinality(InUse') = Cardinality(InUse) + 1 /\ Cardinality(InUse) \in Nat
    BY <1>4, FiniteSlots, FS_AddElement DEF InUse
  <1>6. /\ IsFiniteSet(Readers') /\ IsFiniteSet(Writers')
        /\ Cardinality(Readers) \in Nat /\ Cardinality(Writers) \in Nat
        /\ Cardinality(Readers') + Cardinality(Writers')
             = Cardinality(Readers) + Cardinality(Writers) + 1
    <2>1. /\ IsFiniteSet(Readers) /\ IsFiniteSet(Writers)
          /\ Cardinality(Readers) \in Nat /\ Cardinality(Writers) \in Nat
      BY FS_CardinalityType DEF SlotInv
    <2>2. CASE ro
      <3>1. IsFiniteSet(Readers') /\ Cardinality(Readers') = Cardinality(Readers) + 1
        BY <2>1, <2>2, FS_AddElement
      <3> QED  BY <2>1, <2>2, <3>1
    <2>3. CASE ~ro
      <3>1. IsFiniteSet(Writers') /\ Cardinality(Writers') = Cardinality(Writers) + 1
        BY <2>1, <2>3, FS_AddElement
      <3> QED  BY <2>1, <2>3, <3>1
    <2> QED  BY <2>2, <2>3
  <1>7. Balanced'
    <2>1. Cardinality(InUse) = lost + Cardinality(Readers) + Cardinality(Writers) /\ lost \in Nat
      BY DEF Balanced, SlotInv
    <2> QED
      BY <2>1, <1>5, <1>6, FS_CardinalityType DEF Balanced
  <1>8. Apart'
    <2>1. \A k \in InUse : Overlap(new, areas[k]) \/ Overlap(areas[k], new) => ro /\ areas[k].ro
      <3> SUFFICES ASSUME NEW k \in InUse, Overlap(new, areas[k]) \/ Overlap(areas[k], new)
                   PROVE  ro /\ areas[k].ro
        OBVIOUS
      <3>1. ~Conflicting(areas[k], r, ro)
        BY DEF LockArea, Lockable, InUse
      <3> QED  BY <3>1, <1>2 DEF Conflicting, InUse, Overlap
    <2>2. \A k \in InUse : areas'[k] = areas[k]
      BY <1>1, <1>4 DEF InUse, SlotInv
    <2>3. areas'[s] = new
      BY <1>1 DEF SlotInv
    <2> QED  BY <1>2, <1>4, <2>1, <2>2, <2>3 DEF Apart, SlotInv
  <1>9. ASSUME NEW q \in Ranges, NEW m \in BOOLEAN
        PROVE  Taken(q, m)' = IF q = r /\ m = ro THEN Taken(q, m) \cup {s} ELSE Taken(q, m)
    <2>1. s \notin Taken(q, m)
      BY <1>1, RangeFields DEF Taken
    <2>2. s \in Taken(q, m)' <=> q = r /\ m = ro
      BY <1>1, RangeFields DEF Taken, SlotInv
    <2>3. \A k \in Slots \ {s} : k \in Taken(q, m)' <=> k \in Taken(q, m)
      BY <1>1 DEF Taken, SlotInv
    <2> QED  BY <2>1, <2>2, <2>3 DEF Taken
  <1>10. Backed'
    <2> SUFFICES ASSUME NEW q \in Ranges, NEW m \in BOOLEAN
                 PROVE  Cardinality(Holders(q, m)') <= Cardinality(Taken(q, m)')
      BY DEF Backed
    <2>1. CASE q = r /\ m = ro
      <3>1. s \notin Taken(r, ro)
        BY <1>1, RangeFields DEF Taken
      <3>2. Cardinality(Taken(r, ro)') = Cardinality(Taken(r, ro)) + 1 /\ Cardinality(Taken(r, ro)) \in Nat
        <4>1. IsFiniteSet(Taken(r, ro)) /\ Cardinality(Taken(r, ro)) \in Nat
          BY FiniteSlots DEF Taken
        <4>2. Cardinality(Taken(r, ro) \cup {s}) = Cardinality(Taken(r, ro)) + 1
          BY <3>1, <4>1, FS_AddElement
        <4>3. Taken(r, ro)' = Taken(r, ro) \cup {s}
          BY <1>9
        <4> QED  BY <4>1, <4>2, <4>3
      <3>3. IsFiniteSet(Holders(r, ro))
        BY FiniteHolders
      <3>4. Cardinality(Holders(r, ro)') = Cardinality(Holders(r, ro)) + 1 /\ Cardinality(Holders(r, ro)) \in Nat
        BY <3>3, FS_AddElement, FS_CardinalityType
      <3> QED  BY <2>1, <3>2, <3>4 DEF Backed, SlotInv
    <2>2. CASE ~(q = r /\ m = ro)
      BY <2>2, <1>9 DEF Backed, SlotInv
    <2> QED  BY <2>1, <2>2
  <1> QED  BY <1>3, <1>6, <1>7, <1>8, <1>10 DEF SlotInv

-----------------------------------------------------------------------------
(* A thread that has a range locked finds a slot with it, and whichever    *)
(* slot with that range it finds, it is one of the right kind.             *)
LEMMA OwnSlot ==
  ASSUME SlotInv, NEW t \in Threads, NEW r \in Ranges, NEW ro \in BOOLEAN,
         t \in Holders(r, ro)
  PROVE  /\ Taken(r, ro) # {}
         /\ {s \in Slots : areas[s].start = r.start /\ areas[s].count = r.count} = Taken(r, ro)
  <1>1. Taken(r, ro) # {}
    <2> SUFFICES ASSUME Taken(r, ro) = {}  PROVE FALSE
      OBVIOUS
    <2>1. Cardinality(Taken(r, ro)) = 0
      BY FS_EmptySet
    <2>2. Cardinality(Holders(r, ro)) <= 0
      BY <2>1 DEF SlotInv, Backed
    <2>3. Cardinality(Holders(r, ro)) = 0
      BY <2>2, FiniteHolders
    <2> QED  BY <2>3, FiniteHolders, FS_EmptySet
  <1>2. PICK s \in Taken(r, ro) : TRUE
    BY <1>1
  <1>3. ASSUME NEW k \in Slots, areas[k].start = r.start, areas[k].count = r.count
        PROVE  areas[k].ro = ro
    <2>1. CASE k = s
      BY <2>1, <1>2 DEF Taken
    <2>2. CASE k # s
      <3>1. s \in InUse /\ k \in InUse
        BY <1>2, <1>3, RangeFields DEF Taken, InUse
      <3>2. Overlap(areas[s], areas[k])
        BY <1>2, <1>3, RangeFields DEF Taken, Overlap
      <3>3. areas[s].ro /\ areas[k].ro
        BY <2>2, <3>1, <3>2 DEF SlotInv, Apart
      <3>4. areas[k].ro \in BOOLEAN /\ areas[s].ro = ro
        BY <1>2, AreaFields DEF SlotInv, Taken
      <3> QED  BY <3>3, <3>4, Zenon
    <2> QED  BY <2>1, <2>2
  <1>4. ASSUME NEW k \in Slots, areas[k].start = r.start, areas[k].count = r.count
        PROVE  k \in Taken(r, ro)
    <2>1. areas[k] \in Areas
      BY DEF SlotInv
    <2>2. areas[k] = [start |-> areas[k].start, count |-> areas[k].count, ro |-> areas[k].ro]
      BY <2>1 DEF Areas, FreeSlot
    <2> QED  BY <1>3, <1>4, <2>2 DEF Taken
  <1> QED  BY <1>1, <1>4 DEF Taken

(* _unlock_area on behalf of thread t, who has the range locked, keeps the *)
(* slots in order, also when it gives up.                                  *)
LEMMA UnlockKeeps ==
  ASSUME SlotInv, NEW t \in Threads, NEW r \in Ranges, NEW ro \in BOOLEAN,
         UnlockArea(r), t \in Holders(r, ro),
         Readers' = IF ro THEN Readers \ {t} ELSE Readers,
         Writers' = IF ro THEN Writers ELSE Writers \ {t},
         \A q \in Ranges, m \in BOOLEAN :
            Holders(q, m)' = IF q = r /\ m = ro THEN Holders(q, m) \ {t} ELSE Holders(q, m)
  PROVE  SlotInv'
  <1>1. t \in IF ro THEN Readers ELSE Writers
    BY DEF Holders, Readers, Writers
  <1>2. /\ IsFiniteSet(Readers') /\ IsFiniteSet(Writers')
        /\ Cardinality(Readers) \in Nat /\ Cardinality(Writers) \in Nat
        /\ Cardinality(Readers') \in Nat /\ Cardinality(Writers') \in Nat
        /\ Cardinality(Readers') + Cardinality(Writers') + 1
             = Cardinality(Readers) + Cardinality(Writers)
    <2>1. /\ IsFiniteSet(Readers) /\ IsFiniteSet(Writers)
          /\ Cardinality(Readers) \in Nat /\ Cardinality(Writers) \in Nat
      BY FS_CardinalityType DEF SlotInv
    <2>2. CASE ro
      <3>1. IsFiniteSet(Readers') /\ Cardinality(Readers') = Cardinality(Readers) - 1
        BY <1>1, <2>1, <2>2, FS_RemoveElement
      <3> QED  BY <2>1, <2>2, <3>1, FS_CardinalityType
    <2>3. CASE ~ro
      <3>1. IsFiniteSet(Writers') /\ Cardinality(Writers') = Cardinality(Writers) - 1
        BY <1>1, <2>1, <2>3, FS_RemoveElement
      <3> QED  BY <2>1, <2>3, <3>1, FS_CardinalityType
    <2> QED  BY <2>2, <2>3
  <1>3. /\ IsFiniteSet(Holders(r, ro) \ {t})
        /\ Cardinality(Holders(r, ro) \ {t}) = Cardinality(Holders(r, ro)) - 1
        /\ Cardinality(Holders(r, ro)) \in Nat
    BY FiniteHolders, FS_RemoveElement
  <1>4. Cardinality(InUse) = lost + Cardinality(Readers) + Cardinality(Writers) /\ lost \in Nat
    BY DEF SlotInv, Balanced
  <1>5. CASE lost' = lost + 1 /\ areas' = areas
    <2>1. InUse' = InUse /\ \A q \in Ranges, m \in BOOLEAN : Taken(q, m)' = Taken(q, m)
      BY <1>5 DEF InUse, Taken
    <2>2. Balanced'
      BY <1>2, <1>4, <1>5, <2>1 DEF Balanced
    <2>3. Apart'
      BY <1>5, <2>1 DEF SlotInv, Apart
    <2>4. Backed'
      <3> SUFFICES ASSUME NEW q \in Ranges, NEW m \in BOOLEAN
                   PROVE  Cardinality(Holders(q, m)') <= Cardinality(Taken(q, m)')
        BY DEF Backed
      <3>1. Cardinality(Holders(q, m)) <= Cardinality(Taken(q, m))
              /\ Cardinality(Taken(q, m)) \in Nat
        BY FiniteSlots DEF SlotInv, Backed, Taken
      <3>2. CASE q = r /\ m = ro
        BY <1>3, <2>1, <3>1, <3>2
      <3>3. CASE ~(q = r /\ m = ro)
        BY <2>1, <3>1, <3>3
      <3> QED  BY <3>2, <3>3
    <2> QED  BY <1>2, <1>4, <1>5, <2>2, <2>3, <2>4 DEF SlotInv
  <1>6. ASSUME NEW s \in Taken(r, ro), areas' = [areas EXCEPT ![s] = FreeSlot], lost' = lost
        PROVE  SlotInv'
    <2>1. areas' \in [Slots -> Areas] /\ s \in Slots
      BY <1>6 DEF SlotInv, Areas, Taken
    <2>2. InUse' = InUse \ {s} /\ s \in InUse
      BY <1>6, RangeFields DEF InUse, Taken, SlotInv, FreeSlot
    <2>3. Cardinality(InUse') = Cardinality(InUse) - 1 /\ Cardinality(InUse) \in Nat
      <3>1. IsFiniteSet(InUse) /\ Cardinality(InUse) \in Nat
        BY FiniteSlots DEF InUse
      <3> QED  BY <2>2, <3>1, FS_RemoveElement
    <2>4. Balanced'
      BY <1>2, <1>4, <1>6, <2>3 DEF Balanced
    <2>5. Apart'
      <3>1. \A k \in InUse' : areas'[k] = areas[k] /\ k \in InUse
        BY <1>6, <2>2 DEF InUse, SlotInv
      <3> QED  BY <3>1 DEF SlotInv, Apart
    <2>6. ASSUME NEW q \in Ranges, NEW m \in BOOLEAN
          PROVE  Taken(q, m)' = IF q = r /\ m = ro THEN Taken(q, m) \ {s} ELSE Taken(q, m)
      <3>1. s \in Taken(q, m) <=> q = r /\ m = ro
        BY <1>6, RangeFields DEF Taken
      <3>2. s \notin Taken(q, m)'
        BY <1>6, <2>1, RangeFields DEF Taken, FreeSlot, SlotInv
      <3>3. \A k \in Slots \ {s} : k \in Taken(q, m)' <=> k \in Taken(q, m)
        BY <1>6 DEF Taken, SlotInv
      <3> QED  BY <3>1, <3>2, <3>3 DEF Taken
    <2>7. Backed'
      <3> SUFFICES ASSUME NEW q \in Ranges, NEW m \in BOOLEAN
                   PROVE  Cardinality(Holders(q, m)') <= Cardinality(Taken(q, m)')
        BY DEF Backed
      <3>1. Cardinality(Holders(q, m)) <= Cardinality(Taken(q, m))
              /\ Cardinality(Taken(q, m)) \in Nat /\ IsFiniteSet(Taken(q, m))
        BY FiniteSlots DEF SlotInv, Backed, Taken
      <3>2. CASE q = r /\ m = ro
        <4>1. Cardinality(Taken(q, m) \ {s}) = Cardinality(Taken(q, m)) - 1
          BY <1>6, <3>1, <3>2, FS_RemoveElement
        <4>2. Cardinality(Taken(q, m)') = Cardinality(Taken(q, m)) - 1
          BY <2>6, <3>2, <4>1
        <4>3. Cardinality(Holders(q, m)') = Cardinality(Holders(q, m)) - 1
                /\ Cardinality(Holders(q, m)) \in Nat
          BY <1>3, <3>2
        <4> QED  BY <3>1, <4>2, <4>3
      <3>3. CASE ~(q = r /\ m = ro)
        BY <2>6, <3>1, <3>3
      <3> QED  BY <3>2, <3>3
    <2> QED  BY <1>2, <1>4, <1>6, <2>1, <2>4, <2>5, <2>7 DEF SlotInv
  <1>7. FirstSlot(Taken(r, ro)) \in Taken(r, ro)
    BY OwnSlot, FirstSlotIn DEF Taken
  <1>8. \/ areas' = [areas EXCEPT ![FirstSlot(Taken(r, ro))] = FreeSlot] /\ lost' = lost
        \/ lost' = lost + 1 /\ areas' = areas
    BY OwnSlot DEF UnlockArea
  <1> QED  BY <1>5, <1>6, <1>7, <1>8

(* Steps that lock and unlock nothing. *)
LEMMA SlotsKept ==
  ASSUME SlotInv, UNCHANGED <<areas, lost>>, Readers' = Readers, Writers' = Writers,
         \A q \in Ranges, m \in BOOLEAN : Holders(q, m)' = Holders(q, m)
  PROVE  SlotInv'
  <1>1. InUse' = InUse /\ \A q \in Ranges, m \in BOOLEAN : Taken(q, m)' = Taken(q, m)
    BY DEF InUse, Taken
  <1>2. Backed'
    BY <1>1 DEF SlotInv, Backed
  <1>3. Apart' /\ Balanced'
    BY <1>1 DEF SlotInv, Apart, Balanced
  <1> QED  BY <1>2, <1>3 DEF SlotInv

-----------------------------------------------------------------------------
(* From slots to threads. *)

(* Two different members make a set of two. *)
LEMMA PairCardinality ==
  ASSUME NEW t, NEW u, t # u
  PROVE  Cardinality({t, u}) = 2
  <1>1. IsFiniteSet({u}) /\ Cardinality({u}) = 1
    BY FS_Singleton
  <1>2. t \notin {u}
    OBVIOUS
  <1>3. Cardinality({u} \cup {t}) = Cardinality({u}) + 1
    BY <1>1, <1>2, FS_AddElement
  <1>4. {u} \cup {t} = {t, u}
    OBVIOUS
  <1>5. Cardinality({t, u}) = Cardinality({u}) + 1
    BY <1>3, <1>4, Zenon
  <1> QED  BY <1>1, <1>5

LEMMA TwoHolders ==
  ASSUME SlotInv, NEW r \in Ranges, NEW ro \in BOOLEAN,
         NEW t \in Holders(r, ro), NEW u \in Holders(r, ro), t # u
  PROVE  \E s, k \in Taken(r, ro) : s # k
  <1>1. Cardinality({t, u}) = 2
    BY PairCardinality
  <1>2. Cardinality(Holders(r, ro)) >= 2 /\ Cardinality(Holders(r, ro)) \in Nat
    <2>1. {t, u} \in SUBSET Holders(r, ro) /\ IsFiniteSet(Holders(r, ro))
      BY FiniteHolders
    <2> QED  BY <1>1, <2>1, FS_Subset, FiniteHolders
  <1>3. /\ IsFiniteSet(Taken(r, ro)) /\ Cardinality(Taken(r, ro)) \in Nat
        /\ Cardinality(Taken(r, ro)) >= 2
    <2>1. IsFiniteSet(Taken(r, ro)) /\ Cardinality(Taken(r, ro)) \in Nat
      BY FiniteSlots DEF Taken
    <2>2. Cardinality(Holders(r, ro)) <= Cardinality(Taken(r, ro))
      BY DEF SlotInv, Backed
    <2> QED  BY <1>2, <2>1, <2>2
  <1>4. PICK s \in Taken(r, ro) : TRUE
    BY <1>3, FS_EmptySet
  <1>5. Cardinality(Taken(r, ro) \ {s}) = Cardinality(Taken(r, ro)) - 1
    BY <1>3, <1>4, FS_RemoveElement
  <1>6. Taken(r, ro) \ {s} # {}
    <2>1. Cardinality(Taken(r, ro) \ {s}) # 0
      BY <1>3, <1>5
    <2> QED  BY <2>1, FS_EmptySet
  <1> QED  BY <1>6

(* What is locked for writing is not locked in another way. *)
LEMMA WriterAlone ==
  ASSUME SlotInv, ThreadInv, NEW t \in Threads, NEW u \in Threads
  PROVE  /\ Writing(t) \cap Reading(u) = {}
         /\ t # u => Writing(t) \cap Writing(u) = {}
  <1>1. ASSUME NEW s \in Slots, NEW k \in Slots, s # k, NEW r \in Ranges, NEW q \in Ranges,
               NEW ro \in BOOLEAN, s \in Taken(r, FALSE), k \in Taken(q, ro)
        PROVE  Span(r) \cap Span(q) = {}
    <2>1. s \in InUse /\ k \in InUse
      BY <1>1, RangeFields DEF Taken, InUse
    <2>2. ~areas[s].ro
      BY <1>1 DEF Taken
    <2>3. ~Overlap(areas[s], areas[k])
      BY <1>1, <2>1, <2>2 DEF SlotInv, Apart
    <2>4. areas[s].start = r.start /\ areas[s].count = r.count
            /\ areas[k].start = q.start /\ areas[k].count = q.count
      BY <1>1 DEF Taken
    <2> QED  BY <2>3, <2>4, RangeFields DEF Overlap, Span
  <1>2. ASSUME Writing(t) # {}
        PROVE  /\ dst[t] \in Ranges /\ Writing(t) = Span(dst[t])
               /\ t \in Holders(dst[t], FALSE) /\ Taken(dst[t], FALSE) # {}
    <2>1. dst[t] \in Ranges /\ Writing(t) = Span(dst[t]) /\ t \in Holders(dst[t], FALSE)
      BY <1>2, LockedRanges DEF Holders
    <2> QED  BY <2>1, OwnSlot
  <1>3. ASSUME Writing(t) # {}, Reading(u) # {}
        PROVE  Writing(t) \cap Reading(u) = {}
    <2>1. src[u] \in Ranges /\ Reading(u) = Span(src[u]) /\ u \in Holders(src[u], TRUE)
      BY <1>3, LockedRanges DEF Holders
    <2>2. Taken(src[u], TRUE) # {}
      BY <2>1, OwnSlot
    <2>3. PICK s \in Taken(dst[t], FALSE), k \in Taken(src[u], TRUE) : TRUE
      BY <1>2, <1>3, <2>2
    <2>4. s \in Slots /\ k \in Slots /\ s # k
      BY <2>3 DEF Taken
    <2>5. Span(dst[t]) \cap Span(src[u]) = {}
      BY <1>1, <1>2, <1>3, <2>1, <2>3, <2>4
    <2> QED  BY <1>2, <1>3, <2>1, <2>5
  <1>4. ASSUME Writing(t) # {}, Writing(u) # {}, t # u
        PROVE  Writing(t) \cap Writing(u) = {}
    <2>1. dst[u] \in Ranges /\ Writing(u) = Span(dst[u]) /\ u \in Holders(dst[u], FALSE)
      BY <1>4, LockedRanges DEF Holders
    <2>2. \E s \in Taken(dst[t], FALSE), k \in Taken(dst[u], FALSE) : s # k
      <3>1. CASE dst[t] = dst[u]
        <4>1. t \in Holders(dst[t], FALSE) /\ u \in Holders(dst[t], FALSE) /\ dst[t] \in Ranges
          BY <1>2, <1>4, <2>1, <3>1
        <4> QED  BY <1>4, <3>1, <4>1, TwoHolders
      <3>2. CASE dst[t] # dst[u]
        <4>1. Taken(dst[u], FALSE) # {} /\ Taken(dst[t], FALSE) # {}
          BY <1>2, <1>4, <2>1, OwnSlot
        <4>2. Taken(dst[u], FALSE) \cap Taken(dst[t], FALSE) = {}
          <5> SUFFICES ASSUME NEW s \in Taken(dst[u], FALSE), s \in Taken(dst[t], FALSE)
                       PROVE  FALSE
            OBVIOUS
          <5>1. dst[u].start = dst[t].start /\ dst[u].count = dst[t].count
            BY DEF Taken
          <5> QED  BY <1>2, <1>4, <2>1, <3>2, <5>1, RangeFields
        <4> QED  BY <4>1, <4>2
      <3> QED  BY <3>1, <3>2
    <2>3. PICK s \in Taken(dst[t], FALSE), k \in Taken(dst[u], FALSE) : s # k
      BY <2>2
    <2>4. s \in Slots /\ k \in Slots
      BY <2>3 DEF Taken
    <2>5. Span(dst[t]) \cap Span(dst[u]) = {}
      BY <1>1, <1>2, <1>4, <2>1, <2>3, <2>4
    <2> QED  BY <1>2, <1>4, <2>1, <2>5
  <1> QED  BY <1>3, <1>4

LEMMA GuardExcludes ==
  ASSUME SlotInv, ThreadInv
  PROVE  NoConflict
  BY WriterAlone DEF NoConflict

-----------------------------------------------------------------------------
(* A step of one thread leaves the locals of the others alone. *)
LEMMA OthersKept ==
  ASSUME Types, NEW t \in Threads, Step(t), NEW u \in Threads, u # t
  PROVE  /\ pc'[u] = pc[u] /\ src'[u] = src[u] /\ dst'[u] = dst[u]
         /\ next'[u] = next[u] /\ buffer'[u] = buffer[u] /\ seen'[u] = seen[u]
  BY Zenon DEF Types, Step, Read, Write, CopyLockSource, ReadSector, ReadEnd, WriteSector, WriteEnd,
     CopyLockDestination, CopyRefused, CopyRead, CopyWrite, CopyEnd, CopyUnlockSource,
     Return, Goto

(* Each step is one of these; the last six return or end a lock. *)
LEMMA StepCases ==
  ASSUME NEW t \in Threads, Step(t)
  PROVE  \/ \E r \in Ranges, first \in 0 .. MaxCount : Read(t, r, first)
         \/ \E r \in Ranges, first \in 0 .. MaxCount : Write(t, r, first)
         \/ \E r \in Ranges, to \in Sectors :
              to + r.count <= NSectors /\ CopyLockSource(t, r, to)
         \/ ReadSector(t) \/ WriteSector(t)
         \/ CopyLockDestination(t) \/ CopyRead(t) \/ CopyWrite(t)
         \/ ReadEnd(t) \/ WriteEnd(t) \/ CopyRefused(t)
         \/ CopyEnd(t) \/ CopyUnlockSource(t)
  BY DEF Step

(* The sectors a thread is about to read or write are sectors. *)
LEMMA LoopInside ==
  ASSUME NEW r \in Ranges, NEW n \in Nat, n < r.count
  PROVE  r.start + n \in Span(r) /\ r.start + n \in Sectors
  <1>1. r.start + n \in Span(r)
    BY RangeFields DEF Span
  <1> QED  BY <1>1, RangeFields

LEMMA TypesKept ==
  ASSUME ThreadInv, NEW t \in Threads, Step(t)
  PROVE  Types'
  <1> USE DEF Types
  <1>0. NoRange \in Ranges \cup {NoRange} /\ NoData \in Data /\ t \in Data
          /\ 0 \in 0 .. MaxCount /\ MaxCount \in Nat
          /\ [s \in Sectors |-> NoData] \in [Sectors -> Data]
    BY SlotAssumption DEF Data
  <1>1. ASSUME NEW r \in Ranges, NEW first \in 0 .. MaxCount, Read(t, r, first)
        PROVE  Types'
    BY <1>1 DEF ThreadInv, Read, Goto
  <1>2. ASSUME NEW r \in Ranges, NEW first \in 0 .. MaxCount, Write(t, r, first)
        PROVE  Types'
    BY <1>2 DEF ThreadInv, Write, Goto
  <1>3. ASSUME NEW r \in Ranges, NEW to \in Sectors, to + r.count <= NSectors,
               CopyLockSource(t, r, to)
        PROVE  Types'
    <2>1. [start |-> to, count |-> r.count] \in Ranges
      BY <1>3, RangeFields DEF Ranges
    <2> QED  BY <1>3, <2>1 DEF ThreadInv, CopyLockSource, Goto
  <1>4. CASE ReadSector(t)
    <2>1. next[t] + 1 \in 0 .. MaxCount
      <3>1. src[t] \in Ranges /\ next[t] \in Nat /\ next[t] < src[t].count
        BY <1>4 DEF ThreadInv, Place, ReadSector
      <3> QED  BY <1>0, <3>1, RangeFields
    <2> QED  BY <1>4, <2>1 DEF ThreadInv, ReadSector
  <1>5. CASE WriteSector(t)
    <2>1. dst[t] \in Ranges /\ next[t] \in Nat /\ next[t] < dst[t].count
      BY <1>5 DEF ThreadInv, Place, WriteSector
    <2>2. next[t] + 1 \in 0 .. MaxCount
      BY <1>0, <2>1, RangeFields
    <2> QED  BY <1>0, <1>5, <2>1, <2>2, LoopInside DEF ThreadInv, WriteSector
  <1>6. CASE CopyLockDestination(t)
    BY <1>6 DEF ThreadInv, CopyLockDestination, Goto
  <1>7. CASE CopyRead(t)
    <2>1. src[t] \in Ranges /\ next[t] \in Nat /\ next[t] < src[t].count
      BY <1>7 DEF ThreadInv, Place, CopyRead
    <2>2. disk[src[t].start + next[t]] \in Data
      BY <2>1, LoopInside DEF ThreadInv
    <2> QED  BY <1>7, <2>2 DEF ThreadInv, CopyRead, Goto
  <1>8. CASE CopyWrite(t)
    <2>1. dst[t] \in Ranges /\ next[t] \in Nat /\ next[t] < dst[t].count
      BY <1>8 DEF ThreadInv, Place, CopyWrite
    <2>2. next[t] + 1 \in 0 .. MaxCount
      BY <1>0, <2>1, RangeFields
    <2> QED  BY <1>8, <2>1, <2>2, LoopInside DEF ThreadInv, CopyWrite, Goto
  <1>9. CASE ReadEnd(t) \/ WriteEnd(t) \/ CopyRefused(t) \/ CopyUnlockSource(t)
    <2>1. Return(t) /\ disk' = disk
      BY <1>9 DEF ReadEnd, WriteEnd, CopyRefused, CopyUnlockSource
    <2> QED  BY <1>0, <2>1 DEF ThreadInv, Return
  <1>10. CASE CopyEnd(t)
    BY <1>10 DEF ThreadInv, CopyEnd, Goto
  <1> QED  BY <1>1, <1>2, <1>3, <1>4, <1>5, <1>6, <1>7, <1>8, <1>9, <1>10, StepCases

LEMMA PlaceKept ==
  ASSUME ThreadInv, ReadsAtomic, NEW t \in Threads, Step(t), NEW u \in Threads
  PROVE  Place(u)'
  <1>1. CASE u # t
    <2>1. Place(u)
      BY DEF ThreadInv
    <2> QED  BY <1>1, <2>1, OthersKept DEF ThreadInv, Place
  <1>2. CASE u = t
    <2> SUFFICES Place(t)'
      BY <1>2
    <2> USE DEF Types
    <2>0. NoRange = [start |-> 0, count |-> 0] /\ Place(t) /\ Types
      BY DEF NoRange, ThreadInv
    <2>1. ASSUME NEW r \in Ranges, NEW first \in 0 .. MaxCount, Read(t, r, first)
          PROVE  Place(t)'
      BY <2>0, <2>1 DEF Place, Read, Goto
    <2>2. ASSUME NEW r \in Ranges, NEW first \in 0 .. MaxCount, Write(t, r, first)
          PROVE  Place(t)'
      BY <2>0, <2>2 DEF Place, Write, Goto
    <2>3. ASSUME NEW r \in Ranges, NEW to \in Sectors, to + r.count <= NSectors,
                 CopyLockSource(t, r, to)
          PROVE  Place(t)'
      <3>1. [start |-> to, count |-> r.count] \in Ranges
        BY <2>3, RangeFields DEF Ranges
      <3>2. pc[t] = "idle" /\ next[t] = 0 /\ pc'[t] = "copy_lock" /\ src'[t] = r
              /\ dst'[t] = [start |-> to, count |-> r.count] /\ next'[t] = next[t]
        BY <2>0, <2>3 DEF Place, CopyLockSource, Goto
      <3> QED  BY <3>1, <3>2 DEF Place
    <2>4. CASE ReadSector(t)
      BY <2>0, <2>4 DEF Place, ReadSector
    <2>5. CASE WriteSector(t)
      BY <2>0, <2>5 DEF Place, WriteSector
    <2>6. CASE CopyLockDestination(t)
      <3>1. pc[t] = "copy_lock" /\ pc'[t] = "copy_read" /\ next'[t] = 0
              /\ src'[t] = src[t] /\ dst'[t] = dst[t] /\ src[t] \in Ranges /\ dst[t] \in Ranges
              /\ src[t].count = dst[t].count
        BY <2>0, <2>6 DEF Place, CopyLockDestination, Goto
      <3> QED  BY <3>1, RangeFields DEF Place
    <2>7. CASE CopyRead(t)
      <3>1. src[t] \in Ranges /\ next[t] \in Nat /\ next[t] < src[t].count
        BY <2>0, <2>7 DEF Place, CopyRead
      <3>2. Reading(t) = Span(src[t])
        BY <2>7 DEF Reading, CopyRead
      <3>3. disk[src[t].start + next[t]] = seen[t][src[t].start + next[t]]
        BY <3>1, <3>2, LoopInside DEF ReadsAtomic
      <3> QED  BY <2>0, <2>7, <3>1, <3>3 DEF Place, CopyRead, Goto
    <2>8. CASE CopyWrite(t)
      <3>1. src[t] \in Ranges /\ dst[t] \in Ranges /\ src[t].count = dst[t].count
              /\ next[t] \in Nat /\ next[t] < src[t].count
        BY <2>0, <2>8 DEF Place, CopyWrite
      <3>2. next'[t] = next[t] + 1 /\ src'[t] = src[t] /\ dst'[t] = dst[t]
              /\ pc'[t] = "copy_read"
        BY <2>0, <2>8 DEF CopyWrite, Goto
      <3>3. next'[t] <= src'[t].count
        BY <3>1, <3>2, RangeFields
      <3> QED  BY <3>1, <3>2, <3>3 DEF Place
    <2>9. CASE ReadEnd(t) \/ WriteEnd(t) \/ CopyRefused(t) \/ CopyUnlockSource(t)
      <3>1. Return(t)
        BY <2>9 DEF ReadEnd, WriteEnd, CopyRefused, CopyUnlockSource
      <3> QED  BY <2>0, <3>1 DEF Return, Place
    <2>10. CASE CopyEnd(t)
      BY <2>0, <2>10 DEF Place, CopyEnd, Goto
    <2> QED  BY <2>1, <2>2, <2>3, <2>4, <2>5, <2>6, <2>7, <2>8, <2>9, <2>10, StepCases
  <1> QED  BY <1>1, <1>2

LEMMA ThreadsKept ==
  ASSUME ThreadInv, ReadsAtomic, NEW t \in Threads, Step(t)
  PROVE  ThreadInv'
  BY TypesKept, PlaceKept DEF ThreadInv

(* What a thread locks or unlocks changes no lock of another one. *)
LEMMA OtherLocks ==
  ASSUME Types, NEW t \in Threads, Step(t), NEW u \in Threads, u # t
  PROVE  /\ Reading(u)' = Reading(u) /\ Writing(u)' = Writing(u)
         /\ src'[u] = src[u] /\ dst'[u] = dst[u]
  BY OthersKept DEF Reading, Writing, Span

(* How the holders of one kind of lock change, from how the lock of the    *)
(* one thread does.                                                        *)
LEMMA ReadersSame ==
  ASSUME Types, NEW t \in Threads, Step(t),
         Reading(t)' = Reading(t), Reading(t) # {} => src'[t] = src[t]
  PROVE  /\ Readers' = Readers
         /\ \A q \in Ranges : Holders(q, TRUE)' = Holders(q, TRUE)
  <1>1. \A u \in Threads : u \in Readers' <=> u \in Readers
    BY OtherLocks DEF Readers
  <1>2. Readers' = Readers
    BY <1>1 DEF Readers
  <1>3. ASSUME NEW q \in Ranges
        PROVE  Holders(q, TRUE)' = Holders(q, TRUE)
    <2>1. \A u \in Threads : u \in Holders(q, TRUE)' <=> u \in Holders(q, TRUE)
      BY OtherLocks DEF Holders
    <2> QED  BY <2>1 DEF Holders
  <1> QED  BY <1>2, <1>3

LEMMA ReadersIn ==
  ASSUME Types, NEW t \in Threads, Step(t),
         NEW r \in Ranges, Reading(t) = {}, Reading(t)' # {}, src'[t] = r
  PROVE  /\ Readers' = Readers \cup {t}
         /\ \A q \in Ranges : Holders(q, TRUE)' = IF q = r THEN Holders(q, TRUE) \cup {t} ELSE Holders(q, TRUE)
         /\ t \notin Readers /\ t \notin Holders(r, TRUE)
  <1>1. \A u \in Threads : u \in Readers' <=> u = t \/ u \in Readers
    BY OtherLocks DEF Readers
  <1>2. Readers' = Readers \cup {t}
    BY <1>1 DEF Readers
  <1>3. ASSUME NEW q \in Ranges
        PROVE  Holders(q, TRUE)' = IF q = r THEN Holders(q, TRUE) \cup {t} ELSE Holders(q, TRUE)
    <2>1. \A u \in Threads : u \in Holders(q, TRUE)' <=> (u = t /\ q = r) \/ u \in Holders(q, TRUE)
      BY OtherLocks DEF Holders
    <2> QED  BY <2>1 DEF Holders
  <1> QED  BY <1>2, <1>3 DEF Holders, Readers

LEMMA ReadersOut ==
  ASSUME Types, NEW t \in Threads, Step(t),
         Reading(t) # {}, Reading(t)' = {}
  PROVE  /\ Readers' = Readers \ {t}
         /\ \A q \in Ranges : Holders(q, TRUE)' = IF q = src[t] THEN Holders(q, TRUE) \ {t} ELSE Holders(q, TRUE)
         /\ t \in Readers /\ t \in Holders(src[t], TRUE)
  <1>1. \A u \in Threads : u \in Readers' <=> u # t /\ u \in Readers
    BY OtherLocks DEF Readers
  <1>2. Readers' = Readers \ {t}
    BY <1>1 DEF Readers
  <1>3. ASSUME NEW q \in Ranges
        PROVE  Holders(q, TRUE)' = IF q = src[t] THEN Holders(q, TRUE) \ {t} ELSE Holders(q, TRUE)
    <2>1. \A u \in Threads : u \in Holders(q, TRUE)' <=> u # t /\ u \in Holders(q, TRUE)
      BY OtherLocks DEF Holders
    <2> QED  BY <2>1 DEF Holders
  <1> QED  BY <1>2, <1>3 DEF Holders, Readers

LEMMA WritersSame ==
  ASSUME Types, NEW t \in Threads, Step(t),
         Writing(t)' = Writing(t), Writing(t) # {} => dst'[t] = dst[t]
  PROVE  /\ Writers' = Writers
         /\ \A q \in Ranges : Holders(q, FALSE)' = Holders(q, FALSE)
  <1>1. \A u \in Threads : u \in Writers' <=> u \in Writers
    BY OtherLocks DEF Writers
  <1>2. Writers' = Writers
    BY <1>1 DEF Writers
  <1>3. ASSUME NEW q \in Ranges
        PROVE  Holders(q, FALSE)' = Holders(q, FALSE)
    <2>1. \A u \in Threads : u \in Holders(q, FALSE)' <=> u \in Holders(q, FALSE)
      BY OtherLocks DEF Holders
    <2> QED  BY <2>1 DEF Holders
  <1> QED  BY <1>2, <1>3

LEMMA WritersIn ==
  ASSUME Types, NEW t \in Threads, Step(t),
         NEW r \in Ranges, Writing(t) = {}, Writing(t)' # {}, dst'[t] = r
  PROVE  /\ Writers' = Writers \cup {t}
         /\ \A q \in Ranges : Holders(q, FALSE)' = IF q = r THEN Holders(q, FALSE) \cup {t} ELSE Holders(q, FALSE)
         /\ t \notin Writers /\ t \notin Holders(r, FALSE)
  <1>1. \A u \in Threads : u \in Writers' <=> u = t \/ u \in Writers
    BY OtherLocks DEF Writers
  <1>2. Writers' = Writers \cup {t}
    BY <1>1 DEF Writers
  <1>3. ASSUME NEW q \in Ranges
        PROVE  Holders(q, FALSE)' = IF q = r THEN Holders(q, FALSE) \cup {t} ELSE Holders(q, FALSE)
    <2>1. \A u \in Threads : u \in Holders(q, FALSE)' <=> (u = t /\ q = r) \/ u \in Holders(q, FALSE)
      BY OtherLocks DEF Holders
    <2> QED  BY <2>1 DEF Holders
  <1> QED  BY <1>2, <1>3 DEF Holders, Writers

LEMMA WritersOut ==
  ASSUME Types, NEW t \in Threads, Step(t),
         Writing(t) # {}, Writing(t)' = {}
  PROVE  /\ Writers' = Writers \ {t}
         /\ \A q \in Ranges : Holders(q, FALSE)' = IF q = dst[t] THEN Holders(q, FALSE) \ {t} ELSE Holders(q, FALSE)
         /\ t \in Writers /\ t \in Holders(dst[t], FALSE)
  <1>1. \A u \in Threads : u \in Writers' <=> u # t /\ u \in Writers
    BY OtherLocks DEF Writers
  <1>2. Writers' = Writers \ {t}
    BY <1>1 DEF Writers
  <1>3. ASSUME NEW q \in Ranges
        PROVE  Holders(q, FALSE)' = IF q = dst[t] THEN Holders(q, FALSE) \ {t} ELSE Holders(q, FALSE)
    <2>1. \A u \in Threads : u \in Holders(q, FALSE)' <=> u # t /\ u \in Holders(q, FALSE)
      BY OtherLocks DEF Holders
    <2> QED  BY <2>1 DEF Holders
  <1> QED  BY <1>2, <1>3 DEF Holders, Writers

(* Locks taken and given back by the steps of thread t. *)
LEMMA ReaderEnters ==
  ASSUME SlotInv, ThreadInv, NEW t \in Threads, Step(t), NEW r \in Ranges,
         LockArea(r, TRUE), UNCHANGED lost,
         Reading(t) = {}, Reading(t)' # {}, src'[t] = r,
         Writing(t) = {}, Writing(t)' = {}
  PROVE  SlotInv'
  <1>1. /\ t \notin Readers /\ t \notin Holders(r, TRUE) /\ Readers' = Readers \cup {t}
        /\ \A q \in Ranges : Holders(q, TRUE)' = IF q = r THEN Holders(q, TRUE) \cup {t}
                                                          ELSE Holders(q, TRUE)
    BY ReadersIn DEF ThreadInv
  <1>2. Writers' = Writers /\ \A q \in Ranges : Holders(q, FALSE)' = Holders(q, FALSE)
    BY WritersSame DEF ThreadInv
  <1>3. \A q \in Ranges, m \in BOOLEAN :
          Holders(q, m)' = IF q = r /\ m = TRUE THEN Holders(q, m) \cup {t} ELSE Holders(q, m)
    BY <1>1, <1>2
  <1> QED  BY <1>1, <1>2, <1>3, LockKeeps

LEMMA WriterEnters ==
  ASSUME SlotInv, ThreadInv, NEW t \in Threads, Step(t), NEW r \in Ranges,
         LockArea(r, FALSE), UNCHANGED lost,
         Writing(t) = {}, Writing(t)' # {}, dst'[t] = r,
         Reading(t)' = Reading(t), src'[t] = src[t]
  PROVE  SlotInv'
  <1>1. /\ t \notin Writers /\ t \notin Holders(r, FALSE) /\ Writers' = Writers \cup {t}
        /\ \A q \in Ranges : Holders(q, FALSE)' = IF q = r THEN Holders(q, FALSE) \cup {t}
                                                           ELSE Holders(q, FALSE)
    BY WritersIn DEF ThreadInv
  <1>2. Readers' = Readers /\ \A q \in Ranges : Holders(q, TRUE)' = Holders(q, TRUE)
    BY ReadersSame DEF ThreadInv
  <1>3. \A q \in Ranges, m \in BOOLEAN :
          Holders(q, m)' = IF q = r /\ m = FALSE THEN Holders(q, m) \cup {t} ELSE Holders(q, m)
    BY <1>1, <1>2
  <1> QED  BY <1>1, <1>2, <1>3, LockKeeps

LEMMA ReaderLeaves ==
  ASSUME SlotInv, ThreadInv, NEW t \in Threads, Step(t), UnlockArea(src[t]),
         Reading(t) # {}, Reading(t)' = {}, Writing(t) = {}, Writing(t)' = {}
  PROVE  SlotInv'
  <1>0. src[t] \in Ranges
    BY LockedRanges
  <1>1. /\ t \in Holders(src[t], TRUE) /\ Readers' = Readers \ {t}
        /\ \A q \in Ranges : Holders(q, TRUE)' = IF q = src[t] THEN Holders(q, TRUE) \ {t}
                                                               ELSE Holders(q, TRUE)
    BY ReadersOut DEF ThreadInv
  <1>2. Writers' = Writers /\ \A q \in Ranges : Holders(q, FALSE)' = Holders(q, FALSE)
    BY WritersSame DEF ThreadInv
  <1>3. \A q \in Ranges, m \in BOOLEAN :
          Holders(q, m)' = IF q = src[t] /\ m = TRUE THEN Holders(q, m) \ {t} ELSE Holders(q, m)
    BY <1>1, <1>2
  <1> QED  BY <1>0, <1>1, <1>2, <1>3, UnlockKeeps

LEMMA WriterLeaves ==
  ASSUME SlotInv, ThreadInv, NEW t \in Threads, Step(t), UnlockArea(dst[t]),
         Writing(t) # {}, Writing(t)' = {}, Reading(t)' = Reading(t),
         Reading(t) # {} => src'[t] = src[t]
  PROVE  SlotInv'
  <1>0. dst[t] \in Ranges
    BY LockedRanges
  <1>1. /\ t \in Holders(dst[t], FALSE) /\ Writers' = Writers \ {t}
        /\ \A q \in Ranges : Holders(q, FALSE)' = IF q = dst[t] THEN Holders(q, FALSE) \ {t}
                                                                ELSE Holders(q, FALSE)
    BY WritersOut DEF ThreadInv
  <1>2. Readers' = Readers /\ \A q \in Ranges : Holders(q, TRUE)' = Holders(q, TRUE)
    BY ReadersSame DEF ThreadInv
  <1>3. \A q \in Ranges, m \in BOOLEAN :
          Holders(q, m)' = IF q = dst[t] /\ m = FALSE THEN Holders(q, m) \ {t} ELSE Holders(q, m)
    BY <1>1, <1>2
  <1> QED  BY <1>0, <1>1, <1>2, <1>3, UnlockKeeps

LEMMA NobodyMoves ==
  ASSUME SlotInv, ThreadInv, NEW t \in Threads, Step(t), UNCHANGED <<areas, lost>>,
         Reading(t)' = Reading(t), Writing(t)' = Writing(t), src'[t] = src[t], dst'[t] = dst[t]
  PROVE  SlotInv'
  <1>1. Writers' = Writers /\ \A q \in Ranges : Holders(q, FALSE)' = Holders(q, FALSE)
    BY WritersSame DEF ThreadInv
  <1>2. Readers' = Readers /\ \A q \in Ranges : Holders(q, TRUE)' = Holders(q, TRUE)
    BY ReadersSame DEF ThreadInv
  <1>3. \A q \in Ranges, m \in BOOLEAN : Holders(q, m)' = Holders(q, m)
    BY <1>1, <1>2
  <1> QED  BY <1>1, <1>2, <1>3, SlotsKept

(* One slot is taken for each lock and freed for each lock given back, on  *)
(* every path of every call.                                               *)
LEMMA SlotsStep ==
  ASSUME SlotInv, ThreadInv, ReadsAtomic, NEW t \in Threads, Step(t)
  PROVE  SlotInv'
  <1> USE DEF Types
  <1>0. ThreadInv'
    BY ThreadsKept
  <1>a. /\ Reading(t) # {} <=> pc[t] \notin {"idle", "write"}
        /\ Writing(t) # {} <=> pc[t] \in {"write", "copy_read", "copy_write"}
        /\ Reading(t)' # {} <=> pc'[t] \notin {"idle", "write"}
        /\ Writing(t)' # {} <=> pc'[t] \in {"write", "copy_read", "copy_write"}
    <2>1. /\ Reading(t) # {} <=> pc[t] \notin {"idle", "write"}
          /\ Writing(t) # {} <=> pc[t] \in {"write", "copy_read", "copy_write"}
      BY LockedRanges
    <2>2. (ThreadInv => /\ Reading(t) # {} <=> pc[t] \notin {"idle", "write"}
                        /\ Writing(t) # {} <=> pc[t] \in {"write", "copy_read", "copy_write"})'
      BY LockedRanges, PTL
    <2> QED  BY <1>0, <2>1, <2>2
  <1>1. ASSUME NEW r \in Ranges, NEW first \in 0 .. MaxCount, Read(t, r, first)
        PROVE  SlotInv'
    <2>1. pc[t] = "idle" /\ pc'[t] = "read" /\ src'[t] = r /\ LockArea(r, TRUE) /\ lost' = lost
      BY <1>1 DEF ThreadInv, Read, Goto
    <2> QED  BY <1>a, <2>1, ReaderEnters
  <1>2. ASSUME NEW r \in Ranges, NEW first \in 0 .. MaxCount, Write(t, r, first)
        PROVE  SlotInv'
    <2>1. pc[t] = "idle" /\ pc'[t] = "write" /\ dst'[t] = r /\ LockArea(r, FALSE) /\ lost' = lost
            /\ src'[t] = src[t]
      BY <1>2 DEF ThreadInv, Write, Goto
    <2>2. Reading(t)' = Reading(t)
      BY <2>1 DEF Reading
    <2> QED  BY <1>a, <2>1, <2>2, WriterEnters
  <1>3. ASSUME NEW r \in Ranges, NEW to \in Sectors, CopyLockSource(t, r, to)
        PROVE  SlotInv'
    <2>1. pc[t] = "idle" /\ pc'[t] = "copy_lock" /\ src'[t] = r /\ LockArea(r, TRUE)
            /\ lost' = lost
      BY <1>3 DEF ThreadInv, CopyLockSource, Goto
    <2> QED  BY <1>a, <2>1, ReaderEnters
  <1>4. CASE ReadSector(t) \/ WriteSector(t) \/ CopyRead(t) \/ CopyWrite(t)
    <2>1. UNCHANGED <<areas, lost, src, dst>>
      BY <1>4 DEF ReadSector, WriteSector, CopyRead, CopyWrite
    <2>2. \/ pc'[t] = pc[t]
          \/ pc[t] \in {"copy_read", "copy_write"} /\ pc'[t] \in {"copy_read", "copy_write"}
      BY <1>4 DEF ThreadInv, ReadSector, WriteSector, CopyRead, CopyWrite, Goto
    <2>3. Reading(t)' = Reading(t) /\ Writing(t)' = Writing(t)
      BY <2>1, <2>2 DEF Reading, Writing, Span
    <2> QED  BY <2>1, <2>3, NobodyMoves
  <1>5. CASE CopyLockDestination(t)
    <2>1. pc[t] = "copy_lock" /\ pc'[t] = "copy_read" /\ dst'[t] = dst[t]
            /\ LockArea(dst[t], FALSE) /\ lost' = lost /\ src'[t] = src[t]
      BY <1>5 DEF ThreadInv, CopyLockDestination, Goto
    <2>2. dst[t] \in Ranges
      BY <2>1 DEF ThreadInv, Place
    <2>3. Reading(t)' = Reading(t)
      BY <2>1 DEF Reading, Span
    <2> QED  BY <1>a, <2>1, <2>2, <2>3, WriterEnters
  <1>6. CASE ReadEnd(t) \/ CopyRefused(t) \/ CopyUnlockSource(t)
    <2>1. pc[t] \in {"read", "copy_lock", "copy_unlock"} /\ UnlockArea(src[t]) /\ pc'[t] = "idle"
      BY <1>6 DEF ThreadInv, ReadEnd, CopyRefused, CopyUnlockSource, Return
    <2> QED  BY <1>a, <2>1, ReaderLeaves
  <1>7. CASE WriteEnd(t)
    <2>1. pc[t] = "write" /\ UnlockArea(dst[t]) /\ pc'[t] = "idle"
      BY <1>7 DEF ThreadInv, WriteEnd, Return
    <2>2. Reading(t)' = Reading(t) /\ Reading(t) = {}
      BY <2>1 DEF Reading
    <2> QED  BY <1>a, <2>1, <2>2, WriterLeaves
  <1>8. CASE CopyEnd(t)
    <2>1. pc[t] \in {"copy_read", "copy_write"} /\ UnlockArea(dst[t]) /\ pc'[t] = "copy_unlock"
            /\ src'[t] = src[t]
      BY <1>8 DEF ThreadInv, CopyEnd, Goto
    <2>2. Reading(t)' = Reading(t)
      BY <2>1 DEF Reading, Span
    <2> QED  BY <1>a, <2>1, <2>2, WriterLeaves
  <1> QED  BY <1>1, <1>2, <1>3, <1>4, <1>5, <1>6, <1>7, <1>8, StepCases

(* A step writes only inside what its thread has locked for writing. *)
LEMMA DiskStep ==
  ASSUME ThreadInv, NEW t \in Threads, Step(t), NEW s \in Sectors, disk'[s] # disk[s]
  PROVE  /\ s \in Writing(t)
         /\ s = dst[t].start + next[t]
         /\ WriteSector(t) \/ CopyWrite(t)
  <1>1. WriteSector(t) \/ CopyWrite(t)
    BY DEF Step, Read, Write, CopyLockSource, ReadSector, ReadEnd, WriteEnd, CopyLockDestination,
           CopyRefused, CopyRead, CopyEnd, CopyUnlockSource
  <1>2. s = dst[t].start + next[t]
    BY <1>1 DEF ThreadInv, Types, WriteSector, CopyWrite
  <1>3. dst[t] \in Ranges /\ next[t] \in Nat /\ next[t] < dst[t].count
          /\ Writing(t) = Span(dst[t])
    BY <1>1 DEF ThreadInv, Types, Place, WriteSector, CopyWrite, Writing
  <1> QED  BY <1>1, <1>2, <1>3, LoopInside

LEMMA ReadsStep ==
  ASSUME SlotInv, ThreadInv, ReadsAtomic, NEW t \in Threads, Step(t)
  PROVE  ReadsAtomic'
  <1> SUFFICES ASSUME NEW u \in Threads, NEW s \in Reading(u)'
               PROVE  disk'[s] = seen'[u][s]
    BY DEF ReadsAtomic
  <1>0. ThreadInv'
    BY ThreadsKept
  <1>1. Reading(u)' \subseteq Sectors
    <2>1. Reading(u)' = Span(src'[u]) /\ src'[u] \in Ranges
      BY <1>0 DEF ThreadInv, Types, Place, Reading, Span
    <2> QED  BY <2>1, RangeFields
  <1>2. ASSUME s \in Reading(u), seen'[u] = seen[u]
        PROVE  disk'[s] = seen'[u][s]
    <2>1. s \notin Writing(t)
      BY <1>2, WriterAlone
    <2>2. disk'[s] = disk[s]
      BY <1>1, <2>1, DiskStep
    <2> QED  BY <1>2, <2>2 DEF ReadsAtomic
  <1>3. CASE u # t
    <2>1. Reading(u)' = Reading(u) /\ seen'[u] = seen[u]
      BY <1>3, OtherLocks, OthersKept DEF ThreadInv
    <2> QED  BY <1>2, <2>1
  <1>4. CASE u = t /\ pc[t] = "idle"
    <2>1. pc'[t] \notin {"idle", "write"}
      BY <1>4 DEF Reading
    <2>2. seen'[t] = disk /\ disk' = disk
      BY <1>4, <2>1, StepCases DEF Read, Write, CopyLockSource, ReadSector, WriteSector, ReadEnd,
         WriteEnd, CopyLockDestination, CopyRefused, CopyRead, CopyWrite, CopyEnd,
         CopyUnlockSource, Goto, ThreadInv, Types
    <2> QED  BY <1>4, <2>2
  <1>5. CASE u = t /\ pc[t] # "idle"
    <2>1. pc'[t] \notin {"idle", "write"}
      BY <1>5 DEF Reading
    <2>2. ReadSector(t) \/ CopyLockDestination(t) \/ CopyRead(t) \/ CopyWrite(t) \/ CopyEnd(t)
      BY <1>5, <2>1, StepCases DEF Read, Write, CopyLockSource, WriteSector, ReadEnd,
         WriteEnd, CopyRefused, CopyUnlockSource, Return, ThreadInv, Types
    <2>3. seen' = seen /\ src' = src /\ pc[t] \notin {"idle", "write"}
      BY <2>2 DEF ReadSector, CopyLockDestination, CopyRead, CopyWrite, CopyEnd
    <2>4. Reading(t)' = Reading(t)
      BY <2>1, <2>3 DEF Reading, Span
    <2> QED  BY <1>2, <1>5, <2>3, <2>4
  <1> QED  BY <1>3, <1>4, <1>5

LEMMA CopyStep ==
  ASSUME SlotInv, ThreadInv, ReadsAtomic, CopyFaithful, NEW t \in Threads, Step(t)
  PROVE  CopyFaithful'
  <1> SUFFICES ASSUME NEW u \in Threads, pc'[u] \in {"copy_read", "copy_write"},
                      NEW k \in 0 .. next'[u] - 1
               PROVE  disk'[dst'[u].start + k] = seen'[u][src'[u].start + k]
    BY DEF CopyFaithful
  <1>1. ASSUME pc[u] \in {"copy_read", "copy_write"}, k \in 0 .. next[u] - 1,
               disk'[dst[u].start + k] = disk[dst[u].start + k],
               dst'[u] = dst[u], src'[u] = src[u], seen'[u] = seen[u]
        PROVE  disk'[dst'[u].start + k] = seen'[u][src'[u].start + k]
    BY <1>1 DEF CopyFaithful
  <1>2. ASSUME pc[u] \in {"copy_read", "copy_write"}, k \in 0 .. next[u] - 1
        PROVE  dst[u].start + k \in Writing(u) /\ dst[u].start + k \in Sectors
    <2>1. dst[u] \in Ranges /\ next[u] \in Nat /\ next[u] <= dst[u].count
            /\ Writing(u) = Span(dst[u])
      <3>1. dst[u] \in Ranges /\ src[u] \in Ranges /\ next[u] \in Nat
              /\ src[u].count = dst[u].count /\ Writing(u) = Span(dst[u])
        BY <1>2 DEF ThreadInv, Types, Place, Writing
      <3>2. next[u] <= src[u].count
        BY <1>2, <3>1, RangeFields DEF ThreadInv, Place
      <3> QED  BY <3>1, <3>2
    <2> QED  BY <1>2, <2>1, LoopInside, RangeFields
  <1>3. CASE u # t
    <2>1. /\ pc'[u] = pc[u] /\ src'[u] = src[u] /\ dst'[u] = dst[u]
          /\ next'[u] = next[u] /\ seen'[u] = seen[u]
      BY <1>3, OthersKept DEF ThreadInv
    <2>2. dst[u].start + k \in Writing(u) /\ dst[u].start + k \in Sectors
      BY <1>2, <2>1
    <2>3. disk'[dst[u].start + k] = disk[dst[u].start + k]
      BY <1>3, <2>2, WriterAlone, DiskStep
    <2> QED  BY <1>1, <2>1, <2>3
  <1>4. CASE u = t
    <2>1. CopyLockDestination(t) \/ CopyRead(t) \/ CopyWrite(t)
      BY <1>4, StepCases DEF Read, Write, CopyLockSource, ReadSector, WriteSector, ReadEnd,
         WriteEnd, CopyRefused, CopyUnlockSource, CopyEnd, Return, Goto, ThreadInv, Types
    <2>2. CASE CopyLockDestination(t)
      <3>1. next'[t] = 0
        BY <2>2 DEF CopyLockDestination, ThreadInv, Place
      <3> QED  BY <1>4, <3>1
    <2>3. CASE CopyRead(t)
      BY <1>1, <1>4, <2>3 DEF CopyRead
    <2>4. CASE CopyWrite(t)
      <3>1. /\ pc[t] = "copy_write" /\ dst' = dst /\ src' = src /\ seen' = seen
            /\ next'[t] = next[t] + 1 /\ next[t] \in Nat
            /\ disk' = [disk EXCEPT ![dst[t].start + next[t]] = buffer[t]]
            /\ buffer[t] = seen[t][src[t].start + next[t]]
            /\ dst[t] \in Ranges /\ src[t] \in Ranges /\ next[t] < dst[t].count
        BY <2>4 DEF CopyWrite, ThreadInv, Types, Place
      <3>2. dst[t].start + next[t] \in Sectors /\ disk \in [Sectors -> Data]
        BY <3>1, LoopInside DEF ThreadInv, Types
      <3>3. CASE k = next[t]
        BY <1>4, <3>1, <3>2, <3>3
      <3>4. CASE k # next[t]
        <4>1. k \in 0 .. next[t] - 1 /\ k \in Nat
          BY <1>4, <3>1, <3>4
        <4>2. dst[t].start + k # dst[t].start + next[t]
          BY <3>1, <3>4, <4>1, RangeFields
        <4>3. disk'[dst[t].start + k] = disk[dst[t].start + k]
          BY <1>2, <1>4, <3>1, <3>2, <4>1, <4>2
        <4> QED  BY <1>1, <1>4, <3>1, <4>1, <4>3
      <3> QED  BY <3>3, <3>4
    <2> QED  BY <2>1, <2>2, <2>3, <2>4
  <1> QED  BY <1>3, <1>4

-----------------------------------------------------------------------------
LEMMA GuardInit == Init => GuardInv
  <1> SUFFICES ASSUME Init  PROVE GuardInv
    OBVIOUS
  <1>1. Types
    BY SlotAssumption DEF Init, Types, Data
  <1>2. \A t \in Threads : Place(t) /\ Reading(t) = {} /\ Writing(t) = {} /\ pc[t] = "idle"
    BY DEF Init, Place, Reading, Writing
  <1>3. ReadsAtomic /\ CopyFaithful
    BY <1>2 DEF ReadsAtomic, CopyFaithful
  <1>4. Readers = {} /\ Writers = {} /\ InUse = {}
    BY <1>2 DEF Init, Readers, Writers, InUse, FreeSlot
  <1>5. Balanced /\ IsFiniteSet(Readers) /\ IsFiniteSet(Writers)
    <2>1. Cardinality(InUse) = 0 /\ Cardinality(Readers) = 0 /\ Cardinality(Writers) = 0
            /\ IsFiniteSet(Readers) /\ IsFiniteSet(Writers)
      BY <1>4, FS_EmptySet
    <2>2. lost = 0
      BY DEF Init
    <2> QED  BY <2>1, <2>2 DEF Balanced
  <1>6. Backed
    <2> SUFFICES ASSUME NEW r \in Ranges, NEW ro \in BOOLEAN
                 PROVE  Cardinality(Holders(r, ro)) <= Cardinality(Taken(r, ro))
      BY DEF Backed
    <2>1. Holders(r, ro) = {}
      BY <1>2 DEF Holders
    <2>2. Cardinality(Holders(r, ro)) = 0
      BY <2>1, FS_EmptySet
    <2> QED  BY <2>2, FiniteSlots DEF Taken
  <1>7. Apart /\ areas \in [Slots -> Areas] /\ lost \in Nat
    BY <1>4 DEF Apart, Init, Areas
  <1> QED  BY <1>1, <1>2, <1>3, <1>5, <1>6, <1>7 DEF GuardInv, SlotInv, ThreadInv

LEMMA GuardStep == GuardInv /\ [Next]_vars => GuardInv'
  <1> SUFFICES ASSUME GuardInv, [Next]_vars  PROVE GuardInv'
    OBVIOUS
  <1>1. ASSUME NEW t \in Threads, Step(t)
        PROVE  GuardInv'
    BY <1>1, SlotsStep, ThreadsKept, ReadsStep, CopyStep DEF GuardInv
  <1>2. CASE UNCHANGED vars
    BY <1>2 DEF vars, GuardInv, SlotInv, ThreadInv, ReadsAtomic, CopyFaithful, Types, Place,
       Apart, Backed, Balanced, InUse, Readers, Writers, Reading, Writing, Holders, Taken, Span
  <1> QED  BY <1>1, <1>2 DEF Next

LEMMA GuardAlways == Spec => []GuardInv
  BY GuardInit, GuardStep, PTL DEF Spec

(* Types, and the slots in use are those of the locks held and the ones    *)
(* that an _unlock_area left behind.                                       *)
LEMMA GuardSlots ==
  ASSUME GuardInv
  PROVE  SlotsExact
  <1>1. Cardinality(InUse) = lost + Cardinality(Readers) + Cardinality(Writers)
    BY DEF GuardInv, SlotInv, Balanced
  <1>2. lost \in 0 .. IO_THREADS_MAX
    <2>1. Cardinality(Readers) \in Nat /\ Cardinality(Writers) \in Nat /\ lost \in Nat
      BY FS_CardinalityType DEF GuardInv, SlotInv
    <2>2. Cardinality(InUse) \in Nat /\ Cardinality(InUse) <= IO_THREADS_MAX
      BY FiniteSlots DEF InUse
    <2> QED  BY <1>1, <2>1, <2>2, SlotAssumption
  <1>3. TypeOK
    BY <1>2 DEF GuardInv, SlotInv, ThreadInv, Types, TypeOK
  <1>4. \A r \in Ranges, ro \in BOOLEAN :
          Cardinality(Holders(r, ro)) <= Cardinality(Taken(r, ro))
    BY DEF GuardInv, SlotInv, Backed
  <1> QED  BY <1>1, <1>3, <1>4 DEF SlotsExact, InUse, Readers, Writers

(* Area locks exclude, whatever calls any number of threads make: nobody   *)
(* has a sector locked that another has locked for writing, although       *)
(* _unlock_area finds its slot by the range alone and may free the slot of *)
(* another reader of that range.                                           *)
THEOREM LocksExclude == Spec => []NoConflict
  <1>1. GuardInv => NoConflict
    BY GuardExcludes DEF GuardInv
  <1> QED  BY <1>1, GuardAlways, PTL

(* _lock_area and _unlock_area are paired on every path of every call: a   *)
(* slot is in use for each lock held and for each unlock that gave up, and *)
(* for no other reason.                                                    *)
THEOREM SlotsArePaired == Spec => []SlotsExact
  BY GuardSlots, GuardAlways, PTL

(* DSK_readoff_sectors and the reading half of DSK_copy_sectors see one    *)
(* moment of the disk, with every other thread's transfers in between.     *)
THEOREM ReadsAreAtomic == Spec => []ReadsAtomic
  <1>1. GuardInv => ReadsAtomic
    BY DEF GuardInv
  <1> QED  BY <1>1, GuardAlways, PTL

(* DSK_copy_sectors reproduces its source as it was when the copy began.   *)
THEOREM CopiesAreFaithful == Spec => []CopyFaithful
  <1>1. GuardInv => CopyFaithful
    BY DEF GuardInv
  <1> QED  BY <1>1, GuardAlways, PTL
=============================================================================
