----------------------------- MODULE DiskGuard ------------------------------
(***************************************************************************)
(* The disk layer of NiFAT32 (src/src/disk.c): reads, writes and copies of *)
(* sector ranges under area locks.                                         *)
(*                                                                         *)
(* _io_guard holds a few slots, each with a range and a read-only flag.    *)
(* _lock_area never waits: it takes a free slot, or it fails because of a  *)
(* conflict or because no slot is free, and the whole call fails with it.  *)
(* _lock_area and _unlock_area run under the guard's own lock and are one  *)
(* step each; every sector transfer is a step, during which other threads  *)
(* go on.                                                                  *)
(***************************************************************************)
EXTENDS Integers, FiniteSets

CONSTANTS
  Threads,
  NSectors,        (* bound: sectors of the disk                           *)
  MaxCount,        (* bound: sectors per call                              *)
  IO_THREADS_MAX,  (* slots of the guard                                   *)
  NoData,          (* what the disk holds at first                         *)
  GuardTimeouts    (* may THR_require_write on the guard give up?          *)

ASSUME SlotAssumption == /\ IO_THREADS_MAX \in Nat \ {0}
                         /\ NSectors \in Nat \ {0} /\ MaxCount \in 1 .. NSectors
                         /\ GuardTimeouts \in BOOLEAN
                         /\ NoData \notin Threads

Slots   == 0 .. IO_THREADS_MAX - 1
Sectors == 0 .. NSectors - 1
Data    == Threads \cup {NoData}      \* a sector holds what some thread wrote
Ranges  == {r \in [start : Sectors, count : 1 .. MaxCount] :
                    r.start + r.count <= NSectors}

FreeSlot == [start |-> 0, count |-> -1, ro |-> FALSE]
Areas    == {FreeSlot} \cup {[start |-> r.start, count |-> r.count, ro |-> ro] :
                               r \in Ranges, ro \in BOOLEAN}

\* The sectors of a range.
Span(a) == a.start .. a.start + a.count - 1

NoRange == [start |-> 0, count |-> 0]

VARIABLES
  areas,   (* _io_guard.areas                                              *)
  disk,    (* the sectors                                                  *)
  pc,      (* where thread t is                                            *)
  src,     (* the range t reads from, NoRange if it reads none             *)
  dst,     (* the range t writes to, NoRange if it writes none             *)
  next,    (* the sector, counted from the start, t's loop is at           *)
  buffer,  (* what the copy of t has in its buffer                         *)
  seen,    (* history: the disk at the moment t locked its source          *)
  lost     (* history: slots that _unlock_area failed to free              *)

vars == <<areas, disk, pc, src, dst, next, buffer, seen, lost>>

Init ==
  /\ areas = [s \in Slots |-> FreeSlot]
  /\ disk = [s \in Sectors |-> NoData]
  /\ pc = [t \in Threads |-> "idle"]
  /\ src = [t \in Threads |-> NoRange]
  /\ dst = [t \in Threads |-> NoRange]
  /\ next = [t \in Threads |-> 0]
  /\ buffer = [t \in Threads |-> NoData]
  /\ seen = [t \in Threads |-> [s \in Sectors |-> NoData]]
  /\ lost = 0

-----------------------------------------------------------------------------
\* Mutant: only the starts of the ranges are compared.
Conflicting_Starts(a, r, ro) ==
  /\ a.count # -1
  /\ a.start = r.start
  /\ ~(ro /\ a.ro)

\* Mutant: a writer does not care for readers.
Conflicting_ReadersIgnored(a, r, ro) ==
  /\ a.count # -1
  /\ a.start < r.start + r.count /\ r.start < a.start + a.count
  /\ ~a.ro

(* Two ranges overlap and one of the two accesses is a write. *)
Conflicting(a, r, ro) ==
  /\ a.count # -1
  /\ a.start < r.start + r.count /\ r.start < a.start + a.count
  /\ ~(ro /\ a.ro)

\* _lock_area would succeed.
Lockable(r, ro) ==
  /\ \E s \in Slots : areas[s].count = -1
  /\ \A s \in Slots : ~Conflicting(areas[s], r, ro)

(* The scans of the guard stop at the first slot that suits. *)
FirstSlot(suits) == CHOOSE s \in suits : \A k \in suits : s <= k

(* _lock_area: the first free slot takes the range. *)
LockArea(r, ro) ==
  LET free == {s \in Slots : areas[s].count = -1} IN
  /\ Lockable(r, ro)
  /\ areas' = [areas EXCEPT ![FirstSlot(free)] =
                 [start |-> r.start, count |-> r.count, ro |-> ro]]

\* _lock_area fails, or gives up waiting for the guard.
Refused(r, ro) == GuardTimeouts \/ ~Lockable(r, ro)

\* Mutant: the slot is found by its start alone.
UnlockArea_ByStart(r) ==
  LET mine == {s \in Slots : areas[s].start = r.start /\ areas[s].count # -1} IN
  \/ areas' = [areas EXCEPT ![FirstSlot(mine)] = FreeSlot] /\ UNCHANGED lost
  \/ GuardTimeouts /\ lost' = lost + 1 /\ UNCHANGED areas

(* _unlock_area: the first slot with this very range is freed, which may   *)
(* be the one of another reader of the same range.  When the guard cannot  *)
(* be had the slot stays taken, and no caller looks at the result.         *)
UnlockArea(r) ==
  LET mine == {s \in Slots : areas[s].start = r.start /\ areas[s].count = r.count} IN
  \/ areas' = [areas EXCEPT ![FirstSlot(mine)] = FreeSlot] /\ UNCHANGED lost
  \/ GuardTimeouts /\ lost' = lost + 1 /\ UNCHANGED areas

\* The call returns; its locals are gone.
Return(t) ==
  /\ pc' = [pc EXCEPT ![t] = "idle"]
  /\ src' = [src EXCEPT ![t] = NoRange]
  /\ dst' = [dst EXCEPT ![t] = NoRange]
  /\ next' = [next EXCEPT ![t] = 0]
  /\ buffer' = [buffer EXCEPT ![t] = NoData]
  /\ seen' = [seen EXCEPT ![t] = [s \in Sectors |-> NoData]]

Goto(t, label) == pc' = [pc EXCEPT ![t] = label]

-----------------------------------------------------------------------------
(* DSK_read_sector, DSK_readoff_sectors: sectors before the offset are     *)
(* skipped, the loop ends with the range or with the buffer.               *)
Read(t, r, first) ==
  /\ pc[t] = "idle"
  /\ LockArea(r, TRUE)
  /\ Goto(t, "read")
  /\ src' = [src EXCEPT ![t] = r] /\ next' = [next EXCEPT ![t] = first]
  /\ seen' = [seen EXCEPT ![t] = disk]
  /\ UNCHANGED <<disk, dst, buffer, lost>>

ReadSector(t) ==
  /\ pc[t] = "read" /\ next[t] < src[t].count
  /\ next' = [next EXCEPT ![t] = @ + 1]
  /\ UNCHANGED <<areas, disk, pc, src, dst, buffer, seen, lost>>

\* The loop is over, or a transfer failed: in both cases the area is unlocked.
ReadEnd(t) ==
  /\ pc[t] = "read"
  /\ UnlockArea(src[t])
  /\ Return(t)
  /\ UNCHANGED disk

(* DSK_write_sector, DSK_writeoff_sectors. *)
Write(t, r, first) ==
  /\ pc[t] = "idle"
  /\ LockArea(r, FALSE)
  /\ Goto(t, "write")
  /\ dst' = [dst EXCEPT ![t] = r] /\ next' = [next EXCEPT ![t] = first]
  /\ UNCHANGED <<disk, src, buffer, seen, lost>>

WriteSector(t) ==
  /\ pc[t] = "write" /\ next[t] < dst[t].count
  /\ disk' = [disk EXCEPT ![dst[t].start + next[t]] = t]
  /\ next' = [next EXCEPT ![t] = @ + 1]
  /\ UNCHANGED <<areas, pc, src, dst, buffer, seen, lost>>

WriteEnd(t) ==
  /\ pc[t] = "write"
  /\ UnlockArea(dst[t])
  /\ Return(t)
  /\ UNCHANGED disk

(* DSK_copy_sectors: the source is locked first, then the destination.     *)
CopyLockSource(t, r, to) ==
  /\ pc[t] = "idle"
  /\ LockArea(r, TRUE)
  /\ Goto(t, "copy_lock")
  /\ src' = [src EXCEPT ![t] = r]
  /\ dst' = [dst EXCEPT ![t] = [start |-> to, count |-> r.count]]
  /\ seen' = [seen EXCEPT ![t] = disk]
  /\ UNCHANGED <<disk, next, buffer, lost>>

\* Mutant: the destination is locked for reading.
CopyLockDestination_Read(t) ==
  /\ pc[t] = "copy_lock"
  /\ LockArea(dst[t], TRUE)
  /\ Goto(t, "copy_read")
  /\ UNCHANGED <<disk, src, dst, next, buffer, seen, lost>>

CopyLockDestination(t) ==
  /\ pc[t] = "copy_lock"
  /\ LockArea(dst[t], FALSE)
  /\ Goto(t, "copy_read")
  /\ UNCHANGED <<disk, src, dst, next, buffer, seen, lost>>

CopyRefused(t) ==
  /\ pc[t] = "copy_lock"
  /\ Refused(dst[t], FALSE)
  /\ UnlockArea(src[t])
  /\ Return(t)
  /\ UNCHANGED disk

CopyRead(t) ==
  /\ pc[t] = "copy_read" /\ next[t] < src[t].count
  /\ buffer' = [buffer EXCEPT ![t] = disk[src[t].start + next[t]]]
  /\ Goto(t, "copy_write")
  /\ UNCHANGED <<areas, disk, src, dst, next, seen, lost>>

CopyWrite(t) ==
  /\ pc[t] = "copy_write"
  /\ disk' = [disk EXCEPT ![dst[t].start + next[t]] = buffer[t]]
  /\ next' = [next EXCEPT ![t] = @ + 1]
  /\ Goto(t, "copy_read")
  /\ UNCHANGED <<areas, src, dst, buffer, seen, lost>>

\* After the last sector, or after a failed transfer of any sector.
CopyEnd(t) ==
  /\ pc[t] \in {"copy_read", "copy_write"}
  /\ UnlockArea(dst[t])
  /\ Goto(t, "copy_unlock")
  /\ UNCHANGED <<disk, src, dst, next, buffer, seen>>

CopyUnlockSource(t) ==
  /\ pc[t] = "copy_unlock"
  /\ UnlockArea(src[t])
  /\ Return(t)
  /\ UNCHANGED disk

Step(t) ==
  \/ \E r \in Ranges, first \in 0 .. MaxCount : Read(t, r, first) \/ Write(t, r, first)
  \/ \E r \in Ranges, to \in Sectors :
       to + r.count <= NSectors /\ CopyLockSource(t, r, to)
  \/ ReadSector(t) \/ ReadEnd(t) \/ WriteSector(t) \/ WriteEnd(t)
  \/ CopyLockDestination(t) \/ CopyRefused(t) \/ CopyRead(t) \/ CopyWrite(t)
  \/ CopyEnd(t) \/ CopyUnlockSource(t)

Next == \E t \in Threads : Step(t)

Spec == Init /\ [][Next]_vars

-----------------------------------------------------------------------------
TypeOK ==
  /\ areas \in [Slots -> Areas]
  /\ disk \in [Sectors -> Data]
  /\ pc \in [Threads -> {"idle", "read", "write", "copy_lock", "copy_read",
                         "copy_write", "copy_unlock"}]
  /\ src \in [Threads -> Ranges \cup {NoRange}]
  /\ dst \in [Threads -> Ranges \cup {NoRange}]
  /\ next \in [Threads -> 0 .. MaxCount]
  /\ buffer \in [Threads -> Data]
  /\ seen \in [Threads -> [Sectors -> Data]]
  /\ lost \in 0 .. IO_THREADS_MAX

\* The ranges thread t has locked for reading and for writing.
Reading(t) == IF pc[t] \in {"idle", "write"} THEN {} ELSE Span(src[t])
Writing(t) == IF pc[t] \in {"write", "copy_read", "copy_write"} THEN Span(dst[t]) ELSE {}

(* Area locks exclude: no thread has a sector locked for writing that      *)
(* another has locked for reading or writing, at any moment of any calls.  *)
NoConflict ==
  \A t, u \in Threads :
    t # u => Writing(t) \cap (Reading(u) \cup Writing(u)) = {}

(* Types, and each lock of a running call has a slot of its own: identical *)
(* ranges of several readers are told apart by number.  Beyond these no    *)
(* slot is in use but those whose unlock timed out: one is freed for every *)
(* one taken, on every path of every call.                                 *)
Taken(r, ro) == {s \in Slots : areas[s] = [start |-> r.start, count |-> r.count, ro |-> ro]}
Holders(r, ro) ==
  {t \in Threads : IF ro THEN Reading(t) # {} /\ src[t] = r
                         ELSE Writing(t) # {} /\ dst[t] = r}

SlotsExact ==
  /\ TypeOK
  /\ \A r \in Ranges, ro \in BOOLEAN :
       Cardinality(Holders(r, ro)) <= Cardinality(Taken(r, ro))
  /\ Cardinality({s \in Slots : areas[s].count # -1})
       = lost + Cardinality({t \in Threads : Reading(t) # {}})
              + Cardinality({t \in Threads : Writing(t) # {}})

(* A multi-sector read sees one moment of the disk: the sectors of its     *)
(* range stay as they were when it locked them.                            *)
ReadsAtomic ==
  \A t \in Threads : \A s \in Reading(t) : disk[s] = seen[t][s]

(* What a copy has written so far is its source as it was when the copy    *)
(* began, although other threads write around it and copy the copy.        *)
CopyFaithful ==
  \A t \in Threads : pc[t] \in {"copy_read", "copy_write"} =>
    \A k \in 0 .. next[t] - 1 : disk[dst[t].start + k] = seen[t][src[t].start + k]
=============================================================================
