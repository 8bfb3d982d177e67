----------------------------- MODULE Directory ------------------------------
(***************************************************************************)
(* One directory of NiFAT32 and the journal that guards its changes        *)
(* (src/src/entry.c, src/src/journal.c), as NIFAT32_put_content,           *)
(* NIFAT32_delete_content and NIFAT32_change_meta drive them.              *)
(*                                                                         *)
(* The API lock lets one call run at a time; what interrupts a call is a   *)
(* power loss, which may fall between any two disk writes, and a write     *)
(* that fails.  A directory is a chain of clusters with SlotsPer entries   *)
(* each.  A cluster is read and rewritten as a whole, sector by sector; a  *)
(* sector write is atomic, and so is a journal record, which is one.       *)
(* A file is its name and its first data cluster.  A slot holds a file     *)
(* with a right checksum, or END (first byte 0), FREED (first byte 0xE5)   *)
(* or INVALID (a wrong checksum).  FAT and cluster reads do not fail here: *)
(* FatTable and ClusterChain deal with them.                               *)
(***************************************************************************)
EXTENDS Integers, FiniteSets

CONSTANTS
  Names,           (* file names                                           *)
  Ids,             (* bound: data clusters of the volume                   *)
  NoId,            (* the data cluster 0, which no file has                *)
  END, FREED, INVALID,
  NO_OP,           (* an empty journal record                              *)
  NClusters,       (* bound: clusters the directory may grow to            *)
  SlotsPer,        (* bound: entries per cluster                           *)
  SlotsPerSector,  (* bound: entries per sector                            *)
  Leftovers,       (* what the slots of an unused cluster hold             *)
  JSlots,          (* records the journal code counts on                   *)
  MaxCrashes,      (* bound: power losses                                  *)
  Worlds           (* the volumes, drivers and callers there are           *)

File  == [name : Names, id : Ids \cup {NoId}]
Slot  == File \cup {END, FREED, INVALID}
Cells == (1 .. NClusters) \X (1 .. SlotsPer)

(* ops: the calls made; faults: "crash", a power loss; "write", a sector   *)
(* write that fails; "rewrite", a search whose own write-back fails;       *)
(* empty: the driver accepts a transfer of no bytes.  whole: the records   *)
(* that fit the journal's sector; the next one is cut, the rest are lost.  *)
World == [ops    : SUBSET {"add", "del", "edit"},
          faults : SUBSET {"crash", "write", "rewrite"},
          empty  : BOOLEAN,
          whole  : Nat]

ASSUME DirectoryAssumption ==
  /\ NClusters \in Nat \ {0} /\ SlotsPer \in Nat \ {0}
  /\ SlotsPerSector \in Nat \ {0}
  /\ JSlots \in Nat \ {0}
  /\ MaxCrashes \in Nat /\ Worlds \subseteq World /\ Leftovers \subseteq Slot
  /\ NoId \notin Ids
  /\ {END, FREED, INVALID} \cap File = {}
  /\ NO_OP \notin [op : {"add", "del", "edit"}, cell : Cells, file : File]

Records == [op : {"add", "del", "edit"}, cell : Cells, file : File] \cup {NO_OP}
NoCall  == [op |-> "none"]
Calls   == [op : {"add", "del", "edit"}, old : File, new : File] \cup {NoCall}

VARIABLES
  slots,    (* on disk: the entries of each cluster                        *)
  len,      (* on disk: clusters in the directory's chain                  *)
  journal,  (* on disk: the journal's records                              *)
  alloc,    (* on disk: the data clusters that are allocated               *)
  jindex,   (* _journal_index                                              *)
  pc,       (* where the call, or the mount, is                            *)
  call,     (* the call under way                                          *)
  at,       (* the cell it changes                                         *)
  image,    (* the cluster as it writes it back                            *)
  sector,   (* the sector it writes next                                   *)
  ji,       (* its journal index, or -1                                    *)
  scan,     (* the record the mount looks at                               *)
  crashes,  (* power losses so far                                         *)
  world     (* what this volume meets; never changes                       *)

disk == <<slots, len, journal, alloc>>
run  == <<call, at, image, sector, ji>>
age  == <<crashes, world>>
vars == <<disk, jindex, pc, run, scan, age>>

Init ==
  /\ \E left \in [2 .. NClusters -> Leftovers] :
       slots = [c \in 1 .. NClusters |->
                  [i \in 1 .. SlotsPer |-> IF c = 1 THEN END ELSE left[c]]]
  /\ len = 1
  /\ journal = [j \in 0 .. JSlots - 1 |-> NO_OP]
  /\ alloc = {}
  /\ jindex = 0 /\ pc = "idle" /\ call = NoCall
  /\ at = <<1, 1>> /\ image = [i \in 1 .. SlotsPer |-> END]
  /\ sector = 0 /\ ji = -1 /\ scan = 0 /\ crashes = 0 /\ world \in Worlds

-----------------------------------------------------------------------------
(* What a walk shows: in each cluster the files up to the first END.  The  *)
(* walk goes on with the next cluster after an END.                        *)
Shown ==
  {p \in (1 .. len) \X (1 .. SlotsPer) :
     /\ slots[p[1]][p[2]] \in File
     /\ \A k \in 1 .. p[2] - 1 : slots[p[1]][k] # END}

At(p)   == slots[p[1]][p[2]]
Listing == {At(p) : p \in Shown}

Before(p, q) == p[1] < q[1] \/ (p[1] = q[1] /\ p[2] < q[2])
FirstOf(P)   == CHOOSE p \in P : \A q \in P \ {p} : Before(p, q)

\* Where the files of that name are.
Places(n) == {p \in Shown : At(p).name = n}

(* entry_iterate rewrites each cluster it has walked, and stops when that  *)
(* fails: a file in a later cluster is then not found.                     *)
MayMiss(n) ==
  \E k \in IF "rewrite" \in world.faults THEN 1 .. len ELSE {len} :
    \A p \in Places(n) : p[1] > k

(* The slots entry_add may take. *)
Reusable == {p \in (1 .. len) \X (1 .. SlotsPer) : At(p) \notin File}
-----------------------------------------------------------------------------
(* NIFAT32_put_content, and NIFAT32_open_content with CR_MODE: the name is *)
(* not there, and a data cluster is taken for it.                          *)
Add ==
  \E f \in [name : Names, id : Ids \ alloc] :
    /\ pc = "idle" /\ "add" \in world.ops
    /\ MayMiss(f.name)
    /\ alloc' = alloc \cup {f.id}
    /\ call' = [op |-> "add", old |-> f, new |-> f]
    /\ pc' = "place"
    /\ UNCHANGED <<slots, len, journal, jindex, at, image, sector, ji, scan, age>>

(* entry_add finds its slot, the next one becomes the END. *)
Place ==
  /\ pc = "place" /\ Reusable # {}
  /\ at' = FirstOf(Reusable)
  /\ image' = [i \in 1 .. SlotsPer |->
                 CASE i = at'[2]     -> call.new
                   [] i = at'[2] + 1 -> END
                   [] OTHER          -> slots[at'[1]][i]]
  /\ pc' = "record"
  /\ UNCHANGED <<disk, jindex, call, sector, ji, scan, age>>

(* entry_add finds none and appends a cluster, as it was left. *)
Grow ==
  /\ pc = "place" /\ Reusable = {} /\ len < NClusters
  /\ len' = len + 1
  /\ UNCHANGED <<slots, journal, alloc, jindex, pc, run, scan, age>>

Finish == pc' = "idle" /\ call' = NoCall /\ sector' = 0 /\ ji' = -1

(* No cluster to append, at the latest at the bound: the volume may have   *)
(* filled up at any time.  The data cluster is given back.                 *)
NoRoom ==
  /\ pc = "place" /\ Reusable = {}
  /\ alloc' = alloc \ {call.new.id}
  /\ Finish
  /\ UNCHANGED <<slots, len, journal, jindex, at, image, scan, age>>

(* NIFAT32_delete_content through a handle: entry_remove finds the name.   *)
Delete ==
  \E n \in Names :
    /\ pc = "idle" /\ "del" \in world.ops /\ Places(n) # {}
    /\ at' = FirstOf(Places(n))
    /\ call' = [op |-> "del", old |-> At(at'), new |-> At(at')]
    /\ image' = [slots[at'[1]] EXCEPT ![at'[2]] = FREED]
    /\ pc' = "record"
    /\ UNCHANGED <<disk, jindex, sector, ji, scan, age>>

(* NIFAT32_change_meta, and NIFAT32_truncate_content with m = n: the entry *)
(* create_entry makes has no checksum, and entry_edit stores it so.        *)
Edit ==
  \E n, m \in Names :
    /\ pc = "idle" /\ "edit" \in world.ops /\ Places(n) # {}
    /\ at' = FirstOf(Places(n))
    /\ call' = [op |-> "edit", old |-> At(at'), new |-> [name |-> m, id |-> At(at').id]]
    /\ image' = [slots[at'[1]] EXCEPT ![at'[2]] = INVALID]
    /\ pc' = "record"
    /\ UNCHANGED <<disk, jindex, sector, ji, scan, age>>
-----------------------------------------------------------------------------
(* A record stored at index j: it is lost, cut before its data cluster, or *)
(* whole.                                                                  *)
Stored(j, r) ==
  IF j > world.whole THEN journal
  ELSE [journal EXCEPT ![j] =
          IF j = world.whole /\ r # NO_OP THEN [r EXCEPT !.file.id = NoId] ELSE r]

\* _write_journal reports success also when nothing was written.
JournalAfter(j, r) == {Stored(j, r)} \cup (IF "write" \in world.faults THEN {journal} ELSE {})

FreeRecords == {k \in 0 .. JSlots - 1 : journal[(jindex + k) % JSlots] = NO_OP}

AfterRecord == IF call.op = "del" THEN "erase" ELSE "write"

\* Mutant: the slot is journalled as the cell after it.
Record_NextCell ==
  /\ pc = "record" /\ FreeRecords # {}
  /\ LET k == CHOOSE k \in FreeRecords : \A l \in FreeRecords : k <= l
         j == (jindex + k) % JSlots
     IN /\ ji' = j
        /\ jindex' = (j + 1) % JSlots
        /\ journal' \in JournalAfter(j, [op |-> call.op, file |-> call.new,
                          cell |-> <<at[1], (at[2] % SlotsPer) + 1>>])
  /\ pc' = AfterRecord
  /\ UNCHANGED <<slots, len, alloc, call, at, image, sector, scan, age>>

(* journal_add_operation takes the first empty record from _journal_index  *)
(* on.  A removal then frees the file's clusters.                          *)
Record ==
  /\ pc = "record" /\ FreeRecords # {}
  /\ LET k == CHOOSE k \in FreeRecords : \A l \in FreeRecords : k <= l
         j == (jindex + k) % JSlots
     IN /\ ji' = j
        /\ jindex' = (j + 1) % JSlots
        /\ journal' \in JournalAfter(j, [op |-> call.op, cell |-> at, file |-> call.new])
  /\ pc' = AfterRecord
  /\ UNCHANGED <<slots, len, alloc, call, at, image, sector, scan, age>>

(* 100 occupied records: the call goes on without one. *)
RecordFull ==
  /\ pc = "record" /\ FreeRecords = {}
  /\ ji' = -1
  /\ jindex' = (jindex + 100) % JSlots
  /\ pc' = AfterRecord
  /\ UNCHANGED <<disk, call, at, image, sector, scan, age>>

(* _entry_erase_rec on a file. *)
Erase ==
  /\ pc = "erase"
  /\ alloc' = alloc \ {call.old.id}
  /\ pc' = "write"
  /\ UNCHANGED <<slots, len, journal, jindex, run, scan, age>>
-----------------------------------------------------------------------------
InSector(i, s) == (i - 1) \div SlotsPerSector = s
LastSector     == (SlotsPer - 1) \div SlotsPerSector

(* write_cluster, one sector. *)
Write ==
  /\ pc = "write"
  /\ slots' = [slots EXCEPT ![at[1]] =
                 [i \in 1 .. SlotsPer |->
                    IF InSector(i, sector) THEN image[i] ELSE @[i]]]
  /\ IF sector = LastSector THEN pc' = "solve" /\ sector' = 0
                            ELSE pc' = pc      /\ sector' = sector + 1
  /\ UNCHANGED <<len, journal, alloc, jindex, call, at, image, ji, scan, age>>

(* The write fails: entry_add returns -6 and its caller gives the cluster  *)
(* back; entry_iterate returns what the handler said.                      *)
WriteError ==
  /\ pc = "write" /\ "write" \in world.faults
  /\ IF call.op = "add"
     THEN /\ alloc' = alloc \ {call.new.id}
          /\ Finish
     ELSE /\ pc' = "solve" /\ sector' = 0
          /\ UNCHANGED <<alloc, call, ji>>
  /\ UNCHANGED <<slots, len, journal, jindex, at, image, scan, age>>

\* Mutant: journal_solve_operation ignores the index 0.
Solve_NotFirst ==
  /\ pc = "solve"
  /\ journal' \in IF ji > 0 THEN JournalAfter(ji, NO_OP) ELSE {journal}
  /\ Finish
  /\ UNCHANGED <<slots, len, alloc, jindex, at, image, scan, age>>

(* journal_solve_operation; the call returns 1. *)
Solve ==
  /\ pc = "solve"
  /\ journal' \in IF ji >= 0 THEN JournalAfter(ji, NO_OP) ELSE {journal}
  /\ Finish
  /\ UNCHANGED <<slots, len, alloc, jindex, at, image, scan, age>>
-----------------------------------------------------------------------------
(* Power is lost, also during a mount; NIFAT32_init runs next. *)
Crash ==
  /\ "crash" \in world.faults /\ crashes < MaxCrashes
  /\ crashes' = crashes + 1
  /\ pc' = "restore" /\ scan' = 0 /\ jindex' = 0
  /\ at' = <<1, 1>> /\ image' = [i \in 1 .. SlotsPer |-> END]
  /\ sector' = 0 /\ ji' = -1
  /\ UNCHANGED <<disk, call, world>>

(* restore_from_journal zeroes the slot of a removal; for the others it    *)
(* seals an entry whose checksum field it has not initialised.             *)
Restored(r) == IF r.op = "del" THEN {END} ELSE {r.file, INVALID}

\* The offset of a slot that begins a sector makes the first transfer empty.
Unreached(i) == ~world.empty /\ i > 1 /\ (i - 1) % SlotsPerSector = 0

\* Mutant: a removal is replayed like an addition.
Replay_DelAsAdd ==
  /\ pc = "restore" /\ scan < JSlots /\ journal[scan] # NO_OP
  /\ LET r == journal[scan] IN
       \E v \in {r.file, INVALID} : slots' = [slots EXCEPT ![r.cell[1]][r.cell[2]] = v]
  /\ pc' = "clear"
  /\ UNCHANGED <<len, journal, alloc, jindex, run, scan, age>>

Replay ==
  /\ pc = "restore" /\ scan < JSlots /\ journal[scan] # NO_OP
  /\ LET r == journal[scan] IN
       \/ /\ ~Unreached(r.cell[2])
          /\ \E v \in Restored(r) :
               slots' = [slots EXCEPT ![r.cell[1]][r.cell[2]] = v]
       \/ /\ Unreached(r.cell[2]) \/ "write" \in world.faults
          /\ UNCHANGED slots
  /\ pc' = "clear"
  /\ UNCHANGED <<len, journal, alloc, jindex, run, scan, age>>

Clear ==
  /\ pc = "clear"
  /\ journal' \in JournalAfter(scan, NO_OP)
  /\ scan' = scan + 1 /\ pc' = "restore"
  /\ UNCHANGED <<slots, len, alloc, jindex, run, age>>

Skip ==
  /\ pc = "restore" /\ scan < JSlots /\ journal[scan] = NO_OP
  /\ scan' = scan + 1
  /\ UNCHANGED <<disk, jindex, pc, run, age>>

Mounted ==
  /\ pc = "restore" /\ scan = JSlots
  /\ pc' = "idle" /\ call' = NoCall /\ scan' = 0
  /\ UNCHANGED <<disk, jindex, at, image, sector, ji, age>>

Call    == Add \/ Place \/ Grow \/ NoRoom \/ Delete \/ Edit \/ Record
             \/ RecordFull \/ Erase \/ Write \/ WriteError \/ Solve
Restore == Replay \/ Clear \/ Skip \/ Mounted
Next    == Call \/ Crash \/ Restore

Spec == Init /\ [][Next]_vars
-----------------------------------------------------------------------------
TypeOK ==
  /\ slots \in [1 .. NClusters -> [1 .. SlotsPer -> Slot]]
  /\ len \in 1 .. NClusters
  /\ journal \in [0 .. JSlots - 1 -> Records]
  /\ alloc \subseteq Ids
  /\ jindex \in 0 .. JSlots - 1
  /\ pc \in {"idle", "place", "record", "erase", "write", "solve", "restore", "clear"}
  /\ call \in Calls
  /\ at \in Cells /\ image \in [1 .. SlotsPer -> Slot]
  /\ sector \in 0 .. LastSector
  /\ ji \in -1 .. JSlots - 1
  /\ scan \in 0 .. JSlots /\ (pc = "clear" => scan < JSlots)
  /\ crashes \in 0 .. MaxCrashes /\ world \in Worlds

Adding  == world.ops = {"add"} /\ world.whole >= JSlots
Failing == "write" \in world.faults

(* Once a call has returned or the volume is mounted, every file a search  *)
(* can find has its data cluster allocated, and no two of them have it in  *)
(* common: entry_remove frees the cluster before it marks the entry, only  *)
(* the journal makes up for a power loss in between, and a replay puts     *)
(* back entries of files that are gone.  Not when a write fails: it may    *)
(* have stored the entry whose cluster entry_add's caller then frees; nor  *)
(* when the journal's sector does not hold the records it counts on.       *)
FilesKept ==
  pc = "idle" /\ ~Failing /\ world.whole >= JSlots =>
    /\ \A f \in Listing : f.id \in alloc
    /\ \A p, q \in Shown : p # q => At(p).id # At(q).id

(* Types, and while writes succeed journal_solve_operation and             *)
(* restore_from_journal leave no operation behind, whatever the sector     *)
(* holds: a later mount replays nothing over newer entries.                *)
JournalSettled ==
  /\ TypeOK
  /\ pc = "idle" /\ ~Failing => \A j \in 0 .. JSlots - 1 : journal[j] = NO_OP

(* "Add entry to cluster. ... Return 1 if entry has been written"          *)
(* (entry.h): the other files stay as they are.                            *)
AddKeepsOthers ==
  [][pc = "write" /\ call.op = "add" => Listing \subseteq Listing']_vars

(* While files are only added the calls implement the promise of DirMap:   *)
(* put_content looks for the name before it adds an entry, and a replay    *)
(* puts back nothing but the entry of the call that was cut short.         *)
DM == INSTANCE DirMap WITH
        Ids    <- Ids \cup {NoId},
        files  <- Listing,
        call   <- IF call = NoCall THEN {} ELSE {call.new},
        before <- IF call = NoCall THEN {} ELSE Listing \ {call.new}

Refines == DM!Init /\ [][Adding => DM!Next \/ UNCHANGED <<Listing, call>>]_vars
=============================================================================
