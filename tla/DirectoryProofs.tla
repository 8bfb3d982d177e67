--------------------------- MODULE DirectoryProofs ---------------------------
(***************************************************************************)
(* A directory of NiFAT32 survives power losses, for any number of names,  *)
(* clusters, entries and journal records: proofs for Directory.            *)
(***************************************************************************)
EXTENDS Directory, FiniteSetTheorems, WellFoundedInduction, TLAPS

Indices == 0 .. JSlots - 1
Change  == [op : {"add", "del", "edit"}, old : File, new : File]

(* A call is under way in its steps; one that looks for a place adds. *)
InCall ==
  /\ pc \in {"place", "record", "erase", "write", "solve"} => call \in Change
  /\ pc = "place" => call.op = "add"
  /\ pc = "erase" => call.op = "del"
  /\ pc = "idle" => call = NoCall
  /\ pc # "write" => sector = 0

Typed == TypeOK /\ InCall

(* While no write fails: the journal holds nothing between calls, in a     *)
(* call nothing but its record, and in a mount nothing that was looked at. *)
Settled ==
  ~Failing =>
    /\ pc \in {"idle", "place", "record"} => \A j \in Indices : journal[j] = NO_OP
    /\ pc \in {"erase", "write", "solve"} => \A j \in Indices \ {ji} : journal[j] = NO_OP
    /\ pc \in {"restore", "clear"} => \A j \in Indices : j < scan => journal[j] = NO_OP

(* Records that do not fit the sector are never there. *)
Beyond == \A j \in Indices : j > world.whole => journal[j] = NO_OP

JournalInv == Typed /\ Settled /\ Beyond

(* The premises of FilesKept, and two more on the constants: unused        *)
(* clusters hold no entries, and a removal can be replayed.                *)
Whole         == ~Failing /\ world.whole >= JSlots
NoOldEntries  == Leftovers \cap File = {}
ReplayReaches == \A w \in Worlds : w.empty \/ "del" \notin w.ops

IsRecord(j) == journal[j] # NO_OP
Removing(p) == \E j \in Indices : IsRecord(j) /\ journal[j].op = "del" /\ journal[j].cell = p

(* File f is allocated, and nowhere but in cell c. *)
Claimed(f, c) ==
  f.id \in alloc /\ \A p \in Cells \ {c} : At(p) \in File => At(p).id # f.id

(* Hidden entries included: a torn write may bring them back. *)
Distinct == \A p, q \in Cells : p # q /\ At(p) \in File /\ At(q) \in File => At(p).id # At(q).id

(* An entry is without its cluster only while its removal is recorded. *)
Held == \A p \in Cells : At(p) \in File => At(p).id \in alloc \/ Removing(p)

(* One record at most, and it may be replayed. *)
Recorded ==
  /\ \A j, k \in Indices : IsRecord(j) /\ IsRecord(k) => j = k
  /\ \A j \in Indices : IsRecord(j) =>
       /\ journal[j].op \in world.ops
       /\ journal[j].op # "del" => Claimed(journal[j].file, journal[j].cell)

(* The image differs from the cluster in the cell of the call, and by an   *)
(* END behind it.                                                          *)
ImageGood ==
  /\ \A i \in 1 .. SlotsPer : i # at[2] => image[i] \in {slots[at[1]][i], END}
  /\ call.op = "add" => image[at[2]] = call.new
  /\ call.op # "add" => image[at[2]] \notin File

(* What the call knows at each of its steps. *)
Working ==
  /\ pc = "place" => /\ call.new.id \in alloc
                     /\ \A p \in Cells : At(p) \in File => At(p).id # call.new.id
  /\ pc \in {"place", "record", "erase", "write", "solve"} => call.op \in world.ops
  /\ pc \in {"record", "erase", "write"} => ImageGood
  /\ pc = "record" /\ call.op # "del" => Claimed(call.new, at)
  /\ pc \in {"record", "erase"} /\ call.op = "del" => At(at) = call.old
  /\ pc \in {"erase", "write", "solve"} =>
       ji \in Indices /\ journal[ji] = [op |-> call.op, cell |-> at, file |-> call.new]
  /\ pc = "write" => \A i \in 1 .. SlotsPer : (i - 1) \div SlotsPerSector < sector =>
                       slots[at[1]][i] = image[i]
  /\ pc = "solve" /\ call.op = "del" => At(at) \notin File
  /\ pc = "clear" => /\ IsRecord(scan)
                     /\ journal[scan].op = "del" => At(journal[scan].cell) \notin File

Kept    == Distinct /\ Held /\ Recorded /\ Working
KeptInv == JournalInv /\ (Whole => Kept)

(* Additions alone.  In the worlds where files are only added faults are   *)
(* of one kind: a record that a failing write left behind is replayed over *)
(* a later file.                                                           *)
OneFault == \A w \in Worlds : w.ops = {"add"} /\ w.whole >= JSlots =>
                               w.faults \subseteq {"crash"} \/ w.faults \subseteq {"write"}

(* Files fill the cells in their order, the clusters of the chain alone. *)
Prefix     == \A p, q \in Cells : Before(p, q) /\ At(q) \in File => At(p) \in File
NoneBeyond == \A p \in Cells : p[1] > len => At(p) \notin File

(* Cell c is the first that may be taken, or has just been, by file f. *)
Edge(c, f) ==
  \A p \in Cells : /\ Before(p, c) => At(p) \in File
                   /\ Before(c, p) => At(p) \notin File
                   /\ p = c /\ At(p) \in File => At(p) = f

\* The image of an addition adds the file, and an END where none was.
ImageAdds ==
  /\ image[at[2]] = call.new
  /\ \A i \in 1 .. SlotsPer : i # at[2] =>
       \/ image[i] = slots[at[1]][i]
       \/ image[i] \notin File /\ slots[at[1]][i] \notin File

Growing ==
  /\ Prefix /\ NoneBeyond
  /\ call # NoCall => call.op = "add"
  /\ pc \in {"record", "write", "solve"} => Edge(at, call.new) /\ at[1] <= len
  /\ pc \in {"record", "write"} => ImageAdds
  /\ pc = "write" => \A i \in 1 .. SlotsPer : (i - 1) \div SlotsPerSector < sector =>
                       slots[at[1]][i] = image[i]
  /\ pc = "solve" => At(at) = call.new
  /\ "crash" \notin world.faults => pc \notin {"restore", "clear"}
  /\ "crash" \in world.faults =>
       \A j, k \in Indices : IsRecord(j) /\ IsRecord(k) => j = k
  /\ "crash" \in world.faults =>
       \A j \in Indices : IsRecord(j) =>
         /\ call \in Change
         /\ journal[j].op = "add" /\ journal[j].file = call.new
         /\ Edge(journal[j].cell, call.new) /\ journal[j].cell[1] <= len
         /\ pc \in {"write", "solve"} => journal[j].cell = at

AddInv == JournalInv /\ (Adding => Growing)

-----------------------------------------------------------------------------
(* Small numbers: a set of them has a least one. *)
LEMMA LeastNumber ==
  ASSUME NEW S, S \subseteq Nat, S # {}
  PROVE  \E m \in S : \A k \in S : m <= k
  <1> DEFINE Below == {0 .. n : n \in S}
  <1>1. Below \subseteq FiniteSubsetsOf(Nat) /\ Below # {}
    <2>1. ASSUME NEW n \in S  PROVE 0 .. n \in FiniteSubsetsOf(Nat)
      <3>1. IsFiniteSet(0 .. n)
        BY FS_Interval
      <3> QED  BY <3>1 DEF FiniteSubsetsOf
    <2> QED  BY <2>1
  <1>2. PICK b \in Below : \A a \in Below : <<a, b>> \notin StrictSubsetOrdering(Nat)
    BY <1>1, FS_StrictSubsetOrderingWellFounded, WFMin
  <1>3. PICK m \in S : b = 0 .. m
    OBVIOUS
  <1>4. ASSUME NEW k \in S, k < m  PROVE FALSE
    <2>1. 0 .. k \in Below /\ 0 .. k \subseteq 0 .. m /\ 0 .. k # 0 .. m
      <3>1. k \in Nat /\ m \in Nat /\ m \in 0 .. m /\ m \notin 0 .. k
        BY <1>4
      <3> QED  BY <3>1, <1>4
    <2>2. <<0 .. k, 0 .. m>> \in StrictSubsetOrdering(Nat)
      BY <2>1 DEF StrictSubsetOrdering
    <2> QED  BY <2>1, <2>2, <1>2, <1>3
  <1> QED  BY <1>4

(* The scans of a directory stop at the first slot that suits. *)
LEMMA FirstOfIn ==
  ASSUME NEW P, P \subseteq Cells, P # {}
  PROVE  /\ FirstOf(P) \in P
         /\ \A q \in P \ {FirstOf(P)} : Before(FirstOf(P), q)
  <1> DEFINE Rows == {p[1] : p \in P}
  <1>1. PICK a \in Rows : \A k \in Rows : a <= k
    <2>1. Rows \subseteq Nat /\ Rows # {}
      BY DEF Cells
    <2> QED  BY <2>1, LeastNumber
  <1> DEFINE Columns == {i \in Nat : <<a, i>> \in P}
  <1>2. PICK b \in Columns : \A k \in Columns : b <= k
    <2>1. Columns \subseteq Nat /\ Columns # {}
      <3>1. PICK p \in P : p[1] = a
        OBVIOUS
      <3>2. p = <<a, p[2]>> /\ p[2] \in Nat
        BY <3>1 DEF Cells
      <3> QED  BY <3>2
    <2> QED  BY <2>1, LeastNumber
  <1>3. <<a, b>> \in P
    OBVIOUS
  <1>4. ASSUME NEW q \in P, q # <<a, b>>
        PROVE  Before(<<a, b>>, q)
    <2>1. q = <<q[1], q[2]>> /\ q[1] \in Nat /\ q[2] \in Nat /\ a \in Nat /\ b \in Nat
      BY <1>3 DEF Cells
    <2>2. a <= q[1]
      BY <1>1
    <2>3. CASE q[1] = a
      <3>1. q[2] \in Columns
        BY <2>1, <2>3
      <3>2. b <= q[2] /\ b # q[2]
        BY <1>2, <1>4, <2>1, <2>3, <3>1
      <3> QED  BY <2>1, <2>3, <3>2 DEF Before
    <2>4. CASE q[1] # a
      BY <2>1, <2>2, <2>4 DEF Before
    <2> QED  BY <2>3, <2>4
  <1>5. \E p \in P : \A q \in P \ {p} : Before(p, q)
    BY <1>3, <1>4
  <1> QED  BY <1>5 DEF FirstOf

(* journal_add_operation stays inside the journal. *)
LEMMA IndexWraps ==
  ASSUME NEW n \in Nat
  PROVE  n % JSlots \in Indices
  BY DirectoryAssumption DEF Indices

LEMMA FirstFree ==
  ASSUME FreeRecords # {}, jindex \in Indices
  PROVE  LET k == CHOOSE k \in FreeRecords : \A l \in FreeRecords : k <= l
         IN  /\ k \in FreeRecords /\ (jindex + k) % JSlots \in Indices
             /\ (((jindex + k) % JSlots) + 1) % JSlots \in Indices
             /\ journal[(jindex + k) % JSlots] = NO_OP
  <1>1. FreeRecords \subseteq Nat
    BY DEF FreeRecords
  <1>2. \E k \in FreeRecords : \A l \in FreeRecords : k <= l
    BY <1>1, LeastNumber
  <1> DEFINE k == CHOOSE k \in FreeRecords : \A l \in FreeRecords : k <= l
  <1>3. k \in FreeRecords
    BY <1>2
  <1>4. jindex + k \in Nat
    <2>1. jindex \in Nat
      BY DirectoryAssumption DEF Indices
    <2>2. \A m \in FreeRecords : jindex + m \in Nat
      BY <1>1, <2>1
    <2> QED  BY <1>3, <2>2
  <1>5. (jindex + k) % JSlots \in Indices
    BY <1>4, IndexWraps
  <1>6. (((jindex + k) % JSlots) + 1) % JSlots \in Indices
    BY <1>5, IndexWraps DEF Indices
  <1>7. journal[(jindex + k) % JSlots] = NO_OP
    BY <1>3 DEF FreeRecords
  <1> QED  BY <1>3, <1>5, <1>6, <1>7

(* The entries of a cluster lie in its sectors. *)
LEMMA DivGrows ==
  ASSUME NEW a \in Nat, NEW b \in Nat, NEW n \in Nat \ {0}, a <= b
  PROVE  a \div n \in Nat /\ a \div n <= b \div n
  <1>1. /\ a \div n \in Int /\ b \div n \in Int
        /\ n * (a \div n) <= a /\ a < n * (a \div n) + n
        /\ n * (b \div n) <= b /\ b < n * (b \div n) + n
    BY SMT
  <1> DEFINE p == a \div n
             q == b \div n
  <1>2. p \in Int /\ q \in Int /\ n * p <= a /\ a < n * p + n /\ n * q <= b /\ b < n * q + n
    BY <1>1
  <1> HIDE DEF p, q
  <1>3. p >= 0
    <2> SUFFICES ASSUME p <= -1  PROVE FALSE
      BY <1>2
    <2>1. n * p <= -n
      BY <1>2, SMT
    <2> QED  BY <1>2, <2>1
  <1>4. p <= q
    <2> SUFFICES ASSUME p >= q + 1  PROVE FALSE
      BY <1>2
    <2>1. n * p >= n * (q + 1) /\ n * (q + 1) = n * q + n
      BY <1>2, SMT
    <2> QED  BY <1>2, <2>1
  <1> QED  BY <1>2, <1>3, <1>4 DEF p, q

LEMMA SectorOf ==
  ASSUME NEW i \in 1 .. SlotsPer
  PROVE  (i - 1) \div SlotsPerSector \in 0 .. LastSector
  <1>1. i - 1 \in Nat /\ SlotsPer - 1 \in Nat /\ i - 1 <= SlotsPer - 1
    BY DirectoryAssumption
  <1>2. (i - 1) \div SlotsPerSector \in Nat
          /\ (i - 1) \div SlotsPerSector <= (SlotsPer - 1) \div SlotsPerSector
          /\ (SlotsPer - 1) \div SlotsPerSector \in Nat
    BY <1>1, DivGrows, DirectoryAssumption
  <1> QED  BY <1>2 DEF LastSector

LEMMA Walked ==
  ASSUME len \in 1 .. NClusters
  PROVE  (1 .. len) \X (1 .. SlotsPer) \subseteq Cells
  <1>1. 1 .. len \subseteq 1 .. NClusters
    BY DirectoryAssumption
  <1> QED  BY <1>1 DEF Cells

(* A walk's result is a place of a file on disk. *)
LEMMA PlacesInside ==
  ASSUME TypeOK, NEW n \in Names, Places(n) # {}
  PROVE  /\ FirstOf(Places(n)) \in Cells
         /\ At(FirstOf(Places(n))) \in File
  <1>1. Places(n) \subseteq Cells
    BY Walked DEF Places, Shown, TypeOK
  <1>2. FirstOf(Places(n)) \in Places(n)
    BY <1>1, FirstOfIn
  <1> QED  BY <1>1, <1>2 DEF Places, Shown, At

LEMMA ReusableInside ==
  ASSUME TypeOK, Reusable # {}
  PROVE  FirstOf(Reusable) \in Cells /\ FirstOf(Reusable) \in Reusable
  <1>1. Reusable \subseteq Cells
    BY Walked DEF Reusable, TypeOK
  <1> QED  BY <1>1, FirstOfIn

-----------------------------------------------------------------------------
(* Types. *)
LEMMA StoredTyped ==
  ASSUME NEW j \in Indices, NEW r \in Records, journal \in [Indices -> Records]
  PROVE  Stored(j, r) \in [Indices -> Records]
  <1>1. r # NO_OP => [r EXCEPT !.file.id = NoId] \in Records
    BY DEF Records, File
  <1> QED  BY <1>1 DEF Stored

LEMMA TypesInit == Init => Typed
  <1> SUFFICES ASSUME Init  PROVE Typed
    OBVIOUS
  <1> USE DirectoryAssumption
  <1>1. slots \in [1 .. NClusters -> [1 .. SlotsPer -> Slot]]
    <2>1. PICK left \in [2 .. NClusters -> Leftovers] :
            slots = [c \in 1 .. NClusters |->
                       [i \in 1 .. SlotsPer |-> IF c = 1 THEN END ELSE left[c]]]
      BY DEF Init
    <2>2. \A c \in 2 .. NClusters : left[c] \in Slot
      OBVIOUS
    <2>3. END \in Slot
      BY DEF Slot
    <2>4. ASSUME NEW c \in 1 .. NClusters, NEW i \in 1 .. SlotsPer
          PROVE  (IF c = 1 THEN END ELSE left[c]) \in Slot
      <3>1. CASE c = 1
        BY <2>3, <3>1
      <3>2. CASE c # 1
        BY <2>2, <3>2
      <3> QED  BY <3>1, <3>2
    <2> QED  BY <2>1, <2>4
  <1>2. <<1, 1>> \in Cells /\ [i \in 1 .. SlotsPer |-> END] \in [1 .. SlotsPer -> Slot]
    BY DEF Cells, Slot
  <1>3. 0 \in 0 .. LastSector
    BY SMT DEF LastSector
  <1>4. journal \in [Indices -> Records] /\ jindex \in Indices
    BY DEF Init, Indices, Records
  <1>5. InCall
    BY DEF Init, InCall
  <1>6. /\ ji = -1 /\ scan = 0 /\ crashes = 0 /\ sector = 0 /\ pc = "idle" /\ call = NoCall
        /\ alloc = {} /\ len = 1 /\ world \in Worlds /\ at = <<1, 1>>
        /\ image = [i \in 1 .. SlotsPer |-> END]
    BY DEF Init
  <1>7. call \in Calls
    BY <1>6 DEF Calls
  <1>8. -1 \in -1 .. JSlots - 1 /\ 0 \in 0 .. JSlots /\ 0 \in 0 .. MaxCrashes /\ 1 \in 1 .. NClusters
    OBVIOUS
  <1> QED  BY <1>1, <1>2, <1>3, <1>4, <1>5, <1>6, <1>7, <1>8 DEF TypeOK, Indices, Typed

LEMMA TypesStep == Typed /\ [Next]_vars => Typed'
  <1> SUFFICES ASSUME Typed, [Next]_vars  PROVE Typed'
    OBVIOUS
  <1> USE DirectoryAssumption DEF disk, run, age, Typed, InCall, Change
  <1>0. journal \in [Indices -> Records] /\ jindex \in Indices /\ NO_OP \in Records
          /\ JSlots \in Nat
    BY DEF TypeOK, Indices, Records
  <1>a. ASSUME NEW j \in Indices, NEW r \in Records, journal' \in JournalAfter(j, r)
        PROVE  journal' \in [0 .. JSlots - 1 -> Records]
    BY <1>0, <1>a, StoredTyped, ZenonT(60) DEF JournalAfter, Indices
  <1>b. 0 \in 0 .. LastSector /\ LastSector \in Nat
    BY SMT DEF LastSector
  <1>1. CASE Add
    BY <1>1 DEF TypeOK, Add, Calls, File
  <1>2. CASE Place
    <2>1. at' \in Cells
      BY <1>2, ReusableInside DEF Place
    <2>2. call.new \in File
      BY <1>2 DEF TypeOK, Calls, Place
    <2>3. ASSUME NEW i \in 1 .. SlotsPer
          PROVE  image'[i] \in Slot
      <3>1. slots[at'[1]][i] \in Slot
        BY <2>1 DEF TypeOK, Cells
      <3>2. image'[i] \in {call.new, END, slots[at'[1]][i]}
        BY <1>2 DEF Place
      <3> QED  BY <2>2, <3>1, <3>2 DEF Slot
    <2>4. image' \in [1 .. SlotsPer -> Slot]
      BY <1>2, <2>3 DEF Place
    <2> QED  BY <1>2, <2>1, <2>4 DEF TypeOK, Place
  <1>3. CASE Grow
    BY <1>3 DEF TypeOK, Grow
  <1>4. CASE NoRoom
    BY <1>4, <1>b DEF TypeOK, NoRoom, Finish, Calls
  <1>5. CASE Delete
    <2>1. at' \in Cells /\ at'[1] \in 1 .. NClusters /\ slots[at'[1]] \in [1 .. SlotsPer -> Slot]
            /\ At(at') \in File
      BY <1>5, PlacesInside, SMTT(30) DEF TypeOK, Delete, Cells
    <2>2. image' \in [1 .. SlotsPer -> Slot]
      BY <1>5, <2>1 DEF Delete, Slot
    <2>3. call' \in Change
      BY <1>5, <2>1 DEF Delete
    <2> QED  BY <1>5, <2>1, <2>2, <2>3 DEF TypeOK, Delete, Calls
  <1>6. CASE Edit
    <2>1. at' \in Cells /\ at'[1] \in 1 .. NClusters /\ slots[at'[1]] \in [1 .. SlotsPer -> Slot]
            /\ At(at') \in File
      BY <1>6, PlacesInside DEF TypeOK, Edit, Cells
    <2>2. image' \in [1 .. SlotsPer -> Slot]
      BY <1>6, <2>1 DEF Edit, Slot
    <2>3. call' \in Change
      BY <1>6, <2>1 DEF Edit, File
    <2> QED  BY <1>6, <2>1, <2>2, <2>3 DEF TypeOK, Edit, Calls
  <1>7. CASE Record
    <2>1. [op |-> call.op, cell |-> at, file |-> call.new] \in Records
      BY <1>7 DEF Record, TypeOK, Records
    <2>2. /\ ji' \in Indices /\ jindex' \in Indices
          /\ journal' \in JournalAfter(ji', [op |-> call.op, cell |-> at, file |-> call.new])
      BY <1>7, <1>0, FirstFree DEF Record
    <2>3. journal' \in [0 .. JSlots - 1 -> Records]
      BY <2>1, <2>2, <1>a
    <2> QED  BY <1>7, <2>2, <2>3 DEF Record, TypeOK, AfterRecord, Indices
  <1>8. CASE RecordFull
    <2>1. jindex' \in Indices
      <3>1. jindex \in Nat
        BY <1>0 DEF Indices
      <3> QED  BY <1>8, <3>1, IndexWraps DEF RecordFull
    <2> QED  BY <1>8, <2>1 DEF TypeOK, RecordFull, AfterRecord, Indices
  <1>9. CASE Erase
    BY <1>9 DEF TypeOK, Erase
  <1>10. CASE Write
    <2>1. slots' \in [1 .. NClusters -> [1 .. SlotsPer -> Slot]]
      <3>1. at[1] \in 1 .. NClusters
        BY DEF TypeOK, Cells
      <3>2. [i \in 1 .. SlotsPer |-> IF InSector(i, sector) THEN image[i] ELSE slots[at[1]][i]]
               \in [1 .. SlotsPer -> Slot]
        BY <3>1 DEF TypeOK
      <3> QED  BY <1>10, <3>1, <3>2 DEF Write, TypeOK
    <2>2. sector' \in 0 .. LastSector
      BY <1>10, <1>b DEF Write, TypeOK
    <2> QED  BY <1>10, <2>1, <2>2 DEF TypeOK, Write
  <1>11. CASE WriteError
    BY <1>11, <1>b DEF TypeOK, WriteError, Finish, Calls
  <1>12. CASE Solve
    BY <1>12, <1>0, <1>a, <1>b DEF TypeOK, Solve, Finish, Calls, Indices
  <1>13. CASE Crash
    BY <1>13, <1>b, SMTT(30) DEF TypeOK, Crash, Cells, Slot
  <1>14. CASE Replay
    <2>1. scan \in Indices /\ journal[scan] \in Records \ {NO_OP}
      BY <1>14, <1>0 DEF Replay, TypeOK, Indices
    <2>2. journal[scan].cell \in Cells /\ journal[scan].file \in File
      BY <2>1 DEF Records
    <2>3. slots' \in [1 .. NClusters -> [1 .. SlotsPer -> Slot]]
      <3>1. \A v \in Restored(journal[scan]) : v \in Slot
        BY <2>2 DEF Restored, Slot
      <3>2. journal[scan].cell[1] \in 1 .. NClusters /\ journal[scan].cell[2] \in 1 .. SlotsPer
        BY <2>2 DEF Cells
      <3>3. ASSUME NEW v \in Restored(journal[scan])
            PROVE  [slots EXCEPT ![journal[scan].cell[1]][journal[scan].cell[2]] = v]
                     \in [1 .. NClusters -> [1 .. SlotsPer -> Slot]]
        BY <3>1, <3>2 DEF TypeOK
      <3>4. slots \in [1 .. NClusters -> [1 .. SlotsPer -> Slot]]
        BY DEF TypeOK
      <3>5. \/ slots' = slots
            \/ \E v \in Restored(journal[scan]) :
                 slots' = [slots EXCEPT ![journal[scan].cell[1]][journal[scan].cell[2]] = v]
        BY <1>14 DEF Replay
      <3>6. CASE slots' # slots
        <4>1. PICK v \in Restored(journal[scan]) :
                slots' = [slots EXCEPT ![journal[scan].cell[1]][journal[scan].cell[2]] = v]
          BY <3>5, <3>6
        <4> QED  BY <3>3, <4>1
      <3> QED  BY <3>4, <3>6
    <2> QED  BY <1>14, <2>3 DEF TypeOK, Replay
  <1>15. CASE Clear
    BY <1>15, <1>0, <1>a DEF TypeOK, Clear, Indices
  <1>16. CASE Skip
    BY <1>16 DEF TypeOK, Skip
  <1>17. CASE Mounted
    BY <1>17 DEF TypeOK, Mounted, Calls
  <1>18. CASE UNCHANGED vars
    BY <1>18 DEF TypeOK, vars
  <1> QED
    BY <1>1, <1>2, <1>3, <1>4, <1>5, <1>6, <1>7, <1>8, <1>9, <1>10, <1>11, <1>12, <1>13,
       <1>14, <1>15, <1>16, <1>17, <1>18 DEF Next, Call, Restore

-----------------------------------------------------------------------------
(* The journal. *)
LEMMA JournalInit == Init => JournalInv
  <1> SUFFICES ASSUME Init  PROVE JournalInv
    OBVIOUS
  <1>1. \A j \in Indices : journal[j] = NO_OP
    BY DEF Init, Indices
  <1> QED  BY <1>1, TypesInit DEF Init, JournalInv, Settled, Beyond

(* What a write to record j leaves in the others, and in j. *)
LEMMA OneRecord ==
  ASSUME journal \in [Indices -> Records], NEW j \in Indices, NEW r,
         journal' \in JournalAfter(j, r), world.whole \in Nat
  PROVE  /\ \A k \in Indices \ {j} : journal'[k] = journal[k]
         /\ ~Failing /\ j < world.whole => journal'[j] = r
         /\ ~Failing /\ j = world.whole /\ r = NO_OP => journal'[j] = r
         /\ j > world.whole => journal' = journal
  <1>1. journal' = Stored(j, r) \/ (Failing /\ journal' = journal)
    BY DEF JournalAfter, Failing
  <1>2. j \in Int /\ world.whole \in Int
    BY DEF Indices
  <1> QED  BY <1>1, <1>2 DEF Stored

LEMMA JournalStep == JournalInv /\ [Next]_vars => JournalInv'
  <1> SUFFICES ASSUME JournalInv, [Next]_vars  PROVE Settled' /\ Beyond'
    BY TypesStep DEF JournalInv
  <1> USE DEF disk, run, age, JournalInv, Typed
  <1>0. /\ journal \in [Indices -> Records] /\ jindex \in Indices
        /\ world.whole \in Nat /\ Indices \subseteq Int
    BY DirectoryAssumption DEF TypeOK, Indices, World
  <1>w. world' = world /\ Failing' = Failing
    BY DEF Next, Call, Restore, Add, Place, Grow, NoRoom, Delete, Edit, Record, RecordFull, Erase,
           Write, WriteError, Solve, Crash, Replay, Clear, Skip, Mounted, vars, Failing
  <1>1. CASE Add \/ Place \/ Grow \/ Delete \/ Edit \/ NoRoom
    BY <1>1, <1>w DEF Add, Place, Grow, Delete, Edit, NoRoom, Finish, Settled, Beyond
  <1>2. CASE Record
    <2>1. /\ ji' \in Indices /\ pc = "record" /\ pc' \in {"erase", "write"}
          /\ journal' \in JournalAfter(ji', [op |-> call.op, cell |-> at, file |-> call.new])
      BY <1>0, <1>2, FirstFree DEF Record, AfterRecord
    <2>2. \A k \in Indices \ {ji'} : journal'[k] = journal[k]
      BY <1>0, <2>1, OneRecord
    <2>3. ji' > world.whole => journal' = journal
      BY <1>0, <2>1, OneRecord
    <2>4. Beyond'
      BY <1>0, <1>w, <2>1, <2>2, <2>3 DEF Beyond
    <2> QED  BY <1>w, <2>1, <2>2, <2>4 DEF Settled
  <1>3. CASE RecordFull
    <2>1. Failing
      <3> SUFFICES ASSUME ~Failing  PROVE FALSE
        OBVIOUS
      <3>1. journal[(jindex + 0) % JSlots] = NO_OP
        <4>1. (jindex + 0) % JSlots \in Indices
          <5>1. jindex + 0 \in Nat
            BY <1>0 DEF Indices
          <5> QED  BY <5>1, IndexWraps
        <4> QED  BY <1>3, <4>1 DEF Settled, RecordFull
      <3>2. 0 \in FreeRecords
        BY <3>1, DirectoryAssumption DEF FreeRecords
      <3> QED  BY <1>3, <3>2 DEF RecordFull
    <2> QED  BY <1>3, <1>w, <2>1 DEF RecordFull, Settled, Beyond
  <1>4. CASE Erase \/ Write \/ WriteError
    BY <1>4, <1>w DEF Erase, Write, WriteError, Finish, Settled, Beyond, Failing
  <1>5. CASE Solve
    <2>1. CASE ji >= 0
      <3>1. ji \in Indices /\ journal' \in JournalAfter(ji, NO_OP)
        BY <1>5, <2>1 DEF Solve, TypeOK, Indices
      <3>2. /\ \A k \in Indices \ {ji} : journal'[k] = journal[k]
            /\ ~Failing /\ ji <= world.whole => journal'[ji] = NO_OP
            /\ ji > world.whole => journal' = journal
        BY <1>0, <3>1, OneRecord
      <3>3. Beyond'
        BY <1>0, <1>w, <3>1, <3>2 DEF Beyond
      <3>4. ~Failing => \A j \in Indices : journal'[j] = NO_OP
        BY <1>0, <1>5, <3>1, <3>2 DEF Settled, Beyond, Solve
      <3> QED  BY <1>5, <1>w, <3>3, <3>4 DEF Settled, Solve, Finish
    <2>2. CASE ji < 0
      <3>1. journal' = journal /\ \A j \in Indices : j # ji
        BY <1>5, <2>2 DEF Solve, TypeOK, Indices
      <3> QED  BY <1>5, <1>w, <3>1 DEF Settled, Beyond, Solve, Finish
    <2> QED  BY <2>1, <2>2 DEF TypeOK
  <1>6. CASE Crash
    <2>1. \A j \in Indices : ~(j < 0)
      BY DEF Indices
    <2> QED  BY <1>6, <1>w, <2>1 DEF Crash, Settled, Beyond
  <1>7. CASE Replay
    BY <1>7, <1>w DEF Replay, Settled, Beyond
  <1>8. CASE Clear
    <2>1. scan \in Indices /\ scan' = scan + 1 /\ journal' \in JournalAfter(scan, NO_OP)
      BY <1>8, DirectoryAssumption DEF Clear, TypeOK, Indices
    <2>2. /\ \A k \in Indices \ {scan} : journal'[k] = journal[k]
          /\ ~Failing /\ scan <= world.whole => journal'[scan] = NO_OP
          /\ scan > world.whole => journal' = journal
      BY <1>0, <2>1, OneRecord
    <2>3. Beyond'
      BY <1>0, <1>w, <2>1, <2>2 DEF Beyond
    <2>4. ~Failing => \A j \in Indices : j < scan + 1 => journal'[j] = NO_OP
      <3> SUFFICES ASSUME ~Failing, NEW j \in Indices, j < scan + 1  PROVE journal'[j] = NO_OP
        OBVIOUS
      <3>1. CASE j = scan
        BY <1>0, <2>1, <2>2, <3>1 DEF Beyond
      <3>2. CASE j # scan
        <4>1. j < scan
          BY <1>0, <2>1, <3>2
        <4> QED  BY <1>8, <2>2, <3>2, <4>1 DEF Settled, Clear
      <3> QED  BY <3>1, <3>2
    <2> QED  BY <1>8, <1>w, <2>1, <2>3, <2>4 DEF Settled, Clear
  <1>9. CASE Skip
    <2>1. ~Failing => \A j \in Indices : j < scan + 1 => journal[j] = NO_OP
      <3> SUFFICES ASSUME ~Failing, NEW j \in Indices, j < scan + 1  PROVE journal[j] = NO_OP
        OBVIOUS
      <3>1. j = scan \/ j < scan
        BY <1>0, <1>9 DEF Skip, TypeOK
      <3> QED  BY <1>9, <3>1 DEF Settled, Skip
    <2> QED  BY <1>9, <1>w, <2>1 DEF Settled, Beyond, Skip
  <1>10. CASE Mounted
    <2>1. \A j \in Indices : j < JSlots
      BY DirectoryAssumption DEF Indices
    <2> QED  BY <1>10, <1>w, <2>1 DEF Settled, Beyond, Mounted
  <1>11. CASE UNCHANGED vars
    BY <1>11, <1>w DEF vars, Settled, Beyond
  <1> QED
    BY <1>1, <1>2, <1>3, <1>4, <1>5, <1>6, <1>7, <1>8, <1>9, <1>10, <1>11
    DEF Next, Call, Restore

LEMMA JournalAlways == Spec => []JournalInv
  BY JournalInit, JournalStep, PTL DEF Spec

(* Types, and while writes succeed no call and no mount leaves a record    *)
(* behind: journal_solve_operation clears the one its call took, wherever  *)
(* it is, and restore_from_journal all of them.                            *)
THEOREM JournalIsSettled == Spec => []JournalSettled
  <1>1. JournalInv => JournalSettled
    BY DEF JournalInv, Typed, Settled, JournalSettled, Indices
  <1> QED  BY <1>1, JournalAlways, PTL

-----------------------------------------------------------------------------
(* Files and their clusters. *)
LEMMA EmptyInit ==
  ASSUME NoOldEntries, Init
  PROVE  /\ \A p \in Cells : At(p) \notin File
         /\ \A j \in Indices : ~IsRecord(j)
  <1>1. \A p \in Cells : At(p) \notin File
    <2> SUFFICES ASSUME NEW p \in Cells  PROVE At(p) \notin File
      OBVIOUS
    <2>1. PICK left \in [2 .. NClusters -> Leftovers] :
            slots = [c \in 1 .. NClusters |->
                       [i \in 1 .. SlotsPer |-> IF c = 1 THEN END ELSE left[c]]]
      BY DEF Init
    <2>2. p[1] \in 1 .. NClusters /\ p[2] \in 1 .. SlotsPer
      BY DEF Cells
    <2>3. CASE p[1] = 1
      BY <2>1, <2>2, <2>3, DirectoryAssumption DEF At
    <2>4. CASE p[1] # 1
      <3>1. p[1] \in 2 .. NClusters /\ left[p[1]] \in Leftovers
        BY <2>2, <2>4, DirectoryAssumption
      <3> QED  BY <2>1, <2>2, <2>4, <3>1 DEF At, NoOldEntries
    <2> QED  BY <2>3, <2>4
  <1>2. \A j \in Indices : ~IsRecord(j)
    BY DEF Init, Indices, IsRecord
  <1> QED  BY <1>1, <1>2

LEMMA KeptInit ==
  ASSUME NoOldEntries, Init
  PROVE  KeptInv
  <1>1. Distinct /\ Held /\ Recorded
    BY EmptyInit DEF Distinct, Held, Recorded
  <1>2. Working
    BY DEF Init, Working
  <1> QED  BY <1>1, <1>2, JournalInit DEF KeptInv, Kept

(* Entries that only go keep the others apart. *)
LEMMA EntriesGo ==
  ASSUME Distinct, \A p \in Cells : At(p)' \in File => At(p)' = At(p)
  PROVE  /\ Distinct'
         /\ \A f, c : (\A p \in Cells \ {c} : At(p) \in File => At(p).id # f.id)
                      => \A p \in Cells \ {c} : At(p)' \in File => At(p)'.id # f.id
  BY Zenon DEF Distinct

(* One entry changes, to a file that is nowhere else. *)
LEMMA EntryComes ==
  ASSUME Distinct, NEW c \in Cells, NEW f \in File, Claimed(f, c),
         \A p \in Cells \ {c} : At(p)' \in File => At(p)' = At(p),
         At(c)' \in File => At(c)' = At(c) \/ At(c)' = f,
         alloc' = alloc
  PROVE  Distinct' /\ Claimed(f, c)'
  <1>1. Claimed(f, c)'
    BY Zenon DEF Claimed
  <1>2. ASSUME NEW p \in Cells, NEW q \in Cells, p # q, At(p)' \in File, At(q)' \in File
        PROVE  At(p)'.id # At(q)'.id
    <2>1. CASE p # c /\ q # c
      BY <1>2, <2>1 DEF Distinct
    <2>2. CASE p = c
      <3>1. At(q)' = At(q) /\ q # c
        BY <1>2, <2>2
      <3>2. At(p)' = At(c) \/ At(p)' = f
        BY <1>2, <2>2
      <3> QED  BY <1>2, <2>2, <3>1, <3>2 DEF Distinct, Claimed
    <2>3. CASE q = c
      <3>1. At(p)' = At(p) /\ p # c
        BY <1>2, <2>3
      <3>2. At(q)' = At(c) \/ At(q)' = f
        BY <1>2, <2>3
      <3> QED  BY <1>2, <2>3, <3>1, <3>2 DEF Distinct, Claimed
    <2> QED  BY <2>1, <2>2, <2>3
  <1> QED  BY <1>1, <1>2 DEF Distinct

(* While a call looks for its place nothing is recorded. *)
LEMMA NothingRecorded ==
  ASSUME KeptInv, Whole, pc \in {"idle", "place", "record"}
  PROVE  /\ \A j \in Indices : ~IsRecord(j)
         /\ \A p \in Cells : At(p) \in File => At(p).id \in alloc
  <1>1. \A j \in Indices : ~IsRecord(j)
    BY DEF KeptInv, JournalInv, Settled, Whole, IsRecord
  <1> QED  BY <1>1 DEF KeptInv, Kept, Held, Removing

LEMMA KeptAdd ==
  ASSUME KeptInv, Whole, Add
  PROVE  Kept'
  <1> USE DEF KeptInv, Kept
  <1>1. /\ \A j \in Indices : ~IsRecord(j)
        /\ \A p \in Cells : At(p) \in File => At(p).id \in alloc
    BY NothingRecorded DEF Add
  <1>2. PICK f \in [name : Names, id : Ids \ alloc] :
          /\ alloc' = alloc \cup {f.id}
          /\ call' = [op |-> "add", old |-> f, new |-> f]
          /\ pc' = "place" /\ "add" \in world.ops
          /\ UNCHANGED <<slots, journal, at, image, sector, ji, scan, world>>
    BY DEF Add, age
  <1>3. f.id \notin alloc
    OBVIOUS
  <1>4. \A p : At(p)' = At(p)
    BY <1>2 DEF At
  <1>5. \A j \in Indices : ~IsRecord(j)'
    BY <1>1, <1>2 DEF IsRecord
  <1>6. Distinct' /\ Held' /\ Recorded'
    BY <1>1, <1>2, <1>4, <1>5 DEF Distinct, Held, Recorded
  <1>7. Working'
    <2>1. call'.new = f /\ call'.op = "add"
      BY <1>2
    <2>2. \A p \in Cells : At(p)' \in File => At(p)'.id # f.id
      BY <1>1, <1>3, <1>4
    <2> QED  BY <1>2, <2>1, <2>2 DEF Working
  <1> QED  BY <1>6, <1>7

LEMMA KeptPlace ==
  ASSUME KeptInv, Whole, Place
  PROVE  Kept'
  <1> USE DEF KeptInv, Kept
  <1>1. /\ \A j \in Indices : ~IsRecord(j)
        /\ \A p \in Cells : At(p) \in File => At(p).id \in alloc
    BY NothingRecorded DEF Place
  <1>2. /\ pc = "place" /\ pc' = "record" /\ call.op = "add" /\ at' \in Cells
        /\ UNCHANGED <<slots, journal, alloc, call, world>>
    BY ReusableInside DEF Place, disk, age, JournalInv, Typed, InCall
  <1>3. \A p : At(p)' = At(p)
    BY <1>2 DEF At
  <1>4. \A j \in Indices : ~IsRecord(j)'
    BY <1>1, <1>2 DEF IsRecord
  <1>5. Distinct' /\ Held' /\ Recorded'
    BY <1>1, <1>2, <1>3, <1>4 DEF Distinct, Held, Recorded
  <1>6. ImageGood'
    <2>1. image'[at'[2]] = call.new
      BY <1>2 DEF Place, Cells
    <2>2. \A i \in 1 .. SlotsPer : i # at'[2] => image'[i] \in {slots[at'[1]][i], END}
      BY DEF Place
    <2> QED  BY <1>2, <2>1, <2>2 DEF ImageGood
  <1>7. Claimed(call.new, at)'
    BY <1>2, <1>3, Zenon DEF Working, Claimed
  <1>8. call.op \in world.ops
    BY <1>2 DEF Working
  <1>9. Working'
    BY <1>2, <1>6, <1>7, <1>8 DEF Working
  <1> QED  BY <1>5, <1>9

LEMMA KeptGrow ==
  ASSUME KeptInv, Whole, Grow \/ NoRoom
  PROVE  Kept'
  <1> USE DEF KeptInv, Kept
  <1>1. /\ \A j \in Indices : ~IsRecord(j)
        /\ \A p \in Cells : At(p) \in File => At(p).id \in alloc
    BY NothingRecorded DEF Grow, NoRoom
  <1>2. pc = "place" /\ UNCHANGED <<slots, journal, world>>
    BY DEF Grow, NoRoom, age
  <1>3. \A p : At(p)' = At(p)
    BY <1>2 DEF At
  <1>4. \A j \in Indices : ~IsRecord(j)'
    BY <1>1, <1>2 DEF IsRecord
  <1>5. Distinct' /\ Recorded'
    BY <1>3, <1>4 DEF Distinct, Recorded
  <1>6. CASE Grow
    <2>1. Held'
      BY <1>1, <1>3, <1>6 DEF Held, Grow
    <2>2. Working'
      BY <1>2, <1>3, <1>6 DEF Working, Grow, run
    <2> QED  BY <1>5, <2>1, <2>2
  <1>7. CASE NoRoom
    <2>1. Held'
      BY <1>1, <1>2, <1>3, <1>7 DEF Held, NoRoom, Working
    <2>2. Working'
      BY <1>7 DEF Working, NoRoom, Finish
    <2> QED  BY <1>5, <2>1, <2>2
  <1> QED  BY <1>6, <1>7

LEMMA KeptChange ==
  ASSUME KeptInv, Whole, Delete \/ Edit
  PROVE  Kept'
  <1> USE DEF KeptInv, Kept
  <1>1. /\ \A j \in Indices : ~IsRecord(j)
        /\ \A p \in Cells : At(p) \in File => At(p).id \in alloc
    BY NothingRecorded DEF Delete, Edit
  <1>2. /\ pc' = "record" /\ UNCHANGED <<slots, journal, alloc, world>>
        /\ at' \in Cells /\ At(at') \in File
        /\ call'.op \in {"del", "edit"} /\ call'.op \in world.ops
        /\ call'.old = At(at') /\ call'.new.id = At(at').id
        /\ image'[at'[2]] \notin File
        /\ \A i \in 1 .. SlotsPer : i # at'[2] => image'[i] = slots[at'[1]][i]
    <2>1. CASE Delete
      <3>1. PICK n \in Names :
              /\ "del" \in world.ops /\ Places(n) # {} /\ at' = FirstOf(Places(n))
              /\ call' = [op |-> "del", old |-> At(at'), new |-> At(at')]
              /\ image' = [slots[at'[1]] EXCEPT ![at'[2]] = FREED]
              /\ pc' = "record" /\ UNCHANGED <<slots, journal, alloc, world>>
        BY <2>1 DEF Delete, disk, age
      <3>2. at' \in Cells /\ At(at') \in File
        BY <3>1, PlacesInside DEF JournalInv, Typed
      <3>3. slots[at'[1]] \in [1 .. SlotsPer -> Slot] /\ at'[2] \in 1 .. SlotsPer
        BY <3>2 DEF JournalInv, Typed, TypeOK, Cells
      <3>4. image'[at'[2]] = FREED
              /\ \A i \in 1 .. SlotsPer : i # at'[2] => image'[i] = slots[at'[1]][i]
        BY <3>1, <3>3
      <3>5. FREED \notin File
        BY DirectoryAssumption
      <3> QED  BY <3>1, <3>2, <3>4, <3>5
    <2>2. CASE Edit
      <3>1. PICK n \in Names, m \in Names :
              /\ "edit" \in world.ops /\ Places(n) # {} /\ at' = FirstOf(Places(n))
              /\ call' = [op |-> "edit", old |-> At(at'), new |-> [name |-> m, id |-> At(at').id]]
              /\ image' = [slots[at'[1]] EXCEPT ![at'[2]] = INVALID]
              /\ pc' = "record" /\ UNCHANGED <<slots, journal, alloc, world>>
        BY <2>2 DEF Edit, disk, age
      <3>2. at' \in Cells /\ At(at') \in File
        BY <3>1, PlacesInside DEF JournalInv, Typed
      <3>3. slots[at'[1]] \in [1 .. SlotsPer -> Slot] /\ at'[2] \in 1 .. SlotsPer
        BY <3>2 DEF JournalInv, Typed, TypeOK, Cells
      <3>4. image'[at'[2]] = INVALID
              /\ \A i \in 1 .. SlotsPer : i # at'[2] => image'[i] = slots[at'[1]][i]
        BY <3>1, <3>3
      <3>5. INVALID \notin File
        BY DirectoryAssumption
      <3> QED  BY <3>1, <3>2, <3>4, <3>5
    <2> QED  BY <2>1, <2>2
  <1>3. \A p : slots'[p[1]][p[2]] = At(p)
    BY <1>2 DEF At
  <1>4. \A j \in Indices : ~IsRecord(j)'
    BY <1>1, <1>2 DEF IsRecord
  <1>5. Distinct' /\ Held' /\ Recorded'
    BY <1>1, <1>2, <1>3, <1>4 DEF Distinct, Held, Recorded, At
  <1>6. ImageGood'
    BY <1>2 DEF ImageGood
  <1>7. Claimed(call.new, at)'
    <2>1. \A p \in Cells \ {at'} : At(p) \in File => At(p).id # At(at').id
      BY <1>2 DEF Distinct
    <2>2. \A p \in Cells \ {at'} : slots'[p[1]][p[2]] \in File => slots'[p[1]][p[2]].id # call'.new.id
      BY <1>2, <1>3, <2>1
    <2> QED  BY <1>1, <1>2, <2>2 DEF Claimed, At
  <1>8. slots'[at'[1]][at'[2]] = call'.old
    BY <1>2, <1>3
  <1>9. Working'
    BY <1>2, <1>6, <1>7, <1>8 DEF Working, At
  <1> QED  BY <1>5, <1>9

LEMMA KeptRecord ==
  ASSUME KeptInv, Whole, Record
  PROVE  Kept'
  <1> USE DEF KeptInv, Kept
  <1>1. /\ \A j \in Indices : ~IsRecord(j)
        /\ \A p \in Cells : At(p) \in File => At(p).id \in alloc
    BY NothingRecorded DEF Record
  <1> DEFINE r == [op |-> call.op, cell |-> at, file |-> call.new]
  <1>2. /\ pc = "record" /\ UNCHANGED <<slots, alloc, call, at, image, sector, world>>
        /\ pc' = IF call.op = "del" THEN "erase" ELSE "write"
        /\ ji' \in Indices /\ journal' \in JournalAfter(ji', r)
    BY FirstFree DEF Record, AfterRecord, age, JournalInv, Typed, TypeOK, Indices
  <1>3. journal \in [Indices -> Records] /\ world.whole \in Nat /\ call \in Change /\ at \in Cells
    BY <1>2, DirectoryAssumption DEF JournalInv, Typed, TypeOK, Indices, World, InCall
  <1>4. ji' < world.whole
    BY <1>2, <1>3, DirectoryAssumption DEF Whole, Indices
  <1>5. journal'[ji'] = r /\ \A k \in Indices \ {ji'} : journal'[k] = journal[k]
    BY <1>2, <1>3, <1>4, OneRecord DEF Whole
  <1>6. r # NO_OP
    BY <1>3, DirectoryAssumption DEF Change
  <1>7. \A j \in Indices : IsRecord(j)' <=> j = ji'
    BY <1>1, <1>5, <1>6 DEF IsRecord
  <1>8. \A p : At(p)' = At(p)
    BY <1>2 DEF At
  <1>9. Distinct' /\ Held'
    BY <1>1, <1>2, <1>8 DEF Distinct, Held
  <1>10. call.op \in world.ops /\ (call.op # "del" => Claimed(call.new, at))
    BY <1>2 DEF Working
  <1>11. call.op # "del" => Claimed(call.new, at)'
    BY <1>2, <1>8, <1>10, Zenon DEF Claimed
  <1>12. Recorded'
    <2>1. \A j \in Indices : IsRecord(j)' =>
            /\ journal'[j].op \in world'.ops
            /\ journal'[j].op # "del" => Claimed(journal[j].file, journal[j].cell)'
      <3> SUFFICES ASSUME NEW j \in Indices, IsRecord(j)'
                   PROVE  /\ journal'[j].op \in world'.ops
                          /\ journal'[j].op # "del" => Claimed(journal[j].file, journal[j].cell)'
        OBVIOUS
      <3>1. j = ji' /\ journal'[j].op = call.op /\ journal'[j].file = call'.new
              /\ journal'[j].cell = at' /\ world' = world
        BY <1>2, <1>5, <1>7
      <3> QED  BY <1>10, <1>11, <3>1 DEF Claimed
    <2> QED  BY <1>7, <2>1 DEF Recorded
  <1>13. Working'
    <2>1. ImageGood'
      BY <1>2 DEF Working, ImageGood
    <2>2. call.op = "del" => At(at)' = call'.old
      BY <1>2, <1>8 DEF Working, At
    <2>3. sector = 0
      BY <1>2 DEF JournalInv, Typed, InCall
    <2>4. \A i \in 1 .. SlotsPer : ~((i - 1) \div SlotsPerSector < sector)
      BY <2>3, SectorOf
    <2> QED  BY <1>2, <1>5, <1>10, <2>1, <2>2, <2>4 DEF Working
  <1> QED  BY <1>9, <1>12, <1>13

LEMMA KeptErase ==
  ASSUME KeptInv, Whole, Erase
  PROVE  Kept'
  <1> USE DEF KeptInv, Kept
  <1>1. /\ pc = "erase" /\ pc' = "write" /\ alloc' = alloc \ {call.old.id} /\ call.op = "del"
        /\ UNCHANGED <<slots, journal, call, at, image, sector, ji, world>>
    BY DEF Erase, run, age, JournalInv, Typed, InCall
  <1>2. /\ ji \in Indices /\ journal[ji] = [op |-> call.op, cell |-> at, file |-> call.new]
        /\ At(at) = call.old /\ ImageGood /\ call.op \in world.ops
    BY <1>1 DEF Working
  <1>3. call \in Change /\ at \in Cells
    BY <1>1 DEF JournalInv, Typed, TypeOK, InCall
  <1>4. IsRecord(ji) /\ journal[ji].op = "del" /\ journal[ji].cell = at
    BY <1>1, <1>2, <1>3, DirectoryAssumption DEF IsRecord, Change
  <1>5. \A p : At(p)' = At(p)
    BY <1>1 DEF At
  <1>6. Held'
    <2> SUFFICES ASSUME NEW p \in Cells, At(p)' \in File
                 PROVE  At(p)'.id \in alloc' \/ Removing(p)'
      BY DEF Held
    <2>1. Removing(p)' <=> Removing(p)
      BY <1>1 DEF Removing, IsRecord
    <2>2. CASE p = at
      BY <1>2, <1>4, <2>1, <2>2 DEF Removing
    <2>3. CASE p # at
      <3>1. At(p).id # call.old.id
        BY <1>2, <1>3, <1>5, <2>3 DEF Distinct, Change
      <3> QED  BY <1>1, <1>5, <2>1, <3>1 DEF Held
    <2> QED  BY <2>2, <2>3
  <1>7. Distinct'
    BY <1>5 DEF Distinct
  <1>8. Recorded'
    <2>1. \A j \in Indices : IsRecord(j)' <=> IsRecord(j)
      BY <1>1 DEF IsRecord
    <2>2. \A j \in Indices : IsRecord(j) => journal[j].op = "del"
      BY <1>2, <1>4 DEF Recorded
    <2> QED  BY <1>1, <2>1, <2>2 DEF Recorded
  <1>9. Working'
    <2>1. ImageGood'
      BY <1>1, <1>2 DEF ImageGood
    <2>2. sector = 0
      BY <1>1 DEF JournalInv, Typed, InCall
    <2>3. \A i \in 1 .. SlotsPer : ~((i - 1) \div SlotsPerSector < sector)
      BY <2>2, SectorOf
    <2> QED  BY <1>1, <1>2, <2>1, <2>3 DEF Working
  <1> QED  BY <1>6, <1>7, <1>8, <1>9

LEMMA KeptWrite ==
  ASSUME KeptInv, Whole, Write
  PROVE  Kept'
  <1> USE DEF KeptInv, Kept
  <1>1. /\ pc = "write" /\ UNCHANGED <<journal, alloc, call, at, image, ji, world>>
        /\ slots' = [slots EXCEPT ![at[1]] =
                       [i \in 1 .. SlotsPer |-> IF InSector(i, sector) THEN image[i] ELSE @[i]]]
        /\ \/ sector = LastSector /\ pc' = "solve"
           \/ pc' = "write" /\ sector' = sector + 1
    BY DEF Write, age
  <1>2. /\ ji \in Indices /\ journal[ji] = [op |-> call.op, cell |-> at, file |-> call.new]
        /\ ImageGood /\ call.op \in world.ops
        /\ \A i \in 1 .. SlotsPer : (i - 1) \div SlotsPerSector < sector => slots[at[1]][i] = image[i]
    BY <1>1 DEF Working
  <1>3. /\ call \in Change /\ at \in Cells /\ at[1] \in 1 .. NClusters /\ at[2] \in 1 .. SlotsPer
        /\ at = <<at[1], at[2]>> /\ sector \in 0 .. LastSector /\ LastSector \in Int
        /\ slots \in [1 .. NClusters -> [1 .. SlotsPer -> Slot]]
    BY <1>1, DirectoryAssumption DEF JournalInv, Typed, TypeOK, InCall, Cells, LastSector
  <1>4. \A i \in 1 .. SlotsPer :
          slots'[at[1]][i] = IF InSector(i, sector) THEN image[i] ELSE slots[at[1]][i]
    BY <1>1, <1>3
  <1>5. \A c \in 1 .. NClusters : c # at[1] => slots'[c] = slots[c]
    BY <1>1, <1>3
  <1>6. \A p \in Cells \ {at} : At(p)' \in File => At(p)' = At(p)
    <2> SUFFICES ASSUME NEW p \in Cells \ {at}, At(p)' \in File
                 PROVE  At(p)' = At(p)
      OBVIOUS
    <2>1. p[1] \in 1 .. NClusters /\ p[2] \in 1 .. SlotsPer /\ p = <<p[1], p[2]>>
      BY DEF Cells
    <2>2. CASE p[1] # at[1]
      BY <1>5, <2>1, <2>2 DEF At
    <2>3. CASE p[1] = at[1]
      <3>1. p[2] # at[2]
        BY <1>3, <2>1, <2>3
      <3>2. image[p[2]] \in {slots[at[1]][p[2]], END}
        BY <1>2, <2>1, <3>1 DEF ImageGood
      <3>3. END \notin File
        BY DirectoryAssumption
      <3> QED  BY <1>4, <2>1, <2>3, <3>2, <3>3 DEF At
    <2> QED  BY <2>2, <2>3
  <1>7. /\ At(at)' = At(at) \/ At(at)' = image[at[2]]
        /\ \A p \in Cells : p = at => At(p)' = At(p) \/ At(p)' = image[at[2]]
    BY <1>1, <1>3, <1>4 DEF At
  <1>8. IsRecord(ji) /\ \A j \in Indices : IsRecord(j)' <=> IsRecord(j)
    BY <1>1, <1>2, <1>3, DirectoryAssumption DEF IsRecord, Change
  <1>9. \A j \in Indices : IsRecord(j) => j = ji
    BY <1>2, <1>8 DEF Recorded
  <1>10. Distinct' /\ Recorded'
    <2>1. CASE call.op = "del"
      <3>1. \A p \in Cells : At(p)' \in File => At(p)' = At(p)
        <4>1. image[at[2]] \notin File
          BY <1>2, <2>1 DEF ImageGood
        <4> QED  BY <1>6, <1>7, <4>1
      <3>2. Distinct'
        BY <3>1, EntriesGo
      <3> QED  BY <1>1, <1>2, <1>8, <1>9, <2>1, <3>2 DEF Recorded
    <2>2. CASE call.op # "del"
      <3>1. Claimed(call.new, at)
        BY <1>2, <1>8, <2>2 DEF Recorded
      <3>2. At(at)' \in File => At(at)' = At(at) \/ At(at)' = call.new
        BY <1>2, <1>7 DEF ImageGood
      <3>3. Distinct' /\ Claimed(call.new, at)'
        <4>1. /\ call.new \in File /\ alloc' = alloc /\ call'.new = call.new /\ at' = at
          BY <1>1, <1>3 DEF Change
        <4>2. Distinct' /\ alloc' = alloc
                /\ (call.new.id \in alloc /\ \A p \in Cells \ {at} : At(p)' \in File => At(p)'.id # call.new.id)
          BY <1>3, <1>6, <3>1, <3>2, <4>1, EntryComes DEF Claimed
        <4> QED  BY <4>1, <4>2 DEF Claimed
      <3>4. ASSUME NEW j \in Indices, IsRecord(j)'
            PROVE  /\ journal'[j].op \in world'.ops
                   /\ Claimed(journal[j].file, journal[j].cell)'
        <4>1. j = ji /\ journal'[j].op = call.op /\ journal'[j].file = call'.new
                /\ journal'[j].cell = at' /\ world' = world
          BY <1>1, <1>2, <1>8, <1>9, <3>4
        <4> QED  BY <1>2, <3>3, <4>1 DEF Claimed
      <3> QED  BY <1>8, <1>9, <3>3, <3>4 DEF Recorded
    <2> QED  BY <2>1, <2>2
  <1>11. Held'
    <2> SUFFICES ASSUME NEW p \in Cells, At(p)' \in File
                 PROVE  At(p)'.id \in alloc' \/ Removing(p)'
      BY DEF Held
    <2>1. Removing(p)' <=> Removing(p)
      BY <1>1 DEF Removing, IsRecord
    <2>2. CASE At(p)' = At(p)
      BY <1>1, <2>1, <2>2 DEF Held
    <2>3. CASE At(p)' # At(p)
      <3>1. p = at /\ At(p)' = image[at[2]]
        BY <1>6, <1>7, <2>3
      <3>2. call.op = "add" /\ At(p)' = call.new
        BY <1>2, <3>1 DEF ImageGood
      <3>3. Claimed(call.new, at)
        BY <1>2, <1>8, <3>2 DEF Recorded
      <3> QED  BY <1>1, <3>2, <3>3 DEF Claimed
    <2> QED  BY <2>2, <2>3
  <1>12. Working'
    <2>1. ImageGood'
      <3> SUFFICES ASSUME NEW i \in 1 .. SlotsPer, i # at[2]
                   PROVE  image[i] \in {slots'[at[1]][i], END}
        BY <1>1, <1>2 DEF ImageGood
      <3> QED  BY <1>2, <1>4 DEF ImageGood
    <2>2. ASSUME NEW i \in 1 .. SlotsPer, (i - 1) \div SlotsPerSector < sector + 1
          PROVE  slots'[at[1]][i] = image[i]
      <3>1. CASE InSector(i, sector)
        BY <1>4, <3>1
      <3>2. CASE ~InSector(i, sector)
        <4>1. (i - 1) \div SlotsPerSector < sector
          <5>1. (i - 1) \div SlotsPerSector \in Int
            BY SectorOf
          <5> QED  BY <1>3, <2>2, <3>2, <5>1 DEF InSector
        <4> QED  BY <1>2, <1>4, <3>2, <4>1
      <3> QED  BY <3>1, <3>2
    <2>3. CASE pc' = "write"
      BY <1>1, <1>2, <2>1, <2>2, <2>3 DEF Working
    <2>4. CASE pc' = "solve"
      <3>1. sector = LastSector
        BY <1>1, <2>4
      <3>2. (at[2] - 1) \div SlotsPerSector < sector + 1
        <4>1. (at[2] - 1) \div SlotsPerSector \in 0 .. LastSector
          BY <1>3, SectorOf
        <4> QED  BY <1>3, <3>1, <4>1
      <3>3. slots'[at[1]][at[2]] = image[at[2]]
        BY <1>3, <2>2, <3>2
      <3>4. call.op = "del" => At(at)' \notin File
        BY <1>1, <1>2, <3>3 DEF At, ImageGood
      <3> QED  BY <1>1, <1>2, <2>4, <3>4 DEF Working
    <2> QED  BY <1>1, <2>3, <2>4
  <1> QED  BY <1>10, <1>11, <1>12

LEMMA KeptSolve ==
  ASSUME KeptInv, Whole, Solve
  PROVE  Kept'
  <1> USE DEF KeptInv, Kept
  <1>1. pc = "solve" /\ pc' = "idle" /\ UNCHANGED <<slots, alloc, at, world>>
    BY DEF Solve, Finish, age
  <1>2. /\ ji \in Indices /\ journal[ji] = [op |-> call.op, cell |-> at, file |-> call.new]
        /\ call.op = "del" => At(at) \notin File
    BY <1>1 DEF Working
  <1>3. journal \in [Indices -> Records] /\ world.whole \in Nat /\ call \in Change
    BY <1>1, DirectoryAssumption DEF JournalInv, Typed, TypeOK, Indices, World, InCall
  <1>4. journal' \in JournalAfter(ji, NO_OP) /\ ji < world.whole
    BY <1>2, <1>3, DirectoryAssumption DEF Solve, Whole, Indices
  <1>5. journal'[ji] = NO_OP /\ \A k \in Indices \ {ji} : journal'[k] = journal[k]
    BY <1>2, <1>3, <1>4, OneRecord DEF Whole
  <1>6. IsRecord(ji)
    BY <1>2, <1>3, DirectoryAssumption DEF IsRecord, Change, JournalInv, Typed, TypeOK
  <1>7. \A j \in Indices : ~IsRecord(j)'
    BY <1>2, <1>5, <1>6 DEF IsRecord, Recorded
  <1>8. \A p : At(p)' = At(p)
    BY <1>1 DEF At
  <1>9. \A p \in Cells : At(p) \in File => At(p).id \in alloc
    <2>1. \A j \in Indices : IsRecord(j) => j = ji
      BY <1>2, <1>6 DEF Recorded
    <2>2. \A p \in Cells : Removing(p) => At(p) \notin File
      BY <1>2, <2>1 DEF Removing
    <2> QED  BY <2>2 DEF Held
  <1> QED  BY <1>1, <1>7, <1>8, <1>9 DEF Distinct, Held, Recorded, Working

LEMMA KeptReplay ==
  ASSUME KeptInv, Whole, ReplayReaches, Replay
  PROVE  Kept'
  <1> USE DEF KeptInv, Kept
  <1> DEFINE r == journal[scan]
  <1>1. /\ scan \in Indices /\ IsRecord(scan) /\ r \in Records \ {NO_OP}
        /\ pc = "restore" /\ pc' = "clear" /\ UNCHANGED <<journal, alloc, scan, world>>
        /\ world \in Worlds
    BY DirectoryAssumption
    DEF Replay, IsRecord, JournalInv, Typed, TypeOK, Indices, age
  <1>2. /\ r.cell \in Cells /\ r.file \in File
        /\ r.cell[1] \in 1 .. NClusters /\ r.cell[2] \in 1 .. SlotsPer
        /\ r.op \in world.ops /\ (r.op # "del" => Claimed(r.file, r.cell))
    BY <1>1 DEF Records, Cells, Recorded
  <1>3. \/ slots' = slots /\ r.op # "del"
        \/ \E v \in Restored(r) : slots' = [slots EXCEPT ![r.cell[1]][r.cell[2]] = v]
    BY <1>1, <1>2 DEF Replay, Unreached, Whole, Failing, ReplayReaches
  <1>4. /\ \A p \in Cells \ {r.cell} : At(p)' = At(p)
        /\ \A p \in Cells : p = r.cell /\ r.op # "del" =>
              At(p)' = At(p) \/ At(p)' = r.file \/ At(p)' = INVALID
        /\ \A p \in Cells : p = r.cell /\ r.op = "del" => At(p)' = END
    <2>1. CASE slots' = slots /\ r.op # "del"
      BY <2>1 DEF At
    <2>2. ASSUME NEW v \in Restored(r), slots' = [slots EXCEPT ![r.cell[1]][r.cell[2]] = v]
          PROVE  /\ \A p \in Cells \ {r.cell} : At(p)' = At(p)
                 /\ \A p \in Cells : p = r.cell => At(p)' = v
      <3>1. slots \in [1 .. NClusters -> [1 .. SlotsPer -> Slot]]
        BY DEF JournalInv, Typed, TypeOK
      <3>2. ASSUME NEW p \in Cells \ {r.cell}
            PROVE  At(p)' = At(p)
        <4>1. p[1] \in 1 .. NClusters /\ p[2] \in 1 .. SlotsPer
                /\ (p[1] # r.cell[1] \/ p[2] # r.cell[2])
          BY <1>2 DEF Cells
        <4> QED  BY <1>2, <2>2, <3>1, <4>1 DEF At
      <3>3. ASSUME NEW p \in Cells, p = r.cell
            PROVE  At(p)' = v
        BY <1>2, <2>2, <3>1, <3>3 DEF At
      <3> QED  BY <3>2, <3>3
    <2>3. CASE slots' # slots \/ r.op = "del"
      <3>1. PICK v \in Restored(r) : slots' = [slots EXCEPT ![r.cell[1]][r.cell[2]] = v]
        BY <1>3, <2>3
      <3>2. v = END \/ (r.op # "del" /\ v \in {r.file, INVALID})
        BY DEF Restored
      <3>3. r.op = "del" => v = END
        BY DEF Restored
      <3>4. r.op # "del" => v \in {r.file, INVALID}
        BY DEF Restored
      <3> QED  BY <2>2, <3>1, <3>3, <3>4
    <2> QED  BY <2>1, <2>3
  <1>5. /\ \A j \in Indices : IsRecord(j)' <=> IsRecord(j)
        /\ \A j \in Indices : IsRecord(j) => j = scan
        /\ \A p : Removing(p)' <=> Removing(p)
    BY <1>1 DEF IsRecord, Recorded, Removing
  <1>6. CASE r.op = "del"
    <2>1. END \notin File
      BY DirectoryAssumption
    <2>2. \A p \in Cells : At(p)' \in File => At(p)' = At(p)
      BY <1>4, <1>6, <2>1
    <2>3. Distinct'
      BY <2>2, EntriesGo
    <2>4. Held'
      BY <1>1, <1>5, <2>2 DEF Held
    <2>5. Recorded'
      BY <1>1, <1>2, <1>5, <1>6 DEF Recorded
    <2>6. \A p \in Cells : p = r.cell => At(p)' \notin File
      BY <1>4, <1>6, <2>1
    <2>7. At(journal[scan].cell)' \notin File
      <3>1. journal'[scan'].cell = r.cell
        BY <1>1
      <3> QED  BY <1>2, <2>6, <3>1 DEF At
    <2>8. Working'
      BY <1>1, <1>5, <2>7 DEF Working, IsRecord
    <2> QED  BY <2>3, <2>4, <2>5, <2>8
  <1>7. CASE r.op # "del"
    <2>1. INVALID \notin File
      BY DirectoryAssumption
    <2>2. \A p \in Cells \ {r.cell} : At(p)' \in File => At(p)' = At(p)
      BY <1>4
    <2>3. \A p \in Cells : p = r.cell => (At(p)' \in File => At(p)' = At(p) \/ At(p)' = r.file)
      BY <1>4, <1>7, <2>1
    <2>4. Distinct' /\ \A p \in Cells \ {r.cell} : At(p)' \in File => At(p)'.id # r.file.id
      <3>1. \A p \in Cells \ {r.cell} : At(p) \in File => At(p).id # r.file.id
        BY <1>2, <1>7 DEF Claimed
      <3>2. \A p \in Cells \ {r.cell} : At(p)' \in File => At(p)'.id # r.file.id
        BY <2>2, <3>1
      <3>3. ASSUME NEW p \in Cells, NEW q \in Cells, p # q, At(p)' \in File, At(q)' \in File
            PROVE  At(p)'.id # At(q)'.id
        <4>1. CASE p # r.cell /\ q # r.cell
          BY <2>2, <3>3, <4>1 DEF Distinct
        <4>2. CASE p = r.cell
          <5>1. CASE At(p)' = r.file
            BY <3>2, <3>3, <4>2, <5>1
          <5>2. CASE At(p)' # r.file
            BY <2>2, <2>3, <3>3, <4>2, <5>2 DEF Distinct
          <5> QED  BY <5>1, <5>2
        <4>3. CASE q = r.cell
          <5>1. CASE At(q)' = r.file
            BY <3>2, <3>3, <4>3, <5>1
          <5>2. CASE At(q)' # r.file
            BY <2>2, <2>3, <3>3, <4>3, <5>2 DEF Distinct
          <5> QED  BY <5>1, <5>2
        <4> QED  BY <4>1, <4>2, <4>3
      <3> QED  BY <3>2, <3>3 DEF Distinct
    <2>5. Held'
      <3> SUFFICES ASSUME NEW p \in Cells, At(p)' \in File
                   PROVE  At(p)'.id \in alloc' \/ Removing(p)'
        BY DEF Held
      <3>1. CASE At(p)' = At(p)
        BY <1>1, <1>5, <3>1 DEF Held
      <3>2. CASE At(p)' # At(p)
        <4>1. At(p)' = r.file
          BY <2>2, <2>3, <3>2
        <4> QED  BY <1>1, <1>2, <1>7, <4>1 DEF Claimed
      <3> QED  BY <3>1, <3>2
    <2>6. Recorded'
      <3>1. ASSUME NEW j \in Indices, IsRecord(j)'
            PROVE  /\ journal'[j].op \in world'.ops
                   /\ Claimed(journal[j].file, journal[j].cell)'
        <4>1. j = scan /\ journal'[j] = r
          BY <1>1, <1>5, <3>1
        <4> QED  BY <1>1, <1>2, <1>7, <2>4, <4>1 DEF Claimed
      <3> QED  BY <1>5, <3>1 DEF Recorded
    <2>7. Working'
      BY <1>1, <1>5, <1>7 DEF Working, IsRecord
    <2> QED  BY <2>4, <2>5, <2>6, <2>7
  <1> QED  BY <1>6, <1>7

LEMMA KeptClear ==
  ASSUME KeptInv, Whole, Clear
  PROVE  Kept'
  <1> USE DEF KeptInv, Kept
  <1>1. /\ pc = "clear" /\ pc' = "restore" /\ UNCHANGED <<slots, alloc, world>>
        /\ scan \in Indices /\ journal' \in JournalAfter(scan, NO_OP)
    BY DirectoryAssumption DEF Clear, age, JournalInv, Typed, TypeOK, Indices
  <1>2. IsRecord(scan) /\ (journal[scan].op = "del" => At(journal[scan].cell) \notin File)
    BY <1>1 DEF Working
  <1>3. journal \in [Indices -> Records] /\ world.whole \in Nat
    BY DirectoryAssumption DEF JournalInv, Typed, TypeOK, Indices, World
  <1>4. scan < world.whole
    BY <1>1, <1>3, DirectoryAssumption DEF Whole, Indices
  <1>5. journal'[scan] = NO_OP /\ \A k \in Indices \ {scan} : journal'[k] = journal[k]
    BY <1>1, <1>3, <1>4, OneRecord DEF Whole
  <1>6. \A j \in Indices : ~IsRecord(j)'
    BY <1>1, <1>2, <1>5 DEF IsRecord, Recorded
  <1>7. \A p : At(p)' = At(p)
    BY <1>1 DEF At
  <1>8. \A p \in Cells : At(p) \in File => At(p).id \in alloc
    <2>1. \A j \in Indices : IsRecord(j) => j = scan
      BY <1>1, <1>2 DEF Recorded
    <2>2. \A p \in Cells : Removing(p) => At(p) \notin File
      BY <1>2, <2>1 DEF Removing
    <2> QED  BY <2>2 DEF Held
  <1> QED  BY <1>1, <1>6, <1>7, <1>8 DEF Distinct, Held, Recorded, Working

LEMMA KeptQuiet ==
  ASSUME KeptInv, Whole, Crash \/ Skip \/ Mounted
  PROVE  Kept'
  <1> USE DEF KeptInv, Kept
  <1>1. UNCHANGED <<slots, journal, alloc, world>> /\ pc' \in {"restore", "idle"}
    BY DEF Crash, Skip, Mounted, disk, age
  <1>2. /\ \A p : At(p)' = At(p)
        /\ \A j \in Indices : IsRecord(j)' <=> IsRecord(j)
        /\ \A p : Removing(p)' <=> Removing(p)
    BY <1>1 DEF At, IsRecord, Removing
  <1>3. Distinct' /\ Held'
    BY <1>1, <1>2 DEF Distinct, Held
  <1>4. Recorded'
    <2>1. ASSUME NEW j \in Indices, Claimed(journal[j].file, journal[j].cell)
          PROVE  Claimed(journal[j].file, journal[j].cell)'
      BY <1>1, <1>2, <2>1 DEF Claimed
    <2> QED  BY <1>1, <1>2, <2>1 DEF Recorded
  <1>5. Working'
    BY <1>1 DEF Working
  <1> QED  BY <1>3, <1>4, <1>5

LEMMA KeptStep ==
  ASSUME ReplayReaches
  PROVE  KeptInv /\ [Next]_vars => KeptInv'
  <1> SUFFICES ASSUME KeptInv, [Next]_vars, Whole'
               PROVE  Kept'
    BY JournalStep DEF KeptInv
  <1>0. world' = world
    BY DEF Next, Call, Restore, Add, Place, Grow, NoRoom, Delete, Edit, Record, RecordFull, Erase,
           Write, WriteError, Solve, Crash, Replay, Clear, Skip, Mounted, vars, age
  <1>w. Whole
    BY <1>0 DEF Whole, Failing
  <1>1. ~RecordFull /\ ~WriteError
    <2>1. ~WriteError
      BY <1>w DEF WriteError, Whole, Failing
    <2>2. ASSUME RecordFull  PROVE FALSE
      <3>1. \A j \in Indices : ~IsRecord(j)
        BY <1>w, <2>2, NothingRecorded DEF RecordFull
      <3>2. (jindex + 0) % JSlots \in Indices
        <4>1. jindex + 0 \in Nat
          BY DirectoryAssumption DEF KeptInv, JournalInv, Typed, TypeOK
        <4> QED  BY <4>1, IndexWraps
      <3>3. 0 \in FreeRecords
        BY <3>1, <3>2, DirectoryAssumption DEF FreeRecords, IsRecord
      <3> QED  BY <2>2, <3>3 DEF RecordFull
    <2> QED  BY <2>1, <2>2
  <1>2. CASE UNCHANGED vars
    <2>1. /\ \A p : At(p)' = At(p)
          /\ \A j \in Indices : IsRecord(j)' <=> IsRecord(j)
          /\ \A p : Removing(p)' <=> Removing(p)
      BY <1>2 DEF vars, disk, At, IsRecord, Removing
    <2>2. UNCHANGED <<slots, journal, alloc, world, pc, call, at, image, sector, ji, scan>>
      BY <1>2 DEF vars, disk, run, age
    <2>3. Distinct' /\ Held'
      BY <1>w, <2>1, <2>2 DEF Distinct, Held, KeptInv, Kept
    <2>4. Recorded'
      <3>1. ASSUME NEW j \in Indices, Claimed(journal[j].file, journal[j].cell)
            PROVE  Claimed(journal[j].file, journal[j].cell)'
        BY <2>1, <2>2, <3>1 DEF Claimed
      <3> QED  BY <1>w, <2>1, <2>2, <3>1 DEF Recorded, KeptInv, Kept
    <2>5. Working'
      BY <1>w, <2>2 DEF Working, KeptInv, Kept, ImageGood, Claimed, At, IsRecord
    <2> QED  BY <2>3, <2>4, <2>5 DEF Kept
  <1> QED
    BY <1>w, <1>1, <1>2, KeptAdd, KeptPlace, KeptGrow, KeptChange, KeptRecord, KeptErase,
       KeptWrite, KeptSolve, KeptReplay, KeptClear, KeptQuiet DEF Next, Call, Restore

(* No entry that a search can find leads to a free cluster or to that of   *)
(* another entry, after any calls of put, delete and change and any power  *)
(* losses in them and in the mounts that replay them: while writes succeed *)
(* and records fit the journal, on volumes where an unused cluster holds   *)
(* no old entries and the driver lets a removal be replayed.               *)
THEOREM FilesAreKept ==
  ASSUME NoOldEntries, ReplayReaches
  PROVE  Spec => []FilesKept
  <1>1. KeptInv => FilesKept
    <2> SUFFICES ASSUME KeptInv, pc = "idle", Whole
                 PROVE  /\ \A f \in Listing : f.id \in alloc
                        /\ \A p, q \in Shown : p # q => At(p).id # At(q).id
      BY DEF FilesKept, Whole
    <2>1. Shown \subseteq Cells /\ \A p \in Shown : At(p) \in File
      BY Walked DEF Shown, At, KeptInv, JournalInv, Typed, TypeOK
    <2> QED  BY <2>1, NothingRecorded DEF Listing, KeptInv, Kept, Distinct
  <1>2. KeptInv /\ [Next]_vars => KeptInv'
    BY KeptStep
  <1>3. Init => KeptInv
    BY KeptInit
  <1> QED  BY <1>1, <1>2, <1>3, PTL DEF Spec

-----------------------------------------------------------------------------
(* Additions. *)
LEMMA CellOrder ==
  ASSUME NEW p \in Cells, NEW q \in Cells
  PROVE  /\ p = q \/ Before(p, q) \/ Before(q, p)
         /\ ~(Before(p, q) /\ Before(q, p)) /\ ~Before(p, p)
         /\ \A c \in Cells : Before(p, q) /\ Before(q, c) => Before(p, c)
         /\ Before(p, q) => p[1] <= q[1]
  <1>1. \A c \in Cells : c = <<c[1], c[2]>> /\ c[1] \in Int /\ c[2] \in Int
    BY DEF Cells
  <1> QED  BY <1>1 DEF Before

(* Around an edge files fill the cells in order. *)
LEMMA EdgeOrders ==
  ASSUME NEW c \in Cells, NEW f, Edge(c, f)
  PROVE  Prefix
  <1> SUFFICES ASSUME NEW p \in Cells, NEW q \in Cells, Before(p, q), At(q) \in File
               PROVE  At(p) \in File
    BY DEF Prefix
  <1>1. ~Before(c, q)
    BY DEF Edge
  <1>2. q = c \/ Before(q, c)
    BY <1>1, CellOrder
  <1>3. Before(p, c)
    BY <1>2, CellOrder
  <1> QED  BY <1>3 DEF Edge

LEMMA ListingIs ==
  ASSUME Prefix, NoneBeyond, len \in 1 .. NClusters
  PROVE  Listing = {At(p) : p \in {q \in Cells : At(q) \in File}}
  <1>1. Shown \subseteq {q \in Cells : At(q) \in File}
    BY Walked DEF Shown, At
  <1>2. ASSUME NEW q \in Cells, At(q) \in File
        PROVE  q \in Shown
    <2>1. q[1] \in 1 .. len /\ q[2] \in 1 .. SlotsPer /\ q = <<q[1], q[2]>>
      BY <1>2 DEF Cells, NoneBeyond
    <2>2. ASSUME NEW k \in 1 .. q[2] - 1
          PROVE  slots[q[1]][k] # END
      <3>1. <<q[1], k>> \in Cells
        BY <2>1, DirectoryAssumption DEF Cells
      <3>2. Before(<<q[1], k>>, q)
        BY <2>1 DEF Before
      <3>3. At(<<q[1], k>>) \in File
        BY <1>2, <3>1, <3>2 DEF Prefix
      <3> QED  BY <3>3, DirectoryAssumption DEF At
    <2> QED  BY <1>2, <2>1, <2>2 DEF Shown, At
  <1> QED  BY <1>1, <1>2 DEF Listing

(* One cell at the edge changes, to the file or to none. *)
LEMMA EdgeStep ==
  ASSUME NEW c \in Cells, NEW f \in File, Edge(c, f), NoneBeyond, c[1] <= len, len' = len,
         len \in 1 .. NClusters,
         \A p \in Cells \ {c} : At(p)' = At(p) \/ (At(p) \notin File /\ At(p)' \notin File),
         At(c)' \in File => At(c)' = f
  PROVE  /\ Edge(c, f)' /\ Prefix' /\ NoneBeyond'
         /\ Listing' \ {f} = Listing \ {f}
  <1>1. \A p \in Cells \ {c} : (At(p)' \in File <=> At(p) \in File) /\ (At(p) \in File => At(p)' = At(p))
    OBVIOUS
  <1>2. \A p \in Cells : Before(p, c) \/ Before(c, p) => p # c
    BY CellOrder
  <1>3. Edge(c, f)'
    BY <1>1, <1>2 DEF Edge, Before
  <1>4. Prefix'
    <2> SUFFICES ASSUME NEW p \in Cells, NEW q \in Cells, Before(p, q), At(q)' \in File
                 PROVE  At(p)' \in File
      BY DEF Prefix, Before
    <2>1. q = c \/ Before(q, c)
      <3>1. CASE q # c
        BY <1>1, <3>1, CellOrder DEF Edge
      <3> QED  BY <3>1
    <2>2. Before(p, c) /\ p # c
      BY <2>1, CellOrder
    <2> QED  BY <1>1, <2>2 DEF Edge
  <1>5. NoneBeyond'
    BY <1>1 DEF NoneBeyond, Cells
  <1>6. Listing = {At(p) : p \in {q \in Cells : At(q) \in File}}
    BY EdgeOrders, ListingIs
  <1>7. Listing' = {At(p)' : p \in {q \in Cells : At(q)' \in File}}
    <2>1. Prefix' /\ NoneBeyond' /\ (len \in 1 .. NClusters)'
      BY <1>4, <1>5
    <2>2. (Prefix /\ NoneBeyond /\ len \in 1 .. NClusters
             => Listing = {At(p) : p \in {q \in Cells : At(q) \in File}})'
      BY ListingIs, PTL
    <2> QED  BY <2>1, <2>2
  <1>8. \A x : x # f => (x \in Listing' <=> x \in Listing)
    <2>1. ASSUME NEW x, x # f, x \in Listing
          PROVE  x \in Listing'
      <3>1. PICK p \in Cells : At(p) \in File /\ x = At(p)
        BY <1>6, <2>1
      <3>2. p # c
        BY <2>1, <3>1 DEF Edge
      <3> QED  BY <1>1, <1>7, <3>1, <3>2
    <2>2. ASSUME NEW x, x # f, x \in Listing'
          PROVE  x \in Listing
      <3>1. PICK p \in Cells : At(p)' \in File /\ x = At(p)'
        BY <1>7, <2>2
      <3>2. p # c
        BY <2>2, <3>1
      <3> QED  BY <1>1, <1>6, <3>1, <3>2
    <2> QED  BY <2>1, <2>2
  <1> QED  BY <1>3, <1>4, <1>5, <1>8

LEMMA GrowingInit ==
  ASSUME NoOldEntries, Init
  PROVE  Growing
  <1>1. Prefix /\ NoneBeyond
    BY EmptyInit DEF Prefix, NoneBeyond
  <1>2. pc = "idle" /\ call = NoCall
    BY DEF Init
  <1> QED  BY <1>1, <1>2, EmptyInit DEF Growing

(* A step that moves no slot. *)
LEMMA SlotsStay ==
  ASSUME slots' = slots
  PROVE  /\ \A p : At(p)' = At(p)
         /\ Prefix => Prefix'
         /\ \A c, f : Edge(c, f) => Edge(c, f)'
         /\ len' = len => Listing' = Listing /\ (NoneBeyond => NoneBeyond')
  <1>1. \A p : At(p)' = At(p)
    BY DEF At
  <1>2. len' = len => Shown' = Shown
    BY DEF Shown
  <1> QED  BY <1>1, <1>2 DEF Prefix, Edge, Listing, NoneBeyond, Before

(* What a step of an addition must show. *)
Implements == DM!Next \/ UNCHANGED <<Listing, call>>

LEMMA AddAdd ==
  ASSUME AddInv, Adding, OneFault, Add
  PROVE  Growing' /\ Implements
  <1> USE DEF AddInv, Growing
  <1>1. PICK f \in [name : Names, id : Ids \ alloc] :
          /\ MayMiss(f.name)
          /\ call' = [op |-> "add", old |-> f, new |-> f]
          /\ pc = "idle" /\ pc' = "place"
          /\ UNCHANGED <<slots, len, journal, world>>
    BY DEF Add, age
  <1>2. call = NoCall /\ f \in File /\ call' # NoCall /\ call'.new = f
    BY <1>1 DEF JournalInv, Typed, InCall, NoCall, File
  <1>3. \A j \in Indices : "crash" \in world.faults => ~IsRecord(j)
    <2>1. "crash" \in world.faults => ~Failing
      BY DEF OneFault, Adding, JournalInv, Typed, TypeOK, Failing
    <2> QED  BY <1>1, <2>1 DEF JournalInv, Settled, IsRecord
  <1>4. Growing'
    <2>1. Prefix' /\ NoneBeyond'
      BY <1>1, SlotsStay
    <2> QED  BY <1>1, <1>3, <2>1 DEF IsRecord
  <1>5. Listing' = Listing
    BY <1>1, SlotsStay
  <1>6. \A g \in Listing : g.name # f.name
    <2>1. Places(f.name) = {}
      <3>1. "rewrite" \notin world.faults
        BY DEF OneFault, Adding, JournalInv, Typed, TypeOK
      <3>2. \A p \in Places(f.name) : p[1] > len /\ p[1] \in 1 .. len
        BY <1>1, <3>1 DEF MayMiss, Places, Shown
      <3> QED  BY <3>2 DEF JournalInv, Typed, TypeOK
    <2> QED  BY <2>1 DEF Listing, Places
  <1>7. DM!Begin(f)
    BY <1>2, <1>5, <1>6 DEF DM!Begin
  <1>8. f \in DM!File
    BY <1>2 DEF DM!File, File
  <1> QED  BY <1>4, <1>7, <1>8 DEF Implements, DM!Next

LEMMA AddPlace ==
  ASSUME AddInv, Adding, OneFault, Place
  PROVE  Growing' /\ Implements
  <1> USE DEF AddInv, Growing
  <1>1. /\ pc = "place" /\ pc' = "record" /\ at' = FirstOf(Reusable) /\ Reusable # {}
        /\ UNCHANGED <<slots, len, journal, call, world>>
    BY DEF Place, disk, age
  <1>2. call \in Change /\ call.op = "add" /\ len \in 1 .. NClusters
    BY <1>1 DEF JournalInv, Typed, InCall, TypeOK
  <1>3. /\ at' \in Cells /\ at' \in Reusable
        /\ \A q \in Reusable \ {at'} : Before(at', q)
    <2>1. Reusable \subseteq Cells
      BY <1>2, Walked DEF Reusable
    <2> QED  BY <1>1, <2>1, FirstOfIn
  <1>4. at'[1] \in 1 .. len /\ At(at') \notin File
    BY <1>3 DEF Reusable
  <1>5. \A p \in Cells : /\ Before(p, at') => At(p) \in File
                         /\ Before(at', p) => At(p) \notin File
    <2>1. ASSUME NEW p \in Cells, Before(p, at')
          PROVE  At(p) \in File
      <3>1. p[1] \in 1 .. len /\ p[2] \in 1 .. SlotsPer /\ p = <<p[1], p[2]>>
        BY <1>2, <1>3, <1>4, <2>1, CellOrder DEF Cells
      <3>2. p \notin Reusable
        BY <1>3, <2>1, CellOrder
      <3> QED  BY <3>1, <3>2 DEF Reusable
    <2>2. ASSUME NEW p \in Cells, Before(at', p), At(p) \in File
          PROVE  FALSE
      BY <1>3, <1>4, <2>2 DEF Prefix
    <2> QED  BY <2>1, <2>2
  <1>6. \A p : slots'[p[1]][p[2]] = At(p)
    BY <1>1 DEF At
  <1>7. Edge(at, call.new)'
    BY <1>4, <1>5, <1>6 DEF Edge, At, Before
  <1>8. ImageAdds'
    <2>1. image'[at'[2]] = call.new
      BY <1>3 DEF Place, Cells
    <2>2. ASSUME NEW i \in 1 .. SlotsPer, i # at'[2], image'[i] # slots[at'[1]][i]
          PROVE  image'[i] \notin File /\ slots[at'[1]][i] \notin File
      <3>1. i = at'[2] + 1 /\ image'[i] = END
        BY <2>2 DEF Place
      <3>2. <<at'[1], i>> \in Cells /\ Before(at', <<at'[1], i>>)
        BY <1>3, <3>1 DEF Cells, Before
      <3>3. At(<<at'[1], i>>) \notin File
        BY <1>5, <3>2
      <3> QED  BY <3>1, <3>3, DirectoryAssumption DEF At
    <2> QED  BY <1>1, <2>1, <2>2 DEF ImageAdds
  <1>9. \A j \in Indices : "crash" \in world.faults => ~IsRecord(j)
    <2>1. "crash" \in world.faults => ~Failing
      BY DEF OneFault, Adding, JournalInv, Typed, TypeOK, Failing
    <2> QED  BY <1>1, <2>1 DEF JournalInv, Settled, IsRecord
  <1>10. Prefix' /\ NoneBeyond' /\ Listing' = Listing
    BY <1>1, SlotsStay
  <1>11. at'[1] <= len'
    BY <1>1, <1>2, <1>4
  <1> QED  BY <1>1, <1>2, <1>7, <1>8, <1>9, <1>10, <1>11 DEF IsRecord, Implements

LEMMA AddGrow ==
  ASSUME AddInv, Adding, OneFault, Grow \/ NoRoom
  PROVE  Growing' /\ Implements
  <1> USE DEF AddInv, Growing
  <1>1. pc = "place" /\ UNCHANGED <<slots, journal, world>> /\ Reusable = {}
    BY DEF Grow, NoRoom, age
  <1>2. call \in Change /\ call.op = "add" /\ len \in 1 .. NClusters
    BY <1>1 DEF JournalInv, Typed, InCall, TypeOK
  <1>3. \A j \in Indices : "crash" \in world.faults => ~IsRecord(j)
    <2>1. "crash" \in world.faults => ~Failing
      BY DEF OneFault, Adding, JournalInv, Typed, TypeOK, Failing
    <2> QED  BY <1>1, <2>1 DEF JournalInv, Settled, IsRecord
  <1>4. CASE Grow
    <2>1. len' = len + 1 /\ pc' = pc /\ call' = call /\ len' \in 1 .. NClusters
      BY <1>2, <1>4, DirectoryAssumption DEF Grow, run
    <2>2. Prefix' /\ NoneBeyond' /\ \A p : At(p)' = At(p)
      <3>1. Prefix' /\ \A p : At(p)' = At(p)
        BY <1>1, SlotsStay
      <3>2. \A p \in Cells : p[1] > len + 1 => p[1] > len
        BY <1>2 DEF Cells
      <3> QED  BY <2>1, <3>1, <3>2 DEF NoneBeyond
    <2>3. Listing' = Listing
      <3>1. Listing = {At(p) : p \in {q \in Cells : At(q) \in File}}
        BY <1>2, ListingIs
      <3>2. (Prefix /\ NoneBeyond /\ len \in 1 .. NClusters
               => Listing = {At(p) : p \in {q \in Cells : At(q) \in File}})'
        BY ListingIs, PTL
      <3>3. Listing' = {At(p)' : p \in {q \in Cells : At(q)' \in File}}
        BY <2>1, <2>2, <3>2
      <3> QED  BY <2>2, <3>1, <3>3
    <2> QED  BY <1>1, <1>2, <1>3, <2>1, <2>2, <2>3 DEF IsRecord, Implements
  <1>5. CASE NoRoom
    <2>1. pc' = "idle" /\ call' = NoCall /\ len' = len
      BY <1>5 DEF NoRoom, Finish
    <2>2. Prefix' /\ NoneBeyond' /\ Listing' = Listing
      BY <1>1, <2>1, SlotsStay
    <2>3. DM!Fail
      BY <1>2, <2>1, <2>2 DEF DM!Fail, Change, NoCall
    <2> QED  BY <1>1, <1>3, <2>1, <2>2, <2>3 DEF IsRecord, Implements, DM!Next
  <1> QED  BY <1>4, <1>5

LEMMA AddRecord ==
  ASSUME AddInv, Adding, OneFault, Record \/ RecordFull
  PROVE  Growing' /\ Implements
  <1> USE DEF AddInv, Growing
  <1>1. pc = "record" /\ UNCHANGED <<slots, len, call, at, image, sector, world>>
    BY DEF Record, RecordFull, disk, age
  <1>2. call \in Change /\ call.op = "add" /\ sector = 0
    BY <1>1 DEF JournalInv, Typed, InCall, Change, NoCall
  <1>3. pc' = "write"
    BY <1>2 DEF Record, RecordFull, AfterRecord
  <1>4. /\ Prefix' /\ NoneBeyond' /\ Listing' = Listing
        /\ Edge(at, call.new)'
    <2>1. Edge(at, call.new)
      BY <1>1
    <2> QED  BY <1>1, <2>1, SlotsStay DEF Edge, At, Before
  <1>5. ImageAdds' /\ at'[1] <= len'
    BY <1>1 DEF ImageAdds
  <1>6. \A i \in 1 .. SlotsPer : ~((i - 1) \div SlotsPerSector < sector')
    BY <1>1, <1>2, SectorOf
  <1>7. ASSUME "crash" \in world.faults, NEW j \in Indices, IsRecord(j)'
        PROVE  /\ journal'[j].op = "add" /\ journal'[j].file = call.new /\ journal'[j].cell = at
               /\ \A k \in Indices : IsRecord(k)' => k = j
    <2>1. ~Failing
      BY <1>7 DEF OneFault, Adding, JournalInv, Typed, TypeOK, Failing
    <2>2. \A k \in Indices : ~IsRecord(k)
      BY <1>1, <2>1 DEF JournalInv, Settled, IsRecord
    <2>3. CASE Record
      <3> DEFINE r == [op |-> call.op, cell |-> at, file |-> call.new]
      <3>1. ji' \in Indices /\ journal' \in JournalAfter(ji', r)
        BY <2>3, FirstFree DEF Record, JournalInv, Typed, TypeOK, Indices
      <3>2. journal \in [Indices -> Records] /\ world.whole \in Nat
        BY DirectoryAssumption DEF JournalInv, Typed, TypeOK, Indices, World
      <3>3. ji' < world.whole
        BY <3>1, <3>2, DirectoryAssumption DEF Adding, Indices
      <3>4. journal'[ji'] = r /\ \A k \in Indices \ {ji'} : journal'[k] = journal[k]
        BY <2>1, <3>1, <3>2, <3>3, OneRecord
      <3>5. \A k \in Indices : IsRecord(k)' => k = ji'
        BY <2>2, <3>4 DEF IsRecord
      <3> QED  BY <1>2, <1>7, <3>4, <3>5
    <2>4. CASE RecordFull
      BY <1>7, <2>2, <2>4 DEF RecordFull, IsRecord, disk
    <2> QED  BY <2>3, <2>4
  <1>8. ASSUME "crash" \in world.faults, NEW j \in Indices, IsRecord(j)'
        PROVE  Edge(journal[j].cell, call.new)' /\ journal'[j].cell[1] <= len'
    BY <1>1, <1>4, <1>5, <1>7, <1>8 DEF Edge
  <1> QED  BY <1>1, <1>2, <1>3, <1>4, <1>5, <1>6, <1>7, <1>8 DEF Implements

LEMMA AddWrite ==
  ASSUME AddInv, Adding, OneFault, Write
  PROVE  Growing' /\ Implements
  <1> USE DEF AddInv, Growing
  <1>1. /\ pc = "write" /\ UNCHANGED <<len, journal, call, at, image, ji, world>>
        /\ slots' = [slots EXCEPT ![at[1]] =
                       [i \in 1 .. SlotsPer |-> IF InSector(i, sector) THEN image[i] ELSE @[i]]]
        /\ \/ sector = LastSector /\ pc' = "solve"
           \/ pc' = "write" /\ sector' = sector + 1
    BY DEF Write, age
  <1>2. /\ ImageAdds /\ Edge(at, call.new) /\ at[1] <= len
        /\ \A i \in 1 .. SlotsPer : (i - 1) \div SlotsPerSector < sector => slots[at[1]][i] = image[i]
    BY <1>1
  <1>3. /\ call \in Change /\ call.op = "add" /\ call.new \in File /\ call # NoCall
        /\ at \in Cells /\ at[1] \in 1 .. NClusters /\ at[2] \in 1 .. SlotsPer
        /\ at = <<at[1], at[2]>> /\ sector \in 0 .. LastSector /\ LastSector \in Int
        /\ slots \in [1 .. NClusters -> [1 .. SlotsPer -> Slot]] /\ len \in 1 .. NClusters
    BY <1>1, DirectoryAssumption
    DEF JournalInv, Typed, TypeOK, InCall, Cells, LastSector, Change, NoCall
  <1>4. \A i \in 1 .. SlotsPer :
          slots'[at[1]][i] = IF InSector(i, sector) THEN image[i] ELSE slots[at[1]][i]
    BY <1>1, <1>3
  <1>5. \A c \in 1 .. NClusters : c # at[1] => slots'[c] = slots[c]
    BY <1>1, <1>3
  <1>6. \A p \in Cells \ {at} : At(p)' = At(p) \/ (At(p) \notin File /\ At(p)' \notin File)
    <2> SUFFICES ASSUME NEW p \in Cells \ {at}
                 PROVE  At(p)' = At(p) \/ (At(p) \notin File /\ At(p)' \notin File)
      OBVIOUS
    <2>1. p[1] \in 1 .. NClusters /\ p[2] \in 1 .. SlotsPer /\ p = <<p[1], p[2]>>
      BY DEF Cells
    <2>2. CASE p[1] # at[1]
      BY <1>5, <2>1, <2>2 DEF At
    <2>3. CASE p[1] = at[1]
      <3>1. p[2] # at[2]
        BY <1>3, <2>1, <2>3
      <3> QED  BY <1>2, <1>4, <2>1, <2>3, <3>1 DEF At, ImageAdds
    <2> QED  BY <2>2, <2>3
  <1>7. slots'[at[1]][at[2]] \in File => slots'[at[1]][at[2]] = call.new
    <2>1. At(at) \in File => At(at) = call.new
      BY <1>2, <1>3 DEF Edge
    <2> QED  BY <1>2, <1>3, <1>4, <2>1 DEF At, ImageAdds
  <1>8. /\ \A p \in Cells : /\ Before(p, at) => At(p)' \in File
                            /\ Before(at, p) => At(p)' \notin File
                            /\ p = at /\ At(p)' \in File => At(p)' = call.new
        /\ Prefix' /\ NoneBeyond' /\ Listing' \ {call.new} = Listing \ {call.new}
    <2>1. \A c \in Cells : c = at =>
             /\ \A p \in Cells \ {c} : At(p)' = At(p) \/ (At(p) \notin File /\ At(p)' \notin File)
             /\ At(c)' \in File => At(c)' = call.new
             /\ Edge(c, call.new) /\ c[1] <= len
      BY <1>2, <1>6, <1>7 DEF At
    <2>2. ASSUME NEW c \in Cells, NEW f, c = at, f = call.new
          PROVE  Edge(c, f)' /\ Prefix' /\ NoneBeyond' /\ Listing' \ {f} = Listing \ {f}
      <3>1. f \in File /\ Edge(c, f) /\ c[1] <= len /\ len' = len
        BY <1>1, <1>3, <2>1, <2>2
      <3>2. \A p \in Cells \ {c} : At(p)' = At(p) \/ (At(p) \notin File /\ At(p)' \notin File)
        BY <2>1, <2>2
      <3>3. At(c)' \in File => At(c)' = f
        BY <2>1, <2>2
      <3> QED  BY <1>3, <3>1, <3>2, <3>3, EdgeStep
    <2>3. \A f : \A c \in Cells : c = at /\ f = call.new =>
            /\ Edge(c, f)' /\ Prefix' /\ NoneBeyond' /\ Listing' \ {f} = Listing \ {f}
      BY <2>2
    <2> QED  BY <1>3, <2>3, Zenon DEF Edge, Before
  <1>9. Edge(at, call.new)' /\ at'[1] <= len'
    BY <1>1, <1>2, <1>8 DEF Edge, Before, At
  <1>10. ImageAdds'
    BY <1>1, <1>2, <1>4 DEF ImageAdds
  <1>11. ASSUME NEW i \in 1 .. SlotsPer, (i - 1) \div SlotsPerSector < sector + 1
         PROVE  slots'[at[1]][i] = image[i]
    <2>1. CASE InSector(i, sector)
      BY <1>4, <2>1
    <2>2. CASE ~InSector(i, sector)
      <3>1. (i - 1) \div SlotsPerSector < sector
        <4>1. (i - 1) \div SlotsPerSector \in Int
          BY SectorOf
        <4> QED  BY <1>3, <1>11, <2>2, <4>1 DEF InSector
      <3> QED  BY <1>2, <1>4, <2>2, <3>1
    <2> QED  BY <2>1, <2>2
  <1>12. pc' = "solve" => slots'[at[1]][at[2]] = call.new
    <2> SUFFICES ASSUME pc' = "solve"  PROVE slots'[at[1]][at[2]] = call.new
      OBVIOUS
    <2>1. sector = LastSector
      BY <1>1
    <2>2. (at[2] - 1) \div SlotsPerSector < sector + 1
      <3>1. (at[2] - 1) \div SlotsPerSector \in 0 .. LastSector
        BY <1>3, SectorOf
      <3> QED  BY <1>3, <2>1, <3>1
    <2> QED  BY <1>2, <1>3, <1>11, <2>2 DEF ImageAdds
  <1>13. ASSUME "crash" \in world.faults, NEW j \in Indices, IsRecord(j)'
         PROVE  /\ journal'[j].op = "add" /\ journal'[j].file = call'.new /\ journal'[j].cell = at'
                /\ Edge(journal[j].cell, call.new)' /\ journal'[j].cell[1] <= len'
    <2>1. journal[j].op = "add" /\ journal[j].file = call.new /\ journal[j].cell = at
      BY <1>1, <1>13 DEF IsRecord
    <2> QED  BY <1>1, <1>9, <2>1 DEF Edge
  <1>14. Growing'
    <2>1. pc' \in {"write", "solve"} /\ (pc' = "solve" => At(at)' = call'.new)
      BY <1>1, <1>12 DEF At
    <2>2. pc' = "write" => \A i \in 1 .. SlotsPer : (i - 1) \div SlotsPerSector < sector' =>
                       slots'[at'[1]][i] = image'[i]
      BY <1>1, <1>11
    <2>3. "crash" \in world'.faults => \A j, k \in Indices : IsRecord(j)' /\ IsRecord(k)' => j = k
      BY <1>1 DEF IsRecord
    <2> QED  BY <1>1, <1>3, <1>8, <1>9, <1>10, <1>13, <2>1, <2>2, <2>3
  <1>15. DM!Work
    BY <1>1, <1>3, <1>8 DEF DM!Work
  <1> QED  BY <1>14, <1>15 DEF Implements, DM!Next

LEMMA AddEnd ==
  ASSUME AddInv, AddInv => JournalInv', Adding, OneFault, WriteError \/ Solve
  PROVE  Growing' /\ Implements
  <1> USE DEF AddInv, Growing
  <1>1. /\ pc \in {"write", "solve"} /\ UNCHANGED <<slots, len, world>>
        /\ call \in Change /\ call.op = "add" /\ call # NoCall
    BY DEF WriteError, Solve, age, JournalInv, Typed, InCall, Change, NoCall
  <1>2. pc' = "idle" /\ call' = NoCall
    BY <1>1 DEF WriteError, Solve, Finish
  <1>3. Prefix' /\ NoneBeyond' /\ Listing' = Listing
    BY <1>1, SlotsStay
  <1>4. \A j \in Indices : "crash" \in world'.faults => ~IsRecord(j)'
    <2>1. "crash" \in world.faults => ~Failing
      BY DEF OneFault, Adding, JournalInv, Typed, TypeOK, Failing
    <2>2. "crash" \in world.faults => ~Failing'
      BY <1>1, <2>1 DEF Failing
    <2> QED  BY <1>1, <1>2, <2>2 DEF JournalInv, Settled, IsRecord
  <1>5. Growing'
    BY <1>2, <1>3, <1>4
  <1>6. DM!Fail
    BY <1>1, <1>2, <1>3 DEF DM!Fail
  <1> QED  BY <1>5, <1>6 DEF Implements, DM!Next

LEMMA AddReplay ==
  ASSUME AddInv, Adding, OneFault, Replay
  PROVE  Growing' /\ Implements
  <1> USE DEF AddInv, Growing
  <1> DEFINE r == journal[scan]
  <1>1. /\ scan \in Indices /\ IsRecord(scan) /\ r \in Records \ {NO_OP}
        /\ pc = "restore" /\ pc' = "clear" /\ UNCHANGED <<len, journal, call, world>>
        /\ slots \in [1 .. NClusters -> [1 .. SlotsPer -> Slot]] /\ len \in 1 .. NClusters
    BY DirectoryAssumption
    DEF Replay, IsRecord, JournalInv, Typed, TypeOK, Indices, age, run
  <1>2. /\ "crash" \in world.faults /\ call \in Change /\ r.op = "add" /\ r.file = call.new
        /\ Edge(r.cell, call.new) /\ r.cell[1] <= len
        /\ r.cell \in Cells /\ call.new \in File
        /\ r.cell[1] \in 1 .. NClusters /\ r.cell[2] \in 1 .. SlotsPer
    BY <1>1 DEF Records, Cells, Change
  <1>3. /\ \A p \in Cells \ {r.cell} : At(p)' = At(p)
        /\ \A p \in Cells : p = r.cell /\ At(p)' \in File => At(p)' = call.new
    <2>1. CASE slots' = slots
      BY <1>2, <2>1 DEF At, Edge
    <2>2. CASE slots' # slots
      <3>1. PICK v \in {call.new, INVALID} : slots' = [slots EXCEPT ![r.cell[1]][r.cell[2]] = v]
        BY <1>2, <2>2 DEF Replay, Restored
      <3>2. ASSUME NEW p \in Cells \ {r.cell}
            PROVE  At(p)' = At(p)
        <4>1. p[1] \in 1 .. NClusters /\ p[2] \in 1 .. SlotsPer
                /\ (p[1] # r.cell[1] \/ p[2] # r.cell[2])
          BY <1>2 DEF Cells
        <4> QED  BY <1>1, <1>2, <3>1, <4>1 DEF At
      <3>3. ASSUME NEW p \in Cells, p = r.cell
            PROVE  At(p)' = v
        BY <1>1, <1>2, <3>1, <3>3 DEF At
      <3>4. INVALID \notin File
        BY DirectoryAssumption
      <3> QED  BY <3>1, <3>2, <3>3, <3>4
    <2> QED  BY <2>1, <2>2
  <1>4. ASSUME NEW c \in Cells, NEW f \in File, c = r.cell, f = call.new
        PROVE  Edge(c, f)' /\ Prefix' /\ NoneBeyond' /\ Listing' \ {f} = Listing \ {f}
    <2>1. Edge(c, f) /\ c[1] <= len /\ len' = len
      BY <1>1, <1>2, <1>4
    <2>2. \A p \in Cells \ {c} : At(p)' = At(p) \/ (At(p) \notin File /\ At(p)' \notin File)
      BY <1>3, <1>4
    <2>3. At(c)' \in File => At(c)' = f
      BY <1>3, <1>4
    <2> QED  BY <1>1, <2>1, <2>2, <2>3, EdgeStep
  <1>5. Prefix' /\ NoneBeyond' /\ Listing' \ {call.new} = Listing \ {call.new}
    BY <1>2, <1>4
  <1>6. ASSUME NEW j \in Indices, IsRecord(j)'
        PROVE  /\ journal'[j].op = "add" /\ journal'[j].file = call'.new
               /\ Edge(journal[j].cell, call.new)' /\ journal'[j].cell[1] <= len'
    <2>1. journal[j] \in Records \ {NO_OP}
      BY <1>1, <1>6 DEF IsRecord, JournalInv, Typed, TypeOK, Indices
    <2>2. /\ journal[j].op = "add" /\ journal[j].file = call.new
          /\ Edge(journal[j].cell, call.new) /\ journal[j].cell[1] <= len
          /\ journal[j].cell \in Cells
      BY <1>1, <1>2, <1>6, <2>1 DEF IsRecord, Records
    <2>3. j = scan
      BY <1>1, <1>2, <1>6 DEF IsRecord
    <2>4. \A c \in Cells, f \in File : c = r.cell /\ f = call.new => Edge(c, f)'
      BY <1>4
    <2> QED  BY <1>1, <1>2, <2>2, <2>3, <2>4 DEF Edge, Before
  <1>7. call # NoCall
    BY <1>2 DEF Change, NoCall
  <1>8. Growing'
    <2>1. \A j, k \in Indices : IsRecord(j)' /\ IsRecord(k)' => j = k
      BY <1>1, <1>2 DEF IsRecord
    <2> QED  BY <1>1, <1>2, <1>5, <1>6, <2>1
  <1>9. DM!Work
    BY <1>1, <1>5, <1>7 DEF DM!Work
  <1> QED  BY <1>8, <1>9 DEF Implements, DM!Next

LEMMA AddQuiet ==
  ASSUME AddInv, AddInv => JournalInv', Adding, OneFault, Crash \/ Skip \/ Clear
  PROVE  Growing' /\ Implements
  <1> USE DEF AddInv, Growing
  <1>1. /\ UNCHANGED <<slots, len, call, world>> /\ pc' \in {"restore", "clear"}
        /\ "crash" \in world.faults
    BY DEF Crash, Skip, Clear, disk, run, age
  <1>2. Prefix' /\ NoneBeyond' /\ Listing' = Listing
    BY <1>1, SlotsStay
  <1>3. \A j \in Indices : IsRecord(j)' => IsRecord(j) /\ journal'[j] = journal[j]
    <2>1. CASE Crash \/ Skip
      BY <2>1 DEF Crash, Skip, disk, IsRecord
    <2>2. CASE Clear
      <3>0. scan \in Indices /\ journal' \in JournalAfter(scan, NO_OP)
        BY <2>2, DirectoryAssumption DEF Clear, JournalInv, Typed, TypeOK, Indices
      <3>1. journal \in [Indices -> Records] /\ world.whole \in Nat
        BY DirectoryAssumption DEF JournalInv, Typed, TypeOK, Indices, World
      <3>2. scan < world.whole
        BY <3>0, <3>1, DirectoryAssumption DEF Adding, Indices
      <3>3. ~Failing
        BY <1>1 DEF OneFault, Adding, JournalInv, Typed, TypeOK, Failing
      <3>4. journal'[scan] = NO_OP /\ \A k \in Indices \ {scan} : journal'[k] = journal[k]
        BY <3>0, <3>1, <3>2, <3>3, OneRecord
      <3> QED  BY <3>4 DEF IsRecord
    <2> QED  BY <2>1, <2>2
  <1>4. \A j, k \in Indices : IsRecord(j)' /\ IsRecord(k)' => j = k
    BY <1>1, <1>3
  <1>5. ASSUME NEW j \in Indices, IsRecord(j)'
        PROVE  /\ call' \in Change
               /\ journal'[j].op = "add" /\ journal'[j].file = call'.new
               /\ Edge(journal[j].cell, call.new)' /\ journal'[j].cell[1] <= len'
    <2>1. /\ call \in Change
          /\ journal[j].op = "add" /\ journal[j].file = call.new
          /\ Edge(journal[j].cell, call.new) /\ journal[j].cell[1] <= len
          /\ journal'[j] = journal[j]
      BY <1>1, <1>3, <1>5
    <2>2. Edge(journal[j].cell, call.new)'
      BY <1>1, <2>1, SlotsStay DEF Edge, Before
    <2> QED  BY <1>1, <2>1, <2>2
  <1>6. Growing'
    BY <1>1, <1>2, <1>4, <1>5
  <1> QED  BY <1>1, <1>2, <1>6 DEF Implements

LEMMA AddMounted ==
  ASSUME AddInv, AddInv => JournalInv', Adding, OneFault, Mounted
  PROVE  Growing' /\ Implements
  <1> USE DEF AddInv, Growing
  <1>1. /\ UNCHANGED <<slots, len, journal, world>> /\ pc = "restore" /\ pc' = "idle"
        /\ call' = NoCall /\ call \in Calls
    BY DEF Mounted, disk, age, JournalInv, Typed, TypeOK
  <1>2. Prefix' /\ NoneBeyond' /\ Listing' = Listing
    BY <1>1, SlotsStay
  <1>3. \A j \in Indices : ~IsRecord(j)'
    <2>1. "crash" \in world.faults /\ ~Failing
      BY <1>1 DEF OneFault, Adding, JournalInv, Typed, TypeOK, Failing
    <2>2. ~Failing'
      BY <1>1, <2>1 DEF Failing
    <2> QED  BY <1>1, <2>2 DEF JournalInv, Settled, IsRecord
  <1>4. Growing'
    BY <1>1, <1>2, <1>3
  <1>5. CASE call = NoCall
    BY <1>1, <1>2, <1>4, <1>5 DEF Implements
  <1>6. CASE call # NoCall
    <2>1. DM!Fail
      BY <1>1, <1>2, <1>6 DEF DM!Fail
    <2> QED  BY <1>4, <2>1 DEF Implements, DM!Next
  <1> QED  BY <1>5, <1>6

LEMMA AddStep ==
  ASSUME OneFault, AddInv, [Next]_vars
  PROVE  AddInv' /\ (Adding => Implements)
  <1>1. JournalInv' /\ (AddInv => JournalInv')
    BY JournalStep DEF AddInv
  <1>2. Adding' => Adding
    BY DEF Next, Call, Restore, Add, Place, Grow, NoRoom, Delete, Edit, Record, RecordFull, Erase,
           Write, WriteError, Solve, Crash, Replay, Clear, Skip, Mounted, vars, age, Adding
  <1>3. ASSUME Adding
        PROVE  Growing' /\ Implements
    <2>1. ~Delete /\ ~Edit
      BY <1>3 DEF Adding, Delete, Edit
    <2>2. ~Erase
      BY <1>3 DEF Erase, AddInv, Growing, JournalInv, Typed, InCall, Change, NoCall
    <2>3. CASE UNCHANGED vars
      <3>1. UNCHANGED <<slots, len, journal, pc, call, at, image, sector, world>>
        BY <2>3 DEF vars, disk, run, age
      <3>2. Prefix' /\ NoneBeyond' /\ Listing' = Listing /\ Growing
        BY <1>3, <3>1, SlotsStay DEF AddInv, Growing
      <3>3. Growing'
        BY <3>1, <3>2 DEF Growing, Edge, At, Before, ImageAdds, IsRecord
      <3> QED  BY <3>1, <3>2, <3>3 DEF Implements
    <2> QED
      BY <1>1, <1>3, <2>1, <2>2, <2>3, AddAdd, AddPlace, AddGrow, AddRecord, AddWrite, AddEnd,
         AddReplay, AddQuiet, AddMounted DEF Next, Call, Restore
  <1> QED  BY <1>1, <1>2, <1>3 DEF AddInv

LEMMA AddInit ==
  ASSUME NoOldEntries, Init
  PROVE  AddInv /\ DM!Init
  <1>1. AddInv
    BY JournalInit, GrowingInit DEF AddInv
  <1>2. Prefix /\ NoneBeyond /\ len \in 1 .. NClusters
    BY GrowingInit, TypesInit DEF Growing, Typed, TypeOK
  <1>3. Listing = {}
    BY <1>2, EmptyInit, ListingIs
  <1> QED  BY <1>1, <1>3 DEF DM!Init, Init

(* On a volume where files are only added, with power losses or failing    *)
(* writes, the calls of put_content and the mounts that replay them        *)
(* implement DirMap: at every step a listing shows the files of before the *)
(* call, or those and the new one, and no other file comes, goes or moves. *)
THEOREM AdditionsRefine ==
  ASSUME NoOldEntries, OneFault
  PROVE  Spec => Refines
  <1>1. Init => AddInv /\ DM!Init
    BY AddInit
  <1>2. AddInv /\ [Next]_vars => AddInv' /\ [Adding => Implements]_vars
    BY AddStep
  <1>3. [Adding => Implements]_vars => [Adding => DM!Next \/ UNCHANGED <<Listing, call>>]_vars
    BY DEF Implements
  <1> QED  BY <1>1, <1>2, <1>3, PTL DEF Spec, Refines

(* "Return 1 if entry has been written" (entry.h): there, when entry_add   *)
(* has only its journal record left to clear, a search finds the file.     *)
THEOREM AddedIsListed ==
  ASSUME NoOldEntries, OneFault
  PROVE  Spec => [](Adding /\ pc = "solve" => call.new \in Listing)
  <1>1. ASSUME AddInv, Adding, pc = "solve"
        PROVE  call.new \in Listing
    <2>1. call.new \in File /\ at \in Cells /\ len \in 1 .. NClusters
      BY <1>1 DEF AddInv, JournalInv, Typed, TypeOK, InCall, Change
    <2>2. At(at) = call.new /\ Prefix /\ NoneBeyond
      BY <1>1 DEF AddInv, Growing
    <2> QED  BY <2>1, <2>2, ListingIs
  <1>2. Init => AddInv
    BY AddInit
  <1>3. AddInv /\ [Next]_vars => AddInv'
    BY AddStep
  <1> QED  BY <1>1, <1>2, <1>3, PTL DEF Spec
=============================================================================
