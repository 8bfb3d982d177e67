---------------------------- MODULE VolumeProofs ----------------------------
(***************************************************************************)
(* A volume from its formatting to its mounts.                             *)
(*                                                                         *)
(* The format: when the size of a FAT settles, it is right.                *)
(* _calculate_fat_size guesses, and stops when a guess repeats.  That the  *)
(* guess is then large enough rests on the guess being computed from the   *)
(* very size it has itself (Settled), not on where the loop came from.     *)
(*                                                                         *)
(* The mount: a copy of the boot sector is as far from what was formatted, *)
(* or from a blank one, as it was hit, and one of its two words is within  *)
(* reach of the Hamming code while it was hit no more than three times.    *)
(*                                                                         *)
(* The error ring: the vote over its copies is a count of each word, every *)
(* pending entry shows its word in all copies but one at most, and so      *)
(* errors are taken in the order in which they were put.                   *)
(***************************************************************************)
EXTENDS Layout, Mount, FiniteSetTheorems, SequenceTheorems, WellFoundedInduction, TLAPS

\* A size that the loop left is the size of the table it makes room for.
Settled ==
  phase # "size" =>
    fatSize = (TotalClusters * 4 + BytesPerSector - 1) \div BytesPerSector

LayoutInv ==
  /\ fmt \in Formats /\ fatSize \in Int /\ Settled
  /\ phase = "mounted" =>
       /\ fmt.spc < 256 => /\ fs_data.sectors_per_cluster = fmt.spc
                           /\ fs_data.total_clusters = TotalClusters
       /\ fs_data.first_data_sector = DataStart

\* A byte holds what is less than 256, and what it holds is.
LEMMA Bytewide ==
  ASSUME NEW n \in Nat
  PROVE  Byte(n) \in 0 .. 255 /\ (n < 256 => Byte(n) = n)
  BY DEF Byte

\* Rounded up, a quotient times its divisor does not fall short.
LEMMA RoundedUp ==
  ASSUME NEW n \in Int, NEW f \in Int, f = (n * 4 + BytesPerSector - 1) \div BytesPerSector
  PROVE  n * 4 <= f * BytesPerSector
  BY DEF BytesPerSector

LEMMA Quotient ==
  ASSUME NEW a \in Int, NEW b \in Nat \ {0}
  PROVE  a \div b \in Int /\ b * (a \div b) <= a
  OBVIOUS

LEMMA Numbers ==
  ASSUME fmt \in Formats, fatSize \in Int
  PROVE  /\ TotalSectors \in Int /\ DataStart \in Int /\ TotalClusters \in Int
         /\ fmt.spc \in Nat \ {0}
         /\ TotalClusters = (TotalSectors - DataStart) \div fmt.spc
  <1>1. fmt.size \in Int /\ fmt.spc \in Nat \ {0} /\ fmt.fc \in Int
    BY FormatAssumption
  <1>2. TotalSectors \in Int /\ fmt.fc * fatSize \in Int
    BY <1>1 DEF TotalSectors
  <1>3. DataSectors - fmt.fc * fatSize = TotalSectors - DataStart
    BY <1>2 DEF DataSectors, DataStart, Reserved
  <1>4. DataStart \in Int
    BY <1>2 DEF DataStart, Reserved
  <1> QED  BY <1>1, <1>2, <1>3, <1>4, Quotient DEF TotalClusters

\* Every step keeps a size that is settled and the geometry taken from it.
LEMMA LayoutStep ==
  LayoutInv /\ [Next]_vars => LayoutInv'
  <1> SUFFICES ASSUME LayoutInv, [Next]_vars  PROVE LayoutInv'
    OBVIOUS
  <1>1. CASE Round
    <2>1. fatSize' \in Int /\ fmt' = fmt
      BY <1>1, Numbers, Quotient DEF Round, LayoutInv, BytesPerSector
    <2>2. Settled'
      <3> SUFFICES ASSUME phase' # "size"
                   PROVE  fatSize' = (TotalClusters' * 4 + BytesPerSector - 1) \div BytesPerSector
        BY DEF Settled
      <3>1. fatSize' = fatSize
        BY <1>1 DEF Round
      <3>2. TotalClusters' = TotalClusters
        BY <2>1, <3>1 DEF TotalClusters, DataSectors, TotalSectors
      <3> QED  BY <1>1, <3>2 DEF Round
    <2> QED  BY <1>1, <2>1, <2>2 DEF Round, LayoutInv
  <1>2. ASSUME UNCHANGED <<fmt, sizeVars, fs_data>>, phase # "size", phase' \notin {"size", "mounted"}
        PROVE  LayoutInv'
    <2>1. TotalClusters' = TotalClusters
      BY <1>2 DEF TotalClusters, DataSectors, TotalSectors, sizeVars
    <2> QED  BY <1>2, <2>1 DEF LayoutInv, Settled, sizeVars
  <1>3. CASE InitLibrary
    <2>1. TotalClusters' = TotalClusters /\ DataStart' = DataStart
      BY <1>3 DEF InitLibrary, TotalClusters, DataStart, DataSectors, TotalSectors, sizeVars
    <2>2. fs_data'.first_data_sector = DataStart
      BY <1>3 DEF InitLibrary, DataStart
    <2>3. ASSUME fmt.spc < 256
          PROVE  fs_data'.sectors_per_cluster = fmt.spc /\ fs_data'.total_clusters = TotalClusters
      <3>1. Byte(fmt.spc) = fmt.spc /\ fmt.spc # 0
        BY <2>3, Bytewide, Numbers DEF LayoutInv
      <3>2. fs_data'.total_clusters = (TotalSectors - DataStart) \div fmt.spc
        BY <1>3, <3>1 DEF InitLibrary, DataStart
      <3> QED  BY <1>3, <3>1, <3>2, Numbers DEF InitLibrary, LayoutInv
    <2> QED
      BY <1>3, <2>1, <2>2, <2>3 DEF InitLibrary, LayoutInv, Settled, sizeVars
  <1>4. CASE UNCHANGED vars
    BY <1>4 DEF vars, sizeVars, LayoutInv, Settled, TotalClusters, DataStart, DataSectors,
                TotalSectors
  <1>5. CASE WriteBoot
    BY <1>2, <1>5 DEF WriteBoot, Turn
  <1>6. CASE WriteJournals
    BY <1>2, <1>6 DEF WriteJournals, Turn
  <1>7. CASE WriteErrors
    BY <1>2, <1>7 DEF WriteErrors, Turn
  <1>8. CASE WriteFats
    BY <1>2, <1>8 DEF WriteFats, Turn
  <1>9. CASE InitializeFat \/ WriteRoot
    BY <1>2, <1>9 DEF InitializeFat, WriteRoot
  <1>10. CASE NextFile \/ CopyCluster \/ CloseRoot
    BY <1>2, <1>10 DEF NextFile, CopyCluster, CloseRoot
  <1> QED
    BY <1>1, <1>3, <1>4, <1>5, <1>6, <1>7, <1>8, <1>9, <1>10 DEF Next

\* A settled size has an entry for each cluster.
LEMMA LayoutFits ==
  LayoutInv => (phase = "mounted" /\ fmt.spc < 256 => ClustersFit)
  <1> SUFFICES ASSUME LayoutInv, phase = "mounted", fmt.spc < 256  PROVE ClustersFit
    OBVIOUS
  <1>1. /\ fs_data.total_clusters = TotalClusters /\ fs_data.first_data_sector = DataStart
        /\ fs_data.sectors_per_cluster = fmt.spc
    BY DEF LayoutInv
  <1>2. TotalClusters * 4 <= fatSize * BytesPerSector
    BY Numbers, RoundedUp DEF LayoutInv, Settled
  <1>3. fmt.spc * TotalClusters <= TotalSectors - DataStart
    <2>1. TotalSectors - DataStart \in Int /\ fmt.spc \in Nat \ {0}
      BY Numbers DEF LayoutInv
    <2>2. TotalClusters = (TotalSectors - DataStart) \div fmt.spc
      BY Numbers DEF LayoutInv
    <2> QED  BY <2>1, <2>2, Quotient
  <1>4. (TotalClusters - Root) * fmt.spc + DataStart <= TotalSectors
    BY <1>3, Numbers DEF LayoutInv, Root
  <1> QED  BY <1>1, <1>2, <1>4 DEF ClustersFit, LibCluster

(* In every format whose size loop ends and whose sectors per cluster fit  *)
(* the byte of the boot sector, with any number of tables, copies and      *)
(* files, each cluster the library may use has an entry in the table that  *)
(* was written and lies on the volume.                                     *)
THEOREM ClustersAlwaysFit ==
  Spec => [](phase = "mounted" /\ fmt.spc < 256 => ClustersFit)
  <1>1. Init => LayoutInv
    BY DEF Init, LayoutInv, Settled
  <1> QED  BY <1>1, LayoutStep, LayoutFits, PTL DEF Spec

-----------------------------------------------------------------------------
(* The formatter computes with unsigned words, so nothing may ever be      *)
(* negative.  A guess is at most the table of a volume without tables      *)
(* (Small); 64 of those take half of the volume and 64 sectors, so that    *)
(* the clusters behind them are never fewer than none (Room).              *)

Small == fatSize * BytesPerSector <= DataSectors * 4 + BytesPerSector - 1

\* The clusters a file has are taken from the volume and have been written.
Copied == \A c \in chain \cup UNION files : Cluster(c) \in written /\ c < TotalClusters

\* No file is begun before the sizes are known, and none is put on the root.
Started == lastAlloc >= Root /\ (phase = "size" => chain = {} /\ files = {})

FitInv == TypeOK /\ Small /\ Copied /\ Started /\ LayoutInv

\* A hash of a number is a number, and so is each scattered place.
LEMMA Places ==
  ASSUME fmt \in Formats, NEW n \in Nat
  PROVE  Boot(n) \in Nat /\ Journal(n) \in Nat /\ Errors(n) \in Nat /\ FatSector(n) \in Nat
  <1>1. fmt.size \in 1 .. 1024
    BY FormatAssumption
  <1>2. TotalSectors \in Int /\ TotalSectors >= 2048
    BY ONLY <1>1, SMTT(30) DEF TotalSectors
  <1>3. \A h \in Int : \A m \in {2, 32} : h % (TotalSectors - m) \in Nat
    BY <1>2
  <1>4. Hash(n + 1, 40503, 31153, 11) \in Int
    BY DEF Hash
  <1>5. Hash(n + 35, 198, 7101, 3) \in Int
    BY DEF Hash
  <1>6. Hash(n + 23, 167, 42030, 9) \in Int
    BY DEF Hash
  <1>7. Hash(n + 7, 5196, 48265, 13) \in Int
    BY DEF Hash
  <1>8. Boot(n) \in Nat
    BY <1>3, <1>4 DEF Boot
  <1>9. Journal(n) \in Nat
    BY <1>3, <1>5 DEF Journal
  <1>10. Errors(n) \in Nat
    BY <1>3, <1>6 DEF Errors
  <1>11. FatSector(n) \in Nat
    BY <1>3, <1>7 DEF FatSector, Reserved
  <1> QED  BY <1>8, <1>9, <1>10, <1>11

\* Tables of a small size leave room for clusters, or for none.
LEMMA Room ==
  ASSUME fmt \in Formats, fatSize \in Nat, Small
  PROVE  /\ TotalSectors \in Nat /\ DataSectors \in Nat /\ DataStart \in Nat
         /\ TotalClusters \in 0 .. DataSectors /\ TotalSectors - DataStart \in Nat
  <1>1. fmt.size \in 1 .. 1024 /\ fmt.spc \in Nat \ {0} /\ fmt.fc \in 1 .. 64
    BY FormatAssumption
  <1>2. TotalSectors \in Nat /\ DataSectors \in Nat /\ DataSectors >= 2016
    <2>1. \A k \in 1 .. 1024 : k * 2048 \in Nat /\ k * 2048 >= 2048
      OBVIOUS
    <2>2. TotalSectors \in Nat /\ TotalSectors >= 2048
      BY <1>1, <2>1, SMTT(30) DEF TotalSectors
    <2> QED  BY <2>2 DEF DataSectors, Reserved
  <1>3. fmt.fc * fatSize \in Nat /\ fmt.fc * fatSize <= 64 * fatSize
    BY <1>1
  <1>4. 64 * fatSize <= DataSectors
    BY <1>2 DEF Small, BytesPerSector
  <1>5. DataSectors - fmt.fc * fatSize \in 0 .. DataSectors
    BY <1>2, <1>3, <1>4
  <1>6. \A a \in Nat : a \div fmt.spc \in 0 .. a
    BY <1>1
  <1>7. TotalClusters \in 0 .. DataSectors
    BY <1>2, <1>5, <1>6 DEF TotalClusters
  <1>8. DataStart \in Nat
    BY <1>3 DEF DataStart, Reserved
  <1>9. TotalSectors - DataStart = DataSectors - fmt.fc * fatSize
    BY <1>2, <1>3 DEF DataStart, DataSectors, Reserved
  <1> QED  BY <1>2, <1>5, <1>7, <1>8, <1>9

\* A cluster of the data area is a region of the image.
LEMMA ClusterPlaced ==
  ASSUME fmt \in Formats, fatSize \in Nat, Small, NEW c \in Nat, c >= Root
  PROVE  Cluster(c).kind = "cluster" /\ Cluster(c).n \in Nat
           /\ Cluster(c).from \in Nat /\ Cluster(c).size \in Nat
  <1>1. DataStart + (c - Root) * SectorsPerCluster \in Nat
    BY Room DEF Root, SectorsPerCluster
  <1> QED  BY <1>1 DEF Cluster, Region, SectorsPerCluster

\* The geometry is the same as long as the format and the size are.
LEMMA SameGeometry ==
  ASSUME fmt' = fmt, fatSize' = fatSize
  PROVE  /\ TotalClusters' = TotalClusters /\ DataSectors' = DataSectors
         /\ DataStart' = DataStart
         /\ \A c : Cluster(c)' = Cluster(c)
  BY DEF TotalClusters, DataSectors, TotalSectors, DataStart, Cluster, Region

\* One turn of a writer's loop adds a region or moves on.
LEMMA TurnStep ==
  ASSUME FitInv, NEW p, NEW n, NEW region, NEW then, NEW broken,
         Turn(p, n, region, then, broken), p # "size",
         {then, broken} \subseteq {"journals", "errors", "reserve", "done", "failed"},
         region.kind \in {"boot", "journal", "errors", "fat"},
         region.n \in Nat /\ region.from \in Nat /\ region.size \in Nat
  PROVE  TypeOK' /\ Small' /\ Copied' /\ Started'
  <1>1. fmt' = fmt /\ fatSize' = fatSize /\ chain' = chain /\ files' = files
    BY DEF Turn, sizeVars, fileVars
  <1>2. written' \in {written, written \cup {region}}
    BY DEF Turn
  <1>3. TypeOK'
    <2>1. i' \in Nat /\ phase' \in {phase, then, broken}
      BY DEF Turn, FitInv, TypeOK
    <2>2. \A r \in written' : r.kind \in {"boot", "journal", "errors", "fat", "cluster"}
                              /\ r.n \in Nat /\ r.from \in Nat /\ r.size \in Nat
      BY <1>2 DEF FitInv, TypeOK
    <2> QED  BY <2>1, <2>2 DEF Turn, FitInv, TypeOK, sizeVars, fileVars
  <1>4. Small'
    BY <1>1, SameGeometry DEF FitInv, Small
  <1>5. Copied'
    <2> SUFFICES ASSUME NEW c \in chain \cup UNION files
                 PROVE  Cluster(c)' \in written' /\ c < TotalClusters'
      BY <1>1 DEF Copied
    <2>1. Cluster(c) \in written /\ c < TotalClusters
      BY DEF FitInv, Copied
    <2>2. Cluster(c)' = Cluster(c) /\ TotalClusters' = TotalClusters
      BY <1>1, SameGeometry
    <2> QED  BY <1>2, <2>1, <2>2
  <1>6. Started'
    BY DEF Turn, FitInv, Started, fileVars
  <1> QED  BY <1>3, <1>4, <1>5, <1>6

\* A copied file takes a cluster that is FREE, or ends.
LEMMA CopyStep ==
  ASSUME FitInv, CopyCluster
  PROVE  TypeOK' /\ Small' /\ Copied' /\ Started'
  <1>1. fmt' = fmt /\ fatSize' = fatSize
    BY DEF CopyCluster, sizeVars
  <1>2. Small'
    BY <1>1, SameGeometry DEF FitInv, Small
  <1>3. ASSUME left' = 0 /\ UNCHANGED <<written, chain, files>>
             /\ table' \subseteq Nat /\ lastAlloc' \in Nat
        PROVE  TypeOK' /\ Copied'
    <2>1. TypeOK'
      BY <1>3 DEF CopyCluster, FitInv, TypeOK, sizeVars
    <2>2. Copied'
      BY <1>1, <1>3, SameGeometry DEF FitInv, Copied
    <2> QED  BY <2>1, <2>2
  <1>4. ASSUME NEW c \in FirstFree,
               table' = table \cup {c}, lastAlloc' = c + 1,
               written' = written \cup {Cluster(c)},
               left' = left - 1, chain' = chain \cup {c},
               files' = IF left = 1 THEN files \cup {chain'} ELSE files
        PROVE  TypeOK' /\ Copied'
    <2>1. c \in Nat /\ c < TotalClusters /\ fmt \in Formats /\ fatSize \in Nat /\ Small
      BY Room DEF FirstFree, FitInv, TypeOK
    <2>2. left' \in Nat
      BY <1>4 DEF CopyCluster, FitInv, TypeOK
    <2>3. chain' \subseteq Nat /\ files' \subseteq SUBSET Nat /\ table' \subseteq Nat
      BY <1>4, <2>1 DEF FitInv, TypeOK
    <2>4. c >= Root
      BY <2>1 DEF FirstFree, FitInv, TypeOK, Started, Root
    <2>5. \A r \in written' : r.kind \in {"boot", "journal", "errors", "fat", "cluster"}
                              /\ r.n \in Nat /\ r.from \in Nat /\ r.size \in Nat
      BY <1>4, <2>1, <2>4, ClusterPlaced DEF FitInv, TypeOK
    <2>6. TypeOK'
      BY <1>4, <2>1, <2>2, <2>3, <2>5 DEF CopyCluster, FitInv, TypeOK, sizeVars
    <2>7. Copied'
      <3> SUFFICES ASSUME NEW d \in chain' \cup UNION files'
                   PROVE  Cluster(d)' \in written' /\ d < TotalClusters'
        BY DEF Copied
      <3>1. d \in chain \cup {c} \cup UNION files
        <4>1. \A f \in files' : f \in files \/ f = chain'
          BY <1>4
        <4>2. chain' = chain \cup {c}
          BY <1>4
        <4>3. CASE d \in chain'
          BY <4>2, <4>3
        <4>4. CASE d \in UNION files'
          <5>1. PICK f \in files' : d \in f
            BY <4>4
          <5>2. CASE f \in files
            BY <5>1, <5>2
          <5>3. CASE f = chain'
            BY <4>2, <5>1, <5>3
          <5> QED  BY <4>1, <5>2, <5>3
        <4> QED  BY <4>3, <4>4
      <3>2. Cluster(d) \in written' /\ d < TotalClusters
        BY <1>4, <2>1, <3>1 DEF FitInv, Copied
      <3> QED  BY <1>1, <3>2, SameGeometry
    <2> QED  BY <2>6, <2>7
  <1>5. ASSUME NEW c \in FirstFree, table' = table \cup {c}, lastAlloc' = c + 1
        PROVE  table' \subseteq Nat /\ lastAlloc' \in Nat
    BY <1>5, Room DEF FirstFree, FitInv, TypeOK
  <1>6. Started'
    BY Room DEF CopyCluster, FirstFree, FitInv, TypeOK, Started, Root
  <1> QED  BY <1>2, <1>6, <1>3, <1>4, <1>5 DEF CopyCluster, FitInv, TypeOK

\* Every step keeps the types, small tables and written files.
LEMMA FitStep ==
  FitInv /\ [Next]_vars => TypeOK' /\ Small' /\ Copied' /\ Started'
  <1> SUFFICES ASSUME FitInv, [Next]_vars  PROVE TypeOK' /\ Small' /\ Copied' /\ Started'
    OBVIOUS
  <1>0. /\ fmt \in Formats /\ fatSize \in Nat /\ i \in Nat /\ Small
        /\ fmt.spc \in Nat \ {0} /\ fmt.fc \in 1 .. 64 /\ fmt.b_bsbc \in Nat
    BY FormatAssumption DEF FitInv, TypeOK
  <1>1. CASE Round
    <2>1. TotalClusters \in 0 .. DataSectors /\ DataSectors \in Nat
      BY <1>0, Room
    <2>2. fatSize' \in Nat /\ fatSize' * BytesPerSector <= DataSectors * 4 + BytesPerSector - 1
      BY <1>1, <2>1 DEF Round, BytesPerSector
    <2>3. DataSectors' = DataSectors
      BY <1>1 DEF Round, DataSectors, TotalSectors
    <2>4. TypeOK'
      BY <1>0, <1>1, <2>2 DEF Round, FitInv, TypeOK, fileVars
    <2>5. chain = {} /\ files = {}
      BY <1>1 DEF Round, FitInv, Started
    <2>6. Copied'
      BY <1>1, <2>5 DEF Round, Copied, fileVars
    <2>7. Started'
      BY <1>1, <2>5 DEF Round, FitInv, Started, fileVars
    <2> QED  BY <2>2, <2>3, <2>4, <2>6, <2>7 DEF Small
  <1>2. CASE WriteBoot
    <2>1. Boot(i) \in Nat
      BY <1>0, Places
    <2> QED
      BY <1>0, <1>2, <2>1, TurnStep DEF WriteBoot, Region
  <1>3. CASE WriteJournals
    <2>1. Journal(i) \in Nat
      BY <1>0, Places
    <2> QED
      BY <1>0, <1>3, <2>1, TurnStep DEF WriteJournals, Region
  <1>4. CASE WriteErrors
    <2>1. Errors(i) \in Nat
      BY <1>0, Places
    <2> QED
      BY <1>0, <1>4, <2>1, TurnStep DEF WriteErrors, Region
  <1>5. CASE WriteFats
    <2>1. FatSector(i) \in Nat /\ 2 * fatSize \in Nat
      BY <1>0, Places
    <2> QED
      BY <1>0, <1>5, <2>1, TurnStep DEF WriteFats, Region
  <1>6. ASSUME UNCHANGED <<fmt, sizeVars, i, lastAlloc, files, fs_data>>, chain' \in {chain, {}},
               written' \in {written, written \cup {Cluster(Root)}}, table' \subseteq Nat,
               phase' \in {"root", "files", "fats", "failed"}, left' \in Nat,
               todo' \in 0 .. MaxFiles
        PROVE  TypeOK' /\ Small' /\ Copied' /\ Started'
    <2>1. \A r \in written' : r.kind \in {"boot", "journal", "errors", "fat", "cluster"}
                              /\ r.n \in Nat /\ r.from \in Nat /\ r.size \in Nat
      BY <1>0, <1>6, ClusterPlaced DEF FitInv, TypeOK, Root
    <2>2. TypeOK'
      BY <1>6, <2>1 DEF FitInv, TypeOK, sizeVars
    <2>3. Small'
      BY <1>6, SameGeometry DEF FitInv, Small, sizeVars
    <2>4. Copied'
      BY <1>6, SameGeometry DEF FitInv, Copied, sizeVars
    <2>5. Started'
      BY <1>6 DEF FitInv, Started
    <2> QED  BY <2>2, <2>3, <2>4, <2>5
  <1>7. CASE InitializeFat
    <2>1. \A s \in Nat : s \div fmt.spc \in Nat
      BY <1>0
    <2>2. \A s \in Nat : ClusterOf(s) \subseteq Nat
      BY <2>1 DEF ClusterOf
    <2>3. \A n \in Nat : FatClusters(n) \subseteq Nat
      <3> SUFFICES ASSUME NEW n \in Nat  PROVE FatClusters(n) \subseteq Nat
        OBVIOUS
      <3>1. FatSector(n) \div fmt.spc \in Nat
        BY <1>0, <2>1, Places
      <3>2. \A c \in Nat : \A e : c .. e \subseteq Nat
        OBVIOUS
      <3> QED  BY <3>1, <3>2 DEF FatClusters
    <2>4. \A n \in Nat : ClusterOf(Boot(n)) \subseteq Nat /\ ClusterOf(Journal(n)) \subseteq Nat
                         /\ ClusterOf(Errors(n)) \subseteq Nat
      BY <1>0, <2>2, Places
    <2>5. \A m : 0 .. m \subseteq Nat
      OBVIOUS
    <2>6. {0, 1, Root} \subseteq Nat
      BY DEF Root
    <2>7. table' \subseteq Nat
      <3> SUFFICES ASSUME NEW c \in table'  PROVE c \in Nat
        OBVIOUS
      <3> DEFINE B == UNION {ClusterOf(Boot(n)) : n \in 0 .. fmt.bsbc - 1}
                 T == UNION {FatClusters(n) : n \in 0 .. fmt.fc - 1}
                 J == UNION {ClusterOf(Journal(n)) : n \in 0 .. fmt.jc - 1}
                 E == UNION {ClusterOf(Errors(n)) : n \in 0 .. fmt.ec - 1}
      <3>1. \/ c \in {0, 1, Root}
            \/ \E n \in Nat : c \in ClusterOf(Boot(n)) \cup FatClusters(n)
                                  \cup ClusterOf(Journal(n)) \cup ClusterOf(Errors(n))
        <4>1. table' = {0, 1, Root} \cup B \cup T \cup J \cup E
          BY <1>7 DEF InitializeFat
        <4>2. c \in B => \E n \in 0 .. fmt.bsbc - 1 : c \in ClusterOf(Boot(n))
          OBVIOUS
        <4>3. c \in T => \E n \in 0 .. fmt.fc - 1 : c \in FatClusters(n)
          OBVIOUS
        <4>4. c \in J => \E n \in 0 .. fmt.jc - 1 : c \in ClusterOf(Journal(n))
          OBVIOUS
        <4>5. c \in E => \E n \in 0 .. fmt.ec - 1 : c \in ClusterOf(Errors(n))
          OBVIOUS
        <4>6. c \in {0, 1, Root} \/ c \in B \/ c \in T \/ c \in J \/ c \in E
          <5> HIDE DEF B, T, J, E
          <5> QED  BY <4>1
        <4> QED  BY <2>5, <4>2, <4>3, <4>4, <4>5, <4>6, Zenon
      <3> QED  BY <2>3, <2>4, <2>6, <3>1
    <2> QED
      BY <1>6, <1>7, <2>7 DEF InitializeFat, FitInv, TypeOK, sizeVars, fileVars
  <1>8. CASE WriteRoot
    BY <1>6, <1>8 DEF WriteRoot, FitInv, TypeOK, fileVars
  <1>9. CASE NextFile
    <2>1. left' \in Nat
      BY <1>9, FormatAssumption DEF NextFile
    <2>2. todo' \in 0 .. MaxFiles
      BY <1>9, FormatAssumption DEF NextFile, FitInv, TypeOK
    <2> QED  BY <1>6, <1>9, <2>1, <2>2 DEF NextFile, FitInv, TypeOK
  <1>10. CASE CopyCluster
    BY <1>10, CopyStep
  <1>11. CASE CloseRoot
    BY <1>6, <1>11 DEF CloseRoot, FitInv, TypeOK, fileVars
  <1>12. CASE InitLibrary
    <2>1. fmt' = fmt /\ fatSize' = fatSize
      BY <1>12 DEF InitLibrary, sizeVars
    <2>2. DataStart \in Nat /\ TotalSectors - DataStart \in Nat /\ Byte(fmt.spc) \in 0 .. 255
      BY <1>0, Room, Bytewide
    <2>3. fs_data' \in [sectors_per_cluster : 0 .. 255, total_clusters : Nat,
                        first_data_sector : Nat]
      <3> DEFINE k == IF Byte(fmt.spc) = 0 THEN 1 ELSE Byte(fmt.spc)
      <3>1. k \in Nat \ {0}
        BY <2>2
      <3>2. \A n \in Nat : n \div k \in Nat
        BY <3>1
      <3>3. fs_data' = [sectors_per_cluster |-> Byte(fmt.spc),
                        total_clusters |-> (TotalSectors - DataStart) \div k,
                        first_data_sector |-> DataStart]
        BY <1>12 DEF InitLibrary, DataStart
      <3> QED  BY <2>2, <3>2, <3>3
    <2>4. TypeOK'
      BY <1>12, <2>3 DEF InitLibrary, FitInv, TypeOK, sizeVars, fileVars
    <2>5. Small' /\ Copied'
      BY <1>12, <2>1, SameGeometry DEF InitLibrary, FitInv, Small, Copied, fileVars
    <2>6. Started'
      BY <1>12 DEF InitLibrary, FitInv, Started, fileVars
    <2> QED  BY <2>4, <2>5, <2>6
  <1>13. CASE UNCHANGED vars
    <2>1. TypeOK'
      BY <1>13 DEF vars, sizeVars, fileVars, FitInv, TypeOK
    <2>2. Small' /\ Copied'
      BY <1>13, SameGeometry DEF vars, sizeVars, fileVars, FitInv, Small, Copied
    <2>3. Started'
      BY <1>13 DEF vars, fileVars, FitInv, Started
    <2> QED  BY <2>1, <2>2, <2>3
  <1> QED
    BY <1>1, <1>2, <1>3, <1>4, <1>5, <1>7, <1>8, <1>9, <1>10, <1>11, <1>12, <1>13 DEF Next

(* Whatever the format, no number in the formatter leaves its type, and    *)
(* the geometry that NIFAT32_init computes is that of the image: its       *)
(* clusters have entries and lie on the volume, if the byte of the boot    *)
(* sector holds their size; the root directory is where it was put, and so *)
(* is each cluster of each file, if clusters have the size that the        *)
(* formatter gives them.                                                   *)
THEOREM GeometryIsThatOfImage == Spec => []GeometryFits
  <1>1. Init => FitInv
    <2> SUFFICES ASSUME Init  PROVE FitInv
      OBVIOUS
    <2>1. fmt \in Formats
      BY DEF Init
    <2>2. TypeOK
      BY FormatAssumption DEF Init, TypeOK
    <2>3. Small
      <3>1. fmt.size \in 1 .. 1024
        BY <2>1, FormatAssumption
      <3> QED  BY <3>1 DEF Init, Small, BytesPerSector, DataSectors, TotalSectors, Reserved
    <2>4. Copied
      BY DEF Init, Copied
    <2>5. LayoutInv
      BY DEF Init, LayoutInv, Settled
    <2>6. Started
      BY DEF Init, Started, Root
    <2> QED  BY <2>2, <2>3, <2>4, <2>5, <2>6 DEF FitInv
  <1>2. FitInv /\ [Next]_vars => FitInv'
    BY LayoutStep, FitStep DEF FitInv
  <1>3. FitInv => GeometryFits
    <2> SUFFICES ASSUME FitInv, phase = "mounted"
                 PROVE  /\ LibCluster(Root) = Cluster(Root).from
                        /\ fmt.spc = SectorsPerCluster =>
                             \A f \in files : \A c \in f :
                               /\ Cluster(c) \in written /\ c < fs_data.total_clusters
                               /\ LibCluster(c) = Cluster(c).from
      BY LayoutFits DEF GeometryFits, FitInv
    <2>1. fs_data.first_data_sector = DataStart
      BY DEF FitInv, LayoutInv
    <2>2. fmt \in Formats /\ fatSize \in Nat /\ Small
      BY DEF FitInv, TypeOK
    <2>3. DataStart \in Nat /\ fs_data.sectors_per_cluster \in Nat
      BY <2>2, Room DEF FitInv, TypeOK
    <2>4. LibCluster(Root) = Cluster(Root).from
      BY <2>1, <2>3 DEF LibCluster, Cluster, Region, Root, SectorsPerCluster
    <2>5. ASSUME fmt.spc = SectorsPerCluster, NEW f \in files, NEW c \in f
          PROVE  /\ Cluster(c) \in written /\ c < fs_data.total_clusters
                 /\ LibCluster(c) = Cluster(c).from
      <3>0. fs_data.total_clusters = TotalClusters /\ fs_data.sectors_per_cluster = fmt.spc
        BY <2>5 DEF FitInv, LayoutInv, SectorsPerCluster
      <3>1. c \in UNION files
        BY <2>5
      <3>2. Cluster(c) \in written /\ c < TotalClusters
        BY <3>1 DEF FitInv, Copied
      <3>3. c \in Nat
        BY <2>5 DEF FitInv, TypeOK
      <3>4. LibCluster(c) = Cluster(c).from
        BY <2>1, <2>3, <2>5, <3>0, <3>3 DEF LibCluster, Cluster, Region, Root, SectorsPerCluster
      <3> QED  BY <3>0, <3>2, <3>4
    <2> QED  BY <2>4, <2>5
  <1> QED  BY <1>1, <1>2, <1>3, PTL DEF Spec
-----------------------------------------------------------------------------
(* Counting a bit in or out changes the parity. *)
LEMMA OddFlips ==
  ASSUME NEW S, IsFiniteSet(S), NEW b
  PROVE  IsFiniteSet(Flip(S, b)) /\ (Odd(Flip(S, b)) <=> ~Odd(S))
  <1>1. Cardinality(S) \in Nat
    BY FS_CardinalityType
  <1>2. \A n \in Nat : (n + 1) % 2 = 1 <=> ~(n % 2 = 1)
    OBVIOUS
  <1>3. CASE b \in S
    <2>1. IsFiniteSet(S \ {b}) /\ Cardinality(S \ {b}) = Cardinality(S) - 1
      BY <1>3, FS_RemoveElement
    <2>2. Cardinality(S \ {b}) \in Nat
      BY <2>1, FS_CardinalityType
    <2>3. Cardinality(S) = Cardinality(S \ {b}) + 1
      BY <1>1, <2>1, <2>2
    <2>4. Cardinality(S) % 2 = 1 <=> ~(Cardinality(S \ {b}) % 2 = 1)
      BY <1>2, <2>2, <2>3
    <2> QED  BY <1>3, <2>1, <2>4 DEF Flip, Odd
  <1>4. CASE b \notin S
    <2>1. IsFiniteSet(S \cup {b}) /\ Cardinality(S \cup {b}) = Cardinality(S) + 1
      BY <1>4, FS_AddElement
    <2>2. Cardinality(S \cup {b}) % 2 = 1 <=> ~(Cardinality(S) % 2 = 1)
      BY <1>1, <1>2, <2>1
    <2> QED  BY <1>4, <2>1, <2>2 DEF Flip, Odd
  <1> QED  BY <1>3, <1>4

LEMMA FiniteWord ==
  ASSUME NEW e \in SUBSET (0 .. 14), NEW G
  PROVE  IsFiniteSet(e \cap G)
  <1>0. 0 \in Int /\ 14 \in Int
    OBVIOUS
  <1>1. IsFiniteSet(0 .. 14)
    BY <1>0, FS_Interval, Zenon
  <1>2. e \cap G \in SUBSET (0 .. 14)
    OBVIOUS
  <1> QED  BY <1>1, <1>2, FS_Subset

(* A flipped bit counts in the checks that run over it. *)
LEMMA OddsFlip ==
  ASSUME NEW e \in SUBSET (0 .. 14), NEW b \in 0 .. 14
  PROVE  \A k \in Checks : k \in Odds(Flip(e, b)) <=> ((k \in Odds(e)) # (b \in Group[k]))
  <1> TAKE k \in Checks
  <1>1. IsFiniteSet(e \cap Group[k])
    BY FiniteWord
  <1>2. CASE b \in Group[k]
    <2>1. Flip(e, b) \cap Group[k] = Flip(e \cap Group[k], b)
      BY <1>2 DEF Flip
    <2>2. Odd(Flip(e, b) \cap Group[k]) <=> ~Odd(e \cap Group[k])
      BY <1>1, <2>1, OddFlips
    <2> QED  BY <1>2, <2>2 DEF Odds
  <1>3. CASE b \notin Group[k]
    <2>1. Flip(e, b) \cap Group[k] = e \cap Group[k]
      BY <1>3 DEF Flip
    <2> QED  BY <1>3, <2>1 DEF Odds
  <1> QED  BY <1>2, <1>3

(* Where things are in a word: each check runs over its own bit and over   *)
(* no other check's, and the data bits are apart from those of the checks. *)
LEMMA WordPlaces ==
  /\ \A j, k \in Checks : j - 1 \in Group[k] <=> j = k
  /\ \A k \in Checks : Group[k] \subseteq 0 .. 14 /\ k - 1 \in 0 .. 14
  /\ \A k \in 0 .. 10 : Place[k] \in 0 .. 14 \ {0, 1, 3, 7}
  /\ \A j, k \in 0 .. 10 : Place[j] = Place[k] => j = k
  <1>1. \A k \in Checks : Group[k] = {p \in 0 .. 14 : ((p + 1) \div k) % 2 = 1}
    BY DEF Group
  <1>2. \A j, k \in Checks : (j \div k) % 2 = 1 <=> j = k
    BY DEF Checks
  <1>3. \A k \in Checks : k \in Int /\ k - 1 \in 0 .. 14
    BY DEF Checks
  <1>4. \A j, k \in Checks : j - 1 \in Group[k] <=> j = k
    <2> TAKE j, k \in Checks
    <2>1. j - 1 \in 0 .. 14 /\ j - 1 + 1 = j
      BY <1>3
    <2>2. j - 1 \in Group[k] <=> ((j - 1 + 1) \div k) % 2 = 1
      BY <1>1, <2>1
    <2> QED  BY <1>2, <2>1, <2>2
  <1>5. \A k \in 0 .. 10 : Place[k] = IF k = 0 THEN 2 ELSE IF k <= 3 THEN k + 3 ELSE k + 4
    BY DEF Place
  <1>6. \A k \in 0 .. 10 : Place[k] \in 0 .. 14 \ {0, 1, 3, 7}
    BY <1>5
  <1>7. \A j, k \in 0 .. 10 : Place[j] = Place[k] => j = k
    BY <1>5
  <1> QED  BY <1>1, <1>3, <1>4, <1>6, <1>7

\* The checks of an encoded word come out even, and its data is in place.
LEMMA EncodedWord ==
  ASSUME NEW d \in SUBSET (0 .. 10)
  PROVE  /\ Encode(d) \subseteq 0 .. 14
         /\ Odds(Encode(d)) = {}
         /\ {k \in 0 .. 10 : Place[k] \in Encode(d)} = d
  <1> DEFINE e == {Place[k] : k \in d}
             C == {k - 1 : k \in Odds(e)}
  <1>1. Encode(d) = e \cup C /\ Odds(e) \subseteq Checks
    BY DEF Encode, Odds
  <1>2. e \subseteq 0 .. 14 \ {0, 1, 3, 7}
    BY WordPlaces
  <1>3. C \subseteq {0, 1, 3, 7}
    <2>1. \A k \in Checks : k - 1 \in {0, 1, 3, 7}
      BY DEF Checks
    <2> QED  BY <1>1, <2>1
  <1>4. ASSUME NEW k \in Checks  PROVE k \notin Odds(e \cup C)
    <2>0. k - 1 \notin e
      BY <1>2 DEF Checks
    <2>1. IsFiniteSet(e \cap Group[k])
      <3>1. e \in SUBSET (0 .. 14)
        BY <1>2
      <3> QED  BY <3>1, FiniteWord
    <2>2. CASE k \in Odds(e)
      <3>1. C \cap Group[k] = {k - 1}
        <4>1. \A j \in Odds(e) : j - 1 \in Group[k] <=> j = k
          BY <1>1, WordPlaces
        <4>2. k - 1 \in C
          BY <2>2
        <4>3. ASSUME NEW p \in C, p \in Group[k]  PROVE p = k - 1
          <5>1. PICK j \in Odds(e) : p = j - 1
            OBVIOUS
          <5> QED  BY <4>1, <4>3, <5>1
        <4>4. k - 1 \in Group[k]
          BY WordPlaces
        <4> QED  BY <4>2, <4>3, <4>4
      <3>2. (e \cup C) \cap Group[k] = Flip(e \cap Group[k], k - 1)
        BY <2>0, <3>1 DEF Flip
      <3>3. Odd(Flip(e \cap Group[k], k - 1)) <=> ~Odd(e \cap Group[k])
        BY <2>1, OddFlips
      <3> QED  BY <2>2, <3>2, <3>3 DEF Odds
    <2>3. CASE k \notin Odds(e)
      <3>1. C \cap Group[k] = {}
        BY <1>1, <2>3, WordPlaces
      <3>2. (e \cup C) \cap Group[k] = e \cap Group[k]
        BY <3>1
      <3> QED  BY <2>3, <3>2 DEF Odds
    <2> QED  BY <2>2, <2>3
  <1>5. Odds(e \cup C) = {}
    BY <1>4 DEF Odds
  <1>6. \A k \in 0 .. 10 : Place[k] \in e \cup C <=> k \in d
    <2> TAKE k \in 0 .. 10
    <2>1. Place[k] \notin C
      BY <1>3, WordPlaces
    <2>2. Place[k] \in e <=> k \in d
      BY WordPlaces
    <2> QED  BY <2>1, <2>2
  <1>7. e \cup C \subseteq 0 .. 14
    BY <1>2, <1>3
  <1> HIDE DEF e, C
  <1> QED  BY <1>1, <1>5, <1>6, <1>7

\* The checks that run over a bit spell its number.
LEMMA Spelled ==
  ASSUME NEW e, NEW b \in 0 .. 14, \A k \in Checks : k \in Odds(e) <=> b \in Group[k]
  PROVE  ErrorPos(e) = b + 1
  <1>1. \A k \in {1, 2, 4, 8} : k \in Odds(e) <=> ((b + 1) \div k) % 2 = 1
    BY DEF Checks, Group
  <1>2. \A n \in 1 .. 15 :
          (IF (n \div 1) % 2 = 1 THEN 1 ELSE 0) + (IF (n \div 2) % 2 = 1 THEN 2 ELSE 0)
            + (IF (n \div 4) % 2 = 1 THEN 4 ELSE 0) + (IF (n \div 8) % 2 = 1 THEN 8 ELSE 0) = n
    OBVIOUS
  <1>3. b + 1 \in 1 .. 15
    OBVIOUS
  <1>4. /\ 1 \in Odds(e) <=> ((b + 1) \div 1) % 2 = 1
        /\ 2 \in Odds(e) <=> ((b + 1) \div 2) % 2 = 1
        /\ 4 \in Odds(e) <=> ((b + 1) \div 4) % 2 = 1
        /\ 8 \in Odds(e) <=> ((b + 1) \div 8) % 2 = 1
    BY <1>1
  <1> QED  BY <1>2, <1>3, <1>4 DEF ErrorPos

(* The Hamming code keeps its promise: a word that was encoded reads as    *)
(* the data it holds, and still does when any one of its fifteen bits has  *)
(* been hit (_encode_hamming_15_11, _decode_hamming_15_11).                *)
THEOREM SingleUpsetsAreCorrected ==
  ASSUME NEW d \in SUBSET (0 .. 10)
  PROVE  Decode(Encode(d)) = d /\ \A b \in 0 .. 14 : Decode(Flip(Encode(d), b)) = d
  <1> DEFINE w == Encode(d)
  <1>1. w \subseteq 0 .. 14 /\ Odds(w) = {} /\ {k \in 0 .. 10 : Place[k] \in w} = d
    BY EncodedWord
  <1> HIDE DEF w
  <1>2. Decode(w) = d
    BY <1>1 DEF Decode, ErrorPos
  <1>3. ASSUME NEW b \in 0 .. 14  PROVE Decode(Flip(w, b)) = d
    <2>1. \A k \in Checks : k \in Odds(Flip(w, b)) <=> b \in Group[k]
      BY <1>1, OddsFlip
    <2>2. ErrorPos(Flip(w, b)) = b + 1
      BY <2>1, Spelled
    <2>3. Flip(Flip(w, b), b + 1 - 1) = w
      BY DEF Flip
    <2>4. b + 1 # 0
      OBVIOUS
    <2> QED  BY <1>1, <2>2, <2>3, <2>4 DEF Decode
  <1> QED  BY <1>2, <1>3 DEF w

-----------------------------------------------------------------------------
(* The copies of the boot sector. *)

\* In how many bits two words differ.
Apart(e, f) == Cardinality((e \ f) \cup (f \ e))

\* In how many bits a copy differs from another.
Away(c, o) == Apart(c.data, o.data) + Apart(c.sum, o.sum)

Words == SUBSET (0 .. 14)
Bytes == SUBSET (0 .. 7)

(* A copy is as far from what was formatted, be it a boot sector or none,  *)
(* as it has been hit; that is not too far to be judged.                   *)
Traceable(c) == \E o \in {BootOf(Format), Blank} : Away(c, o) <= upsets

BootInv ==
  /\ world \in Worlds /\ world.hits <= 3
  /\ boot \in [0 .. Boots - 1 -> BootCopy]
  /\ fs \in {Unknown, Format}
  /\ bsnum \in 0 .. Boots /\ (pc = "read" => bsnum < Boots)
  /\ upsets \in Nat /\ upsets <= world.hits /\ faults \in Nat
  /\ \A n \in 0 .. Boots - 1 : Traceable(boot[n])

LEMMA ApartCounts ==
  ASSUME NEW e \in Words, NEW f \in Words
  PROVE  /\ Apart(e, f) \in Nat /\ Apart(e, e) = 0
         /\ \A b \in 0 .. 14 : Apart(Flip(e, b), f) <= Apart(e, f) + 1
  <1> DEFINE S == (e \ f) \cup (f \ e)
  <1>1. IsFiniteSet(S \cap S)
    BY FiniteWord DEF Words
  <1>2. IsFiniteSet(S) /\ Cardinality(S) \in Nat
    BY <1>1, FS_CardinalityType
  <1>3. (e \ e) \cup (e \ e) = {} /\ Cardinality({}) = 0
    BY FS_EmptySet
  <1>4. ASSUME NEW b \in 0 .. 14  PROVE Cardinality(Flip(S, b)) <= Cardinality(S) + 1
    <2>1. CASE b \in S
      <3>1. Cardinality(S \ {b}) = Cardinality(S) - 1
        BY <1>2, <2>1, FS_RemoveElement
      <3>2. Flip(S, b) = S \ {b}
        BY <2>1 DEF Flip
      <3> HIDE DEF S
      <3> QED  BY <1>2, <3>1, <3>2
    <2>2. CASE b \notin S
      <3>1. Cardinality(S \cup {b}) = Cardinality(S) + 1
        BY <1>2, <2>2, FS_AddElement
      <3>2. Flip(S, b) = S \cup {b}
        BY <2>2 DEF Flip
      <3> HIDE DEF S
      <3> QED  BY <1>2, <3>1, <3>2
    <2> QED  BY <2>1, <2>2
  <1>5. \A b \in 0 .. 14 : (Flip(e, b) \ f) \cup (f \ Flip(e, b)) = Flip(S, b)
    BY DEF Flip
  <1> QED  BY <1>2, <1>3, <1>4, <1>5 DEF Apart

\* A word that has been hit once at the most decodes to what was encoded.
LEMMA NearIsRight ==
  ASSUME NEW d \in SUBSET (0 .. 10), NEW e \in Words, Apart(e, Encode(d)) <= 1
  PROVE  Decode(e) = d
  <1> DEFINE w == Encode(d)
             S == (e \ w) \cup (w \ e)
  <1>1. w \in Words
    BY EncodedWord DEF Words
  <1>2. IsFiniteSet(S \cap S) /\ S \in Words
    BY <1>1, FiniteWord DEF Words
  <1>3. Cardinality(S) \in Nat /\ Cardinality(S) <= 1 /\ IsFiniteSet(S)
    BY <1>2, FS_CardinalityType DEF Apart
  <1>4. CASE S = {}
    <2>1. e = w
      BY <1>4
    <2> QED  BY <2>1, SingleUpsetsAreCorrected
  <1>5. CASE S # {}
    <2>1. PICK b \in S : TRUE
      BY <1>5
    <2>2. Cardinality(S \ {b}) = Cardinality(S) - 1 /\ IsFiniteSet(S \ {b})
      BY <1>3, <2>1, FS_RemoveElement
    <2>3. Cardinality(S \ {b}) = 0
      <3>1. Cardinality(S \ {b}) \in Nat
        BY <2>2, FS_CardinalityType
      <3> HIDE DEF S
      <3> QED  BY <1>3, <2>2, <3>1
    <2>4. S = {b}
      BY <2>1, <2>2, <2>3, FS_EmptySet
    <2>5. e = Flip(w, b)
      BY <2>4 DEF Flip
    <2>6. b \in 0 .. 14
      BY <1>2, <2>1 DEF Words
    <2> QED  BY <2>5, <2>6, SingleUpsetsAreCorrected
  <1> QED  BY <1>4, <1>5

LEMMA BytesCode ==
  ASSUME NEW b \in Bytes
  PROVE  /\ SetByte(b) \in Words /\ GetByte(SetByte(b)) = b
         /\ Sum(b) \in Bytes /\ \A c \in Bytes : Sum(b) = Sum(c) => b = c
         /\ \A e \in Words : Apart(e, SetByte(b)) <= 1 => GetByte(e) = b
  <1>1. b \in SUBSET (0 .. 10) /\ b \cap (0 .. 7) = b
    <2>1. \A k \in b : k \in 0 .. 7 /\ k \in 0 .. 10
      BY DEF Bytes
    <2> QED  BY <2>1
  <1>2. SetByte(b) \in Words
    BY <1>1, EncodedWord DEF SetByte, Words
  <1>3. GetByte(SetByte(b)) = b
    BY <1>1, SingleUpsetsAreCorrected DEF SetByte, GetByte
  <1>4. \A e \in Words : Apart(e, SetByte(b)) <= 1 => GetByte(e) = b
    BY <1>1, NearIsRight DEF SetByte, GetByte
  <1>5. Sum(b) \in Bytes /\ \A c \in Bytes : Sum(b) = Sum(c) => b = c
    BY DEF Sum, Bytes
  <1> QED  BY <1>2, <1>3, <1>4, <1>5

LEMMA GetsByte ==
  ASSUME NEW e  PROVE GetByte(e) \in Bytes
  BY DEF GetByte, Bytes

LEMMA OneMore ==
  ASSUME NEW S, IsFiniteSet(S), NEW x, x \notin S
  PROVE  IsFiniteSet(S \cup {x}) /\ Cardinality(S \cup {x}) = Cardinality(S) + 1
  BY FS_AddElement

\* No word of three bits reads as a byte of ones.
LEMMA LightWord ==
  ASSUME NEW e \in Words, Apart(e, {}) <= 3
  PROVE  GetByte(e) # 0 .. 7
  <1> SUFFICES ASSUME GetByte(e) = 0 .. 7  PROVE FALSE
    OBVIOUS
  <1> DEFINE f == IF ErrorPos(e) = 0 THEN e ELSE Flip(e, ErrorPos(e) - 1)
  <1>1. (e \ {}) \cup ({} \ e) = e
    OBVIOUS
  <1>2. IsFiniteSet(e \cap e)
    BY FiniteWord DEF Words
  <1>3. IsFiniteSet(e) /\ Cardinality(e) \in Nat /\ Cardinality(e) <= 3
    BY <1>1, <1>2, FS_CardinalityType DEF Apart
  <1>4. IsFiniteSet(f) /\ Cardinality(f) <= 4 /\ Cardinality(f) \in Nat
    <2>1. ASSUME NEW b  PROVE IsFiniteSet(Flip(e, b)) /\ Cardinality(Flip(e, b)) <= 4
      <3>1. CASE b \in e
        <4>1. IsFiniteSet(e \ {b}) /\ Cardinality(e \ {b}) = Cardinality(e) - 1
          BY <1>3, <3>1, FS_RemoveElement
        <4> QED  BY <1>3, <3>1, <4>1 DEF Flip
      <3>2. CASE b \notin e
        <4>1. IsFiniteSet(e \cup {b}) /\ Cardinality(e \cup {b}) = Cardinality(e) + 1
          BY <1>3, <3>2, FS_AddElement
        <4> QED  BY <1>3, <3>2, <4>1 DEF Flip
      <3> QED  BY <3>1, <3>2
    <2>2. IsFiniteSet(f) /\ Cardinality(f) <= 4
      BY <1>3, <2>1
    <2> QED  BY <2>2, FS_CardinalityType
  <1>5. \A k \in 0 .. 7 : Place[k] \in f
    BY DEF GetByte, Decode
  <1>6. Place[0] = 2 /\ Place[1] = 4 /\ Place[2] = 5 /\ Place[3] = 6 /\ Place[4] = 8
    BY DEF Place
  <1> HIDE DEF f
  <1>7. {2, 4, 5, 6, 8} \in SUBSET f
    BY <1>5, <1>6
  <1>8. Cardinality({2, 4, 5, 6, 8}) = 5
    <2>0. 4 \notin {2}
      OBVIOUS
    <2>1. IsFiniteSet({2}) /\ Cardinality({2}) = 1
      BY FS_Singleton
    <2>2. /\ IsFiniteSet({2} \cup {4}) /\ Cardinality({2} \cup {4}) = 1 + 1
          /\ 5 \notin {2} \cup {4}
      BY <2>0, <2>1, OneMore
    <2>3. /\ IsFiniteSet({2} \cup {4} \cup {5}) /\ Cardinality({2} \cup {4} \cup {5}) = 1 + 1 + 1
          /\ 6 \notin {2} \cup {4} \cup {5}
      BY <2>2, OneMore
    <2>4. /\ IsFiniteSet({2} \cup {4} \cup {5} \cup {6})
          /\ Cardinality({2} \cup {4} \cup {5} \cup {6}) = 1 + 1 + 1 + 1
          /\ 8 \notin {2} \cup {4} \cup {5} \cup {6}
      BY <2>3, OneMore
    <2>5. Cardinality({2} \cup {4} \cup {5} \cup {6} \cup {8}) = 5
      <3>1. Cardinality({2} \cup {4} \cup {5} \cup {6} \cup {8}) = 1 + 1 + 1 + 1 + 1
        BY <2>4, OneMore
      <3> QED  BY <3>1
    <2>6. {2} \cup {4} \cup {5} \cup {6} \cup {8} = {2, 4, 5, 6, 8}
      OBVIOUS
    <2> QED  BY <2>5, <2>6
  <1>9. Cardinality({2, 4, 5, 6, 8}) <= Cardinality(f)
    BY <1>4, <1>7, FS_Subset
  <1> QED  BY <1>4, <1>8, <1>9

\* What was formatted, and nothing.
LEMMA Origins ==
  /\ Format \in Bytes
  /\ BootOf(Format) \in BootCopy /\ Blank \in BootCopy
  /\ Valid(BootOf(Format)) /\ GetByte(BootOf(Format).data) = Format
  <1>1. Format \in Bytes
    BY MountAssumption DEF Bytes
  <1>2. Sum(Format) \in Bytes
    BY <1>1, BytesCode
  <1>3. /\ BootOf(Format).data = SetByte(Format) /\ BootOf(Format).sum = SetByte(Sum(Format))
        /\ SetByte(Format) \in Words /\ SetByte(Sum(Format)) \in Words
        /\ GetByte(SetByte(Format)) = Format /\ GetByte(SetByte(Sum(Format))) = Sum(Format)
    BY <1>1, <1>2, BytesCode DEF BootOf
  <1>4. BootOf(Format) \in BootCopy /\ Blank \in BootCopy
    BY <1>3 DEF BootOf, Blank, BootCopy, Words
  <1> QED  BY <1>1, <1>3, <1>4 DEF Valid

LEMMA Distances ==
  ASSUME NEW c \in BootCopy, NEW o \in {BootOf(Format), Blank}
  PROVE  /\ Apart(c.data, o.data) \in Nat /\ Apart(c.sum, o.sum) \in Nat
         /\ Away(c, o) \in Nat
         /\ Away(c, o) <= 3 => Apart(c.data, o.data) <= 1 \/ Apart(c.sum, o.sum) <= 1
  <1>1. o \in BootCopy
    BY Origins
  <1>2. c.data \in Words /\ c.sum \in Words /\ o.data \in Words /\ o.sum \in Words
    BY <1>1 DEF BootCopy, Words
  <1>3. Apart(c.data, o.data) \in Nat /\ Apart(c.sum, o.sum) \in Nat
    BY <1>2, ApartCounts
  <1> QED  BY <1>3 DEF Away

(* Three hits are not enough to make a wrong geometry look right: one of   *)
(* the two words is corrected, and the other would have to agree with it.  *)
LEMMA ValidIsRight ==
  ASSUME BootInv, NEW n \in 0 .. Boots - 1, Valid(boot[n])
  PROVE  GetByte(boot[n].data) = Format
  <1> DEFINE c == boot[n]
  <1>1. c \in BootCopy /\ c.data \in Words /\ c.sum \in Words
    BY DEF BootInv, BootCopy, Words
  <1>2. PICK o \in {BootOf(Format), Blank} : Away(c, o) <= upsets
    BY DEF BootInv, Traceable
  <1>3. Away(c, o) <= 3
    <2>1. upsets \in Nat /\ upsets <= world.hits /\ world.hits <= 3 /\ world.hits \in Nat
      BY MountAssumption DEF BootInv, World
    <2>2. Away(c, o) \in Nat
      BY <1>1, Distances
    <2> QED  BY <1>2, <2>1, <2>2
  <1>4. Apart(c.data, o.data) <= 1 \/ Apart(c.sum, o.sum) <= 1
    BY <1>1, <1>3, Distances
  <1>5. GetByte(c.sum) = Sum(GetByte(c.data)) /\ GetByte(c.data) \in Bytes
    BY GetsByte DEF Valid
  <1>6. Format \in Bytes /\ Sum(Format) \in Bytes /\ {} \in Bytes
    BY Origins, BytesCode DEF Bytes
  <1>7. CASE o = BootOf(Format)
    <2>1. o.data = SetByte(Format) /\ o.sum = SetByte(Sum(Format))
      BY <1>7 DEF BootOf
    <2>2. CASE Apart(c.data, o.data) <= 1
      BY <1>1, <1>6, <2>1, <2>2, BytesCode
    <2>3. CASE Apart(c.sum, o.sum) <= 1
      <3>1. GetByte(c.sum) = Sum(Format)
        BY <1>1, <1>6, <2>1, <2>3, BytesCode
      <3> QED  BY <1>5, <1>6, <3>1, BytesCode
    <2> QED  BY <1>4, <2>2, <2>3
  <1>8. CASE o = Blank
    <2>1. o.data = {} /\ o.sum = {}
      BY <1>8 DEF Blank
    <2>2. SetByte({}) = {}
      <3>1. Odds({}) = {}
        <4>1. \A k \in Checks : {} \cap Group[k] = {}
          OBVIOUS
        <4>2. Cardinality({}) = 0 /\ ~(0 % 2 = 1)
          BY FS_EmptySet
        <4> QED  BY <4>1, <4>2 DEF Odds, Odd
      <3>2. {Place[k] : k \in {}} = {}
        OBVIOUS
      <3> QED  BY <3>1, <3>2 DEF SetByte, Encode
    <2>3. Apart(c.data, {}) <= 3 /\ Apart(c.sum, {}) <= 3
      <3>1. Apart(c.data, o.data) \in Nat /\ Apart(c.sum, o.sum) \in Nat
        BY <1>1, Distances
      <3> QED  BY <1>3, <2>1, <3>1 DEF Away
    <2>4. Sum({}) = 0 .. 7 /\ Sum(0 .. 7) = {}
      BY DEF Sum
    <2>5. CASE Apart(c.data, o.data) <= 1
      <3>1. GetByte(c.data) = {}
        BY <1>1, <1>6, <2>1, <2>2, <2>5, BytesCode
      <3>2. GetByte(c.sum) = 0 .. 7
        BY <1>5, <2>4, <3>1
      <3> QED  BY <1>1, <2>3, <3>2, LightWord
    <2>6. CASE Apart(c.sum, o.sum) <= 1
      <3>1. GetByte(c.sum) = {}
        BY <1>1, <1>6, <2>1, <2>2, <2>6, BytesCode
      <3>2. 0 .. 7 \in Bytes
        BY DEF Bytes
      <3>3. GetByte(c.data) = 0 .. 7
        BY <1>5, <2>4, <3>1, <3>2, BytesCode
      <3> QED  BY <1>1, <2>3, <3>3, LightWord
    <2> QED  BY <1>4, <2>5, <2>6
  <1> QED  BY <1>7, <1>8

(* A copy that fails its checksum has a word with two hits. *)
LEMMA InvalidIsSpoilt ==
  ASSUME NEW c \in BootCopy, ~Valid(c)
  PROVE  Spoilt(c)
  <1> SUFFICES ASSUME ~Spoilt(c)  PROVE FALSE
    OBVIOUS
  <1> DEFINE o == BootOf(Format)
  <1>1. o.data = SetByte(Format) /\ o.sum = SetByte(Sum(Format))
    BY DEF BootOf
  <1>2. c.data \in Words /\ c.sum \in Words /\ Format \in Bytes /\ Sum(Format) \in Bytes
    BY Origins, BytesCode DEF BootCopy, Words
  <1>3. ~(Apart(c.data, o.data) >= 2) /\ ~(Apart(c.sum, o.sum) >= 2)
    BY DEF Spoilt, Apart
  <1>4. Apart(c.data, o.data) \in Nat /\ Apart(c.sum, o.sum) \in Nat
    BY Distances
  <1>5. Apart(c.data, o.data) <= 1 /\ Apart(c.sum, o.sum) <= 1
    BY <1>3, <1>4
  <1>6. GetByte(c.data) = Format /\ GetByte(c.sum) = Sum(Format)
    BY <1>1, <1>2, <1>5, BytesCode
  <1> QED  BY <1>6 DEF Valid

LEMMA Tallied ==
  ASSUME faults \in Nat, NEW S, Tally(S)
  PROVE  faults' \in Nat /\ (faults' = faults => S = {})
  <1>1. CASE S = {}
    BY <1>1 DEF Tally
  <1>2. CASE S # {}
    <2>1. faults' = faults + 1
      BY <1>2 DEF Tally
    <2> QED  BY <2>1
  <1> QED  BY <1>1, <1>2

\* What the load of the ring adds to the faults.
LEMMA SetupTallies ==
  ASSUME Setup
  PROVE  \E U, F \in Failing : Tally(U \cup F)
  <1>1. {} \in Failing
    BY DEF Failing
  <1>2. CASE Known
    BY <1>2 DEF Setup, SetupFailing
  <1>3. CASE ~Known
    BY <1>1, <1>3 DEF Setup, SetupFailing
  <1> QED  BY <1>2, <1>3

(* Steps that leave the boot sectors and the geometry alone. *)
Aside == Report \/ NoErrors \/ Unreadable \/ GetLastError \/ NoneLeft \/ SetupFails \/ Setup
           \/ ReadFails \/ Damage

LEMMA AsideKeeps ==
  ASSUME BootInv, Aside \/ UNCHANGED mountVars
  PROVE  /\ UNCHANGED <<world, boot, fs, bsnum, upsets>>
         /\ faults' \in Nat
         /\ pc' = "read" => pc = "read" \/ bsnum < Boots
         /\ pc = "read" /\ pc' = "idle" => faults' # faults
  <1>0. faults \in Nat
    BY DEF BootInv
  <1>1. CASE Report
    BY <1>0, <1>1, Tallied DEF Report
  <1>2. CASE NoErrors
    BY <1>0, <1>2 DEF NoErrors, disk, ram
  <1>3. CASE Unreadable
    <2>1. faults' \in {faults, faults + 1}
      BY <1>3 DEF Unreadable, Tally
    <2>2. faults' \in Nat
      BY <1>0, <2>1
    <2> QED  BY <1>3, <2>2 DEF Unreadable, disk, ram
  <1>4. CASE GetLastError
    BY <1>0, <1>4, Tallied DEF GetLastError
  <1>5. CASE NoneLeft
    BY <1>0, <1>5 DEF NoneLeft, disk, ram
  <1>6. CASE SetupFails
    <2>1. faults' \in {faults, faults + 1}
      BY <1>6 DEF SetupFails
    <2>2. faults' \in Nat
      BY <1>0, <2>1
    <2> QED  BY <1>6, <2>2 DEF SetupFails, disk, ram
  <1>7. CASE Setup
    BY <1>0, <1>7, SetupTallies, Tallied DEF Setup, SetupFailing
  <1>8. CASE ReadFails
    <2>1. faults' = faults + 1
      BY <1>8 DEF ReadFails
    <2>2. faults' \in Nat /\ faults' # faults
      BY <1>0, <2>1
    <2> QED  BY <1>8, <2>2 DEF ReadFails
  <1>9. CASE Damage
    <2>1. faults' = faults + 1
      BY <1>9 DEF Damage
    <2>2. faults' \in Nat
      BY <1>0, <2>1
    <2> QED  BY <1>9, <2>2 DEF Damage, ram
  <1>10. CASE UNCHANGED mountVars
    BY <1>0, <1>10 DEF mountVars, disk, ram
  <1> QED  BY <1>1, <1>2, <1>3, <1>4, <1>5, <1>6, <1>7, <1>8, <1>9, <1>10 DEF Aside

\* Every step, as far as it concerns the boot sectors.
LEMMA BootSteps ==
  ASSUME [MountNext]_mountVars
  PROVE  Aside \/ UNCHANGED mountVars \/ Begin \/ Reject \/ Accept \/ RepairBoots \/ Upset
           \/ Restart
  BY DEF MountNext, Work, Call, Aside

LEMMA BootInit ==
  MountInit /\ (\A w \in Worlds : w.hits <= 3) => BootInv
  <1> SUFFICES ASSUME MountInit, \A w \in Worlds : w.hits <= 3  PROVE BootInv
    OBVIOUS
  <1>1. world \in Worlds /\ world.hits <= 3 /\ world.hits \in Nat
    BY MountAssumption DEF MountInit, World
  <1>2. boot \in [0 .. Boots - 1 -> {BootOf(Format), Blank}]
    BY DEF MountInit
  <1>3. \A o \in {BootOf(Format), Blank} : Away(o, o) = 0
    <2> TAKE o \in {BootOf(Format), Blank}
    <2>1. o.data \in Words /\ o.sum \in Words
      BY Origins DEF BootCopy, Words
    <2> QED  BY <2>1, ApartCounts DEF Away
  <1>4. upsets = 0 /\ faults = 0 /\ fs = Unknown /\ bsnum = 0 /\ pc = "idle"
    BY DEF MountInit
  <1>5. \A n \in 0 .. Boots - 1 : Traceable(boot[n])
    <2> TAKE n \in 0 .. Boots - 1
    <2>1. boot[n] \in {BootOf(Format), Blank} /\ Away(boot[n], boot[n]) = 0
      BY <1>2, <1>3
    <2>2. Away(boot[n], boot[n]) <= upsets
      BY <1>4, <2>1
    <2> QED  BY <2>1, <2>2 DEF Traceable
  <1>6. boot \in [0 .. Boots - 1 -> BootCopy]
    BY <1>2, Origins
  <1>7. bsnum \in 0 .. Boots
    BY <1>4, MountAssumption
  <1> QED  BY <1>1, <1>4, <1>5, <1>6, <1>7 DEF BootInv

LEMMA BootKept ==
  ASSUME BootInv, UNCHANGED <<world, upsets>>, faults' \in Nat,
         boot' \in [0 .. Boots - 1 -> BootCopy],
         \A n \in 0 .. Boots - 1 : Traceable(boot'[n]),
         fs' \in {Unknown, Format}, bsnum' \in 0 .. Boots, pc' = "read" => bsnum' < Boots
  PROVE  BootInv'
  BY DEF BootInv, Traceable, Away, Apart

(* What NIFAT32_init accepts, and what a repair writes, is what was formatted. *)
LEMMA AcceptKeeps ==
  ASSUME BootInv, Accept
  PROVE  /\ BootInv' /\ UNCHANGED <<bsnum, upsets>> /\ fs' = Format /\ pc = "read" /\ pc' = "idle"
         /\ Readable \subseteq Readable'
         /\ bsnum > 0 /\ faults' = faults => Readable' = DOMAIN boot
  <1>1. /\ pc = "read" /\ pc' = "idle" /\ Valid(boot[bsnum]) /\ UNCHANGED <<world, bsnum, upsets>>
        /\ fs' = GetByte(boot[bsnum].data)
    BY DEF Accept
  <1>2. PICK F \in SUBSET (0 .. Boots - 1) :
           /\ boot' = [n \in DOMAIN boot |-> IF bsnum > 0 /\ n \notin F THEN boot[bsnum] ELSE boot[n]]
           /\ Tally(F)
    BY DEF Accept
  <1>3. bsnum \in 0 .. Boots - 1 /\ DOMAIN boot = 0 .. Boots - 1
    BY <1>1, MountAssumption DEF BootInv
  <1>4. GetByte(boot[bsnum].data) = Format
    BY <1>1, <1>3, ValidIsRight
  <1>5. faults' \in Nat /\ (faults' = faults => F = {})
    BY <1>2, Tallied DEF BootInv
  <1>6. /\ boot' \in [0 .. Boots - 1 -> BootCopy]
        /\ \A n \in 0 .. Boots - 1 : boot'[n] \in {boot[bsnum], boot[n]}
    BY <1>2, <1>3 DEF BootInv
  <1>7. \A n \in 0 .. Boots - 1 : Traceable(boot'[n])
    BY <1>3, <1>6 DEF BootInv
  <1>8. BootInv'
    BY <1>1, <1>4, <1>5, <1>6, <1>7, BootKept DEF BootInv
  <1>9. DOMAIN boot' = 0 .. Boots - 1
    BY <1>6
  <1>10. Readable \subseteq Readable'
    BY <1>1, <1>3, <1>4, <1>6, <1>9 DEF Readable
  <1>11. ASSUME bsnum > 0, faults' = faults  PROVE Readable' = DOMAIN boot
    <2>1. \A n \in 0 .. Boots - 1 : boot'[n] = boot[bsnum]
      BY <1>2, <1>3, <1>5, <1>11
    <2> QED  BY <1>1, <1>3, <1>4, <1>9, <2>1 DEF Readable
  <1> QED  BY <1>1, <1>4, <1>8, <1>10, <1>11

LEMMA RepairKeeps ==
  ASSUME BootInv, RepairBoots
  PROVE  BootInv' /\ UNCHANGED <<fs, bsnum, upsets>> /\ pc # "read" /\ Readable \subseteq Readable'
  <1>1. UNCHANGED <<world, fs, bsnum, upsets, pc>> /\ fs = Format /\ pc # "read"
    BY DEF RepairBoots, ram, Known, BootInv
  <1>2. PICK F \in SUBSET (0 .. Boots - 1) :
           boot' = [n \in DOMAIN boot |-> IF n \in F THEN boot[n] ELSE BootOf(fs)] /\ Tally(F)
    BY DEF RepairBoots
  <1>3. DOMAIN boot = 0 .. Boots - 1
    BY DEF BootInv
  <1>4. /\ boot' \in [0 .. Boots - 1 -> BootCopy]
        /\ \A n \in 0 .. Boots - 1 : boot'[n] \in {BootOf(Format), boot[n]}
    BY <1>1, <1>2, <1>3, Origins DEF BootInv
  <1>5. Traceable(BootOf(Format))
    <2>1. Away(BootOf(Format), BootOf(Format)) = 0
      <3>1. BootOf(Format).data \in Words /\ BootOf(Format).sum \in Words
        BY Origins DEF BootCopy, Words
      <3> QED  BY <3>1, ApartCounts DEF Away
    <2>2. Away(BootOf(Format), BootOf(Format)) <= upsets
      BY <2>1 DEF BootInv
    <2> QED  BY <2>2 DEF Traceable
  <1>6. \A n \in 0 .. Boots - 1 : Traceable(boot'[n])
    BY <1>4, <1>5 DEF BootInv
  <1>7. faults' \in Nat
    BY <1>2, Tallied DEF BootInv
  <1>8. BootInv'
    BY <1>1, <1>4, <1>6, <1>7, BootKept DEF BootInv
  <1>9. Readable \subseteq Readable'
    BY <1>3, <1>4, Origins DEF Readable
  <1> QED  BY <1>1, <1>8, <1>9

LEMMA UpsetKeeps ==
  ASSUME BootInv, Upset
  PROVE  BootInv' /\ UNCHANGED <<fs, bsnum, pc>> /\ upsets' # upsets
  <1>1. UNCHANGED <<world, fs, bsnum, pc, faults>> /\ upsets < world.hits /\ upsets' = upsets + 1
    BY DEF Upset, ram
  <1>2. PICK m \in DOMAIN boot, w \in {"data", "sum"}, b \in Bits :
           boot' = [boot EXCEPT ![m][w] = Flip(@, b)]
    BY DEF Upset
  <1>3. DOMAIN boot = 0 .. Boots - 1 /\ b \in 0 .. 14 /\ upsets \in Nat /\ world.hits \in Nat
    BY MountAssumption DEF BootInv, World
  <1>4. upsets' \in Nat /\ upsets' <= world.hits /\ upsets <= upsets' /\ upsets' # upsets
    BY <1>1, <1>3
  <1>5. boot[m] \in BootCopy /\ boot[m].data \in Words /\ boot[m].sum \in Words
    BY <1>3 DEF BootInv, BootCopy, Words
  <1>6. Flip(boot[m][w], b) \in Words
    BY <1>3, <1>5 DEF Flip, Words
  <1>7. /\ boot' = [boot EXCEPT ![m] = [boot[m] EXCEPT ![w] = Flip(boot[m][w], b)]]
        /\ [boot[m] EXCEPT ![w] = Flip(boot[m][w], b)] \in BootCopy
    BY <1>2, <1>3, <1>5, <1>6 DEF BootCopy, Words, BootInv
  <1>8. boot' \in [0 .. Boots - 1 -> BootCopy]
    BY <1>3, <1>7 DEF BootInv
  <1>9. ASSUME NEW n \in 0 .. Boots - 1
        PROVE  \E o \in {BootOf(Format), Blank} : Away(boot'[n], o) <= upsets'
    <2>1. PICK o \in {BootOf(Format), Blank} : Away(boot[n], o) <= upsets
      BY DEF BootInv, Traceable
    <2>2. boot[n] \in BootCopy /\ Away(boot[n], o) \in Nat
      BY Distances DEF BootInv
    <2>3. CASE n # m
      <3>1. boot'[n] = boot[n]
        BY <1>7, <2>3 DEF BootInv
      <3>2. Away(boot[n], o) <= upsets'
        BY <1>3, <1>4, <2>1, <2>2
      <3> QED  BY <3>1, <3>2
    <2>4. CASE n = m
      <3>1. boot'[n] = [boot[n] EXCEPT ![w] = Flip(boot[n][w], b)]
        BY <1>7, <2>4 DEF BootInv
      <3>2. o.data \in Words /\ o.sum \in Words /\ boot[n].data \in Words /\ boot[n].sum \in Words
        BY <2>2, Origins DEF BootCopy, Words
      <3>3. /\ Apart(boot[n].data, o.data) \in Nat /\ Apart(boot[n].sum, o.sum) \in Nat
            /\ Apart(Flip(boot[n].data, b), o.data) <= Apart(boot[n].data, o.data) + 1
            /\ Apart(Flip(boot[n].sum, b), o.sum) <= Apart(boot[n].sum, o.sum) + 1
        BY <1>3, <3>2, ApartCounts
      <3>4. /\ Flip(boot[n].data, b) \in Words /\ Flip(boot[n].sum, b) \in Words
        BY <1>3, <3>2 DEF Flip, Words
      <3>5. Apart(Flip(boot[n].data, b), o.data) \in Nat /\ Apart(Flip(boot[n].sum, b), o.sum) \in Nat
        BY <3>2, <3>4, ApartCounts
      <3>6. \/ boot'[n].data = Flip(boot[n].data, b) /\ boot'[n].sum = boot[n].sum
            \/ boot'[n].data = boot[n].data /\ boot'[n].sum = Flip(boot[n].sum, b)
        BY <2>2, <3>1 DEF BootCopy
      <3>7. Away(boot'[n], o) <= Away(boot[n], o) + 1 /\ Away(boot'[n], o) \in Nat
        BY <3>3, <3>5, <3>6 DEF Away
      <3> QED  BY <1>1, <1>3, <2>1, <2>2, <3>7
    <2> QED  BY <2>3, <2>4
  <1>10. (\A n \in 0 .. Boots - 1 : Traceable(boot[n]))'
    BY <1>9 DEF Traceable, Away, Apart, BootOf, Blank
  <1> QED  BY <1>1, <1>4, <1>8, <1>10 DEF BootInv

LEMMA RejectKeeps ==
  ASSUME BootInv, Reject
  PROVE  /\ BootInv' /\ UNCHANGED <<boot, fs, upsets>> /\ pc' = "begin"
         /\ Spoilt(boot[bsnum])
  <1>1. /\ UNCHANGED <<world, boot, fs, upsets>> /\ pc = "read" /\ pc' = "begin"
        /\ bsnum' = bsnum + 1 /\ ~Valid(boot[bsnum])
    BY DEF Reject
  <1>2. faults' \in Nat
    BY Tallied DEF Reject, BootInv
  <1>3. bsnum \in 0 .. Boots - 1 /\ bsnum' \in 0 .. Boots
    BY <1>1, MountAssumption DEF BootInv
  <1>4. Spoilt(boot[bsnum])
    BY <1>1, <1>3, InvalidIsSpoilt DEF BootInv
  <1>5. BootInv'
    BY <1>1, <1>2, <1>3, BootKept DEF BootInv
  <1> QED  BY <1>1, <1>4, <1>5

LEMMA BeginKeeps ==
  ASSUME BootInv, Begin \/ Restart
  PROVE  /\ BootInv' /\ UNCHANGED <<boot, upsets>> /\ bsnum' \in {0, bsnum}
         /\ fs' \in {fs, Unknown} /\ (fs' = Unknown \/ pc # "read")
  <1>1. /\ UNCHANGED <<world, boot, upsets, faults>> /\ bsnum' \in {0, bsnum}
        /\ fs' \in {fs, Unknown} /\ (fs' = Unknown \/ pc # "read") /\ pc' # "read"
    BY DEF Begin, Restart, disk
  <1>2. bsnum' \in 0 .. Boots /\ fs' \in {Unknown, Format}
    BY <1>1, MountAssumption DEF BootInv
  <1>3. BootInv'
    BY <1>1, <1>2, BootKept DEF BootInv
  <1> QED  BY <1>1, <1>3

LEMMA AsideInv ==
  ASSUME BootInv, Aside \/ UNCHANGED mountVars
  PROVE  BootInv'
  <1>1. /\ UNCHANGED <<world, boot, fs, bsnum, upsets>> /\ faults' \in Nat
        /\ (pc' = "read" => pc = "read" \/ bsnum < Boots)
    BY AsideKeeps
  <1> QED  BY <1>1, BootKept DEF BootInv

LEMMA BootStep ==
  BootInv /\ [MountNext]_mountVars => BootInv'
  BY BootSteps, AsideInv, BeginKeeps, RejectKeeps, AcceptKeeps, RepairKeeps, UpsetKeeps

LEMMA BootInvHolds ==
  (\A w \in Worlds : w.hits <= 3) /\ MountSpec => []BootInv
  <1>1. (\A w \in Worlds : w.hits <= 3) /\ MountInit => BootInv
    BY BootInit
  <1> QED  BY <1>1, BootStep, PTL DEF MountSpec

(* Up to three upsets of boot sectors never make a mount believe a wrong   *)
(* geometry, wherever they fall, through any number of mounts, repairs and *)
(* failing transfers; and a copy is skipped only when one of its words has *)
(* two wrong bits (the choice of a copy in NIFAT32_init).                  *)
THEOREM CopiesAreJudged ==
  (\A w \in Worlds : w.hits <= 3) /\ MountSpec => CopiesJudged
  <1>1. BootInv /\ [MountNext]_mountVars
          => [/\ bsnum' = bsnum + 1 => Spoilt(boot[bsnum])
              /\ fs' # fs => fs' \in {Format, Unknown}]_mountVars
    <2> SUFFICES ASSUME BootInv, [MountNext]_mountVars
                 PROVE  /\ bsnum' = bsnum + 1 => Spoilt(boot[bsnum])
                        /\ fs' # fs => fs' \in {Format, Unknown}
      OBVIOUS
    <2>1. bsnum \in Nat
      BY MountAssumption DEF BootInv
    <2>2. bsnum' \in {0, bsnum} => ~(bsnum' = bsnum + 1)
      BY <2>1
    <2>3. CASE Aside \/ UNCHANGED mountVars
      BY <2>2, <2>3, AsideKeeps
    <2>4. CASE Begin \/ Restart
      BY <2>2, <2>4, BeginKeeps
    <2>5. CASE Reject
      BY <2>5, RejectKeeps
    <2>6. CASE Accept
      BY <2>2, <2>6, AcceptKeeps
    <2>7. CASE RepairBoots \/ Upset
      BY <2>2, <2>7, RepairKeeps, UpsetKeeps
    <2> QED  BY <2>3, <2>4, <2>5, <2>6, <2>7, BootSteps
  <1> QED  BY <1>1, BootInvHolds, PTL DEF MountSpec, CopiesJudged

(* With no more than three upsets, no step of the library spoils a copy    *)
(* that could be read, and a mount from a reserved copy whose writes       *)
(* succeed leaves every copy readable ("Attempt to fix...", NIFAT32_init;  *)
(* NIFAT32_repair_bootsectors).                                            *)
THEOREM BootsAreHealed ==
  (\A w \in Worlds : w.hits <= 3) /\ MountSpec => BootsHeal
  <1>1. BootInv /\ [MountNext]_mountVars
          => [/\ upsets' = upsets /\ boot' # boot => Readable \subseteq Readable'
              /\ pc = "read" /\ fs' # Unknown /\ pc' = "idle" /\ bsnum > 0 /\ faults' = faults
                   => Readable' = DOMAIN boot]_mountVars
    <2> SUFFICES ASSUME BootInv, [MountNext]_mountVars
                 PROVE  /\ upsets' = upsets /\ boot' # boot => Readable \subseteq Readable'
                        /\ pc = "read" /\ fs' # Unknown /\ pc' = "idle" /\ bsnum > 0
                             /\ faults' = faults => Readable' = DOMAIN boot
      OBVIOUS
    <2>1. CASE Aside \/ UNCHANGED mountVars
      BY <2>1, AsideKeeps
    <2>2. CASE Begin \/ Restart
      BY <2>2, BeginKeeps
    <2>3. CASE Reject
      BY <2>3, RejectKeeps
    <2>4. CASE Accept
      BY <2>4, AcceptKeeps
    <2>5. CASE RepairBoots \/ Upset
      BY <2>5, RepairKeeps, UpsetKeeps
    <2> QED  BY <2>1, <2>2, <2>3, <2>4, <2>5, BootSteps
  <1> QED  BY <1>1, BootInvHolds, PTL DEF MountSpec, BootsHeal
-----------------------------------------------------------------------------

\* A set of natural numbers that is not empty has a least one.
LEMMA LeastNumber ==
  ASSUME NEW S, S \subseteq Nat, S # {}
  PROVE  \E m \in S : \A k \in S : m <= k
  <1> DEFINE Below == {0 .. n : n \in S}
  <1>1. Below \subseteq FiniteSubsetsOf(Nat) /\ Below # {}
    <2>1. ASSUME NEW n \in S  PROVE 0 .. n \in FiniteSubsetsOf(Nat)
      <3>1. IsFiniteSet(0 .. n)
        BY FS_Interval
      <3> QED  BY <3>1 DEF FiniteSubsetsOf
    <2> QED  BY <2>1
  <1>2. PICK b \in Below : \A a \in Below : <<a, b>> \notin StrictSubsetOrdering(Nat)
    BY <1>1, FS_StrictSubsetOrderingWellFounded, WFMin
  <1>3. PICK m \in S : b = 0 .. m
    OBVIOUS
  <1>4. ASSUME NEW k \in S, k < m  PROVE FALSE
    <2>1. 0 .. k \in Below /\ 0 .. k \subseteq 0 .. m /\ 0 .. k # 0 .. m
      <3>1. k \in Nat /\ m \in Nat /\ m \in 0 .. m /\ m \notin 0 .. k
        BY <1>4
      <3> QED  BY <3>1, <1>4
    <2>2. <<0 .. k, 0 .. m>> \in StrictSubsetOrdering(Nat)
      BY <2>1 DEF StrictSubsetOrdering
    <2> QED  BY <2>1, <2>2, <1>2, <1>3
  <1> QED  BY <1>4

\* What holds at first and is passed on from each number to the next.
LEMMA Onward ==
  ASSUME NEW n \in Nat, NEW S, 0 \in S, \A k \in 0 .. n - 1 : k \in S => k + 1 \in S
  PROVE  \A k \in 0 .. n : k \in S
  <1> SUFFICES ASSUME (0 .. n) \ S # {}  PROVE FALSE
    OBVIOUS
  <1>1. PICK m \in (0 .. n) \ S : \A k \in (0 .. n) \ S : m <= k
    <2>1. (0 .. n) \ S \subseteq Nat
      OBVIOUS
    <2> QED  BY <2>1, LeastNumber
  <1>2. m - 1 \in 0 .. n - 1 /\ m - 1 \notin (0 .. n) \ S /\ (m - 1) + 1 = m
    BY <1>1
  <1> QED  BY <1>1, <1>2

NoVotes == [code |-> NOTHING, freq |-> 0, wrong |-> -1]

\* The count after the words w of the first copies, in the order of the copies.
Counts(a, w, n) ==
  /\ a[0] = NoVotes
  /\ \A k \in 0 .. n - 1 : a[k + 1] = Count(a[k], w[k + 1])

\* The greatest number of an interval's part that has its end.
LEMMA EndIsMax ==
  ASSUME NEW m \in Nat, NEW s \in SUBSET (1 .. m + 1), m + 1 \in s
  PROVE  Max(s) = m + 1
  <1>1. \A y \in s : m + 1 >= y
    OBVIOUS
  <1>2. \A x \in s : (\A y \in s : x >= y) => x = m + 1
    OBVIOUS
  <1> QED  BY <1>1, <1>2 DEF Max

\* The fold over the words counts them one after the other.
LEMMA FoldCounts ==
  ASSUME NEW n \in Nat, NEW w
  PROVE  \E a : Counts(a, w, n) /\ FoldLeft(Count, NoVotes, [c \in 1 .. n |-> w[c]]) = a[n]
  <1> DEFINE q == [c \in 1 .. n |-> w[c]]
             Step(f, s) == IF s = {} THEN NoVotes
                           ELSE Count(f[s \ {Max(s)}], q[Max(s)])
             Solved == {k \in Nat : k <= n /\ \E f : f = [s \in SUBSET (1 .. k) |-> Step(f, s)]}
  <1>1. 0 \in Solved
    <2>1. [s \in SUBSET (1 .. 0) |-> NoVotes]
            = [s \in SUBSET (1 .. 0) |-> Step([z \in SUBSET (1 .. 0) |-> NoVotes], s)]
      OBVIOUS
    <2> DEFINE g == [s \in SUBSET (1 .. 0) |-> NoVotes]
    <2> HIDE DEF g, Step
    <2>2. g = [s \in SUBSET (1 .. 0) |-> Step(g, s)]
      BY <2>1 DEF g
    <2>3. 0 \in Nat /\ 0 <= n
      OBVIOUS
    <2> QED  BY <2>2, <2>3
  <1>2. ASSUME NEW k \in 0 .. n - 1, k \in Solved  PROVE k + 1 \in Solved
    <2>1. PICK f : f = [s \in SUBSET (1 .. k) |-> Step(f, s)]
      BY <1>2
    <2> DEFINE g == [s \in SUBSET (1 .. k + 1) |->
                       IF k + 1 \in s THEN Count(f[s \ {k + 1}], q[k + 1]) ELSE f[s]]
    <2>2. ASSUME NEW s \in SUBSET (1 .. k + 1)  PROVE g[s] = Step(g, s)
      <3>1. CASE k + 1 \in s
        <4>1. Max(s) = k + 1
          BY <3>1, EndIsMax
        <4>2. s \ {k + 1} \in SUBSET (1 .. k + 1) /\ k + 1 \notin s \ {k + 1} /\ s # {}
          BY <3>1
        <4>3. g[s \ {k + 1}] = f[s \ {k + 1}]
          BY <4>2
        <4> QED  BY <3>1, <4>1, <4>2, <4>3
      <3>2. CASE k + 1 \notin s
        <4>1. s \in SUBSET (1 .. k)
          BY <3>2
        <4>2. \A x : s \ {x} \in SUBSET (1 .. k) /\ s \ {x} \in SUBSET (1 .. k + 1)
                     /\ k + 1 \notin s \ {x}
          BY <3>2, <4>1
        <4>3. g[s \ {Max(s)}] = f[s \ {Max(s)}]
          BY <4>2
        <4>4. f[s] = Step(f, s)
          BY <2>1, <4>1
        <4> QED  BY <3>2, <4>3, <4>4
      <3> QED  BY <3>1, <3>2
    <2>3. g = [s \in SUBSET (1 .. k + 1) |-> g[s]]
      OBVIOUS
    <2> HIDE DEF g, Step
    <2>4. g = [s \in SUBSET (1 .. k + 1) |-> Step(g, s)]
      BY <2>2, <2>3
    <2>5. k + 1 \in Nat /\ k + 1 <= n
      OBVIOUS
    <2> QED  BY <2>4, <2>5
  <1>3. n \in Solved
    <2> HIDE DEF Solved
    <2>1. \A k \in 0 .. n - 1 : k \in Solved => k + 1 \in Solved
      BY <1>2
    <2> QED  BY <1>1, <2>1, Onward
  <1> DEFINE h == CHOOSE f : f = [s \in SUBSET (1 .. n) |-> Step(f, s)]
  <1>4. h = [s \in SUBSET (1 .. n) |-> Step(h, s)]
    BY <1>3
  <1>5. FoldLeft(Count, NoVotes, q) = h[1 .. n]
    <2>1. DOMAIN q = 1 .. n
      OBVIOUS
    <2> QED  BY <2>1 DEF FoldLeft, MapThenFoldSet
  <1> HIDE DEF h
  <1> DEFINE a == [k \in 0 .. n |-> h[1 .. k]]
  <1>6. a[0] = NoVotes
    <2>1. 1 .. 0 = {} /\ {} \in SUBSET (1 .. n)
      OBVIOUS
    <2> QED  BY <1>4, <2>1
  <1>7. ASSUME NEW k \in 0 .. n - 1  PROVE a[k + 1] = Count(a[k], w[k + 1])
    <2>1. 1 .. k + 1 \in SUBSET (1 .. n) /\ k + 1 \in 1 .. k + 1
          /\ k \in 0 .. n /\ k + 1 \in 0 .. n /\ k + 1 \in 1 .. n
      OBVIOUS
    <2>0. (1 .. k + 1) \ {k + 1} = 1 .. k /\ 1 .. k + 1 # {}
      BY <2>1
    <2>2. Max(1 .. k + 1) = k + 1
      BY <2>1, EndIsMax
    <2>3. h[1 .. k + 1] = Count(h[1 .. k], q[k + 1])
      BY <1>4, <2>0, <2>1, <2>2
    <2> QED  BY <2>1, <2>3
  <1>8. n \in 0 .. n /\ a[n] = h[1 .. n]
    OBVIOUS
  <1> HIDE DEF a
  <1>9. Counts(a, w, n)
    BY <1>6, <1>7 DEF Counts
  <1> QED  BY <1>5, <1>8, <1>9

\* A word that can be an error, and what entry n can hold.
ErrorWords  == Codes \cup {NO_ERROR}
Kind(n)     == (IF n = 0 THEN Info ELSE ErrorWords) \cup {DAMAGED}

Typed(R) ==
  /\ R \in [Copies -> [0 .. Stored - 1 -> Entries]]
  /\ \A c \in Copies, n \in 0 .. Stored - 1 : R[c][n] \in Kind(n)

\* All copies show v in entry n but at most one, which is damaged.
Firm(R, n, v) ==
  \E d \in Nat : \A c \in 1 .. ErrorCopies : Shows(R, c, n) = IF c = d THEN DAMAGED ELSE v

\* How many errors wait, and the entry of the k-th.
Waiting(E)  == (E.last - E.first) % (Ring - 1)
Slot(E, k)  == ((E.first + k - 2) % (Ring - 1)) + 1
InRing(E)   == {E.first, E.last} \subseteq 1 .. Ring - 1

BootTypes ==
  /\ world \in Worlds /\ boot \in [0 .. Boots - 1 -> BootCopy]
  /\ fs \in {Unknown} \cup SUBSET (0 .. 7)
  /\ bsnum \in 0 .. Boots /\ pc \in {"idle", "begin", "read"}
  /\ pc = "read" => bsnum < Boots
  /\ upsets \in 0 .. world.hits /\ faults \in 0 .. world.faults

RingTypes ==
  /\ Typed(ring) /\ astray \in Info /\ errs \in Indices
  /\ got \in ErrorWords \cup {NOTHING, DAMAGED} /\ intact \in BOOLEAN

Orderly ==
  /\ intact => /\ world.errors /\ errs.current = errs.last /\ InRing(errs)
               /\ pc = "read" => errs.first = errs.last
  /\ intact /\ Known =>
       \A k \in 1 .. Waiting(errs) : \E v \in ErrorWords : Firm(ring, Slot(errs, k), v)

\* The words the vote on entry n counts, one after the other.
LEMMA VotesAreCounts ==
  ASSUME NEW R, NEW n, NEW U
  PROVE  \E a : /\ Counts(a, [c \in 1 .. ErrorCopies |-> Heard(R, c, n, U)], ErrorCopies)
                /\ Votes(R, n, U) = a[ErrorCopies]
  <1> DEFINE w == [c \in 1 .. ErrorCopies |-> Heard(R, c, n, U)]
  <1>1. w = [c \in 1 .. ErrorCopies |-> w[c]]
    OBVIOUS
  <1>2. Votes(R, n, U) = FoldLeft(Count, NoVotes, w)
    BY DEF Votes, NoVotes
  <1> HIDE DEF w
  <1>3. \E a : /\ Counts(a, w, ErrorCopies)
               /\ FoldLeft(Count, NoVotes, [c \in 1 .. ErrorCopies |-> w[c]]) = a[ErrorCopies]
    BY ErrorRingAssumption, FoldCounts
  <1>4. PICK a : /\ Counts(a, w, ErrorCopies)
                 /\ FoldLeft(Count, NoVotes, [c \in 1 .. ErrorCopies |-> w[c]]) = a[ErrorCopies]
    BY <1>3
  <1>5. Votes(R, n, U) = a[ErrorCopies]
    BY <1>1, <1>2, <1>4
  <1> QED  BY <1>4, <1>5 DEF w

\* After k words x is the candidate, and f words in the lead.
Leads(a, k, x, f) == \E g \in Int : a[k] = [code |-> x, freq |-> f, wrong |-> g]

\* One round of the vote.
LEMMA CountSteps ==
  ASSUME NEW a, NEW w, NEW n \in Nat, Counts(a, w, n),
         NEW k \in 0 .. n - 1, w[k + 1] # NOTHING, NEW x, NEW f \in Nat, Leads(a, k, x, f)
  PROVE  IF w[k + 1] = x THEN Leads(a, k + 1, x, f + 1)
         ELSE IF f = 0 THEN Leads(a, k + 1, w[k + 1], 0) ELSE Leads(a, k + 1, x, f - 1)
  <1>1. PICK g \in Int : a[k] = [code |-> x, freq |-> f, wrong |-> g]
    BY DEF Leads
  <1> DEFINE v == [code |-> x, freq |-> f, wrong |-> g]
             y == w[k + 1]
  <1>2. a[k + 1] = Count(v, y) /\ y # NOTHING
    BY <1>1 DEF Counts
  <1> HIDE DEF y
  <1>3. CASE y = x
    <2>1. Count(v, y) = [code |-> x, freq |-> f + 1, wrong |-> g]
      BY <1>2, <1>3 DEF Count
    <2> QED  BY <1>2, <1>3, <2>1 DEF Leads, y
  <1>4. CASE y # x /\ f = 0
    <2>1. Count(v, y) = [code |-> y, freq |-> 0, wrong |-> g + 1] /\ g + 1 \in Int
      BY <1>2, <1>4 DEF Count
    <2> QED  BY <1>2, <1>4, <2>1 DEF Leads, y
  <1>5. CASE y # x /\ f # 0
    <2>0. v.code = x /\ v.freq = f
      OBVIOUS
    <2>1. [v EXCEPT !.freq = @ - 1, !.wrong = @ + 1]
            = [code |-> x, freq |-> f - 1, wrong |-> g + 1] /\ g + 1 \in Int
      <3>1. v \in [code : {x}, freq : Nat, wrong : Int]
        OBVIOUS
      <3> DEFINE e == [v EXCEPT !.freq = @ - 1, !.wrong = @ + 1]
      <3>2. DOMAIN e = {"code", "freq", "wrong"} /\ e.code = x /\ e.freq = f - 1 /\ e.wrong = g + 1
        BY <3>1
      <3>3. e = [z \in DOMAIN e |-> e[z]]
        OBVIOUS
      <3> HIDE DEF e
      <3>4. e = [code |-> x, freq |-> f - 1, wrong |-> g + 1]
        BY <3>2, <3>3
      <3> QED  BY <3>4 DEF e
    <2>2. Count(v, y) = [v EXCEPT !.freq = @ - 1, !.wrong = @ + 1]
      <3> HIDE DEF v
      <3> QED  BY <1>2, <1>5, <2>0 DEF Count
    <2>3. a[k + 1] = [code |-> x, freq |-> f - 1, wrong |-> g + 1]
      BY <1>2, <2>1, <2>2
    <2> QED  BY <1>5, <2>1, <2>3 DEF Leads, y
  <1> QED  BY <1>3, <1>4, <1>5

\* A copy that cannot be read changes nothing.
LEMMA PassedOver ==
  ASSUME NEW a, NEW w, NEW n \in Nat, Counts(a, w, n), NEW k \in 0 .. n - 1, w[k + 1] = NOTHING
  PROVE  a[k + 1] = a[k]
  BY DEF Counts, Count

\* The elected word is one that some copy showed.
LEMMA ElectedIsShown ==
  ASSUME NEW R, NEW n, NEW U, \E c \in 1 .. ErrorCopies : c \notin U,
         \A c \in 1 .. ErrorCopies : Shows(R, c, n) # NOTHING
  PROVE  \E c \in 1 .. ErrorCopies : Votes(R, n, U).code = Shows(R, c, n)
  <1> DEFINE w == [c \in 1 .. ErrorCopies |-> Heard(R, c, n, U)]
  <1>1. PICK a : Counts(a, w, ErrorCopies) /\ Votes(R, n, U) = a[ErrorCopies]
    BY VotesAreCounts
  <1>0. \A c \in 1 .. ErrorCopies : w[c] = IF c \in U THEN NOTHING ELSE Shows(R, c, n)
    BY DEF Heard
  <1> HIDE DEF w
  <1> DEFINE S == {k \in 0 .. ErrorCopies :
                     \/ (\A c \in 1 .. k : c \in U) /\ Leads(a, k, NOTHING, 0)
                     \/ \E c \in 1 .. k, f \in Nat : c \notin U /\ Leads(a, k, w[c], f)}
  <1>2. ErrorCopies \in Nat \ {0}
    BY ErrorRingAssumption
  <1>3. 0 \in S
    BY <1>1, <1>2 DEF Counts, NoVotes, Leads
  <1>4. ASSUME NEW k \in 0 .. ErrorCopies - 1, k \in S  PROVE k + 1 \in S
    <2>1. k + 1 \in 0 .. ErrorCopies /\ k + 1 \in 1 .. k + 1 /\ 1 .. k \subseteq 1 .. k + 1
          /\ 1 .. k + 1 = (1 .. k) \cup {k + 1} /\ k + 1 \in 1 .. ErrorCopies
      BY <1>2
    <2>2. CASE k + 1 \in U
      <3>1. a[k + 1] = a[k]
        BY <1>0, <1>1, <1>2, <2>1, <2>2, PassedOver
      <3>2. \A x, f : Leads(a, k, x, f) => Leads(a, k + 1, x, f)
        BY <3>1 DEF Leads
      <3> QED  BY <1>4, <2>1, <2>2, <3>2
    <2>3. CASE k + 1 \notin U /\ Leads(a, k, NOTHING, 0)
      <3>1. w[k + 1] # NOTHING
        BY <1>0, <2>1, <2>3
      <3>2. Leads(a, k + 1, w[k + 1], 0)
        BY <1>1, <1>2, <2>3, <3>1, CountSteps
      <3> QED  BY <2>1, <2>3, <3>2
    <2>4. ASSUME k + 1 \notin U, NEW c \in 1 .. k, c \notin U, NEW f \in Nat, Leads(a, k, w[c], f)
          PROVE  k + 1 \in S
      <3>0. w[k + 1] # NOTHING
        BY <1>0, <2>1, <2>4
      <3>1. \/ Leads(a, k + 1, w[c], f + 1)
            \/ Leads(a, k + 1, w[k + 1], 0)
            \/ f # 0 /\ Leads(a, k + 1, w[c], f - 1)
        BY <1>1, <1>2, <2>4, <3>0, CountSteps
      <3>2. f + 1 \in Nat /\ (f # 0 => f - 1 \in Nat) /\ c \in 1 .. k + 1
        BY <2>1
      <3> QED  BY <2>1, <2>4, <3>1, <3>2
    <2> QED  BY <1>4, <2>2, <2>3, <2>4
  <1>5. ErrorCopies \in S
    <2> HIDE DEF S
    <2> QED  BY <1>2, <1>3, <1>4, Onward
  <1>6. PICK c \in 1 .. ErrorCopies : c \notin U /\ a[ErrorCopies].code = w[c]
    <2>1. PICK c \in 1 .. ErrorCopies, f \in Nat : c \notin U /\ Leads(a, ErrorCopies, w[c], f)
      BY <1>2, <1>5
    <2> QED  BY <2>1 DEF Leads
  <1> QED  BY <1>0, <1>1, <1>6

(* Three copies or more, all of which are read and at most one of which is *)
(* damaged: the others are elected, wherever the damaged one stands.       *)
LEMMA FirmIsElected ==
  ASSUME ErrorCopies >= 3, NEW R, NEW n, NEW v \in ErrorWords, Firm(R, n, v)
  PROVE  Votes(R, n, {}).code = v
  <1> DEFINE w == [c \in 1 .. ErrorCopies |-> Heard(R, c, n, {})]
  <1>1. PICK a : Counts(a, w, ErrorCopies) /\ Votes(R, n, {}) = a[ErrorCopies]
    BY VotesAreCounts
  <1>2. PICK d \in Nat : \A c \in 1 .. ErrorCopies : w[c] = IF c = d THEN DAMAGED ELSE v
    BY DEF Firm, Heard
  <1> HIDE DEF w
  <1>3. ErrorCopies \in Nat /\ v # NOTHING /\ v # DAMAGED /\ NOTHING # DAMAGED
    BY ErrorRingAssumption DEF ErrorWords
  <1> DEFINE S == {k \in 0 .. ErrorCopies :
                     \/ k = 0
                     \/ d > k /\ Leads(a, k, v, k - 1)
                     \/ d = 0 /\ Leads(a, k, v, k - 1)
                     \/ d <= k /\ d # 0 /\ \E f \in Nat : Leads(a, k, v, f)
                     \/ d = k /\ k \in {1, 2} /\ Leads(a, k, DAMAGED, 0)}
  <1>4. ASSUME NEW k \in 0 .. ErrorCopies - 1, NEW x, NEW f \in Nat, Leads(a, k, x, f)
        PROVE  IF w[k + 1] = x THEN Leads(a, k + 1, x, f + 1)
               ELSE IF f = 0 THEN Leads(a, k + 1, w[k + 1], 0) ELSE Leads(a, k + 1, x, f - 1)
    <2>1. k + 1 \in 1 .. ErrorCopies
      BY <1>3
    <2>2. w[k + 1] # NOTHING
      BY <1>2, <1>3, <2>1
    <2> QED  BY <1>1, <1>3, <1>4, <2>2, CountSteps
  <1>5. ASSUME NEW k \in 0 .. ErrorCopies - 1, k \in S  PROVE k + 1 \in S
    <2>0. /\ k + 1 \in 0 .. ErrorCopies /\ k \in Nat /\ (k + 1) - 1 = k
          /\ w[k + 1] = IF k + 1 = d THEN DAMAGED ELSE v
      BY <1>2, <1>3
    <2>1. CASE k = 0
      <3>0. a[0] = NoVotes
        BY <1>1 DEF Counts
      <3>1. Leads(a, k, NOTHING, 0)
        BY <2>1, <3>0 DEF NoVotes, Leads
      <3>2. Leads(a, k + 1, w[k + 1], 0)
        BY <1>3, <1>4, <2>0, <3>1
      <3> QED  BY <2>0, <2>1, <3>2
    <2>2. CASE k # 0 /\ (d > k \/ d = 0) /\ Leads(a, k, v, k - 1)
      <3>1. k - 1 \in Nat /\ (k - 1) + 1 = k /\ (k - 1 = 0 => k = 1)
        BY <2>0, <2>2
      <3>2. IF w[k + 1] = v THEN Leads(a, k + 1, v, k)
            ELSE IF k - 1 = 0 THEN Leads(a, k + 1, w[k + 1], 0) ELSE Leads(a, k + 1, v, (k - 1) - 1)
        BY <1>4, <2>2, <3>1
      <3>3. CASE k + 1 # d
        <4>1. Leads(a, k + 1, v, k) /\ (d > k + 1 \/ d = 0)
          BY <2>0, <2>2, <3>2, <3>3
        <4> QED  BY <2>0, <4>1
      <3>4. CASE k + 1 = d /\ k = 1
        BY <1>3, <2>0, <3>1, <3>2, <3>4
      <3>5. CASE k + 1 = d /\ k # 1
        <4>1. Leads(a, k + 1, v, (k - 1) - 1) /\ (k - 1) - 1 \in Nat
          BY <1>3, <2>0, <3>1, <3>2, <3>5
        <4> QED  BY <2>0, <3>5, <4>1
      <3> QED  BY <3>3, <3>4, <3>5
    <2>3. CASE k # 0 /\ d <= k /\ d # 0 /\ \E f \in Nat : Leads(a, k, v, f)
      <3>1. PICK f \in Nat : Leads(a, k, v, f)
        BY <2>3
      <3>2. w[k + 1] = v
        BY <2>0, <2>3
      <3>3. Leads(a, k + 1, v, f + 1) /\ f + 1 \in Nat
        BY <1>4, <3>1, <3>2
      <3> QED  BY <2>0, <2>3, <3>3
    <2>4. CASE d = k /\ k \in {1, 2} /\ Leads(a, k, DAMAGED, 0)
      <3>1. w[k + 1] = v
        BY <2>0, <2>4
      <3>2. Leads(a, k + 1, v, 0)
        BY <1>3, <1>4, <2>4, <3>1
      <3> QED  BY <2>0, <2>4, <3>2
    <2> QED  BY <1>5, <2>1, <2>2, <2>3, <2>4
  <1>6. ErrorCopies \in S
    <2>1. 0 \in S
      BY <1>3
    <2> HIDE DEF S
    <2> QED  BY <1>3, <1>5, <2>1, Onward
  <1>7. \E f \in Int : Leads(a, ErrorCopies, v, f)
    <2>1. ErrorCopies - 1 \in Int
      BY <1>3
    <2> QED  BY <1>3, <1>6, <2>1
  <1> QED  BY <1>1, <1>7 DEF Leads

\* Remainders of numbers that are off by no more than the modulus.
LEMMA Wrapped ==
  ASSUME NEW m \in Nat \ {0}, NEW x \in Int
  PROVE  /\ 0 <= x /\ x < m => x % m = x
         /\ m <= x /\ x < 2 * m => x % m = x - m
         /\ 0 - m <= x /\ x < 0 => x % m = x + m
  OBVIOUS

After(n)  == IF n + 1 < Ring THEN n + 1 ELSE 1

\* The entries of the errors that wait, without remainders.
LEMMA RingPlaces ==
  ASSUME NEW E, InRing(E)
  PROVE  /\ Waiting(E) = IF E.first <= E.last THEN E.last - E.first
                         ELSE E.last - E.first + Ring - 1
         /\ \A k \in 1 .. Ring - 1 :
              Slot(E, k) = IF E.first + k <= Ring THEN E.first + k - 1 ELSE E.first + k - Ring
  <1> DEFINE f == E.first
             l == E.last
             m == Ring - 1
             place(k) == f + k - 2
  <1>0. Ring \in Nat /\ Ring > 2 /\ f \in 1 .. m /\ l \in 1 .. m /\ m \in Nat \ {0}
    BY ErrorRingAssumption DEF InRing
  <1>1. Waiting(E) = (l - f) % m /\ \A k : Slot(E, k) = (place(k) % m) + 1
    BY DEF Waiting, Slot
  <1>2. m = Ring - 1
    OBVIOUS
  <1> HIDE DEF f, l, m, place
  <1>3. (l - f) % m = IF f <= l THEN l - f ELSE l - f + m
    <2>1. l - f \in Int /\ 0 - m <= l - f /\ l - f < m
      BY <1>0
    <2>2. /\ 0 <= l - f /\ l - f < m => (l - f) % m = l - f
          /\ 0 - m <= l - f /\ l - f < 0 => (l - f) % m = l - f + m
      BY <1>0, <2>1, Wrapped
    <2>3. f <= l => 0 <= l - f
      BY <1>0
    <2>4. ~(f <= l) => l - f < 0
      BY <1>0
    <2> QED  BY <2>1, <2>2, <2>3, <2>4
  <1>4. ASSUME NEW k \in 1 .. m
        PROVE  place(k) % m = IF f + k - 2 < m THEN f + k - 2 ELSE f + k - 2 - m
    <2>0. place(k) = f + k - 2
      BY DEF place
    <2> DEFINE z == place(k)
    <2>1. z \in Int /\ 0 <= z /\ z < 2 * m /\ z = f + k - 2
      BY <1>0, <2>0
    <2> HIDE DEF z
    <2>2. /\ 0 <= z /\ z < m => z % m = z
          /\ m <= z /\ z < 2 * m => z % m = z - m
      BY <1>0, <2>1, Wrapped
    <2>3. z % m = IF z < m THEN z ELSE z - m
      BY <1>0, <2>1, <2>2
    <2>4. f + k - 2 < m <=> z < m
      BY <2>1
    <2> QED  BY <1>0, <2>1, <2>3, <2>4 DEF z
  <1>5. \A k \in 1 .. Ring - 1 :
          Slot(E, k) = IF f + k <= Ring THEN f + k - 1 ELSE f + k - Ring
    <2> TAKE k \in 1 .. Ring - 1
    <2>1. k \in 1 .. m
      BY <1>2
    <2>2. Slot(E, k) = (IF f + k - 2 < m THEN f + k - 2 ELSE f + k - 2 - m) + 1
      BY <1>1, <1>4, <2>1
    <2> QED  BY <1>0, <1>2, <2>2
  <1>6. Waiting(E) = IF f <= l THEN l - f ELSE l - f + Ring - 1
    BY <1>0, <1>1, <1>2, <1>3
  <1> QED  BY <1>5, <1>6 DEF f, l

\* Where a new error goes, no other one waits, and the others keep their turn.
LEMMA PutSlots ==
  ASSUME NEW E, InRing(E), E.current = E.last, NEW n, n = Waiting(E),
         NEW F, F.current = F.last, F.last = After(E.last),
         F.first = IF F.last = E.first THEN After(E.first) ELSE E.first
  PROVE  /\ InRing(F) /\ F.current = F.last /\ n \in 0 .. Ring - 2
         /\ \A k \in 1 .. n : Slot(E, k) # E.last
         /\ n < Ring - 2 => /\ Waiting(F) = n + 1 /\ Slot(F, n + 1) = E.last
                            /\ \A k \in 1 .. n : Slot(F, k) = Slot(E, k)
         /\ n = Ring - 2 => /\ Waiting(F) = n /\ Slot(F, n) = E.last
                            /\ \A k \in 1 .. n - 1 : Slot(F, k) = Slot(E, k + 1)
  <1> DEFINE f == E.first
             l == E.last
             x == F.first
             y == F.last
  <1>1. Ring \in Nat /\ Ring > 2 /\ f \in 1 .. Ring - 1 /\ l \in 1 .. Ring - 1
    BY ErrorRingAssumption DEF InRing
  <1>2. /\ l + 1 < Ring => y = l + 1
        /\ ~(l + 1 < Ring) => y = 1
        /\ y = f /\ f + 1 < Ring => x = f + 1
        /\ y = f /\ ~(f + 1 < Ring) => x = 1
        /\ y # f => x = f
        /\ F.current = F.last
    BY DEF After
  <1>3. n = IF f <= l THEN l - f ELSE l - f + Ring - 1
    BY RingPlaces
  <1>4. \A k \in 1 .. Ring - 1 : Slot(E, k) = IF f + k <= Ring THEN f + k - 1 ELSE f + k - Ring
    BY RingPlaces
  <1>5. x \in 1 .. Ring - 1 /\ y \in 1 .. Ring - 1
    <2> HIDE DEF f, l, x, y
    <2>1. y \in 1 .. Ring - 1
      BY <1>1, <1>2
    <2> QED  BY <1>1, <1>2, <2>1
  <1>6. InRing(F)
    BY <1>5 DEF InRing
  <1>7. Waiting(F) = IF x <= y THEN y - x ELSE y - x + Ring - 1
    BY <1>6, RingPlaces
  <1>8. \A k \in 1 .. Ring - 1 : Slot(F, k) = IF x + k <= Ring THEN x + k - 1 ELSE x + k - Ring
    BY <1>6, RingPlaces
  <1> HIDE DEF f, l, x, y
  <1>9. n \in 0 .. Ring - 2 /\ (n = Ring - 2 <=> y = f)
    BY <1>1, <1>2, <1>3
  <1>10. \A k \in 1 .. n : Slot(E, k) # l
    BY <1>1, <1>3, <1>4, <1>9
  <1>11. CASE n < Ring - 2
    <2>1. Waiting(F) = n + 1
      BY <1>1, <1>2, <1>3, <1>7, <1>5, <1>9, <1>11
    <2>2. Slot(F, n + 1) = l
      BY <1>1, <1>2, <1>3, <1>8, <1>5, <1>9, <1>11
    <2>3. \A k \in 1 .. n : Slot(F, k) = Slot(E, k)
      <3>1. x = f
        BY <1>2, <1>9, <1>11, <1>1
      <3>2. 1 .. n \subseteq 1 .. Ring - 1
        BY <1>1, <1>9
      <3> QED  BY <1>4, <1>8, <3>1, <3>2
    <2> QED  BY <1>2, <1>6, <1>9, <1>10, <1>11, <2>1, <2>2, <2>3 DEF l, y
  <1>12. CASE n = Ring - 2
    <2>1. Waiting(F) = n
      BY <1>1, <1>2, <1>7, <1>5, <1>9, <1>12
    <2>2. Slot(F, n) = l
      BY <1>1, <1>2, <1>8, <1>5, <1>9, <1>12
    <2>3. \A k \in 1 .. n - 1 : Slot(F, k) = Slot(E, k + 1)
      BY <1>1, <1>2, <1>4, <1>8, <1>5, <1>9, <1>12
    <2> QED  BY <1>2, <1>6, <1>9, <1>10, <1>12, <2>1, <2>2, <2>3 DEF l, y
  <1> QED  BY <1>1, <1>9, <1>11, <1>12

\* The oldest error leaves, the others move up.
LEMMA TakeSlots ==
  ASSUME NEW E, InRing(E), E.first # E.last, NEW n, n = Waiting(E),
         NEW F, F.last = E.last, F.first = After(E.first)
  PROVE  /\ InRing(F) /\ n \in 1 .. Ring - 2 /\ Waiting(F) = n - 1
         /\ Slot(E, 1) = E.first
         /\ \A k \in 1 .. n - 1 : Slot(F, k) = Slot(E, k + 1) /\ Slot(E, k + 1) # E.first
  <1> DEFINE f == E.first
             l == E.last
             x == F.first
  <1>1. Ring \in Nat /\ Ring > 2 /\ f \in 1 .. Ring - 1 /\ l \in 1 .. Ring - 1
    BY ErrorRingAssumption DEF InRing
  <1>2. (f + 1 < Ring => x = f + 1) /\ (~(f + 1 < Ring) => x = 1)
    BY DEF After
  <1>3. n = IF f <= l THEN l - f ELSE l - f + Ring - 1
    BY RingPlaces
  <1>4. \A k \in 1 .. Ring - 1 : Slot(E, k) = IF f + k <= Ring THEN f + k - 1 ELSE f + k - Ring
    BY RingPlaces
  <1>5. x \in 1 .. Ring - 1
    <2> HIDE DEF f, l, x
    <2> QED  BY <1>1, <1>2
  <1>6. InRing(F)
    BY <1>1, <1>5 DEF InRing
  <1>7. Waiting(F) = IF x <= l THEN l - x ELSE l - x + Ring - 1
    BY <1>6, RingPlaces
  <1>8. \A k \in 1 .. Ring - 1 : Slot(F, k) = IF x + k <= Ring THEN x + k - 1 ELSE x + k - Ring
    BY <1>6, RingPlaces
  <1>9. f # l
    OBVIOUS
  <1> HIDE DEF f, l, x
  <1>10. n \in 1 .. Ring - 2 /\ Waiting(F) = n - 1
    BY <1>1, <1>2, <1>3, <1>7, <1>9
  <1>11. Slot(E, 1) = f
    BY <1>1, <1>4
  <1>12. \A k \in 1 .. n - 1 : Slot(F, k) = Slot(E, k + 1) /\ Slot(E, k + 1) # f
    <2> TAKE k \in 1 .. n - 1
    <2>1. k \in 1 .. Ring - 1 /\ k + 1 \in 1 .. Ring - 1 /\ k \in 1 .. Ring - 3
      BY <1>1, <1>10
    <2>2. Slot(E, k + 1) = IF f + (k + 1) <= Ring THEN f + (k + 1) - 1 ELSE f + (k + 1) - Ring
      BY <1>4, <2>1
    <2>3. Slot(F, k) = IF x + k <= Ring THEN x + k - 1 ELSE x + k - Ring
      BY <1>8, <2>1
    <2> QED  BY <1>1, <1>2, <1>5, <2>1, <2>2, <2>3
  <1> QED  BY <1>6, <1>10, <1>11, <1>12 DEF f

LEMMA Kinds ==
  /\ \A n \in Nat : Kind(n) \subseteq Entries /\ NOTHING \notin Kind(n)
  /\ \A n \in Nat \ {0} : Kind(n) = ErrorWords \cup {DAMAGED}
  /\ Kind(0) = Info \cup {DAMAGED}
  /\ Codes \subseteq ErrorWords /\ NO_ERROR \in ErrorWords
  /\ \A v \in ErrorWords : v # DAMAGED /\ v # NOTHING
  BY ErrorRingAssumption DEF Kind, Entries, ErrorWords

\* A write changes one entry, and in the copies it reaches to the word written.
LEMMA WriteKeeps ==
  ASSUME NEW R, Typed(R), NEW n \in Nat, NEW v \in Kind(n), NEW F
  PROVE  /\ Typed(Write(R, n, v, F))
         /\ \A c \in Copies, s \in Nat : s # n => Shows(Write(R, n, v, F), c, s) = Shows(R, c, s)
         /\ \A c \in Copies : n < Stored /\ c \notin F => Shows(Write(R, n, v, F), c, n) = v
  <1> DEFINE W == Write(R, n, v, F)
  <1>0. Stored \in Nat \ {0} /\ v \in Entries
    BY ErrorRingAssumption, Kinds
  <1>1. R \in [Copies -> [0 .. Stored - 1 -> Entries]]
        /\ \A c \in Copies, s \in 0 .. Stored - 1 : R[c][s] \in Kind(s)
    BY DEF Typed
  <1>2. W = [c \in Copies |-> IF n < Stored /\ c \notin F THEN [R[c] EXCEPT ![n] = v] ELSE R[c]]
    BY <1>1 DEF Write
  <1>3. ASSUME NEW c \in Copies
        PROVE  /\ W[c] \in [0 .. Stored - 1 -> Entries]
               /\ \A s \in 0 .. Stored - 1 :
                    W[c][s] = IF n < Stored /\ c \notin F /\ s = n THEN v ELSE R[c][s]
    <2>1. W[c] = IF n < Stored /\ c \notin F THEN [R[c] EXCEPT ![n] = v] ELSE R[c]
      BY <1>2
    <2>2. R[c] \in [0 .. Stored - 1 -> Entries]
      BY <1>1
    <2> QED  BY <1>0, <2>1, <2>2
  <1>4. DOMAIN W = Copies /\ W = [c \in Copies |-> W[c]]
    BY <1>2
  <1> HIDE DEF W
  <1>5. W \in [Copies -> [0 .. Stored - 1 -> Entries]]
    BY <1>3, <1>4
  <1>6. Typed(W)
    BY <1>1, <1>3, <1>5 DEF Typed
  <1>7. ASSUME NEW c \in Copies, NEW s \in Nat, s # n  PROVE Shows(W, c, s) = Shows(R, c, s)
    BY <1>0, <1>3, <1>7 DEF Shows
  <1>8. ASSUME NEW c \in Copies, n < Stored, c \notin F  PROVE Shows(W, c, n) = v
    BY <1>0, <1>3, <1>8 DEF Shows
  <1> QED  BY <1>6, <1>7, <1>8 DEF W

\* What stands in an entry does not depend on the others.
LEMMA FirmFrame ==
  ASSUME world.errors, NEW R, NEW W, NEW n,
         \A c \in Copies : Shows(W, c, n) = Shows(R, c, n), NEW v, Firm(R, n, v)
  PROVE  Firm(W, n, v)
  BY DEF Firm, Copies

LEMMA ShowsKind ==
  ASSUME NEW R, Typed(R), NEW n \in Nat, NEW c \in Copies
  PROVE  Shows(R, c, n) \in Kind(n)
  <1>0. Stored \in Nat \ {0}
    BY ErrorRingAssumption
  <1>1. CASE n < Stored
    <2>1. n \in 0 .. Stored - 1
      BY <1>0, <1>1
    <2> QED  BY <1>1, <2>1 DEF Typed, Shows
  <1>2. CASE ~(n < Stored)
    <2>1. n # 0 /\ Shows(R, c, n) = NO_ERROR
      BY <1>0, <1>2 DEF Shows
    <2> QED  BY <2>1, Kinds
  <1> QED  BY <1>1, <1>2

(* A read of some copies elects a word of the entry's kind, and touches no *)
(* other entry.  It finds a firm one, unless some copies cannot be read:   *)
(* then it may elect the damaged word.                                     *)
LEMMA ReadKeeps ==
  ASSUME world.errors, NEW R, Typed(R), NEW n \in Nat,
         NEW U \in SUBSET Copies, U # Copies, NEW F
  PROVE  /\ Read(R, n, U, F).code \in Kind(n) /\ Typed(Read(R, n, U, F).ring)
         /\ \A c \in Copies, s \in Nat :
              s # n => Shows(Read(R, n, U, F).ring, c, s) = Shows(R, c, s)
         /\ \A v \in ErrorWords :
              ErrorCopies >= 3 /\ Firm(R, n, v) /\ Read(R, n, U, F).code # v
                => /\ U # {} /\ Read(R, n, U, F).code = DAMAGED
                   /\ \E c, d \in Copies : Shows(R, c, n) # Shows(R, d, n)
  <1> DEFINE u == Votes(R, n, U)
  <1>1. Read(R, n, U, F).code = u.code
        /\ Read(R, n, U, F).ring = IF u.wrong > 0 THEN Write(R, n, u.code, F) ELSE R
    BY DEF Read
  <1>2. PICK c \in Copies : u.code = Shows(R, c, n)
    <2>1. Copies = 1 .. ErrorCopies
      BY DEF Copies
    <2>2. \A e \in 1 .. ErrorCopies : Shows(R, e, n) # NOTHING
      BY <2>1, ShowsKind, Kinds
    <2> QED  BY <2>1, <2>2, ElectedIsShown
  <1>3. u.code \in Kind(n)
    BY <1>2, ShowsKind
  <1>4. ASSUME NEW v \in ErrorWords, ErrorCopies >= 3, Firm(R, n, v), u.code # v
        PROVE  U # {} /\ u.code = DAMAGED /\ \E e, d \in Copies : Shows(R, e, n) # Shows(R, d, n)
    <2>1. U # {}
      BY <1>4, FirmIsElected
    <2>2. PICK d \in Nat : \A e \in Copies : Shows(R, e, n) = IF e = d THEN DAMAGED ELSE v
      BY <1>4 DEF Firm, Copies
    <2>3. c = d /\ Shows(R, c, n) = DAMAGED
      BY <1>2, <1>4, <2>2
    <2>4. PICK e \in Copies : e # d
      <3>1. 1 \in 1 .. ErrorCopies /\ 2 \in 1 .. ErrorCopies
        BY <1>4, ErrorRingAssumption
      <3> QED  BY <3>1 DEF Copies
    <2>5. Shows(R, e, n) = v /\ v # DAMAGED
      BY <2>2, <2>4, Kinds
    <2> QED  BY <1>2, <2>1, <2>3, <2>5
  <1> HIDE DEF u
  <1>5. CASE u.wrong > 0
    BY <1>1, <1>3, <1>4, <1>5, WriteKeeps
  <1>6. CASE ~(u.wrong > 0)
    BY <1>1, <1>3, <1>4, <1>6
  <1> QED  BY <1>5, <1>6

\* More than half of three or more copies show what an entry holds.
LEMMA FirmAgreed ==
  ErrorCopies >= 3 /\ world.errors =>
    \A n \in Nat, u \in ErrorWords : Firm(ring, n, u) => Agreed(n) = u
  <1> SUFFICES ASSUME ErrorCopies >= 3, world.errors, NEW n \in Nat, NEW u \in ErrorWords,
                      Firm(ring, n, u)
               PROVE  Agreed(n) = u
    OBVIOUS
  <1>0. ErrorCopies \in Nat /\ Stored \in Nat /\ Copies = 1 .. ErrorCopies
    BY ErrorRingAssumption DEF Copies
  <1>1. PICK d \in Nat : \A c \in 1 .. ErrorCopies :
                           Shows(ring, c, n) = IF c = d THEN DAMAGED ELSE u
    BY DEF Firm
  <1>2. CASE n >= Stored
    <2>1. \E c \in 1 .. ErrorCopies : c # d
      <3>1. 1 \in 1 .. ErrorCopies /\ 2 \in 1 .. ErrorCopies
        BY <1>0
      <3> QED  BY <3>1
    <2>2. u = NO_ERROR
      BY <1>0, <1>1, <1>2, <2>1 DEF Shows
    <2> QED  BY <1>2, <2>2 DEF Agreed
  <1>3. CASE ~(n >= Stored)
    <2> DEFINE C(v) == {c \in Copies : ring[c][n] = v}
               M == {v \in ErrorWords : 2 * Cardinality(C(v)) > ErrorCopies}
    <2>1. \A c \in 1 .. ErrorCopies : ring[c][n] = IF c = d THEN DAMAGED ELSE u
      BY <1>0, <1>1, <1>3 DEF Shows
    <2>2. ASSUME NEW v \in ErrorWords, v # u  PROVE v \notin M
      <3>1. v # DAMAGED
        BY Kinds
      <3>2. C(v) = {}
        BY <1>0, <2>1, <2>2, <3>1
      <3>3. Cardinality(C(v)) = 0
        BY <3>2, FS_EmptySet
      <3> QED  BY <1>0, <3>3
    <2>3. u \in M
      <3>1. u # DAMAGED
        BY Kinds
      <3>2. C(u) = (1 .. ErrorCopies) \ {d}
        BY <1>0, <2>1, <3>1
      <3>3. IsFiniteSet(1 .. ErrorCopies) /\ Cardinality(1 .. ErrorCopies) = ErrorCopies
        BY <1>0, FS_Interval
      <3>4. Cardinality((1 .. ErrorCopies) \ {d}) \in {ErrorCopies, ErrorCopies - 1}
        <4>1. CASE d \in 1 .. ErrorCopies
          BY <3>3, <4>1, FS_RemoveElement
        <4>2. CASE d \notin 1 .. ErrorCopies
          <5>1. (1 .. ErrorCopies) \ {d} = 1 .. ErrorCopies
            BY <4>2
          <5> QED  BY <3>3, <5>1
        <4> QED  BY <4>1, <4>2
      <3>5. \A k \in {ErrorCopies, ErrorCopies - 1} : 2 * k > ErrorCopies
        BY <1>0
      <3> QED  BY <3>2, <3>4, <3>5
    <2>4. Agreed(n) = IF M = {} THEN DAMAGED ELSE CHOOSE v \in M : TRUE
      BY <1>0, <1>3 DEF Agreed, ErrorWords
    <2> HIDE DEF M
    <2>5. M = {u}
      BY <2>2, <2>3 DEF M
    <2> QED  BY <2>4, <2>5
  <1> QED  BY <1>2, <1>3

LEMMA NextInRing ==
  ASSUME NEW n \in 1 .. Ring, NEW b
  PROVE  NextIndex(n, b) \in 1 .. Ring
  <1>0. Ring \in Nat /\ Ring > 2
    BY ErrorRingAssumption
  <1>1. (n + 1 < Ring => n + 1 \in 1 .. Ring) /\ 1 \in 1 .. Ring
    BY <1>0
  <1>2. (NextIndex(n, b) = n + 1 /\ n + 1 < Ring) \/ NextIndex(n, b) = 1
    BY DEF NextIndex
  <1> QED  BY <1>1, <1>2

LEMMA InfoKept ==
  ASSUME NEW E \in Indices
  PROVE  Packed(E) \in Info /\ \A b : Registered(E, b) \in Indices
  <1>0. Ring \in Nat
    BY ErrorRingAssumption
  <1>1. E.first \in 1 .. Ring /\ E.current \in 1 .. Ring /\ E.last \in 1 .. Ring
    BY DEF Indices
  <1>2. Packed(E) \in Info
    BY <1>0, <1>1 DEF Packed, Info
  <1>3. ASSUME NEW b  PROVE Registered(E, b) \in Indices
    <2>1. NextIndex(E.first, b) \in 1 .. Ring /\ NextIndex(E.current, b) \in 1 .. Ring
      BY <1>1, NextInRing
    <2> QED  BY <1>1, <2>1 DEF Registered, Indices
  <1> QED  BY <1>2, <1>3

\* Registering an error keeps the types.
LEMMA RegisterTypes ==
  ASSUME RingTypes, NEW code \in Codes, NEW F, NEW G, Register(code, F, G)
  PROVE  Typed(ring') /\ astray' \in Info /\ errs' \in Indices
  <1> DEFINE ok == Written(ring, errs.current, F, world.empty)
             E  == IF ok THEN Registered(errs, Known) ELSE errs
             A  == Write(ring, errs.current, code, F)
  <1>1. E \in Indices /\ Packed(E) \in Info
    BY InfoKept DEF RingTypes
  <1>2. errs.current \in Nat /\ code \in Kind(errs.current)
    <2>1. errs.current \in 1 .. Ring
      BY DEF RingTypes, Indices
    <2>2. errs.current \in Nat \ {0}
      BY <2>1, ErrorRingAssumption
    <2> QED  BY <2>2, Kinds
  <1>3. Typed(A)
    BY <1>2, WriteKeeps DEF RingTypes
  <1>4. Packed(E) \in Kind(0)
    BY <1>1, Kinds
  <1>5. Typed(Write(A, 0, Packed(E), G))
    BY <1>3, <1>4, WriteKeeps
  <1>6. /\ errs' = E
        /\ ring' \in {ring, A, Write(A, 0, Packed(E), G)}
        /\ astray' \in {astray, Packed(E)}
    BY DEF Register
  <1> HIDE DEF E, A
  <1> QED  BY <1>1, <1>3, <1>5, <1>6 DEF RingTypes

LEMMA TallyKept ==
  ASSUME BootTypes, NEW S, S = {} \/ faults < world.faults, Tally(S)
  PROVE  faults' \in 0 .. world.faults
  <1>0. world.faults \in Nat /\ faults \in 0 .. world.faults
    BY MountAssumption DEF BootTypes, World
  <1>1. faults' = faults \/ (faults < world.faults /\ faults' = faults + 1)
    BY DEF Tally
  <1> QED  BY <1>0, <1>1

LEMMA BootTypesStep ==
  BootTypes /\ [MountNext]_mountVars => BootTypes' /\ world' = world
  <1> SUFFICES ASSUME BootTypes, [MountNext]_mountVars  PROVE BootTypes' /\ world' = world
    OBVIOUS
  <1>0. /\ world.faults \in Nat /\ world.hits \in Nat /\ faults \in 0 .. world.faults
        /\ upsets \in 0 .. world.hits /\ Boots \in Nat \ {0} /\ bsnum \in 0 .. Boots
        /\ 0 \in 0 .. Boots
    BY MountAssumption DEF BootTypes, World
  <1>00. faults < world.faults => faults + 1 \in 0 .. world.faults
    BY <1>0
  <1>1. CASE Report
    <2>1. PICK F \in Failing, G \in Failing : (F = {} \/ G = {}) /\ Tally(F \cup G)
      BY <1>1 DEF Report
    <2>2. faults' \in 0 .. world.faults
      BY <2>1, TallyKept DEF Failing
    <2> QED  BY <1>1, <2>2 DEF Report, BootTypes
  <1>2. CASE NoErrors \/ NoneLeft
    BY <1>2 DEF NoErrors, NoneLeft, disk, ram, BootTypes
  <1>3. CASE Unreadable
    <2>1. faults' = faults \/ (faults < world.faults /\ faults' = faults + 1)
      BY <1>3 DEF Unreadable, FailingAt, Failing, Tally
    <2>2. faults' \in 0 .. world.faults
      BY <1>0, <1>00, <2>1
    <2> QED  BY <1>3, <2>2 DEF Unreadable, disk, ram, BootTypes
  <1>4. CASE GetLastError
    <2>1. PICK U \in FailingAt(errs.first), F \in FailingAt(errs.first), G \in Failing :
            Tally(U \cup F \cup G)
      BY <1>4 DEF GetLastError
    <2>2. U \cup F \cup G = {} \/ faults < world.faults
      BY DEF Failing, FailingAt
    <2>3. faults' \in 0 .. world.faults
      BY <2>1, <2>2, TallyKept
    <2> QED  BY <1>4, <2>3 DEF GetLastError, BootTypes
  <1>5. CASE Begin
    <2>1. bsnum' \in 0 .. Boots
      BY <1>0, <1>5 DEF Begin
    <2> QED  BY <1>5, <2>1 DEF Begin, disk, BootTypes
  <1>6. CASE SetupFails
    <2>1. faults' = faults \/ (faults < world.faults /\ faults' = faults + 1)
      BY <1>6 DEF SetupFails
    <2>2. faults' \in 0 .. world.faults
      BY <1>0, <1>00, <2>1
    <2> QED  BY <1>6, <2>2 DEF SetupFails, disk, ram, BootTypes
  <1>7. CASE Setup
    <2>1. PICK U \in Failing, F \in Failing : Tally(U \cup F)
      BY <1>7, SetupTallies
    <2>2. U \cup F = {} \/ faults < world.faults
      BY DEF Failing
    <2>3. faults' \in 0 .. world.faults
      BY <2>1, <2>2, TallyKept
    <2> QED  BY <1>7, <2>3 DEF Setup, BootTypes
  <1>8. CASE ReadFails
    <2>1. faults' \in 0 .. world.faults
      BY <1>00, <1>8 DEF ReadFails
    <2> QED  BY <1>8, <2>1 DEF ReadFails, BootTypes
  <1>9. CASE Reject
    <2>1. PICK F \in Failing, G \in Failing : (F = {} \/ G = {}) /\ Tally(F \cup G)
      BY <1>9 DEF Reject
    <2>2. faults' \in 0 .. world.faults
      BY <2>1, TallyKept DEF Failing
    <2>3. bsnum < Boots /\ bsnum' = bsnum + 1
      BY <1>9 DEF Reject, BootTypes
    <2>4. bsnum' \in 0 .. Boots
      BY <1>0, <2>3
    <2> QED  BY <1>9, <2>2, <2>4 DEF Reject, BootTypes
  <1>10. CASE Accept
    <2>1. PICK F \in SUBSET (0 .. Boots - 1) :
             /\ F = {} \/ (bsnum > 0 /\ faults < world.faults)
             /\ boot' = [n \in DOMAIN boot |-> IF bsnum > 0 /\ n \notin F THEN boot[bsnum] ELSE boot[n]]
             /\ Tally(F)
      BY <1>10 DEF Accept
    <2>2. faults' \in 0 .. world.faults
      BY <2>1, TallyKept
    <2>3. bsnum \in 0 .. Boots - 1
      <3>1. bsnum < Boots
        BY <1>10 DEF Accept, BootTypes
      <3> QED  BY <1>0, <3>1
    <2>4. boot' \in [0 .. Boots - 1 -> BootCopy]
      BY <2>1, <2>3 DEF BootTypes
    <2>5. fs' \in SUBSET (0 .. 7)
      BY <1>10, GetsByte DEF Accept, Bytes
    <2> QED  BY <1>10, <2>2, <2>4, <2>5 DEF Accept, BootTypes
  <1>11. CASE RepairBoots
    <2>1. PICK F \in SUBSET (0 .. Boots - 1) :
             /\ F = {} \/ faults < world.faults
             /\ boot' = [n \in DOMAIN boot |-> IF n \in F THEN boot[n] ELSE BootOf(fs)]
             /\ Tally(F)
      BY <1>11 DEF RepairBoots
    <2>2. faults' \in 0 .. world.faults
      BY <2>1, TallyKept
    <2>3. fs \in Bytes
      BY <1>11 DEF RepairBoots, Known, BootTypes, Bytes
    <2>4. SetByte(fs) \in Words /\ Sum(fs) \in Bytes
      BY <2>3, BytesCode
    <2>5. BootOf(fs) \in BootCopy
      BY <2>4, BytesCode DEF BootOf, BootCopy, Words
    <2>6. boot' \in [0 .. Boots - 1 -> BootCopy]
      BY <2>1, <2>5 DEF BootTypes
    <2> QED  BY <1>11, <2>2, <2>6 DEF RepairBoots, ram, BootTypes
  <1>12. CASE Upset
    <2>1. PICK n \in DOMAIN boot, w \in {"data", "sum"}, b \in Bits :
             boot' = [boot EXCEPT ![n][w] = Flip(@, b)]
      BY <1>12 DEF Upset
    <2>2. n \in 0 .. Boots - 1 /\ b \in 0 .. 14 /\ boot[n] \in BootCopy
      BY <2>1, MountAssumption DEF BootTypes
    <2>3. boot[n][w] \in SUBSET (0 .. 14)
      BY <2>1, <2>2 DEF BootCopy
    <2>4. Flip(boot[n][w], b) \in SUBSET (0 .. 14)
      BY <2>2, <2>3 DEF Flip
    <2>5. [boot[n] EXCEPT ![w] = Flip(boot[n][w], b)] \in BootCopy
      BY <2>1, <2>2, <2>4 DEF BootCopy
    <2>6. boot' = [boot EXCEPT ![n] = [boot[n] EXCEPT ![w] = Flip(boot[n][w], b)]]
      BY <2>1
    <2>7. boot' \in [0 .. Boots - 1 -> BootCopy]
      BY <2>2, <2>5, <2>6 DEF BootTypes
    <2>8. upsets' \in 0 .. world.hits
      BY <1>0, <1>12 DEF Upset
    <2> QED  BY <1>12, <2>7, <2>8 DEF Upset, ram, BootTypes
  <1>13. CASE Damage
    <2>1. faults' \in 0 .. world.faults
      BY <1>00, <1>13 DEF Damage
    <2> QED  BY <1>13, <2>1 DEF Damage, ram, BootTypes
  <1>14. CASE Restart
    <2>1. bsnum' \in 0 .. Boots
      BY <1>0, <1>14 DEF Restart
    <2> QED  BY <1>14, <2>1 DEF Restart, disk, BootTypes
  <1>15. CASE UNCHANGED mountVars
    BY <1>15 DEF mountVars, disk, ram, BootTypes
  <1> QED  BY <1>1, <1>2, <1>3, <1>4, <1>5, <1>6, <1>7, <1>8, <1>9, <1>10, <1>11, <1>12,
              <1>13, <1>14, <1>15 DEF MountNext, Work, Call

\* The indices read from entry 0 are inside the ring, or one behind it.
LEMMA LoadedTypes ==
  ASSUME NEW w \in Info
  PROVE  Loaded(w) \in Indices
  <1>0. Ring \in Nat /\ Ring > 2
    BY ErrorRingAssumption
  <1>1. w[1] \in 0 .. Ring /\ w[2] \in 0 .. Ring
    BY DEF Info
  <1>2. \A n \in 0 .. Ring : (IF n = 0 THEN 1 ELSE n) \in 1 .. Ring
    BY <1>0
  <1> QED  BY <1>1, <1>2 DEF Loaded, Indices

LEMMA TakenTypes ==
  ASSUME NEW E \in Indices, NEW b
  PROVE  [E EXCEPT !.first = NextIndex(@, b)] \in Indices
  <1>1. E.first \in 1 .. Ring
    BY DEF Indices
  <1>2. NextIndex(E.first, b) \in 1 .. Ring
    BY <1>1, NextInRing
  <1> QED  BY <1>2 DEF Indices

LEMMA SetupLoads ==
  ASSUME RingTypes, Setup
  PROVE  /\ Typed(ring') /\ errs' \in Indices
         /\ world.errors => \E w \in Info : errs' = Loaded(w)
         /\ ~world.errors => errs' = errs
  <1> DEFINE v(U, F) == IF Known /\ world.errors
                        THEN Read(ring, 0, U, F)
                        ELSE [code |-> astray, heals |-> FALSE, ring |-> ring]
  <1>1. PICK U \in SUBSET Copies, F \in SUBSET Copies :
          /\ world.errors => U # Copies
          /\ \E w \in IF v(U, F).code = DAMAGED THEN Info ELSE {v(U, F).code} :
               errs' = IF world.errors THEN Loaded(w) ELSE errs
          /\ ring' = v(U, F).ring
    <2>1. CASE Known
      BY <2>1 DEF Setup, SetupFailing, Failing
    <2>2. CASE ~Known
      BY <2>2 DEF Setup, SetupFailing
    <2> QED  BY <2>1, <2>2
  <1>2. v(U, F).code \in Info \cup {DAMAGED} /\ Typed(v(U, F).ring)
    <2>1. CASE Known /\ world.errors
      <3>1. Read(ring, 0, U, F).code \in Kind(0) /\ Typed(Read(ring, 0, U, F).ring)
        BY <1>1, <2>1, ReadKeeps DEF RingTypes
      <3> QED  BY <2>1, <3>1, Kinds
    <2>2. CASE ~(Known /\ world.errors)
      BY <2>2 DEF RingTypes
    <2> QED  BY <2>1, <2>2
  <1> HIDE DEF v
  <1>3. PICK w \in Info : errs' = IF world.errors THEN Loaded(w) ELSE errs
    BY <1>1, <1>2
  <1>4. Loaded(w) \in Indices
    BY LoadedTypes
  <1> QED  BY <1>1, <1>2, <1>3, <1>4 DEF RingTypes

LEMMA DamageKeeps ==
  ASSUME NEW R, Typed(R), NEW c \in Copies, NEW n \in 0 .. Stored - 1
  PROVE  /\ Typed([R EXCEPT ![c][n] = DAMAGED])
         /\ \A d \in Copies, s \in Nat :
              Shows([R EXCEPT ![c][n] = DAMAGED], d, s)
                = IF d = c /\ s = n THEN DAMAGED ELSE Shows(R, d, s)
  <1> DEFINE W == [R EXCEPT ![c][n] = DAMAGED]
  <1>0. DAMAGED \in Entries /\ \A s \in Nat : DAMAGED \in Kind(s)
    BY DEF Entries, Kind
  <1>1. Stored \in Nat /\ \A s \in 0 .. Stored - 1 : s \in Nat
    BY ErrorRingAssumption
  <1>2. R \in [Copies -> [0 .. Stored - 1 -> Entries]]
        /\ \A d \in Copies, s \in 0 .. Stored - 1 : R[d][s] \in Kind(s)
    BY DEF Typed
  <1>3. W \in [Copies -> [0 .. Stored - 1 -> Entries]]
        /\ \A d \in Copies, s \in 0 .. Stored - 1 :
             W[d][s] = IF d = c /\ s = n THEN DAMAGED ELSE R[d][s]
    BY <1>0, <1>2
  <1> HIDE DEF W
  <1>4. Typed(W)
    BY <1>0, <1>1, <1>2, <1>3 DEF Typed
  <1>5. ASSUME NEW d \in Copies, NEW s \in Nat
        PROVE  Shows(W, d, s) = IF d = c /\ s = n THEN DAMAGED ELSE Shows(R, d, s)
    <2>1. CASE s < Stored
      <3>1. s \in 0 .. Stored - 1
        BY <1>1, <2>1
      <3> QED  BY <1>3, <2>1, <3>1 DEF Shows
    <2>2. CASE ~(s < Stored)
      <3>1. s # n
        BY <1>1, <2>2
      <3> QED  BY <2>2, <3>1 DEF Shows
    <2> QED  BY <2>1, <2>2
  <1> QED  BY <1>4, <1>5 DEF W

LEMMA RingTypesStep ==
  RingTypes /\ world' = world /\ [MountNext]_mountVars => RingTypes'
  <1> SUFFICES ASSUME RingTypes, world' = world, [MountNext]_mountVars  PROVE RingTypes'
    OBVIOUS
  <1>0. Typed(ring') => Typed(ring)'
    BY DEF Typed, Copies
  <1>1. CASE Report \/ ReadFails \/ Reject
    <2>1. PICK code \in Codes, F \in SUBSET Copies, G \in SUBSET Copies : Register(code, F, G)
      BY <1>1 DEF Report, ReadFails, Reject, Failing
    <2>2. Typed(ring') /\ astray' \in Info /\ errs' \in Indices
      BY <2>1, RegisterTypes
    <2>3. UNCHANGED <<got, intact>>
      BY <1>1 DEF Report, ReadFails, Reject
    <2> QED  BY <1>0, <2>2, <2>3 DEF RingTypes
  <1>2. CASE NoErrors \/ Unreadable
    <2>1. UNCHANGED <<ring, astray, errs, intact>> /\ got' = NOTHING
      BY <1>2 DEF NoErrors, Unreadable, disk, ram
    <2> QED  BY <1>0, <2>1 DEF RingTypes
  <1>3. CASE GetLastError
    <2> DEFINE r(U, F) == Read(ring, errs.first, U, F)
               E == [errs EXCEPT !.first = NextIndex(@, TRUE)]
    <2>1. PICK U \in SUBSET Copies, F \in SUBSET Copies, G \in SUBSET Copies :
            /\ U # Copies /\ got' = r(U, F).code /\ errs' = E
            /\ ring' = Write(r(U, F).ring, 0, Packed(E), G)
      BY <1>3 DEF GetLastError, Failing, FailingAt
    <2> DEFINE v == r(U, F)
    <2>2. got' = v.code /\ errs' = E /\ UNCHANGED <<astray, intact>> /\ world.errors
      BY <1>3, <2>1 DEF GetLastError, Copies
    <2>3. errs.first \in Nat \ {0}
      <3>1. errs.first \in 1 .. Ring
        BY DEF RingTypes, Indices
      <3> QED  BY <3>1, ErrorRingAssumption
    <2>4. v.code \in Kind(errs.first) /\ Typed(v.ring)
      BY <2>1, <2>2, <2>3, ReadKeeps DEF RingTypes
    <2>5. E \in Indices
      BY TakenTypes, Zenon DEF RingTypes
    <2>6. Packed(E) \in Kind(0)
      <3> HIDE DEF E
      <3> QED  BY <2>5, InfoKept, Kinds
    <2>60. ring' = Write(v.ring, 0, Packed(E), G)
      BY <2>1
    <2> HIDE DEF v, E
    <2>7. Typed(ring')
      BY <2>4, <2>6, <2>60, WriteKeeps
    <2>8. got' \in ErrorWords \cup {NOTHING, DAMAGED}
      BY <2>2, <2>3, <2>4, Kinds
    <2> QED  BY <1>0, <2>2, <2>5, <2>7, <2>8 DEF RingTypes
  <1>4. CASE Begin \/ NoneLeft \/ SetupFails
    BY <1>0, <1>4 DEF Begin, NoneLeft, SetupFails, disk, ram, RingTypes
  <1>5. CASE Setup
    <2>1. Typed(ring') /\ errs' \in Indices
      BY <1>5, SetupLoads
    <2>2. UNCHANGED <<astray, got>> /\ intact' \in BOOLEAN
      BY <1>5 DEF Setup
    <2> QED  BY <1>0, <2>1, <2>2 DEF RingTypes
  <1>6. CASE Accept \/ RepairBoots \/ Upset
    BY <1>0, <1>6 DEF Accept, RepairBoots, Upset, ram, RingTypes
  <1>7. CASE Damage
    <2>1. PICK c \in Copies, n \in 0 .. Stored - 1 : ring' = [ring EXCEPT ![c][n] = DAMAGED]
      BY <1>7 DEF Damage
    <2>2. Typed(ring')
      BY <2>1, DamageKeeps DEF RingTypes
    <2> QED  BY <1>0, <1>7, <2>2 DEF Damage, ram, RingTypes
  <1>8. CASE Restart
    <2>1. Static \in Indices
      <3>1. 1 \in 1 .. Ring
        BY ErrorRingAssumption
      <3> QED  BY <3>1 DEF Static, Indices
    <2> QED  BY <1>0, <1>8, <2>1 DEF Restart, disk, RingTypes
  <1>9. CASE UNCHANGED mountVars
    BY <1>0, <1>9 DEF mountVars, disk, ram, RingTypes
  <1> QED  BY <1>1, <1>2, <1>3, <1>4, <1>5, <1>6, <1>7, <1>8, <1>9 DEF MountNext, Work, Call

LEMMA Waits ==
  ASSUME NEW E, InRing(E)
  PROVE  /\ Waiting(E) \in 0 .. Ring - 2 /\ (Waiting(E) = 0 <=> E.first = E.last)
         /\ \A k \in 1 .. Waiting(E) : Slot(E, k) \in Nat \ {0} /\ Slot(E, k) # E.last
  <1> DEFINE f == E.first
             l == E.last
  <1>1. Ring \in Nat /\ Ring > 2 /\ f \in 1 .. Ring - 1 /\ l \in 1 .. Ring - 1
    BY ErrorRingAssumption DEF InRing
  <1>2. Waiting(E) = IF f <= l THEN l - f ELSE l - f + Ring - 1
    BY RingPlaces
  <1>3. \A k \in 1 .. Ring - 1 : Slot(E, k) = IF f + k <= Ring THEN f + k - 1 ELSE f + k - Ring
    BY RingPlaces
  <1> HIDE DEF f, l
  <1>4. Waiting(E) \in 0 .. Ring - 2 /\ (Waiting(E) = 0 <=> f = l)
    BY <1>1, <1>2
  <1>5. ASSUME NEW k \in 1 .. Waiting(E)  PROVE Slot(E, k) \in Nat \ {0} /\ Slot(E, k) # l
    <2>1. k \in 1 .. Ring - 1
      BY <1>1, <1>4
    <2>2. Slot(E, k) = IF f + k <= Ring THEN f + k - 1 ELSE f + k - Ring
      BY <1>3, <2>1
    <2> QED  BY <1>1, <1>2, <1>4, <2>1, <2>2
  <1> QED  BY <1>4, <1>5 DEF f, l

\* The errors that wait are those of u.
Holds(R, E, u) ==
  /\ u \in [1 .. Waiting(E) -> ErrorWords]
  /\ \A k \in 1 .. Waiting(E) : Firm(R, Slot(E, k), u[k])

LEMMA HoldsFrame ==
  ASSUME world.errors, NEW R, NEW W, NEW E, NEW u, Holds(R, E, u),
         \A k \in 1 .. Waiting(E), c \in Copies :
           Shows(W, c, Slot(E, k)) = Shows(R, c, Slot(E, k))
  PROVE  Holds(W, E, u)
  <1>1. ASSUME NEW k \in 1 .. Waiting(E)  PROVE Firm(W, Slot(E, k), u[k])
    <2>1. Firm(R, Slot(E, k), u[k])
      BY DEF Holds
    <2> QED  BY <2>1, FirmFrame
  <1> QED  BY <1>1 DEF Holds

LEMMA Holding ==
  ASSUME Orderly, intact, Known
  PROVE  \E u : Holds(ring, errs, u)
  <1> DEFINE u == [k \in 1 .. Waiting(errs) |->
                     CHOOSE v \in ErrorWords : Firm(ring, Slot(errs, k), v)]
  <1>1. \A k \in 1 .. Waiting(errs) : \E v \in ErrorWords : Firm(ring, Slot(errs, k), v)
    BY DEF Orderly
  <1>2. ASSUME NEW k \in 1 .. Waiting(errs)
        PROVE  u[k] \in ErrorWords /\ Firm(ring, Slot(errs, k), u[k])
    BY <1>1
  <1>3. u \in [1 .. Waiting(errs) -> ErrorWords]
    BY <1>2
  <1> HIDE DEF u
  <1> QED  BY <1>2, <1>3 DEF Holds

Accounted ==
  intact /\ Known /\ world.errors /\ InRing(errs)
    => \A w : Holds(ring, errs, w) => Pending = w

LEMMA HeldIsPending ==
  ASSUME ErrorCopies >= 3  PROVE Accounted
  <1> SUFFICES ASSUME intact, Known, world.errors, InRing(errs),
                      NEW u, Holds(ring, errs, u)
               PROVE  Pending = u
    BY DEF Accounted
  <1>1. Pending = [k \in 1 .. Waiting(errs) |-> Agreed(Slot(errs, k))]
    BY DEF Pending, Waiting, Slot
  <1>2. \A k \in 1 .. Waiting(errs) : Agreed(Slot(errs, k)) = u[k]
    <2> TAKE k \in 1 .. Waiting(errs)
    <2>1. Slot(errs, k) \in Nat /\ u[k] \in ErrorWords /\ Firm(ring, Slot(errs, k), u[k])
      BY Waits DEF Holds
    <2> QED  BY <2>1, FirmAgreed
  <1>3. u = [k \in 1 .. Waiting(errs) |-> u[k]]
    BY DEF Holds
  <1> QED  BY <1>1, <1>2, <1>3

LEMMA NextKnown ==
  ASSUME NEW n, NEW b, b = TRUE
  PROVE  NextIndex(n, b) = After(n)
  BY DEF NextIndex, After

LEMMA Appended ==
  ASSUME NEW S, NEW s \in Seq(S), NEW v \in S, NEW n \in Nat, n = Len(s) + 1
  PROVE  /\ Append(s, v) \in [1 .. n -> S] /\ Append(s, v)[n] = v
         /\ \A k \in 1 .. n - 1 : Append(s, v)[k] = s[k]
  <1>1. Append(s, v) \in Seq(S) /\ Len(Append(s, v)) = n
    BY AppendProperties
  <1>2. DOMAIN Append(s, v) = 1 .. n
    BY <1>1
  <1>3. \A q \in Seq(S) : Len(q) = n => q \in [1 .. n -> S]
    OBVIOUS
  <1>4. Append(s, v) \in [1 .. n -> S]
    BY <1>1, <1>3
  <1> QED  BY <1>4, AppendProperties

LEMMA Rest ==
  ASSUME NEW S, NEW s \in Seq(S), NEW n \in Nat \ {0}, Len(s) = n
  PROVE  /\ Tail(s) \in [1 .. n - 1 -> S] /\ \A k \in 1 .. n - 1 : Tail(s)[k] = s[k + 1]
         /\ Tail(s) \in Seq(S) /\ Len(Tail(s)) = n - 1
  <1>1. s # <<>>
    OBVIOUS
  <1>2. Tail(s) \in Seq(S) /\ Len(Tail(s)) = n - 1 /\ \A k \in 1 .. n - 1 : Tail(s)[k] = s[k + 1]
    BY <1>1, HeadTailProperties
  <1>3. \A q \in Seq(S) : Len(q) = n - 1 => q \in [1 .. n - 1 -> S]
    OBVIOUS
  <1> QED  BY <1>2, <1>3

Behind(u, v) == Append(IF Len(u) = Ring - 2 THEN Tail(u) ELSE u, v)

\* A registered error goes behind those that wait, or leaves them as they are.
LEMMA RegisterQueues ==
  ASSUME RingTypes, world.errors, Known, InRing(errs), errs.current = errs.last,
         NEW u, Holds(ring, errs, u),
         NEW code \in Codes, NEW F, NEW G, Register(code, F, G)
  PROVE  /\ errs'.current = errs'.last /\ InRing(errs')
         /\ Holds(ring', errs', u) \/ \E v \in ErrorWords : Holds(ring', errs', Behind(u, v))
  <1> DEFINE l == errs.last
             n == Waiting(errs)
             ok == Written(ring, l, F, world.empty)
             E  == IF ok THEN Registered(errs, Known) ELSE errs
             A  == Write(ring, l, code, F)
             B  == Write(A, 0, Packed(E), G)
  <1>1. errs' = E /\ ring' = IF ok THEN B ELSE A
    BY DEF Register
  <1>2. Ring \in Nat /\ Ring > 2 /\ l \in Nat \ {0} /\ Stored \in Nat
    <2>1. l \in 1 .. Ring - 1
      BY DEF InRing
    <2> QED  BY <2>1, ErrorRingAssumption
  <1>3. /\ Typed(A) /\ \A c \in Copies, s \in Nat : s # l => Shows(A, c, s) = Shows(ring, c, s)
        /\ \A c \in Copies : l < Stored /\ c \notin F => Shows(A, c, l) = code
    <2>1. code \in Kind(l)
      BY <1>2, Kinds
    <2> QED  BY <1>2, <2>1, WriteKeeps DEF RingTypes
  <1>4. \A c \in Copies, s \in Nat : s # 0 => Shows(B, c, s) = Shows(A, c, s)
    <2>1. E \in Indices
      BY InfoKept DEF RingTypes
    <2>2. Packed(E) \in Kind(0)
      BY <2>1, InfoKept, Kinds
    <2> HIDE DEF A, E
    <2> QED  BY <1>3, <2>2, WriteKeeps
  <1>5. n \in 0 .. Ring - 2 /\ \A k \in 1 .. n : Slot(errs, k) \in Nat \ {0} /\ Slot(errs, k) # l
    BY Waits
  <1>6. CASE ~ok
    <2>1. errs' = errs /\ ring' = A
      BY <1>1, <1>6
    <2> HIDE DEF A
    <2>2. Holds(A, errs, u)
      BY <1>3, <1>5, HoldsFrame
    <2> QED  BY <2>1, <2>2
  <1>7. CASE ok
    <2> DEFINE v == IF l < Stored THEN code ELSE NO_ERROR
               w == Behind(u, v)
    <2>1. ring' = B /\ errs' = Registered(errs, Known)
      BY <1>1, <1>7
    <2>2. /\ errs'.current = errs'.last /\ errs'.last = After(errs.last)
          /\ errs'.first = IF errs'.last = errs.first THEN After(errs.first) ELSE errs.first
      BY <2>1, NextKnown DEF Registered
    <2>3. v \in ErrorWords
      BY Kinds
    <2>4. F = {} \/ l > Stored
      BY <1>7 DEF Written
    <2> HIDE DEF A, B, E, ok
    <2>5. \A c \in Copies : Shows(B, c, l) = v
      <3> TAKE c \in Copies
      <3>1. Shows(B, c, l) = Shows(A, c, l)
        BY <1>2, <1>4
      <3>2. CASE l < Stored
        BY <1>2, <1>3, <2>4, <3>1, <3>2
      <3>3. CASE ~(l < Stored)
        BY <3>1, <3>3 DEF Shows
      <3> QED  BY <3>2, <3>3
    <2>6. Firm(B, l, v)
      <3>1. \A c \in 1 .. ErrorCopies : c # 0 /\ c \in Copies
        BY ErrorRingAssumption DEF Copies
      <3> HIDE DEF v
      <3> QED  BY <2>5, <3>1 DEF Firm
    <2>7. ASSUME NEW k \in 1 .. n  PROVE Firm(B, Slot(errs, k), u[k])
      <3>1. Firm(ring, Slot(errs, k), u[k])
        BY DEF Holds
      <3>2. \A c \in Copies : Shows(B, c, Slot(errs, k)) = Shows(ring, c, Slot(errs, k))
        BY <1>3, <1>4, <1>5
      <3> QED  BY <3>1, <3>2, FirmFrame
    <2>8. u \in Seq(ErrorWords) /\ Len(u) = n /\ u \in [1 .. n -> ErrorWords]
      BY <1>5 DEF Holds
    <2> HIDE DEF v, l, n
    <2>9. CASE n < Ring - 2
      <3>1. /\ Waiting(errs') = n + 1 /\ Slot(errs', n + 1) = l /\ InRing(errs')
            /\ \A k \in 1 .. n : Slot(errs', k) = Slot(errs, k)
        BY <2>2, <2>9, PutSlots DEF n, l
      <3>2. w = Append(u, v)
        BY <1>2, <1>5, <2>8, <2>9 DEF Behind
      <3>3. w \in [1 .. n + 1 -> ErrorWords] /\ w[n + 1] = v /\ \A k \in 1 .. n : w[k] = u[k]
        BY <1>5, <2>3, <2>8, <3>2, Appended
      <3> HIDE DEF w
      <3>4. ASSUME NEW k \in 1 .. n + 1  PROVE Firm(B, Slot(errs', k), w[k])
        <4>1. k \in 1 .. n \/ k = n + 1
          BY <1>5
        <4> QED  BY <2>6, <2>7, <3>1, <3>3, <4>1
      <3>5. Holds(ring', errs', w)
        BY <2>1, <3>1, <3>3, <3>4 DEF Holds
      <3> QED  BY <2>2, <2>3, <3>1, <3>5 DEF w
    <2>10. CASE n = Ring - 2
      <3>1. /\ Waiting(errs') = n /\ Slot(errs', n) = l /\ InRing(errs')
            /\ \A k \in 1 .. n - 1 : Slot(errs', k) = Slot(errs, k + 1)
        BY <2>2, <2>10, PutSlots DEF n, l
      <3>2. w = Append(Tail(u), v)
        BY <2>8, <2>10 DEF Behind
      <3>0. n \in Nat \ {0} /\ u # <<>>
        BY <1>2, <2>8, <2>10
      <3>3. Tail(u) \in Seq(ErrorWords) /\ Len(Tail(u)) = n - 1
            /\ \A k \in 1 .. n - 1 : Tail(u)[k] = u[k + 1]
        BY <2>8, <3>0
      <3>4. w \in [1 .. n -> ErrorWords] /\ w[n] = v /\ \A k \in 1 .. n - 1 : w[k] = u[k + 1]
        <4> DEFINE q == Tail(u)
        <4>1. q \in Seq(ErrorWords) /\ n = Len(q) + 1 /\ n \in Nat
          BY <3>0, <3>3
        <4> HIDE DEF q
        <4>2. /\ Append(q, v) \in [1 .. n -> ErrorWords] /\ Append(q, v)[n] = v
              /\ \A k \in 1 .. n - 1 : Append(q, v)[k] = q[k]
          BY <2>3, <4>1, Appended
        <4> QED  BY <3>2, <3>3, <4>2 DEF q
      <3> HIDE DEF w
      <3>5. ASSUME NEW k \in 1 .. n  PROVE Firm(B, Slot(errs', k), w[k])
        <4>1. (k \in 1 .. n - 1 /\ k + 1 \in 1 .. n) \/ k = n
          BY <3>0
        <4> QED  BY <2>6, <2>7, <3>1, <3>4, <4>1
      <3>6. Holds(ring', errs', w)
        BY <2>1, <3>1, <3>4, <3>5 DEF Holds
      <3> QED  BY <2>2, <2>3, <3>1, <3>6 DEF w
    <2> QED  BY <1>2, <1>5, <2>9, <2>10 DEF n
  <1> QED  BY <1>6, <1>7

\* The damaged word of an entry on which the copies differ is the answer.
Misheard ==
  /\ \E c, d \in Copies : Shows(ring, c, errs.first) # Shows(ring, d, errs.first)
  /\ faults' # faults /\ got' = DAMAGED

\* The oldest error is answered, and leaves the others in their order.
LEMMA TakeQueues ==
  ASSUME BootTypes, RingTypes, Orderly, intact, GetLastError, NEW u, Holds(ring, errs, u)
  PROVE  /\ errs'.current = errs'.last /\ InRing(errs')
         /\ Holds(ring', errs', Tail(u)) /\ u # <<>>
         /\ ErrorCopies >= 3 => got' = Head(u) \/ Misheard
  <1> DEFINE f == errs.first
             n == Waiting(errs)
             r(U, F) == Read(ring, f, U, F)
             E == [errs EXCEPT !.first = NextIndex(@, TRUE)]
  <1>0. PICK U \in SUBSET Copies, F \in SUBSET Copies, G \in SUBSET Copies :
          /\ U # Copies /\ got' = r(U, F).code
          /\ ring' = Write(r(U, F).ring, 0, Packed(E), G)
          /\ Tally(U \cup F \cup G)
    BY DEF GetLastError, Failing, FailingAt
  <1> DEFINE v == r(U, F)
  <1>1. ring' = Write(v.ring, 0, Packed(E), G)
    BY <1>0
  <1>2. got' = v.code /\ errs' = E /\ f # errs.last
    BY <1>0 DEF GetLastError
  <1>3. world.errors /\ InRing(errs) /\ errs.current = errs.last /\ errs \in Indices
    BY DEF Orderly, RingTypes
  <1>4. f \in Nat \ {0}
    BY <1>3, ErrorRingAssumption DEF InRing
  <1>5. /\ E.current = errs.current /\ E.last = errs.last /\ E.first = After(f)
    BY <1>3, NextKnown DEF Indices
  <1>6. E \in Indices
    BY <1>3, TakenTypes, Zenon
  <1> HIDE DEF E
  <1>7. /\ InRing(E) /\ n \in 1 .. Ring - 2 /\ Waiting(E) = n - 1 /\ Slot(errs, 1) = f
        /\ \A k \in 1 .. n - 1 : Slot(E, k) = Slot(errs, k + 1) /\ Slot(errs, k + 1) # f
    BY <1>2, <1>3, <1>5, TakeSlots
  <1>8. /\ Typed(v.ring) /\ \A c \in Copies, s \in Nat : s # f => Shows(v.ring, c, s) = Shows(ring, c, s)
        /\ \A w \in ErrorWords : ErrorCopies >= 3 /\ Firm(ring, f, w) /\ v.code # w
             => /\ U # {} /\ v.code = DAMAGED
                /\ \E c, d \in Copies : Shows(ring, c, f) # Shows(ring, d, f)
    <2>1. Typed(ring) /\ f \in Nat /\ world.errors /\ U \in SUBSET Copies /\ U # Copies
      BY <1>0, <1>3, <1>4 DEF RingTypes
    <2> HIDE DEF f
    <2> QED  BY ONLY <2>1, ReadKeeps
  <1> HIDE DEF v
  <1>9. \A c \in Copies, s \in Nat : s # 0 => Shows(ring', c, s) = Shows(v.ring, c, s)
    <2>1. Packed(E) \in Kind(0)
      BY <1>6, InfoKept, Kinds
    <2> QED  BY <1>1, <1>8, <2>1, WriteKeeps
  <1>10. u \in Seq(ErrorWords) /\ Len(u) = n /\ u # <<>> /\ Head(u) = u[1]
    BY <1>7 DEF Holds
  <1>11. Tail(u) \in [1 .. n - 1 -> ErrorWords] /\ \A k \in 1 .. n - 1 : Tail(u)[k] = u[k + 1]
    <2>1. n \in Nat \ {0}
      BY <1>7
    <2> HIDE DEF n
    <2> QED  BY <2>1, <1>10, Rest
  <1>12. ASSUME NEW k \in 1 .. n - 1  PROVE Firm(ring', Slot(E, k), Tail(u)[k])
    <2>1. k + 1 \in 1 .. n
      BY <1>7
    <2>2. Firm(ring, Slot(errs, k + 1), u[k + 1]) /\ Slot(errs, k + 1) \in Nat \ {0}
      BY <1>3, <2>1, Waits DEF Holds
    <2>3. \A c \in Copies :
            Shows(ring', c, Slot(errs, k + 1)) = Shows(ring, c, Slot(errs, k + 1))
      BY <1>7, <1>8, <1>9, <2>2
    <2>4. Firm(ring', Slot(errs, k + 1), u[k + 1])
      BY <1>3, <2>2, <2>3, FirmFrame
    <2> QED  BY <1>7, <1>11, <2>4
  <1>13. Holds(ring', E, Tail(u))
    BY <1>7, <1>11, <1>12 DEF Holds
  <1>14. ErrorCopies >= 3 => v.code = u[1] \/ Misheard
    <2>1. 1 \in 1 .. n
      BY <1>7
    <2>2. Firm(ring, f, u[1]) /\ u[1] \in ErrorWords
      BY <1>7, <2>1 DEF Holds
    <2>3. U # {} => faults' # faults
      <3>1. U # {} => faults' = faults + 1
        BY <1>0 DEF Tally
      <3>2. faults \in Nat
        BY MountAssumption DEF BootTypes, World
      <3> QED  BY <3>1, <3>2
    <2> QED  BY <1>2, <1>8, <2>2, <2>3 DEF Misheard
  <1> QED  BY <1>2, <1>3, <1>5, <1>7, <1>10, <1>13, <1>14

\* A copy that is hit where all agree is outvoted.
LEMMA DamageQueues ==
  ASSUME RingTypes, world.errors, InRing(errs), Damage, NEW u, Holds(ring, errs, u)
  PROVE  Holds(ring', errs, u)
  <1>1. PICK c \in Copies, n \in 0 .. Stored - 1 :
          (\A d \in Copies : ring[d][n] = ring[c][n]) /\ ring' = [ring EXCEPT ![c][n] = DAMAGED]
    BY DEF Damage
  <1>2. \A d \in Copies, s \in Nat :
          Shows(ring', d, s) = IF d = c /\ s = n THEN DAMAGED ELSE Shows(ring, d, s)
    <2> DEFINE W == [ring EXCEPT ![c][n] = DAMAGED]
    <2>1. \A d \in Copies, s \in Nat :
            Shows(W, d, s) = IF d = c /\ s = n THEN DAMAGED ELSE Shows(ring, d, s)
      BY DamageKeeps DEF RingTypes
    <2>2. ring' = W
      BY <1>1
    <2> HIDE DEF W
    <2> QED  BY <2>1, <2>2
  <1>3. n \in Nat /\ n < Stored /\ Copies = 1 .. ErrorCopies /\ c \in Nat
    BY ErrorRingAssumption DEF Copies
  <1>4. ASSUME NEW v \in ErrorWords, Firm(ring, n, v)  PROVE Firm(ring', n, v)
    <2>1. PICK d \in Nat : \A e \in 1 .. ErrorCopies :
                             Shows(ring, e, n) = IF e = d THEN DAMAGED ELSE v
      BY <1>4 DEF Firm
    <2>2. \A e \in Copies : Shows(ring, e, n) = Shows(ring, c, n)
      BY <1>1, <1>3 DEF Shows
    <2>3. v # DAMAGED
      BY Kinds
    <2>4. \A e \in 1 .. ErrorCopies : Shows(ring', e, n) = IF e = c THEN DAMAGED ELSE v
      BY <1>2, <1>3, <2>1, <2>2, <2>3
    <2> QED  BY <1>3, <2>4 DEF Firm
  <1>5. ASSUME NEW k \in 1 .. Waiting(errs)  PROVE Firm(ring', Slot(errs, k), u[k])
    <2>1. Firm(ring, Slot(errs, k), u[k]) /\ u[k] \in ErrorWords /\ Slot(errs, k) \in Nat
      BY Waits DEF Holds
    <2>2. CASE Slot(errs, k) = n
      BY <1>4, <2>1, <2>2
    <2>3. CASE Slot(errs, k) # n
      BY <1>2, <2>1, <2>3, FirmFrame
    <2> QED  BY <2>2, <2>3
  <1> QED  BY <1>5 DEF Holds

\* A step, but for the load of the ring, puts an error, takes one or does neither.
LEMMA QueueStep ==
  ASSUME BootTypes, RingTypes, Orderly, [MountNext]_mountVars, ~Setup, intact, intact', Known,
         NEW u, Holds(ring, errs, u)
  PROVE  /\ errs'.current = errs'.last /\ InRing(errs')
         /\ pc' = "read" => errs'.first = errs'.last
         /\ \/ Holds(ring', errs', u) /\ got' \in {got, NOTHING}
            \/ got' = got /\ \E v \in ErrorWords : Holds(ring', errs', Behind(u, v))
            \/ /\ Holds(ring', errs', Tail(u)) /\ u # <<>>
               /\ ErrorCopies >= 3 => got' = Head(u) \/ Misheard
  <1>0. /\ world.errors /\ errs.current = errs.last /\ InRing(errs)
        /\ pc = "read" => errs.first = errs.last
    BY DEF Orderly
  <1>1. CASE Report \/ ReadFails \/ Reject
    <2>1. PICK code \in Codes, F \in SUBSET Copies, G \in SUBSET Copies : Register(code, F, G)
      BY <1>1 DEF Report, ReadFails, Reject, Failing
    <2>2. got' = got /\ pc' # "read"
      BY <1>1 DEF Report, ReadFails, Reject
    <2> QED  BY <1>0, <2>1, <2>2, RegisterQueues
  <1>2. CASE NoErrors \/ Unreadable
    <2>1. UNCHANGED <<ring, errs, pc>> /\ got' = NOTHING
      BY <1>2 DEF NoErrors, Unreadable, disk, ram
    <2> QED  BY <1>0, <2>1
  <1>3. CASE GetLastError
    <2>1. pc' # "read"
      BY <1>3 DEF GetLastError
    <2> QED  BY <1>3, <2>1, TakeQueues
  <1>4. CASE Begin \/ NoneLeft \/ SetupFails
    <2>1. UNCHANGED <<ring, errs, got>> /\ pc' # "read"
      BY <1>4 DEF Begin, NoneLeft, SetupFails, disk, ram
    <2> QED  BY <1>0, <2>1
  <1>5. CASE Accept \/ RepairBoots \/ Upset \/ UNCHANGED mountVars
    <2>1. UNCHANGED <<ring, errs, got>> /\ (pc' = "read" => pc = "read")
      BY <1>5 DEF Accept, RepairBoots, Upset, disk, ram, mountVars
    <2> QED  BY <1>0, <2>1
  <1>6. CASE Damage
    <2>1. UNCHANGED <<errs, got, pc>>
      BY <1>6 DEF Damage, ram
    <2>2. Holds(ring', errs, u)
      BY <1>0, <1>6, DamageQueues
    <2> QED  BY <1>0, <2>1, <2>2
  <1>7. CASE Restart
    BY <1>7 DEF Restart
  <1> QED  BY <1>1, <1>2, <1>3, <1>4, <1>5, <1>6, <1>7 DEF MountNext, Work, Call

\* Before the geometry is known nothing waits.
LEMMA UnknownStep ==
  ASSUME RingTypes, Orderly, [MountNext]_mountVars, ~Setup, intact, intact', ~Known
  PROVE  /\ errs'.current = errs'.last /\ InRing(errs') /\ got' = got
         /\ pc' = "read" => errs'.first = errs'.last
         /\ Known' => errs'.first = errs'.last
  <1>0. /\ world.errors /\ errs.current = errs.last /\ InRing(errs)
        /\ pc = "read" => errs.first = errs.last
    BY DEF Orderly
  <1>1. CASE Report \/ NoErrors \/ Unreadable \/ GetLastError \/ RepairBoots \/ Restart
    BY <1>1 DEF Report, NoErrors, Unreadable, GetLastError, RepairBoots, Restart
  <1>2. CASE ReadFails \/ Reject
    <2>1. PICK code \in Codes, F \in SUBSET Copies, G \in SUBSET Copies : Register(code, F, G)
      BY <1>2 DEF ReadFails, Reject, Failing
    <2>2. errs' = errs \/ errs' = Registered(errs, Known)
      BY <2>1 DEF Register
    <2>3. /\ Registered(errs, Known).current = Registered(errs, Known).last
          /\ Registered(errs, Known).last = 1
          /\ Registered(errs, Known).first \in {1, errs.first}
      BY DEF Registered, NextIndex
    <2>4. 1 \in 1 .. Ring - 1
      BY ErrorRingAssumption
    <2>5. errs'.current = errs'.last /\ InRing(errs')
      BY <1>0, <2>2, <2>3, <2>4 DEF InRing
    <2>6. got' = got /\ pc' # "read" /\ fs' = fs
      BY <1>2 DEF ReadFails, Reject
    <2> QED  BY <2>5, <2>6 DEF Known
  <1>3. CASE Begin \/ NoneLeft \/ SetupFails \/ Upset \/ Damage \/ UNCHANGED mountVars
    <2>1. UNCHANGED <<errs, got, fs>> /\ (pc' = "read" => pc = "read")
      BY <1>3 DEF Begin, NoneLeft, SetupFails, Upset, Damage, disk, ram, mountVars
    <2> QED  BY <1>0, <2>1 DEF Known
  <1>4. CASE Accept
    <2>1. UNCHANGED <<errs, got>> /\ pc = "read"
      BY <1>4 DEF Accept
    <2> QED  BY <1>0, <2>1
  <1> QED  BY <1>1, <1>2, <1>3, <1>4 DEF MountNext, Work, Call

LEMMA OrderlyStep ==
  BootTypes /\ RingTypes /\ Orderly /\ world' = world /\ [MountNext]_mountVars => Orderly'
  <1> SUFFICES ASSUME BootTypes, RingTypes, Orderly, world' = world, [MountNext]_mountVars, intact'
               PROVE  Orderly'
    BY DEF Orderly
  <1>1. ASSUME errs'.current = errs'.last, InRing(errs'), world.errors,
               pc' = "read" => errs'.first = errs'.last,
               errs'.first = errs'.last \/ ~Known' \/ \E u : Holds(ring', errs', u)
        PROVE  Orderly'
    <2>1. CASE errs'.first = errs'.last
      <3>1. Waiting(errs') = 0
        BY <1>1, <2>1, Waits
      <3>2. 1 .. Waiting(errs') = {}
        BY <3>1
      <3> QED  BY <1>1, <3>2 DEF Orderly, InRing, Waiting
    <2>2. CASE ~Known'
      BY <1>1, <2>2 DEF Orderly, InRing
    <2>3. CASE \E u : Holds(ring', errs', u)
      <3>1. PICK u : Holds(ring', errs', u)
        BY <2>3
      <3>2. \A k \in 1 .. Waiting(errs') : \E v \in ErrorWords : Firm(ring', Slot(errs', k), v)
        BY <3>1 DEF Holds
      <3> QED  BY <1>1, <3>2 DEF Orderly, InRing, Waiting, Slot, Firm, Shows
    <2> QED  BY <1>1, <2>1, <2>2, <2>3
  <1>2. CASE Setup
    <2>1. world.errors /\ errs'.first = errs'.last /\ errs'.last < Ring
      BY <1>2 DEF Setup
    <2>2. PICK w \in Info : errs' = Loaded(w)
      BY <1>2, <2>1, SetupLoads
    <2>3. errs'.current = errs'.first
      BY <2>2 DEF Loaded
    <2>4. errs'.last \in 1 .. Ring
      BY <1>2, SetupLoads DEF Indices
    <2>5. InRing(errs')
      BY <2>1, <2>4, ErrorRingAssumption DEF InRing
    <2> QED  BY <1>1, <2>1, <2>3, <2>5
  <1>3. CASE ~Setup
    <2>1. intact
      BY <1>3 DEF MountNext, Work, Call, Begin, NoneLeft, SetupFails, ReadFails, Reject, Accept,
                  Report, NoErrors, Unreadable, GetLastError, RepairBoots, Upset, Damage, Restart,
                  mountVars
    <2>2. world.errors
      BY <2>1 DEF Orderly
    <2>3. CASE Known
      <3>1. PICK u : Holds(ring, errs, u)
        BY <2>1, <2>3, Holding
      <3>2. /\ errs'.current = errs'.last /\ InRing(errs')
            /\ pc' = "read" => errs'.first = errs'.last
            /\ \E w : Holds(ring', errs', w)
        BY <1>3, <2>1, <2>3, <3>1, QueueStep
      <3> QED  BY <1>1, <2>2, <3>2
    <2>4. CASE ~Known
      BY <1>1, <1>3, <2>1, <2>2, <2>4, UnknownStep
    <2> QED  BY <2>3, <2>4
  <1> QED  BY <1>2, <1>3

RingInv == BootTypes /\ RingTypes /\ Orderly

LEMMA RingInit ==
  MountInit => RingInv
  <1> SUFFICES ASSUME MountInit  PROVE RingInv
    OBVIOUS
  <1>1. /\ world \in Worlds /\ world.hits \in Nat /\ world.faults \in Nat
        /\ Boots \in Nat \ {0} /\ Ring \in Nat /\ Ring > 2 /\ Stored \in Nat \ {0}
    BY MountAssumption, ErrorRingAssumption DEF MountInit, World
  <1>2. boot \in [0 .. Boots - 1 -> BootCopy]
    BY Origins DEF MountInit
  <1>3. upsets \in 0 .. world.hits /\ faults \in 0 .. world.faults /\ bsnum \in 0 .. Boots
    BY <1>1 DEF MountInit
  <1>4. BootTypes
    BY <1>1, <1>2, <1>3 DEF MountInit, BootTypes
  <1>5. Typed(ring)
    <2>1. <<0, 0>> \in Info
      <3>1. 0 \in 0 .. Ring
        BY <1>1
      <3> QED  BY <3>1 DEF Info
    <2>2. NO_ERROR \in Entries /\ <<0, 0>> \in Entries /\ <<0, 0>> \in Kind(0)
          /\ \A n \in 0 .. Stored - 1 : n # 0 => NO_ERROR \in Kind(n)
      BY <2>1 DEF Entries, Kind, ErrorWords
    <2> QED  BY <2>2 DEF MountInit, Typed
  <1>6. Static \in Indices
    <2>1. 1 \in 1 .. Ring
      BY <1>1
    <2> QED  BY <2>1 DEF Static, Indices
  <1>7. astray \in Info
    BY MountAssumption DEF MountInit
  <1>8. RingTypes
    BY <1>5, <1>6, <1>7 DEF MountInit, RingTypes
  <1>9. Orderly
    BY DEF MountInit, Orderly
  <1> QED  BY <1>4, <1>8, <1>9 DEF RingInv

LEMMA RingInvHolds == MountSpec => []RingInv
  <1>1. RingInv /\ [MountNext]_mountVars => RingInv'
    BY BootTypesStep, RingTypesStep, OrderlyStep DEF RingInv
  <1> QED  BY <1>1, RingInit, PTL DEF MountSpec

(* From the moment it was loaded without pending errors the ring is in     *)
(* order, whatever writes fail, with three copies or more of which one may *)
(* be damaged per entry: indices inside the ring, and a code for every     *)
(* pending error (errors_register_error, errors_last_error, _read_error);  *)
(* with it, the types.                                                     *)
THEOREM RingStaysInOrder ==
  ErrorCopies >= 3 /\ MountSpec => []RingOrdered
  <1> SUFFICES ASSUME ErrorCopies >= 3  PROVE MountSpec => []RingOrdered
    OBVIOUS
  <1>1. RingInv => RingOrdered
    <2> SUFFICES ASSUME RingInv  PROVE RingOrdered
      OBVIOUS
    <2>1. MountTypes
      BY DEF RingInv, BootTypes, RingTypes, Typed, MountTypes, ErrorWords
    <2>2. intact => errs.current = errs.last /\ {errs.first, errs.last} \subseteq 1 .. Ring - 1
      BY DEF RingInv, Orderly, InRing
    <2>3. ASSUME intact, NEW k \in 1 .. Len(Pending)  PROVE Pending[k] # DAMAGED
      <3>1. CASE ~Known
        <4>1. Pending = <<>>
          BY <3>1 DEF Pending
        <4> QED  BY <4>1
      <3>2. CASE Known
        <4>1. PICK u : Holds(ring, errs, u)
          BY <2>3, <3>2, Holding DEF RingInv
        <4>2. Pending = u
          BY <2>3, <3>2, <4>1, HeldIsPending DEF RingInv, Orderly, Accounted
        <4>3. Waiting(errs) \in Nat
          BY <2>3, Waits DEF RingInv, Orderly
        <4>4. u \in [1 .. Waiting(errs) -> ErrorWords]
          BY <4>1 DEF Holds
        <4> HIDE DEF Waiting
        <4>5. u[k] \in ErrorWords
          BY <4>2, <4>3, <4>4
        <4> QED  BY <4>2, <4>5, Kinds
      <3> QED  BY <3>1, <3>2
    <2> QED  BY <2>1, <2>2, <2>3 DEF RingOrdered
  <1> QED  BY <1>1, RingInvHolds, PTL

(* With three copies or more the ring is a queue between two loads, for    *)
(* any number of codes, entries and calls: a registered error goes behind  *)
(* the others, of a full ring the oldest gives way, and each is answered   *)
(* once and in turn ("Append a new persistent error code", "Read and       *)
(* consume the oldest"), whatever transfers fail and single copies are     *)
(* damaged, but that an entry with a damaged copy and one that cannot be   *)
(* read (errors.c:60) may be answered with the damaged word.               *)
THEOREM RingIsAQueue ==
  ErrorCopies >= 3 /\ MountSpec => RingIsQueue
  <1> SUFFICES ASSUME ErrorCopies >= 3  PROVE MountSpec => RingIsQueue
    OBVIOUS
  <1>1. RingInv /\ RingInv' /\ [MountNext]_mountVars
          => [intact /\ intact' /\ ~(pc = "begin" /\ pc' # pc)
                => UNCHANGED <<Pending, got>> \/ Q!Next \/ Misread]_mountVars
    <2> SUFFICES ASSUME RingInv, RingInv', [MountNext]_mountVars,
                        intact, intact', ~(pc = "begin" /\ pc' # pc)
                 PROVE  UNCHANGED <<Pending, got>> \/ Q!Next \/ Misread
      OBVIOUS
    <2>0. ~Setup
      BY DEF Setup
    <2>1. CASE Known
      <3>1. PICK u : Holds(ring, errs, u)
        BY <2>1, Holding DEF RingInv
      <3>2. Pending = u
        BY <2>1, <3>1, HeldIsPending DEF RingInv, Orderly, Accounted
      <3>3. Known'
        <4>1. CASE Accept
          <5>1. fs' \in SUBSET (0 .. 7)
            BY <4>1, GetsByte DEF Accept, Bytes
          <5>2. -1 \notin 0 .. 7
            OBVIOUS
          <5> QED  BY <5>1, <5>2 DEF Known, Unknown
        <4>2. CASE Restart
          BY <4>2 DEF Restart
        <4>3. CASE ~Accept /\ ~Restart
          <5>1. fs' = fs
            BY <4>3 DEF MountNext, Work, Call, Begin, NoneLeft, SetupFails, Setup, ReadFails, Reject,
                        Report, NoErrors, Unreadable, GetLastError, RepairBoots, Upset, Damage,
                        mountVars, disk, ram
          <5> QED  BY <2>1, <5>1 DEF Known
        <4> QED  BY <4>1, <4>2, <4>3
      <3>4. \A w : Holds(ring', errs', w) => Pending' = w
        <4>1. Accounted'
          BY HeldIsPending, PTL
        <4>2. (world.errors /\ InRing(errs))'
          BY DEF RingInv, Orderly
        <4> QED  BY <3>3, <4>1, <4>2 DEF Accounted
      <3>5. \/ Holds(ring', errs', u) /\ got' \in {got, NOTHING}
            \/ got' = got /\ \E v \in ErrorWords : Holds(ring', errs', Behind(u, v))
            \/ Holds(ring', errs', Tail(u)) /\ u # <<>> /\ (got' = Head(u) \/ Misheard)
        BY <2>0, <2>1, <3>1, QueueStep DEF RingInv
      <3>6. Holds(ring', errs', Tail(u)) /\ u # <<>> /\ Misheard => Misread
        BY <3>2, <3>4 DEF Misheard, Misread
      <3> QED  BY <3>2, <3>4, <3>5, <3>6 DEF Q!Next, Q!Put, Q!Take, Q!Nothing, Behind, ErrorWords
    <2>2. CASE ~Known
      <3>1. got' = got /\ (Known' => errs'.first = errs'.last) /\ InRing(errs')
        BY <2>0, <2>2, UnknownStep DEF RingInv
      <3>2. Pending = <<>>
        BY <2>2 DEF Pending
      <3>3. Pending' = <<>>
        <4>1. CASE ~Known'
          BY <4>1 DEF Pending
        <4>2. CASE Known'
          <5>1. Waiting(errs') = 0
            BY <3>1, <4>2, Waits
          <5>2. (errs.last - errs.first)' % (Ring - 1) = 0
            BY <5>1 DEF Waiting
          <5>3. Pending' = [k \in 1 .. (errs.last - errs.first)' % (Ring - 1) |-> Agreed(((errs.first + k - 2) % (Ring - 1)) + 1)']
            BY <4>2 DEF Pending
          <5> QED  BY <5>2, <5>3
        <4> QED  BY <4>1, <4>2
      <3> QED  BY <3>1, <3>2, <3>3
    <2> QED  BY <2>1, <2>2
  <1> QED  BY <1>1, RingInvHolds, PTL DEF MountSpec, RingIsQueue
=============================================================================
