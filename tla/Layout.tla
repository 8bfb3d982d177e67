------------------------------- MODULE Layout -------------------------------
(***************************************************************************)
(* An image of NiFAT32, from the formatter (src/formatter) to the geometry *)
(* that NIFAT32_init takes from it.                                        *)
(*                                                                         *)
(* Copies of the boot sector, the FAT, the journals and the error ring are *)
(* scattered over the volume by multiplicative hashing (addresses.h); the  *)
(* data clusters lie in one piece behind the reserved sectors.  Nothing    *)
(* but arithmetic keeps them apart.  The arithmetic is that of the code,   *)
(* on unsigned words of 32 bits, in halves that TLC can multiply.          *)
(***************************************************************************)
EXTENDS Integers, FiniteSets

CONSTANTS
  Formats,      (* the options of a format, see fmt                        *)
  Documented,   (* those of them the documentation and the tests use       *)
  FileSizes,    (* clusters a copied file may need; 0 if empty or unread   *)
  MaxFiles      (* bound: files in the source directory                    *)

BytesPerSector    == 512      (* BYTES_PER_SECTOR                          *)
SectorsPerCluster == 8        (* SECTORS_PER_CLUSTER, of CLUSTER_SIZE      *)
Reserved          == 32       (* RESERVED_SECTORS                          *)
Root              == 2        (* ROOT_DIR_CLUSTER                          *)

ASSUME FormatAssumption ==
  /\ Formats \subseteq [size : 1 .. 1024, spc : Nat \ {0}, fc : 1 .. 64,
                        bsbc : Nat \ {0}, b_bsbc : Nat, jc : Nat, ec : Nat]
  /\ Documented \subseteq Formats
  /\ FileSizes \subseteq Nat /\ MaxFiles \in Nat

VARIABLES
  fmt,          (* opt: size in MB, sectors per cluster, and how many      *)
                (* FATs, boot sectors (bad ones first), journals, rings    *)
  phase,        (* where main() is; "mounted": NIFAT32_init has returned   *)
  fatSize, prev,(* fat_size and prev_fat_size of _calculate_fat_size       *)
  i,            (* the loop variable of the running writer                 *)
  written,      (* the regions written so far                              *)
  table,        (* the entries of fat_table that are not FREE              *)
  lastAlloc,    (* last_alloc                                              *)
  todo,         (* entries of the source directory not yet read            *)
  left, chain,  (* the file being copied: clusters to go, clusters taken   *)
  files,        (* root_dir: the clusters of each file                     *)
  fs_data       (* _fs_data: the geometry the library computed             *)

sizeVars == <<fatSize, prev>>
fileVars == <<lastAlloc, todo, left, chain, files>>
vars     == <<fmt, phase, sizeVars, i, written, table, fileVars, fs_data>>

Region(kind, n, from, size) == [kind |-> kind, n |-> n, from |-> from, size |-> size]

-----------------------------------------------------------------------------
(* The scattered places. *)

\* (n * (high * 2^16 + low) mod 2^32) >> shift
Hash(n, high, low, shift) ==
  LET l == n * low
      h == (n * high + l \div 65536) % 65536
  IN h * 2^(16 - shift) + (l % 65536) \div 2^shift

TotalSectors == fmt.size * 2048

Boot(n)    == Hash(n + 1, 40503, 31153, 11) % (TotalSectors - 2)
Journal(n) == Hash(n + 35, 198, 7101, 3) % (TotalSectors - 2)
Errors(n)  == Hash(n + 23, 167, 42030, 9) % (TotalSectors - 2)
\* The formatter's place of a FAT, and the library's: sectors_padd is added.
FatSector(n)    == Reserved + (Hash(n + 7, 5196, 48265, 13) % (TotalSectors - 32))
LibFatSector(n) == Reserved + (Hash(n + 7, 5196, 48265, 13) % (TotalSectors - 23))

-----------------------------------------------------------------------------
Init ==
  /\ fmt \in Formats
  /\ phase = "size"
  /\ fatSize = 0 /\ prev = 0 /\ i = 0
  /\ written = {} /\ table = {}
  /\ lastAlloc = 3 /\ todo \in 0 .. MaxFiles /\ left = 0 /\ chain = {} /\ files = {}
  /\ fs_data = [sectors_per_cluster |-> 0, total_clusters |-> 0, first_data_sector |-> 0]

DataSectors == TotalSectors - Reserved

TotalClusters == (DataSectors - fmt.fc * fatSize) \div fmt.spc
DataStart     == Reserved + fmt.fc * fatSize

\* Mutant: a last sector that is not full is forgotten.
Round_Down ==
  /\ phase = "size"
  /\ prev' = fatSize
  /\ fatSize' = (TotalClusters * 4) \div BytesPerSector
  /\ phase' = IF fatSize' = prev' THEN "boot" ELSE "size"
  /\ i' = IF phase' = "boot" THEN fmt.b_bsbc ELSE 0
  /\ UNCHANGED <<fmt, written, table, fileVars, fs_data>>

\* Mutant: the loop asks for the size it began with.
Round_Forgets ==
  /\ phase = "size"
  /\ fatSize' = (TotalClusters * 4 + BytesPerSector - 1) \div BytesPerSector
  /\ phase' = IF fatSize' = prev THEN "boot" ELSE "size"
  /\ i' = IF phase' = "boot" THEN fmt.b_bsbc ELSE 0
  /\ UNCHANGED <<fmt, prev, written, table, fileVars, fs_data>>

(* One round of _calculate_fat_size: the table of the clusters that are    *)
(* left beside tables of the size of the round before.                     *)
Round ==
  /\ phase = "size"
  /\ prev' = fatSize
  /\ fatSize' = (TotalClusters * 4 + BytesPerSector - 1) \div BytesPerSector
  /\ phase' = IF fatSize' = prev' THEN "boot" ELSE "size"
  /\ i' = IF phase' = "boot" THEN fmt.b_bsbc ELSE 0
  /\ UNCHANGED <<fmt, written, table, fileVars, fs_data>>

(* One turn of a writer's loop up to n, in phase p, and the phase after    *)
(* it.  A write that fails ends the loop; what was begun stays.            *)
Turn(p, n, region, then, broken) ==
  /\ phase = p
  /\ \/ /\ i < n
        /\ \/ written' = written \cup {region} /\ i' = i + 1 /\ UNCHANGED phase
           \/ phase' = broken /\ UNCHANGED <<i, written>>
     \/ i >= n /\ phase' = then /\ i' = 0 /\ UNCHANGED written
  /\ UNCHANGED <<fmt, sizeVars, table, fileVars, fs_data>>

\* The first b_bsbc copies are left out, for tests.
WriteBoot ==
  Turn("boot", fmt.bsbc, Region("boot", i, Boot(i), 1), "journals", "failed")
\* Mutant: every journal goes where the first one is.
WriteJournals_Same ==
  Turn("journals", fmt.jc, Region("journal", i, Journal(0), fmt.spc), "errors", "failed")
WriteJournals ==
  Turn("journals", fmt.jc, Region("journal", i, Journal(i), fmt.spc), "errors", "failed")
WriteErrors ==
  Turn("errors", fmt.ec, Region("errors", i, Errors(i), fmt.spc), "reserve", "failed")
\* _write_fats is the last: when it fails, the formatter still reports success.
WriteFats ==
  Turn("fats", fmt.fc, Region("fat", i, FatSector(i), 2 * fatSize), "done", "done")

\* Clusters that _initialize_fat takes for a sector; a FAT takes more.
ClusterOf(s) == {c \in {s \div fmt.spc} : c < TotalClusters}
FatClusters(n) ==
  LET c     == FatSector(n) \div fmt.spc
      bytes == TotalClusters * 8
      run   == fmt.spc * BytesPerSector
      end   == c + (bytes + run - 1) \div run
  IN c .. (IF end < TotalClusters THEN end ELSE TotalClusters) - 1

(* _initialize_fat: the sectors are divided by spc, as if the clusters     *)
(* began with sector 0 and not with the first data sector.                 *)
InitializeFat ==
  /\ phase = "reserve"
  /\ table' = {0, 1, Root}
       \cup (UNION {ClusterOf(Boot(n)) : n \in 0 .. fmt.bsbc - 1})
       \cup (UNION {FatClusters(n) : n \in 0 .. fmt.fc - 1})
       \cup (UNION {ClusterOf(Journal(n)) : n \in 0 .. fmt.jc - 1})
       \cup (UNION {ClusterOf(Errors(n)) : n \in 0 .. fmt.ec - 1})
  /\ phase' = "root"
  /\ UNCHANGED <<fmt, sizeVars, i, written, fileVars, fs_data>>

\* A cluster of the formatter: CLUSTER_SIZE bytes, whatever spc is.
Cluster(c) == Region("cluster", c, DataStart + (c - Root) * SectorsPerCluster, SectorsPerCluster)

(* _write_root_directory; without a source directory the FATs follow.  It  *)
(* may fail, and so may opening the source behind it.                      *)
WriteRoot ==
  /\ phase = "root"
  /\ \/ written' = written \cup {Cluster(Root)} /\ phase' = (IF todo > 0 THEN "files" ELSE "fats")
     \/ written' \in {written, written \cup {Cluster(Root)}} /\ phase' = "failed"
  /\ UNCHANGED <<fmt, sizeVars, i, table, fileVars, fs_data>>

(* _copy_files_to_fs: the next file or directory of the source.            *)
NextFile ==
  /\ phase = "files" /\ left = 0 /\ todo > 0
  /\ left' \in FileSizes /\ chain' = {} /\ todo' = todo - 1
  /\ UNCHANGED <<fmt, phase, sizeVars, i, written, table, lastAlloc, files, fs_data>>

\* The first FREE entry from last_alloc on, if there is one.
FirstFree ==
  {c \in lastAlloc .. TotalClusters - 1 : c \notin table /\ lastAlloc .. c - 1 \subseteq table}

(* One cluster of _copy_file, or the one of _create_directory.  When there *)
(* is none or its write fails the file is skipped; what it took is lost.   *)
CopyCluster ==
  /\ phase = "files" /\ left > 0
  /\ \/ \E c \in FirstFree :
          /\ table' = table \cup {c} /\ lastAlloc' = c + 1
          /\ \/ /\ written' = written \cup {Cluster(c)}
                /\ left' = left - 1 /\ chain' = chain \cup {c}
                /\ files' = IF left = 1 THEN files \cup {chain'} ELSE files
             \/ left' = 0 /\ UNCHANGED <<written, chain, files>>
     \/ /\ FirstFree = {}
        /\ left' = 0 /\ UNCHANGED <<written, table, lastAlloc, chain, files>>
  /\ UNCHANGED <<fmt, phase, sizeVars, i, todo, fs_data>>

\* The root directory with the entries of the files, over the empty one.
CloseRoot ==
  /\ phase = "files" /\ left = 0 /\ todo = 0
  /\ phase' \in {"fats", "failed"}
  /\ UNCHANGED <<fmt, sizeVars, i, written, table, fileVars, fs_data>>

-----------------------------------------------------------------------------
Overlap(a, b) == a.from < b.from + b.size /\ b.from < a.from + a.size
Whole(a)      == \A b \in written \ {a} : ~Overlap(a, b)

\* sectors_per_cluster of the boot sector is an unsigned char.
Byte(n) == n % 256

(* NIFAT32_init, once it has found a boot sector that is what was written  *)
(* (module Mount says how): the geometry from its fields.  It divides by 1 *)
(* when it finds no sectors per cluster.                                   *)
InitLibrary ==
  /\ phase = "done"
  /\ \E b \in written : b.kind = "boot" /\ Whole(b)
  /\ LET spc   == Byte(fmt.spc)
         first == Reserved + fmt.fc * fatSize      \* no sectors of a FAT16 root
     IN fs_data' = [sectors_per_cluster |-> spc,
                    total_clusters |-> (TotalSectors - first) \div (IF spc = 0 THEN 1 ELSE spc),
                    first_data_sector |-> first]
  /\ phase' = "mounted"
  /\ UNCHANGED <<fmt, sizeVars, i, written, table, fileVars>>

Next ==
  \/ Round \/ WriteBoot \/ WriteJournals \/ WriteErrors \/ InitializeFat \/ WriteRoot
  \/ NextFile \/ CopyCluster \/ CloseRoot \/ WriteFats \/ InitLibrary

\* One program after the other, each running on by itself.
Spec     == Init /\ [][Next]_vars
FairSpec == Spec /\ WF_vars(Next)

-----------------------------------------------------------------------------
TypeOK ==
  /\ fmt \in Formats
  /\ phase \in {"size", "boot", "journals", "errors", "reserve", "root", "files", "fats",
                "done", "failed", "mounted"}
  /\ fatSize \in Nat /\ prev \in Nat /\ i \in Nat
  /\ \A r \in written : r.kind \in {"boot", "journal", "errors", "fat", "cluster"}
                        /\ r.n \in Nat /\ r.from \in Nat /\ r.size \in Nat
  /\ table \subseteq Nat /\ lastAlloc \in Nat /\ todo \in 0 .. MaxFiles /\ left \in Nat
  /\ chain \subseteq Nat /\ files \subseteq SUBSET Nat
  /\ fs_data \in [sectors_per_cluster : 0 .. 255, total_clusters : Nat, first_data_sector : Nat]

\* Where the library has a cluster (cluster.c).
LibCluster(c) == (c - Root) * fs_data.sectors_per_cluster + fs_data.first_data_sector

\* Each cluster of the library has an entry inside the table as written,
\* and its last cluster ends before the volume does.
ClustersFit ==
  /\ fs_data.total_clusters * 4 <= fatSize * BytesPerSector
  /\ LibCluster(fs_data.total_clusters) <= TotalSectors

(* Types, and the geometry the library computes is that of the image: as   *)
(* long as the sectors per cluster fit the byte of the boot sector, its    *)
(* clusters fit the table and the volume; the root is where it was put,    *)
(* and so are files, if clusters have the size that the formatter gives    *)
(* them.  An image of 256 sectors per cluster or more mounts with another  *)
(* geometry.                                                               *)
GeometryFits ==
  /\ TypeOK
  /\ phase = "mounted" =>
       /\ fmt.spc < 256 => ClustersFit
       /\ LibCluster(Root) = Cluster(Root).from
       /\ fmt.spc = SectorsPerCluster =>
            \A f \in files : \A c \in f : /\ Cluster(c) \in written /\ c < fs_data.total_clusters
                                           /\ LibCluster(c) = Cluster(c).from

(* Formats that the documentation and the tests use: no structure is       *)
(* written over another one, and none lies behind the end of the volume.   *)
(* The one exception is in the sweep of test/README.md:66-79 over the      *)
(* number of FATs: with 8 to 15 of them the FAT of index 7 is written over *)
(* the copy of index 4 of the boot sector.                                 *)
Intact ==
  fmt \in Documented =>
    \A r \in written :
      /\ r.from + r.size <= TotalSectors
      /\ \A s \in written \ {r} :
           Overlap(r, s) => /\ fmt.fc \in 8 .. 15
                            /\ {<<r.kind, r.n>>, <<s.kind, s.n>>} = {<<"boot", 4>>, <<"fat", 7>>}

(* _calculate_fat_size settles for these formats, and the image can be     *)
(* mounted, unless a write failed or the format leaves out every boot      *)
(* sector, as the sweep over broken ones does in the end.                  *)
FormatEnds ==
  (fmt \in Documented) ~>
    (phase \in {"failed", "mounted"} \/ (phase = "done" /\ fmt.b_bsbc >= fmt.bsbc))

(* formatter/README.md: "The image can be used in tests, opened through    *)
(* the NiFAT32 library": it reads the tables where they have been written. *)
FatsFound ==
  phase = "mounted" => \A r \in written : r.kind = "fat" => r.from = LibFatSector(r.n)
=============================================================================
