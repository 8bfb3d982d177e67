------------------------------ MODULE FatTable ------------------------------
(***************************************************************************)
(* The replicated file allocation table of NiFAT32 (src/src/fat.c) with    *)
(* its RAM cache and the free-cluster bitmap (src/src/fatmap.c).           *)
(*                                                                         *)
(* The volume holds FatCount copies of the table.  read_fat votes over     *)
(* the copies, fills the cache and the bitmap and rewrites the copies when *)
(* they disagree; write_fat updates the cache first and then one copy      *)
(* after the other.  Every disk transfer is a step of its own, so that     *)
(* upsets of stored words, failing transfers and a power loss fall between *)
(* any two of them.  The FAT lock is held from the first step of an        *)
(* operation to its last, so one set of "registers" serves all threads; a  *)
(* caller that gives up waiting for the lock changes nothing.              *)
(***************************************************************************)
EXTENDS Integers, FiniteSets

CONSTANTS
  FatCount,       (* number of table copies, fi->fat_count                 *)
  TotalClusters,  (* fi->total_clusters                                    *)
  RootCluster,    (* fi->ext_root_cluster: below it no entry is accessible *)
  Values,         (* the 28-bit words an entry can decode to               *)
  FREE, BAD,      (* FAT_CLUSTER_FREE and FAT_CLUSTER_BAD                  *)
  CacheModes,     (* values of params->fat_cache, as sets of the flags     *)
                  (* "cache", "map" (MAP_CACHE) and "hard" (HARD_CACHE)    *)
  MinorityOnly    (* environment: faults never outvote the good copies     *)

ASSUME SizeAssumption  == /\ FatCount \in Nat \ {0}
                          /\ TotalClusters \in Nat
                          /\ RootCluster \in Nat
ASSUME ValueAssumption == FREE \in Values /\ BAD \in Values /\ FREE # BAD
ASSUME ModeAssumption  == MinorityOnly \in BOOLEAN

Copies   == 0 .. FatCount - 1
Clusters == RootCluster .. TotalClusters - 1   \* the range both calls accept

VARIABLES
  copies,       (* copies[c][k]: entry c as stored in table copy k         *)
  cacheOn,      (* _fat # NULL                                             *)
  cache,        (* _fat[c]; BAD stands for "not cached"                    *)
  mapOn,        (* _bitmap # NULL                                          *)
  occupied,     (* clusters whose bit is set in _bitmap                    *)
  mounted,      (* "no", "loading" (inside fat_cache_hload), "loaded"      *)
                (* (mounted after it) or "yes" (mounted without it)        *)
  sweep,        (* "none", "hload" or "repair": the running pass           *)
  sweepCa,      (* its next cluster                                        *)
  pc,           (* "idle" (FAT lock free), "vote", "copying" or "done"     *)
  caller,       (* which call holds the lock: "read_fat" or "write_fat"    *)
  by,           (* "user" or "sweep": who called it                        *)
  ca,           (* its cluster                                             *)
  idx,          (* copy the loop is at                                     *)
  table_value,  (* the candidate, and then the result, of the vote         *)
  val_freq,     (* its counter                                             *)
  wrong,        (* disagreements seen, from -1                             *)
  votes,        (* history: what __read_fat__ returned for each copy       *)
  value,        (* the word being written to every copy                    *)
  result,       (* conjunction of the write results                        *)
  voted,        (* the current read went to the disk                       *)
  disturbed,    (* history: a read failure or an upset hit the operation   *)
  truth         (* history: the values entry c may legitimately read as.   *)
                (* A singleton once the copies have settled; after a write *)
                (* that power loss cut short, every word then stored       *)

diskVars == <<copies>>
ramVars  == <<cacheOn, cache, mapOn, occupied>>
passVars == <<mounted, sweep, sweepCa>>
voteVars == <<idx, table_value, val_freq, wrong, votes, voted>>
opVars   == <<pc, caller, by, ca, value, result, disturbed>>
vars     == <<diskVars, ramVars, passVars, voteVars, opVars, truth>>

Mounted == mounted \in {"yes", "loaded"}

NoCache == [c \in Clusters |-> BAD]
NoVotes == [k \in Copies |-> BAD]

-----------------------------------------------------------------------------
(* How the words are counted. *)

Agreeing(f, v) == {k \in Copies : f[k] = v}

\* More than half of the copies in f hold v.
Majority(f, v) == 2 * Cardinality(Agreeing(f, v)) > FatCount

Stored(c) == {copies[c][k] : k \in Copies}

\* What the vote in progress will have seen if no further read fails.
VoteView == [k \in Copies |-> IF k < idx THEN votes[k] ELSE copies[ca][k]]

\* What the copies will hold if no further write fails.
WriteView == [k \in Copies |-> IF k < idx THEN copies[ca][k] ELSE value]

Settled(c) == \E v \in Values : truth[c] = {v}

\* Entry c is being overwritten on behalf of a user of write_fat.
Overwriting(c) == pc = "copying" /\ caller = "write_fat" /\ ca = c

(* The assumption on the environment: for every entry whose value is       *)
(* settled the good copies stay in the majority, among the stored words,   *)
(* among the words the running vote sees, and among the words the running  *)
(* write will have left.                                                   *)
Tolerable ==
  /\ \A c \in Clusters, v \in Values :
        truth[c] = {v} /\ ~Overwriting(c) => Majority(copies[c], v)
  /\ pc = "vote" => \A v \in Values : truth[ca] = {v} => Majority(VoteView, v)
  /\ pc = "copying" => Majority(WriteView, value)

-----------------------------------------------------------------------------
(* fatmap_set and fatmap_unset: a no-op without a bitmap. *)
Marked(c, v) ==
  IF ~mapOn THEN occupied
  ELSE IF v = FREE THEN occupied \ {c} ELSE occupied \cup {c}

\* Mutant: the bitmap is not kept up with the table.
Remember_NoMap(c, v) ==
  /\ cache' = IF cacheOn THEN [cache EXCEPT ![c] = v] ELSE cache
  /\ UNCHANGED <<cacheOn, mapOn, occupied>>

(* The stores to _fat and to the bitmap that read_fat and write_fat make.  *)
Remember(c, v) ==
  /\ cache' = IF cacheOn THEN [cache EXCEPT ![c] = v] ELSE cache
  /\ occupied' = Marked(c, v)
  /\ UNCHANGED <<cacheOn, mapOn>>

Init ==
  /\ \E f \in [Clusters -> Values] :
       /\ copies = [c \in Clusters |-> [k \in Copies |-> f[c]]]
       /\ truth = [c \in Clusters |-> {f[c]}]
  /\ cacheOn = FALSE /\ cache = NoCache
  /\ mapOn = FALSE /\ occupied = {}
  /\ mounted = "no" /\ sweep = "none" /\ sweepCa = 0
  /\ pc = "idle" /\ caller = "read_fat" /\ by = "user" /\ ca = RootCluster
  /\ idx = 0 /\ table_value = BAD /\ val_freq = 0 /\ wrong = -1
  /\ votes = NoVotes /\ value = BAD /\ result = TRUE
  /\ voted = FALSE /\ disturbed = FALSE

(* The locals of a call are gone when it returns. *)
Returned ==
  /\ pc' = "idle" /\ caller' = "read_fat" /\ by' = "user" /\ ca' = RootCluster
  /\ idx' = 0 /\ table_value' = BAD /\ val_freq' = 0 /\ wrong' = -1
  /\ votes' = NoVotes /\ value' = BAD /\ result' = TRUE
  /\ voted' = FALSE /\ disturbed' = FALSE

-----------------------------------------------------------------------------
(* Mounting and unmounting: the cache part of NIFAT32_init and             *)
(* NIFAT32_unload, fat_cache_init, fatmap_init and fat_cache_unload.       *)
(* A bitmap that is still there is kept as it is: nothing unloads it.      *)
FatCacheInit(m) ==
  cacheOn' = ("cache" \in m) /\ cache' = IF cacheOn THEN cache ELSE NoCache

FatmapInit(m) ==
  /\ mapOn' = (mapOn \/ {"cache", "map"} \subseteq m)
  /\ occupied' = IF mapOn THEN occupied ELSE {}

Mount(m) ==
  /\ mounted = "no" /\ pc = "idle" /\ sweep = "none"
  /\ FatCacheInit(m) /\ FatmapInit(m)
  /\ IF {"cache", "hard"} \subseteq m
       THEN mounted' = "loading" /\ sweep' = "hload" /\ sweepCa' = 0
       ELSE mounted' = "yes" /\ UNCHANGED <<sweep, sweepCa>>
  /\ UNCHANGED <<diskVars, voteVars, opVars, truth>>

Unload ==
  /\ Mounted /\ pc = "idle"
  /\ mounted' = "no"
  /\ cacheOn' = FALSE /\ cache' = NoCache
  /\ UNCHANGED <<diskVars, mapOn, occupied, sweep, sweepCa, voteVars, opVars, truth>>

-----------------------------------------------------------------------------
(* read_fat of a cluster in range, after the lock was taken. *)
ReadStart(c, who) ==
  /\ pc = "idle"
  /\ by' = who /\ ca' = c
  /\ IF cacheOn /\ cache[c] # BAD
       THEN pc' = "done" /\ table_value' = cache[c] /\ UNCHANGED voted
       ELSE pc' = "vote" /\ voted' = TRUE /\ UNCHANGED table_value
  /\ UNCHANGED <<diskVars, ramVars, passVars, caller, idx, val_freq, wrong, votes,
                 value, result, disturbed, truth>>

\* Mutant: the counter is not reset when the candidate is replaced.
Count_NoReset(v) ==
  LET freq == IF v = table_value THEN val_freq + 1 ELSE val_freq - 1 IN
  /\ wrong' = IF v = table_value THEN wrong ELSE wrong + 1
  /\ table_value' = IF freq < 0 THEN v ELSE table_value
  /\ val_freq' = freq
  /\ votes' = [votes EXCEPT ![idx] = v]
  /\ idx' = idx + 1

\* Mutant: a disagreement replaces the candidate whatever its count.
Count_LastWord(v) ==
  /\ wrong' = IF v = table_value THEN wrong ELSE wrong + 1
  /\ table_value' = v
  /\ val_freq' = IF v = table_value THEN val_freq + 1 ELSE 0
  /\ votes' = [votes EXCEPT ![idx] = v]
  /\ idx' = idx + 1

(* One round of the voting loop on the word v that __read_fat__ returned. *)
Count(v) ==
  LET freq == IF v = table_value THEN val_freq + 1 ELSE val_freq - 1 IN
  /\ wrong' = IF v = table_value THEN wrong ELSE wrong + 1
  /\ table_value' = IF freq < 0 THEN v ELSE table_value
  /\ val_freq' = IF freq < 0 THEN 0 ELSE freq
  /\ votes' = [votes EXCEPT ![idx] = v]
  /\ idx' = idx + 1

ReadCopy ==
  /\ pc = "vote" /\ idx < FatCount
  /\ Count(copies[ca][idx])
  /\ UNCHANGED <<diskVars, ramVars, passVars, opVars, voted, truth>>

(* The transfer fails, or the disk layer finds no free area slot:          *)
(* __read_fat__ returns FAT_CLUSTER_BAD, which the loop counts as a vote.  *)
ReadCopyFails ==
  /\ pc = "vote" /\ idx < FatCount
  /\ Count(BAD)
  /\ disturbed' = TRUE
  /\ UNCHANGED <<diskVars, ramVars, passVars, pc, caller, by, ca, value, result,
                 voted, truth>>
  /\ MinorityOnly => Settled(ca) /\ Tolerable'

(* The value(s) entry c can read as from now on, v having been elected or  *)
(* written.                                                                *)
SettleOn(c, v, otherwise) ==
  truth' = [truth EXCEPT ![c] = IF Majority(copies[c], v) THEN {v} ELSE otherwise]

\* Mutant: one disagreement more is tolerated before repairing.
VoteEnd_Lenient ==
  /\ pc = "vote" /\ idx = FatCount
  /\ Remember(ca, table_value)
  /\ IF wrong > 1
       THEN /\ pc' = "copying" /\ value' = table_value /\ idx' = 0
            /\ UNCHANGED truth
       ELSE /\ pc' = "done"
            /\ SettleOn(ca, table_value, truth[ca])
            /\ UNCHANGED <<value, idx>>
  /\ UNCHANGED <<diskVars, passVars, caller, by, ca, result, disturbed, table_value,
                 val_freq, wrong, votes, voted>>

(* The loop is over: the cache and the bitmap take the result, and with    *)
(* more than one disagreement every copy is rewritten.                     *)
VoteEnd ==
  /\ pc = "vote" /\ idx = FatCount
  /\ Remember(ca, table_value)
  /\ IF wrong > 0
       THEN /\ pc' = "copying" /\ value' = table_value /\ idx' = 0
            /\ UNCHANGED truth
       ELSE /\ pc' = "done"
            /\ SettleOn(ca, table_value, truth[ca])
            /\ UNCHANGED <<value, idx>>
  /\ UNCHANGED <<diskVars, passVars, caller, by, ca, result, disturbed, table_value, val_freq,
                 wrong, votes, voted>>

-----------------------------------------------------------------------------
\* Mutant: write_fat leaves the cache alone.
WriteStart_StaleCache(c, v) ==
  /\ pc = "idle" /\ Mounted
  /\ pc' = "copying" /\ caller' = "write_fat" /\ ca' = c /\ value' = v
  /\ occupied' = Marked(c, v)
  /\ truth' = [truth EXCEPT ![c] = Stored(c) \cup {v}]
  /\ UNCHANGED <<diskVars, cacheOn, cache, mapOn, passVars, voteVars, by, result,
                 disturbed>>

(* write_fat of a cluster in range, after the lock was taken; the stores   *)
(* to the cache and the bitmap precede every disk write.                   *)
WriteStart(c, v) ==
  /\ pc = "idle" /\ Mounted
  /\ pc' = "copying" /\ caller' = "write_fat" /\ ca' = c /\ value' = v
  /\ Remember(c, v)
  /\ truth' = [truth EXCEPT ![c] = Stored(c) \cup {v}]
  /\ UNCHANGED <<diskVars, passVars, voteVars, by, result, disturbed>>

(* __write_fat__: one copy of the entry reaches the disk. *)
WriteCopy ==
  /\ pc = "copying" /\ idx < FatCount
  /\ copies' = [copies EXCEPT ![ca][idx] = value]
  /\ idx' = idx + 1
  /\ UNCHANGED <<ramVars, passVars, pc, caller, by, ca, value, result, disturbed,
                 table_value, val_freq, wrong, votes, voted, truth>>

\* Mutant: a later success hides an earlier failure.
WriteCopyFails_Forgotten ==
  /\ pc = "copying" /\ idx < FatCount
  /\ idx' = idx + 1 /\ result' = (idx + 1 < FatCount)
  /\ UNCHANGED <<diskVars, ramVars, passVars, pc, caller, by, ca, value, disturbed,
                 table_value, val_freq, wrong, votes, voted, truth>>
  /\ MinorityOnly => Tolerable'

(* __write_fat__ fails for one copy; the loop goes on with the next. *)
WriteCopyFails ==
  /\ pc = "copying" /\ idx < FatCount
  /\ idx' = idx + 1 /\ result' = FALSE
  /\ UNCHANGED <<diskVars, ramVars, passVars, pc, caller, by, ca, value, disturbed,
                 table_value, val_freq, wrong, votes, voted, truth>>
  /\ MinorityOnly => Tolerable'

CopyEnd ==
  /\ pc = "copying" /\ idx = FatCount
  /\ pc' = "done"
  /\ SettleOn(ca, value, IF caller = "write_fat" THEN Stored(ca) \cup {value}
                                                 ELSE truth[ca])
  /\ UNCHANGED <<diskVars, ramVars, passVars, voteVars, caller, by, ca, value,
                 result, disturbed>>

(* Release of the lock.  A pass goes on with the next cluster;             *)
(* fat_cache_hload sets the bitmap once more from the value it got.        *)
Release ==
  /\ pc = "done"
  /\ Returned
  /\ IF by = "sweep"
       THEN /\ sweepCa' = sweepCa + 1
            /\ occupied' = IF sweep = "hload" THEN Marked(ca, table_value) ELSE occupied
       ELSE UNCHANGED <<sweepCa, occupied>>
  /\ UNCHANGED <<diskVars, cacheOn, cache, mapOn, mounted, sweep, truth>>

-----------------------------------------------------------------------------
(* The passes over the whole table.  fat_repair runs after the API lock    *)
(* was released (FS_API_RETURN evaluates its argument last), so it         *)
(* interleaves with every other operation, with unload included.           *)
RepairStart ==
  /\ Mounted /\ sweep = "none"
  /\ sweep' = "repair" /\ sweepCa' = 0
  /\ UNCHANGED <<diskVars, ramVars, mounted, voteVars, opVars, truth>>

SweepRead ==
  /\ sweep # "none" /\ sweepCa \in Clusters
  /\ ReadStart(sweepCa, "sweep")

\* Mutant: the refused cluster is retried.
SweepOutOfRange_Stuck ==
  /\ sweep # "none" /\ sweepCa < TotalClusters /\ sweepCa \notin Clusters
  /\ occupied' = IF sweep = "hload" THEN Marked(sweepCa, BAD) ELSE occupied
  /\ UNCHANGED <<diskVars, cacheOn, cache, mapOn, passVars, voteVars, opVars, truth>>

(* A cluster read_fat refuses: BAD, which fat_cache_hload marks occupied. *)
SweepOutOfRange ==
  /\ sweep # "none" /\ sweepCa < TotalClusters /\ sweepCa \notin Clusters
  /\ sweepCa' = sweepCa + 1
  /\ occupied' = IF sweep = "hload" THEN Marked(sweepCa, BAD) ELSE occupied
  /\ UNCHANGED <<diskVars, cacheOn, cache, mapOn, mounted, sweep, voteVars, opVars,
                 truth>>

(* The pass gives up waiting for the lock and skips the cluster. *)
SweepTimeout ==
  /\ sweep = "repair" /\ sweepCa \in Clusters
  /\ pc # "idle" /\ by # "sweep"
  /\ sweepCa' = sweepCa + 1
  /\ UNCHANGED <<diskVars, ramVars, mounted, sweep, voteVars, opVars, truth>>

SweepEnd ==
  /\ sweep # "none" /\ sweepCa >= TotalClusters
  /\ sweep' = "none" /\ sweepCa' = 0
  /\ mounted' = IF sweep = "hload" THEN "loaded" ELSE mounted
  /\ UNCHANGED <<diskVars, ramVars, voteVars, opVars, truth>>

-----------------------------------------------------------------------------
(* The environment. *)

(* Radiation or wear changes a stored word beyond what the Hamming code    *)
(* corrects.                                                               *)
Upset(c, k, v) ==
  /\ copies[c][k] # v
  /\ copies' = [copies EXCEPT ![c][k] = v]
  /\ disturbed' = (disturbed \/ (pc # "idle" /\ ca = c))
  /\ UNCHANGED <<ramVars, passVars, voteVars, pc, caller, by, ca, value, result, truth>>
  /\ MinorityOnly => (Settled(c) \/ Overwriting(c)) /\ Tolerable'

(* Power loss: RAM is gone.  A write cut short leaves any of the words     *)
(* stored at that moment as the entry's possible value.                    *)
Crash ==
  /\ mounted # "no" \/ pc # "idle"
  /\ cacheOn' = FALSE /\ cache' = NoCache
  /\ mapOn' = FALSE /\ occupied' = {}
  /\ mounted' = "no" /\ sweep' = "none" /\ sweepCa' = 0
  /\ Returned
  /\ truth' = IF pc = "copying" /\ caller = "write_fat"
                THEN [truth EXCEPT ![ca] = Stored(ca)] ELSE truth
  /\ UNCHANGED diskVars

-----------------------------------------------------------------------------
Operation ==
  \/ ReadCopy \/ ReadCopyFails \/ VoteEnd
  \/ WriteCopy \/ WriteCopyFails \/ CopyEnd
  \/ Release

Pass == SweepRead \/ SweepOutOfRange \/ SweepTimeout \/ SweepEnd

UserRead == Mounted /\ \E c \in Clusters : ReadStart(c, "user")

UserWrite == \E c \in Clusters, v \in Values : WriteStart(c, v)

Environment ==
  \/ \E c \in Clusters, k \in Copies, v \in Values : Upset(c, k, v)
  \/ Crash

Next ==
  \/ (\E m \in CacheModes : Mount(m)) \/ Unload
  \/ UserRead \/ UserWrite
  \/ Operation
  \/ RepairStart \/ Pass
  \/ Environment

Spec == Init /\ [][Next]_vars

(* A thread that holds the FAT lock runs on, and so does a pass; nothing   *)
(* forces a user to call, a fault to happen or the power to stay.          *)
FairSpec == Spec /\ WF_vars(Operation) /\ WF_vars(Pass)
-----------------------------------------------------------------------------
(* The type invariant: what each variable can hold. *)
TypeOK ==
  /\ copies \in [Clusters -> [Copies -> Values]]
  /\ cacheOn \in BOOLEAN /\ cache \in [Clusters -> Values]
  /\ mapOn \in BOOLEAN /\ occupied \in SUBSET (0 .. TotalClusters - 1)
  /\ mounted \in {"no", "loading", "yes", "loaded"}
  /\ sweep \in {"none", "hload", "repair"} /\ sweepCa \in Nat
  /\ pc \in {"idle", "vote", "copying", "done"}
  /\ caller \in {"read_fat", "write_fat"} /\ by \in {"user", "sweep"}
  /\ pc # "idle" => ca \in Clusters
  /\ idx \in 0 .. FatCount
  /\ table_value \in Values
  /\ val_freq \in Nat /\ wrong \in Nat \cup {-1}
  /\ votes \in [Copies -> Values]
  /\ value \in Values /\ result \in BOOLEAN
  /\ voted \in BOOLEAN /\ disturbed \in BOOLEAN
  /\ truth \in [Clusters -> SUBSET Values]

(* The invariant of the voting loop: after idx rounds the counter bounds    *)
(* how often each word was seen, for the candidate and for the others.     *)
Seen(f, n, v) == {k \in 0 .. n - 1 : f[k] = v}

VoteInv ==
  pc = "vote" => \A v \in Values :
    LET seen == Cardinality(Seen(votes, idx, v))
    IN  IF table_value = v THEN val_freq >= 2 * seen - idx - 1
                           ELSE val_freq <= idx - 2 * seen

(* The voting loop of read_fat elects every word that more than half of    *)
(* the copies returned, whatever FatCount, the order of the copies and the *)
(* transfers that failed.                                                  *)
MajorityElected ==
  pc = "vote" /\ idx = FatCount => \A v \in Values : Majority(votes, v) => table_value = v

(* read_fat returns the value the last completed write_fat stored, across  *)
(* the cache, repairs, remounts and power loss, as long as faults stay in  *)
(* the minority; after a write cut short, one of the words then stored.    *)
ReadCorrect ==
  pc = "done" /\ caller = "read_fat" => table_value \in truth[ca]

(* What the loop has learnt besides the tally: the candidate is one of the *)
(* words read, and "wrong" tells whether a second disagreement was met.    *)
LoopInv ==
  pc = "vote" =>
    /\ idx = 0 => table_value = BAD /\ val_freq = 0
    /\ idx > 0 => \E k \in 0 .. idx - 1 : votes[k] = table_value
    /\ wrong = -1 => table_value = BAD /\ val_freq = idx
    /\ wrong = 0 /\ table_value # BAD => \A k \in 0 .. idx - 1 : votes[k] = table_value

(* What holds at every step while faults stay in the minority: the good    *)
(* copies of a settled entry outnumber the others on the disk, in the      *)
(* running vote and in the running write; an unsettled entry reads as one  *)
(* of its stored words; a repair writes back what the entry may read as.   *)
Sound ==
  /\ Tolerable
  /\ \A c \in Clusters : Overwriting(c) \/ Settled(c) \/ Stored(c) \subseteq truth[c]
  /\ pc = "vote" =>
       /\ caller = "read_fat"
       /\ Settled(ca) \/ \A k \in 0 .. idx - 1 : votes[k] = copies[ca][k]
  /\ pc = "copying" =>
       /\ cacheOn => cache[ca] = value
       /\ caller = "read_fat" => value = table_value /\ value \in truth[ca]

(* Every copy holds the word of a write_fat that reports success, which a  *)
(* failure of any one copy must prevent, and of a read_fat that went to    *)
(* the disk and elected a usable word: one disagreement is enough to       *)
(* repair.  Unless an upset or a failed read disturbed the operation.      *)
CopiesAgree ==
  pc = "done" /\ result /\ ~disturbed =>
    /\ caller = "write_fat" => Stored(ca) = {value}
    /\ caller = "read_fat" /\ voted /\ table_value # BAD => Stored(ca) = {table_value}

(* A cached word is the settled value of its entry: the cache written      *)
(* before the copies, or filled by a vote, never runs away from the disk.  *)
CacheCoherent ==
  \A c \in Clusters :
     cacheOn /\ cache[c] # BAD /\ ~(pc = "copying" /\ ca = c) => truth[c] = {cache[c]}

(* The three records of an entry agree: a cached word is the settled value *)
(* (CacheCoherent), and with the table loaded at mount the bitmap is       *)
(* exact: the allocator is never offered a used cluster and no free        *)
(* cluster is hidden from it, although the bitmap outlives an unload.      *)
RecordsAgree ==
  /\ CacheCoherent
  /\ \A c \in Clusters :
       mounted = "loaded" /\ mapOn /\ ~(pc = "copying" /\ ca = c)
         => (c \notin occupied <=> truth[c] = {FREE})

(* A running pass ends, although other threads keep taking the lock: each  *)
(* cluster is either read or given up.                                     *)
PassEnds == sweep # "none" ~> sweep = "none"

-----------------------------------------------------------------------------
(* What the table promises to its callers: an array of registers. *)
Reg == INSTANCE FatRegister WITH
  reg     <- truth,
  writing <- IF pc = "copying" /\ caller = "write_fat" THEN <<ca, value>> ELSE <<>>,
  answer  <- CASE pc = "done" /\ caller = "read_fat"  -> <<"read", ca, table_value>>
               [] pc = "done" /\ caller = "write_fat" -> <<"written", ca, value>>
               [] OTHER -> <<>>

(* Cached, voted and repaired, interrupted and remounted, the table        *)
(* behaves as an array of registers that only write_fat changes.           *)
ImplementsRegister == Reg!Spec
=============================================================================
