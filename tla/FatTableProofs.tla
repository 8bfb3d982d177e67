--------------------------- MODULE FatTableProofs ---------------------------
(***************************************************************************)
(* Proofs about the replicated table: its types, and the vote of read_fat. *)
(* They hold for every number of copies, clusters and words, with and      *)
(* without the caches, and whatever faults the environment injects.        *)
(***************************************************************************)
EXTENDS FatTable, FiniteSetTheorems, TLAPS

USE SizeAssumption, ValueAssumption, ModeAssumption

-----------------------------------------------------------------------------
(* Types. *)

LEMMA InitTypes == Init => TypeOK
  <1> SUFFICES ASSUME Init PROVE TypeOK
    OBVIOUS
  <1>1. copies \in [Clusters -> [Copies -> Values]] /\ truth \in [Clusters -> SUBSET Values]
    BY DEF Init
  <1>2. cache \in [Clusters -> Values] /\ votes \in [Copies -> Values]
    BY DEF Init, NoCache, NoVotes
  <1>3. idx \in 0 .. FatCount /\ val_freq \in Nat /\ wrong \in Nat \cup {-1} /\ sweepCa \in Nat
    BY DEF Init
  <1>4. QED
    BY <1>1, <1>2, <1>3 DEF Init, TypeOK

(* What Remember and Marked store has the right type. *)
LEMMA MarkedType ==
  ASSUME TypeOK, NEW c \in 0 .. TotalClusters - 1, NEW v \in Values
  PROVE  Marked(c, v) \in SUBSET (0 .. TotalClusters - 1)
  BY DEF TypeOK, Marked

LEMMA ClusterInTable == Clusters \subseteq 0 .. TotalClusters - 1
  BY DEF Clusters

LEMMA RememberType ==
  ASSUME TypeOK, NEW c \in Clusters, NEW v \in Values, Remember(c, v)
  PROVE  /\ cacheOn' \in BOOLEAN /\ cache' \in [Clusters -> Values]
         /\ mapOn' \in BOOLEAN /\ occupied' \in SUBSET (0 .. TotalClusters - 1)
  BY MarkedType, ClusterInTable DEF TypeOK, Remember

LEMMA ReturnedType ==
  ASSUME Returned
  PROVE  /\ pc' = "idle" /\ caller' = "read_fat" /\ by' = "user"
         /\ idx' = 0 /\ table_value' \in Values /\ val_freq' = 0 /\ wrong' = -1
         /\ votes' \in [Copies -> Values] /\ value' \in Values /\ result' = TRUE
         /\ voted' = FALSE /\ disturbed' = FALSE
  BY DEF Returned, NoVotes

LEMMA StoredType ==
  ASSUME TypeOK, NEW c \in Clusters
  PROVE  Stored(c) \subseteq Values
  BY DEF TypeOK, Stored

LEMMA SettleType ==
  ASSUME TypeOK, NEW c \in Clusters, NEW v \in Values, NEW S \in SUBSET Values,
         SettleOn(c, v, S)
  PROVE  truth' \in [Clusters -> SUBSET Values]
  BY DEF TypeOK, SettleOn

LEMMA CountType ==
  ASSUME TypeOK, pc = "vote", idx < FatCount, NEW v \in Values, Count(v)
  PROVE  /\ idx' \in 0 .. FatCount /\ table_value' \in Values
         /\ val_freq' \in Nat /\ wrong' \in Nat \cup {-1}
         /\ votes' \in [Copies -> Values]
  <1>1. idx' \in 0 .. FatCount
    BY DEF TypeOK, Count
  <1>2. table_value' \in Values /\ votes' \in [Copies -> Values]
    BY DEF TypeOK, Count
  <1>3. val_freq' \in Nat
    BY DEF TypeOK, Count
  <1>4. wrong' \in Nat \cup {-1}
    BY DEF TypeOK, Count
  <1>5. QED
    BY <1>1, <1>2, <1>3, <1>4

LEMMA ReadStartType ==
  ASSUME TypeOK, NEW c \in Clusters, NEW who \in {"user", "sweep"}, ReadStart(c, who)
  PROVE  TypeOK'
  <1>1. /\ by' \in {"user", "sweep"} /\ ca' \in Clusters
        /\ pc' \in {"vote", "done"} /\ voted' \in BOOLEAN
    BY DEF TypeOK, ReadStart
  <1>2. table_value' \in Values
    BY DEF TypeOK, ReadStart
  <1>3. QED
    BY <1>1, <1>2 DEF TypeOK, ReadStart, diskVars, ramVars, passVars

(* Every step keeps the types. *)
LEMMA NextTypes == TypeOK /\ [Next]_vars => TypeOK'
  <1> SUFFICES ASSUME TypeOK, [Next]_vars PROVE TypeOK'
    OBVIOUS
  <1> USE DEF diskVars, ramVars, passVars, voteVars, opVars
  <1>1. ASSUME NEW m \in CacheModes, Mount(m) PROVE TypeOK'
    BY <1>1 DEF Mount, FatCacheInit, FatmapInit, TypeOK, NoCache
  <1>2. CASE Unload
    BY <1>2 DEF Unload, TypeOK, NoCache
  <1>3. CASE UserRead
    BY <1>3, ReadStartType DEF UserRead
  <1>4. ASSUME NEW c \in Clusters, NEW v \in Values, WriteStart(c, v)
        PROVE  TypeOK'
    <2>1. Stored(c) \cup {v} \in SUBSET Values
      BY StoredType
    <2>2. Remember(c, v)
      BY <1>4 DEF WriteStart
    <2>3. QED
      BY <1>4, <2>1, <2>2, RememberType DEF WriteStart, TypeOK
  <1>5. CASE ReadCopy
    <2>1. copies[ca][idx] \in Values
      BY <1>5 DEF ReadCopy, TypeOK, Copies
    <2>2. QED
      BY <1>5, <2>1, CountType DEF ReadCopy, TypeOK
  <1>6. CASE ReadCopyFails
    BY <1>6, CountType DEF ReadCopyFails, TypeOK
  <1>7. CASE VoteEnd
    <2>1. /\ ca \in Clusters /\ table_value \in Values /\ truth[ca] \in SUBSET Values
          /\ Remember(ca, table_value)
      BY <1>7 DEF VoteEnd, TypeOK
    <2>2. truth' \in [Clusters -> SUBSET Values]
      BY <1>7, <2>1, SettleType DEF VoteEnd, TypeOK
    <2>3. QED
      BY <1>7, <2>1, <2>2, RememberType DEF VoteEnd, TypeOK
  <1>8. CASE WriteCopy
    <2>1. copies' \in [Clusters -> [Copies -> Values]]
      BY <1>8 DEF WriteCopy, TypeOK
    <2>2. idx' \in 0 .. FatCount
      BY <1>8 DEF WriteCopy, TypeOK
    <2>3. QED
      BY <1>8, <2>1, <2>2 DEF WriteCopy, TypeOK
  <1>9. CASE WriteCopyFails
    <2>1. idx' \in 0 .. FatCount
      BY <1>9 DEF WriteCopyFails, TypeOK
    <2>2. QED
      BY <1>9, <2>1, ZenonT(60) DEF WriteCopyFails, TypeOK
  <1>10. CASE CopyEnd
    <2>1. /\ ca \in Clusters /\ value \in Values
          /\ (IF caller = "write_fat" THEN Stored(ca) \cup {value} ELSE truth[ca])
               \in SUBSET Values
      BY <1>10, StoredType DEF CopyEnd, TypeOK
    <2>2. truth' \in [Clusters -> SUBSET Values]
      BY <1>10, <2>1, SettleType DEF CopyEnd
    <2>3. QED
      BY <1>10, <2>2 DEF CopyEnd, TypeOK
  <1>11. CASE Release
    <2>1. Marked(ca, table_value) \in SUBSET (0 .. TotalClusters - 1)
      BY <1>11, MarkedType, ClusterInTable DEF Release, TypeOK
    <2>2. occupied' \in SUBSET (0 .. TotalClusters - 1)
      <3>1. CASE by = "sweep"
        BY <1>11, <2>1, <3>1 DEF Release, TypeOK
      <3>2. CASE by # "sweep"
        BY <1>11, <3>2 DEF Release, TypeOK
      <3>3. QED
        BY <3>1, <3>2
    <2>3. sweepCa' \in Nat
      BY <1>11 DEF Release, TypeOK
    <2>4. Returned
      BY <1>11 DEF Release
    <2>5. QED
      BY <1>11, <2>2, <2>3, <2>4, ReturnedType DEF Release, TypeOK
  <1>12. CASE RepairStart
    BY <1>12 DEF RepairStart, TypeOK
  <1>13. CASE SweepRead
    BY <1>13, ReadStartType DEF SweepRead
  <1>14. CASE SweepOutOfRange
    <2>1. sweepCa \in 0 .. TotalClusters - 1
      BY <1>14 DEF SweepOutOfRange, TypeOK
    <2>2. Marked(sweepCa, BAD) \in SUBSET (0 .. TotalClusters - 1)
      BY <2>1, MarkedType
    <2>3. QED
      BY <1>14, <2>2 DEF SweepOutOfRange, TypeOK
  <1>15. CASE SweepTimeout
    BY <1>15 DEF SweepTimeout, TypeOK
  <1>16. CASE SweepEnd
    BY <1>16 DEF SweepEnd, TypeOK
  <1>17. ASSUME NEW c \in Clusters, NEW k \in Copies, NEW v \in Values, Upset(c, k, v)
         PROVE  TypeOK'
    BY <1>17 DEF Upset, TypeOK
  <1>18. CASE Crash
    <2>1. truth' \in [Clusters -> SUBSET Values]
      BY <1>18, StoredType DEF Crash, TypeOK
    <2>2. Returned /\ cache' \in [Clusters -> Values]
      BY <1>18 DEF Crash, NoCache
    <2>3. /\ copies' = copies /\ cacheOn' = FALSE /\ mapOn' = FALSE /\ occupied' = {}
          /\ mounted' = "no" /\ sweep' = "none" /\ sweepCa' = 0
      BY <1>18 DEF Crash
    <2>4. /\ copies' \in [Clusters -> [Copies -> Values]]
          /\ cacheOn' \in BOOLEAN /\ mapOn' \in BOOLEAN
          /\ occupied' \in SUBSET (0 .. TotalClusters - 1)
          /\ sweepCa' \in Nat
      BY <2>3 DEF TypeOK
    <2>5. /\ pc' = "idle" /\ caller' = "read_fat" /\ by' = "user"
          /\ idx' \in 0 .. FatCount /\ table_value' \in Values
          /\ val_freq' \in Nat /\ wrong' \in Nat \cup {-1}
          /\ votes' \in [Copies -> Values] /\ value' \in Values
          /\ result' \in BOOLEAN /\ voted' \in BOOLEAN /\ disturbed' \in BOOLEAN
      BY <2>2, ReturnedType
    <2>6. QED
      BY <2>1, <2>2, <2>3, <2>4, <2>5 DEF TypeOK
  <1>19. CASE UNCHANGED vars
    BY <1>19 DEF vars, TypeOK
  <1>20. QED
    BY <1>1, <1>2, <1>3, <1>4, <1>5, <1>6, <1>7, <1>8, <1>9, <1>10, <1>11, <1>12,
       <1>13, <1>14, <1>15, <1>16, <1>17, <1>18, <1>19
       DEF Next, UserWrite, Operation, Pass, Environment

(* Every variable keeps its type in every behaviour. *)
THEOREM TypeCorrect == Spec => []TypeOK
  BY InitTypes, NextTypes, PTL DEF Spec

-----------------------------------------------------------------------------
(* The vote. *)

(* One more word in a prefix: the count of that word grows by one. *)
LEMMA SeenStep ==
  ASSUME NEW f \in [Copies -> Values], NEW i \in Copies, NEW w \in Values, NEW v \in Values
  PROVE  /\ Cardinality(Seen(f, i, v)) \in Nat
         /\ Cardinality(Seen([f EXCEPT ![i] = w], i + 1, v)) =
              IF w = v THEN Cardinality(Seen(f, i, v)) + 1 ELSE Cardinality(Seen(f, i, v))
  <1> DEFINE S == Seen(f, i, v)
             T == Seen([f EXCEPT ![i] = w], i + 1, v)
  <1>1. i \in Nat /\ i \in 0 .. FatCount - 1
    BY DEF Copies
  <1>2. IsFiniteSet(S) /\ Cardinality(S) \in Nat
    <2>1. IsFiniteSet(0 .. i - 1)
      BY <1>1, FS_Interval
    <2>2. S \in SUBSET (0 .. i - 1)
      BY DEF Seen
    <2>3. QED
      BY <2>1, <2>2, FS_Subset, FS_CardinalityType
  <1>3. i \notin S
    BY <1>1 DEF Seen
  <1>4. \A k \in 0 .. i : k \in Copies /\ (k = i \/ k \in 0 .. i - 1)
    BY <1>1 DEF Copies
  <1>5. CASE w = v
    <2>1. T = S \cup {i}
      BY <1>1, <1>4, <1>5 DEF Seen
    <2>2. QED
      BY <1>2, <1>3, <1>5, <2>1, FS_AddElement
  <1>6. CASE w # v
    <2>1. T = S
      BY <1>1, <1>4, <1>6 DEF Seen
    <2>2. QED
      BY <1>2, <1>6, <2>1
  <1>7. QED
    BY <1>5, <1>6

(* Nothing has been seen before the first round. *)
LEMMA SeenNothing == ASSUME NEW f, NEW v PROVE Cardinality(Seen(f, 0, v)) = 0
  <1>1. Seen(f, 0, v) = {}
    BY DEF Seen
  <1>2. QED
    BY <1>1, FS_EmptySet

(* A round of the loop keeps the bounds, whatever word was read. *)
LEMMA CountKeepsBounds ==
  ASSUME TypeOK, VoteInv, pc = "vote", idx < FatCount, NEW w \in Values, Count(w)
  PROVE  VoteInv'
  <1> SUFFICES ASSUME NEW v \in Values
               PROVE  IF table_value' = v
                        THEN val_freq' >= 2 * Cardinality(Seen(votes', idx', v)) - idx' - 1
                        ELSE val_freq' <= idx' - 2 * Cardinality(Seen(votes', idx', v))
    BY DEF VoteInv
  <1> DEFINE n == Cardinality(Seen(votes, idx, v))
             m == Cardinality(Seen(votes', idx', v))
  <1>1. /\ idx \in Nat /\ idx \in Copies /\ votes \in [Copies -> Values]
        /\ table_value \in Values /\ val_freq \in Nat
    BY DEF TypeOK, Copies
  <1>2. IF table_value = v THEN val_freq >= 2 * n - idx - 1 ELSE val_freq <= idx - 2 * n
    BY DEF VoteInv
  <1>3. /\ votes' = [votes EXCEPT ![idx] = w] /\ idx' = idx + 1
        /\ table_value' = IF (IF w = table_value THEN val_freq + 1 ELSE val_freq - 1) < 0
                            THEN w ELSE table_value
        /\ val_freq' = IF (IF w = table_value THEN val_freq + 1 ELSE val_freq - 1) < 0
                         THEN 0 ELSE IF w = table_value THEN val_freq + 1 ELSE val_freq - 1
    BY DEF Count
  <1>4. n \in Nat /\ m = IF w = v THEN n + 1 ELSE n
    BY <1>1, <1>3, SeenStep, ZenonT(60)
  <1> HIDE DEF n, m
  <1>5. IF table_value' = v THEN val_freq' >= 2 * m - idx' - 1 ELSE val_freq' <= idx' - 2 * m
    <2>1. CASE w = v /\ table_value = v
      BY <2>1, <1>1, <1>2, <1>3, <1>4
    <2>2. CASE w = v /\ table_value # v
      BY <2>2, <1>1, <1>2, <1>3, <1>4
    <2>3. CASE w # v /\ table_value = v
      BY <2>3, <1>1, <1>2, <1>3, <1>4
    <2>4. CASE w # v /\ table_value # v
      BY <2>4, <1>1, <1>2, <1>3, <1>4
    <2>5. QED
      BY <2>1, <2>2, <2>3, <2>4
  <1>6. QED
    BY <1>5 DEF n, m

(* Nor does a round lose what LoopInv says of the candidate. *)
LEMMA CountKeepsLoop ==
  ASSUME TypeOK, LoopInv, pc = "vote", idx < FatCount, NEW w \in Values, Count(w)
  PROVE  LoopInv'
  <1>1. /\ idx \in Nat /\ idx \in Copies /\ votes \in [Copies -> Values]
        /\ val_freq \in Nat /\ wrong \in Nat \cup {-1}
    BY DEF TypeOK, Copies
  <1>2. /\ votes' = [votes EXCEPT ![idx] = w] /\ idx' = idx + 1
        /\ wrong' = IF w = table_value THEN wrong ELSE wrong + 1
        /\ table_value' = IF (IF w = table_value THEN val_freq + 1 ELSE val_freq - 1) < 0
                            THEN w ELSE table_value
        /\ val_freq' = IF (IF w = table_value THEN val_freq + 1 ELSE val_freq - 1) < 0
                         THEN 0 ELSE IF w = table_value THEN val_freq + 1 ELSE val_freq - 1
    BY DEF Count
  <1>3. /\ votes'[idx] = w
        /\ \A k \in 0 .. idx - 1 : k \in Copies /\ votes'[k] = votes[k]
        /\ \A k \in 0 .. idx' - 1 : k = idx \/ k \in 0 .. idx - 1
        /\ idx \in 0 .. idx' - 1 /\ \A k \in 0 .. idx - 1 : k \in 0 .. idx' - 1
    BY <1>1, <1>2 DEF Copies
  <1>4. /\ idx = 0 => table_value = BAD /\ val_freq = 0
        /\ idx > 0 => \E k \in 0 .. idx - 1 : votes[k] = table_value
        /\ wrong = -1 => table_value = BAD /\ val_freq = idx
        /\ wrong = 0 /\ table_value # BAD => \A k \in 0 .. idx - 1 : votes[k] = table_value
    BY DEF LoopInv
  <1>5. idx' # 0
    BY <1>1, <1>2
  <1>6. \E k \in 0 .. idx' - 1 : votes'[k] = table_value'
    <2>1. CASE table_value' = w
      BY <2>1, <1>3
    <2>2. CASE table_value' = table_value /\ w # table_value
      <3>1. idx > 0
        BY <1>1, <1>2, <1>4, <2>2
      <3>2. QED
        BY <3>1, <1>3, <1>4, <2>2
    <2>3. QED
      BY <2>1, <2>2, <1>2
  <1>7. wrong' = -1 => table_value' = BAD /\ val_freq' = idx'
    BY <1>1, <1>2, <1>4
  <1>8. wrong' = 0 /\ table_value' # BAD => \A k \in 0 .. idx' - 1 : votes'[k] = table_value'
    <2> SUFFICES ASSUME wrong' = 0, table_value' # BAD, NEW k \in 0 .. idx' - 1
                 PROVE  votes'[k] = table_value'
      OBVIOUS
    <2>1. CASE wrong = 0
      BY <2>1, <1>1, <1>2, <1>3, <1>4
    <2>2. CASE wrong = -1
      <3>1. w # table_value /\ table_value = BAD /\ val_freq = idx
        BY <2>2, <1>2, <1>4
      <3>2. idx = 0 /\ table_value' = w
        BY <3>1, <1>1, <1>2
      <3>3. QED
        BY <3>2, <1>2, <1>3
    <2>3. QED
      BY <2>1, <2>2, <1>1, <1>2
  <1>9. QED
    BY <1>5, <1>6, <1>7, <1>8 DEF LoopInv

(* Outside a call the locals have their initial values. *)
IdleInv == pc = "idle" => /\ idx = 0 /\ val_freq = 0 /\ table_value = BAD
                          /\ wrong = -1 /\ caller = "read_fat"

VoteIInv == TypeOK /\ IdleInv /\ VoteInv /\ LoopInv

(* A read starts its loop with the bounds in place. *)
LEMMA ReadStartBounds ==
  ASSUME IdleInv, NEW c, NEW who, ReadStart(c, who)
  PROVE  VoteInv' /\ LoopInv'
  <1>1. CASE pc' = "vote"
    <2>1. idx' = 0 /\ val_freq' = 0 /\ table_value' = BAD /\ wrong' = -1
      BY <1>1 DEF ReadStart, IdleInv
    <2>2. \A v \in Values : Cardinality(Seen(votes', idx', v)) = 0
      BY <2>1, SeenNothing
    <2>3. VoteInv'
      BY <2>1, <2>2 DEF VoteInv
    <2>4. LoopInv'
      BY <2>1 DEF LoopInv
    <2>5. QED
      BY <2>3, <2>4
  <1>2. CASE pc' # "vote"
    BY <1>2 DEF VoteInv, LoopInv
  <1>3. QED
    BY <1>1, <1>2

LEMMA NextVote == VoteIInv /\ [Next]_vars => VoteIInv'
  <1> SUFFICES ASSUME VoteIInv, [Next]_vars PROVE IdleInv' /\ VoteInv' /\ LoopInv'
    BY NextTypes DEF VoteIInv
  <1> USE DEF VoteIInv
  <1>1. CASE pc' # "vote" /\ pc' # "idle"
    BY <1>1 DEF IdleInv, VoteInv, LoopInv
  <1>2. CASE UNCHANGED <<pc, caller, voteVars>>
    BY <1>2 DEF voteVars, IdleInv, VoteInv, LoopInv, Seen
  <1>3. ASSUME NEW c, NEW who, ReadStart(c, who)
        PROVE  IdleInv' /\ VoteInv' /\ LoopInv'
    BY <1>3, ReadStartBounds DEF IdleInv, ReadStart
  <1>4. CASE ReadCopy
    <2>1. copies[ca][idx] \in Values
      BY <1>4 DEF ReadCopy, TypeOK, Copies
    <2>2. QED
      BY <1>4, <2>1, CountKeepsBounds, CountKeepsLoop DEF ReadCopy, IdleInv, opVars
  <1>5. CASE ReadCopyFails
    BY <1>5, CountKeepsBounds, CountKeepsLoop DEF ReadCopyFails, IdleInv
  <1>6. CASE Returned
    BY <1>6 DEF Returned, IdleInv, VoteInv, LoopInv
  <1>7. QED
    <2> USE DEF vars, opVars
    <2>1. CASE \/ \E m \in CacheModes : Mount(m)
               \/ Unload \/ RepairStart \/ SweepOutOfRange \/ SweepTimeout \/ SweepEnd
      BY <1>2, <2>1 DEF Mount, Unload, RepairStart, SweepOutOfRange, SweepTimeout, SweepEnd
    <2>2. CASE UserRead \/ SweepRead
      BY <1>3, <2>2 DEF UserRead, SweepRead
    <2>3. CASE UserWrite \/ VoteEnd \/ WriteCopy \/ WriteCopyFails \/ CopyEnd
      BY <1>1, <2>3 DEF UserWrite, WriteStart, VoteEnd, WriteCopy, WriteCopyFails, CopyEnd
    <2>4. CASE Release \/ Crash
      BY <1>6, <2>4 DEF Release, Crash
    <2>5. CASE \E c \in Clusters, k \in Copies, v \in Values : Upset(c, k, v)
      BY <1>2, <2>5 DEF Upset
    <2>6. CASE UNCHANGED vars
      BY <1>2, <2>6
    <2>7. QED
      BY <1>4, <1>5, <2>1, <2>2, <2>3, <2>4, <2>5, <2>6
         DEF Next, Operation, Pass, Environment

-----------------------------------------------------------------------------
(* Majorities. *)

LEMMA AgreeingFinite ==
  ASSUME NEW f, NEW v
  PROVE  IsFiniteSet(Agreeing(f, v)) /\ Cardinality(Agreeing(f, v)) \in Nat
  <1>1. IsFiniteSet(Copies) /\ Agreeing(f, v) \in SUBSET Copies
    BY FS_Interval DEF Copies, Agreeing
  <1>2. QED
    BY <1>1, FS_Subset, FS_CardinalityType

(* More copies that agree do not lose a majority. *)
LEMMA MajorityGrows ==
  ASSUME NEW f, NEW g, NEW v, Majority(f, v), Agreeing(f, v) \subseteq Agreeing(g, v)
  PROVE  Majority(g, v)
  <1>1. Cardinality(Agreeing(f, v)) <= Cardinality(Agreeing(g, v))
    BY AgreeingFinite, FS_Subset
  <1>2. QED
    BY <1>1, AgreeingFinite DEF Majority

LEMMA MajorityOfAll ==
  ASSUME NEW f, NEW v, \A k \in Copies : f[k] = v
  PROVE  Majority(f, v)
  <1>1. Agreeing(f, v) = 0 .. FatCount - 1
    BY DEF Agreeing, Copies
  <1>2. Cardinality(Agreeing(f, v)) = FatCount
    BY <1>1, FS_Interval
  <1>3. QED
    BY <1>2 DEF Majority

LEMMA MajorityIsThere ==
  ASSUME NEW f, NEW v, Majority(f, v)
  PROVE  \E k \in Copies : f[k] = v
  <1> SUFFICES ASSUME \A k \in Copies : f[k] # v PROVE FALSE
    OBVIOUS
  <1>1. Agreeing(f, v) = {}
    BY DEF Agreeing
  <1>2. QED
    BY <1>1, FS_EmptySet DEF Majority

(* Two functions equal on the copies have the same majorities. *)
LEMMA MajoritySame ==
  ASSUME NEW f, NEW g, NEW v, \A k \in Copies : f[k] = g[k], Majority(f, v)
  PROVE  Majority(g, v)
  BY MajorityGrows DEF Agreeing

(* A finished vote elects a word that more than half of the copies         *)
(* returned, and always one of the words returned.                         *)
LEMMA Elected ==
  ASSUME VoteIInv, pc = "vote", idx = FatCount
  PROVE  /\ \A v \in Values : Majority(votes, v) => table_value = v
         /\ \E k \in Copies : votes[k] = table_value
         /\ wrong = -1 => table_value = BAD
         /\ wrong = 0 /\ table_value # BAD => \A k \in Copies : votes[k] = table_value
  <1>1. ASSUME NEW v \in Values, Majority(votes, v), table_value # v
        PROVE  FALSE
    <2>1. Agreeing(votes, v) = Seen(votes, idx, v)
      BY DEF Agreeing, Seen, Copies
    <2>2. val_freq <= FatCount - 2 * Cardinality(Agreeing(votes, v))
      BY <1>1, <2>1 DEF VoteIInv, VoteInv
    <2>3. QED
      BY <1>1, <2>2, AgreeingFinite DEF VoteIInv, TypeOK, Majority
  <1>2. QED
    BY <1>1 DEF VoteIInv, LoopInv, Copies

(* Whatever the number of copies, their order and the transfers that fail, *)
(* read_fat elects every word that more than half of the copies returned.  *)
THEOREM MajorityWins == Spec => []MajorityElected
  <1>1. Init => VoteIInv
    BY InitTypes DEF Init, VoteIInv, IdleInv, VoteInv, LoopInv
  <1>2. VoteIInv => MajorityElected
    BY Elected DEF MajorityElected
  <1>3. QED
    BY <1>1, <1>2, NextVote, PTL DEF Spec

-----------------------------------------------------------------------------
(* Reads are correct while faults stay in the minority. *)

Safe == Sound /\ ReadCorrect /\ CacheCoherent

SafeIInv == VoteIInv /\ Safe

(* Steps that touch neither the copies nor a running call; they may load   *)
(* or drop the cache when no call is running.                              *)
LEMMA SafeFrame ==
  ASSUME SafeIInv, UNCHANGED <<copies, truth, pc, caller, ca, idx, votes, value, table_value>>,
         UNCHANGED <<cache, cacheOn>> \/ (pc = "idle" /\ cache' = NoCache)
                                      \/ (pc = "idle" /\ cache' = cache /\ cacheOn)
  PROVE  Safe'
  <1> USE DEF SafeIInv, Safe
  <1>1. Tolerable'
    BY ZenonT(60) DEF Sound, Tolerable, Majority, Agreeing, VoteView, WriteView, Overwriting
  <1>2. Sound'
    BY <1>1 DEF Sound, Stored, Settled, Overwriting
  <1>3. ReadCorrect'
    BY DEF ReadCorrect
  <1>4. CacheCoherent'
    BY DEF CacheCoherent, NoCache
  <1>5. QED
    BY <1>2, <1>3, <1>4

(* The end of a call. *)
LEMMA SafeReturned ==
  ASSUME SafeIInv, pc = "done", Returned, UNCHANGED <<copies, truth, cache, cacheOn>>
  PROVE  Safe'
  <1> USE DEF SafeIInv, Safe
  <1>1. pc' = "idle"
    BY DEF Returned
  <1>2. Tolerable'
    BY <1>1 DEF Sound, Tolerable, Majority, Agreeing, Overwriting
  <1>3. Sound'
    BY <1>1, <1>2 DEF Sound, Stored, Settled, Overwriting
  <1>4. ReadCorrect' /\ CacheCoherent'
    BY <1>1 DEF ReadCorrect, CacheCoherent
  <1>5. QED
    BY <1>3, <1>4

LEMMA SafeReadStart ==
  ASSUME SafeIInv, NEW c \in Clusters, NEW who, ReadStart(c, who)
  PROVE  Safe'
  <1> USE DEF SafeIInv, Safe
  <1>1. /\ UNCHANGED <<copies, truth, cache, cacheOn, caller, idx, votes, value>>
        /\ pc = "idle" /\ ca' = c /\ caller = "read_fat" /\ idx = 0
    BY DEF ReadStart, diskVars, ramVars, VoteIInv, IdleInv
  <1>2. CASE pc' = "done"
    <2>1. cacheOn /\ cache[c] # BAD /\ table_value' = cache[c]
      BY <1>2 DEF ReadStart
    <2>2. truth[c] = {cache[c]}
      BY <1>1, <2>1 DEF CacheCoherent
    <2>3. ReadCorrect' /\ CacheCoherent'
      BY <1>1, <1>2, <2>1, <2>2 DEF ReadCorrect, CacheCoherent
    <2>4. Tolerable'
      BY <1>1, <1>2 DEF Sound, Tolerable, Majority, Agreeing, Overwriting
    <2>5. QED
      BY <1>1, <1>2, <2>3, <2>4 DEF Sound, Stored, Settled, Overwriting
  <1>3. CASE pc' = "vote"
    <2>1. ASSUME NEW v \in Values, truth[c] = {v}
          PROVE  Majority(VoteView', v)
      <3>1. Majority(copies[c], v)
        BY <1>1, <2>1 DEF Sound, Tolerable, Overwriting
      <3>2. \A k \in Copies : VoteView'[k] = copies[c][k]
        BY <1>1 DEF VoteView, Copies
      <3>3. QED
        BY <3>1, <3>2, MajoritySame
    <2>2. Tolerable'
      <3>1. \A d \in Clusters, v \in Values : truth'[d] = {v} => Majority(copies'[d], v)
        BY <1>1 DEF Sound, Tolerable, Overwriting
      <3>2. \A v \in Values : truth'[ca'] = {v} => Majority(VoteView', v)
        BY <1>1, <2>1
      <3>3. QED
        BY <1>3, <3>1, <3>2 DEF Tolerable, Majority, Agreeing
    <2>3. Sound'
      BY <1>1, <1>3, <2>2 DEF Sound, Stored, Settled, Overwriting
    <2>4. ReadCorrect' /\ CacheCoherent'
      BY <1>1, <1>3 DEF ReadCorrect, CacheCoherent
    <2>5. QED
      BY <2>3, <2>4
  <1>4. QED
    BY <1>2, <1>3 DEF ReadStart

LEMMA SafeReadCopy ==
  ASSUME SafeIInv, ReadCopy
  PROVE  Safe'
  <1> USE DEF SafeIInv, Safe
  <1>1. /\ UNCHANGED <<copies, truth, cache, cacheOn, pc, caller, ca, value>>
        /\ pc = "vote" /\ idx \in Copies /\ idx' = idx + 1
        /\ votes' = [votes EXCEPT ![idx] = copies[ca][idx]]
        /\ votes \in [Copies -> Values] /\ ca \in Clusters
    BY DEF ReadCopy, Count, diskVars, ramVars, opVars, VoteIInv, TypeOK, Copies
  <1>2. \A k \in Copies : VoteView'[k] = VoteView[k]
    BY <1>1 DEF VoteView, Copies
  <1>3. \A k \in 0 .. idx' - 1 : k = idx \/ k \in 0 .. idx - 1
    BY <1>1 DEF Copies
  <1>4. Tolerable'
    <2>1. \A v \in Values : truth[ca] = {v} => Majority(VoteView', v)
      BY <1>1, <1>2, MajoritySame DEF Sound, Tolerable
    <2>2. QED
      BY <1>1, <2>1 DEF Sound, Tolerable, Majority, Agreeing, Overwriting
  <1>5. Settled(ca) \/ \A k \in 0 .. idx' - 1 : votes'[k] = copies[ca][k]
    BY <1>1, <1>3 DEF Sound, Copies
  <1>6. Sound'
    BY <1>1, <1>4, <1>5 DEF Sound, Stored, Settled, Overwriting
  <1>7. QED
    BY <1>1, <1>6 DEF ReadCorrect, CacheCoherent

LEMMA SafeReadCopyFails ==
  ASSUME SafeIInv, MinorityOnly, ReadCopyFails
  PROVE  Safe'
  <1> USE DEF SafeIInv, Safe
  <1>1. /\ UNCHANGED <<copies, truth, cache, cacheOn, pc, caller, ca, value>>
        /\ pc = "vote" /\ Tolerable' /\ Settled(ca)
    BY DEF ReadCopyFails, diskVars, ramVars
  <1>2. Sound'
    BY <1>1 DEF Sound, Stored, Settled, Overwriting
  <1>3. QED
    BY <1>1, <1>2 DEF ReadCorrect, CacheCoherent

LEMMA SafeUpset ==
  ASSUME SafeIInv, MinorityOnly, NEW c \in Clusters, NEW k \in Copies, NEW v \in Values,
         Upset(c, k, v)
  PROVE  Safe'
  <1> USE DEF SafeIInv, Safe
  <1>1. /\ UNCHANGED <<truth, cache, cacheOn, pc, caller, ca, idx, votes, value, table_value>>
        /\ Tolerable' /\ (Settled(c) \/ Overwriting(c))
        /\ \A d \in Clusters : d # c => copies'[d] = copies[d]
    BY DEF Upset, ramVars, voteVars, VoteIInv, TypeOK
  <1>2. \A d \in Clusters : Overwriting(d)' \/ Settled(d)' \/ Stored(d)' \subseteq truth'[d]
    BY <1>1 DEF Sound, Stored, Settled, Overwriting
  <1>3. pc = "vote" => Settled(ca)' \/ \A j \in 0 .. idx - 1 : votes[j] = copies'[ca][j]
    <2>1. CASE ca = c /\ pc = "vote"
      BY <1>1, <2>1 DEF Settled, Overwriting
    <2>2. CASE ca # c /\ pc = "vote"
      BY <1>1, <2>2 DEF Sound, Settled, VoteIInv, TypeOK
    <2>3. QED
      BY <2>1, <2>2
  <1>4. Sound'
    BY <1>1, <1>2, <1>3 DEF Sound
  <1>5. QED
    BY <1>1, <1>4 DEF ReadCorrect, CacheCoherent

(* A store to the cache leaves the other entries' cached words alone. *)
LEMMA RememberOthers ==
  ASSUME TypeOK, NEW c \in Clusters, NEW v \in Values, Remember(c, v)
  PROVE  /\ cacheOn' = cacheOn
         /\ \A d \in Clusters : d # c => cache'[d] = cache[d]
         /\ cacheOn => cache'[c] = v
  BY DEF TypeOK, Remember

(* What a finished vote knows of the entry: a settled value is elected, a  *)
(* word it may read as in any case, and one disagreement at most means     *)
(* that the copies of an unsettled entry are all alike.                    *)
LEMMA VoteKnows ==
  ASSUME SafeIInv, pc = "vote", idx = FatCount
  PROVE  /\ \A v \in Values : truth[ca] = {v} => table_value = v
         /\ table_value \in truth[ca]
         /\ ~(wrong > 0) /\ table_value # BAD /\ ~Settled(ca) => Majority(copies[ca], table_value)
  <1> USE DEF SafeIInv, Safe
  <1>1. TypeOK /\ ca \in Clusters /\ caller = "read_fat"
    BY DEF VoteIInv, TypeOK, Sound
  <1>2. \A k \in Copies : VoteView[k] = votes[k]
    BY DEF VoteView, Copies
  <1>3. \A v \in Values : truth[ca] = {v} => table_value = v
    BY <1>1, <1>2, MajoritySame, Elected DEF Sound, Tolerable
  <1>4. ~Settled(ca) => /\ \A k \in Copies : votes[k] = copies[ca][k]
                        /\ Stored(ca) \subseteq truth[ca]
    BY <1>1 DEF Sound, Overwriting, Copies
  <1>5. table_value \in truth[ca]
    <2>1. CASE Settled(ca)
      BY <1>3, <2>1 DEF Settled
    <2>2. CASE ~Settled(ca)
      BY <1>4, <2>2, Elected DEF Stored
    <2>3. QED
      BY <2>1, <2>2
  <1>6. ASSUME ~(wrong > 0), table_value # BAD, ~Settled(ca)
        PROVE  Majority(copies[ca], table_value)
    <2>1. wrong = 0
      BY <1>6, Elected DEF VoteIInv, TypeOK
    <2>2. \A k \in Copies : copies[ca][k] = table_value
      BY <1>4, <1>6, <2>1, Elected
    <2>3. QED
      BY <2>2, MajorityOfAll
  <1>7. QED
    BY <1>3, <1>5, <1>6

LEMMA SafeVoteEnd ==
  ASSUME SafeIInv, VoteEnd
  PROVE  Safe'
  <1> USE DEF SafeIInv, Safe
  <1>0. TypeOK /\ ca \in Clusters /\ table_value \in Values /\ truth \in [Clusters -> SUBSET Values]
    BY DEF VoteEnd, VoteIInv, TypeOK
  <1>1. /\ copies' = copies /\ ca' = ca /\ caller' = caller /\ caller = "read_fat"
        /\ table_value' = table_value /\ pc = "vote" /\ idx = FatCount
    BY DEF VoteEnd, diskVars, Sound
  <1>2. /\ cacheOn' = cacheOn /\ \A d \in Clusters : d # ca => cache'[d] = cache[d]
        /\ cacheOn => cache'[ca] = table_value
    BY <1>0, RememberOthers DEF VoteEnd
  <1>3. /\ \A v \in Values : truth[ca] = {v} => table_value = v
        /\ table_value \in truth[ca]
        /\ ~(wrong > 0) /\ table_value # BAD /\ ~Settled(ca) => Majority(copies[ca], table_value)
    BY <1>1, VoteKnows
  <1>4. CASE pc' = "copying"
    <2>1. value' = table_value /\ idx' = 0 /\ truth' = truth
      BY <1>4 DEF VoteEnd
    <2>2. Majority(WriteView', value')
      <3>1. \A k \in Copies : WriteView'[k] = value'
        BY <2>1 DEF WriteView, Copies
      <3>2. QED
        BY <3>1, MajorityOfAll
    <2>3. \A d \in Clusters, v \in Values : truth'[d] = {v} => Majority(copies'[d], v)
      BY <1>1, <2>1 DEF Sound, Tolerable, Overwriting
    <2>4. Tolerable'
      BY <1>4, <2>2, <2>3 DEF Tolerable, Majority, Agreeing
    <2>5. Sound'
      BY <1>1, <1>2, <1>3, <1>4, <2>1, <2>4 DEF Sound, Stored, Settled, Overwriting
    <2>6. ReadCorrect' /\ CacheCoherent'
      BY <1>1, <1>2, <1>4, <2>1 DEF ReadCorrect, CacheCoherent
    <2>7. QED
      BY <2>5, <2>6
  <1>5. CASE pc' = "done"
    <2>1. ~(wrong > 0) /\ SettleOn(ca, table_value, truth[ca])
      BY <1>5 DEF VoteEnd
    <2>2. /\ \A d \in Clusters : d # ca => truth'[d] = truth[d]
          /\ truth'[ca] = IF Majority(copies[ca], table_value) THEN {table_value} ELSE truth[ca]
      BY <1>0, <2>1 DEF SettleOn
    <2>3. table_value \in truth'[ca] /\ (truth'[ca] = truth[ca] \/ truth'[ca] = {table_value})
      BY <1>3, <2>2
    <2>4. \A d \in Clusters, v \in Values : truth'[d] = {v} => Majority(copies'[d], v)
      <3>1. \A v \in Values : truth'[ca] = {v} => Majority(copies[ca], v)
        BY <1>0, <1>1, <2>2 DEF Sound, Tolerable, Overwriting
      <3>2. QED
        BY <1>1, <2>2, <3>1 DEF Sound, Tolerable, Overwriting
    <2>5. Tolerable'
      BY <1>5, <2>4 DEF Tolerable, Majority, Agreeing
    <2>6. \A d \in Clusters : Settled(d)' \/ Stored(d)' \subseteq truth'[d]
      BY <1>0, <1>1, <2>2 DEF Sound, Settled, Stored, Overwriting
    <2>7. Sound'
      BY <1>5, <2>5, <2>6 DEF Sound, Overwriting
    <2>8. cacheOn /\ table_value # BAD => truth'[ca] = {table_value}
      <3> SUFFICES ASSUME table_value # BAD PROVE truth'[ca] = {table_value}
        OBVIOUS
      <3>1. CASE Settled(ca)
        BY <1>3, <2>2, <3>1 DEF Settled
      <3>2. CASE ~Settled(ca)
        BY <1>3, <2>1, <2>2, <3>2
      <3>3. QED
        BY <3>1, <3>2
    <2>9. CacheCoherent'
      BY <1>0, <1>1, <1>2, <2>2, <2>8 DEF CacheCoherent
    <2>10. ReadCorrect'
      BY <1>1, <2>3 DEF ReadCorrect
    <2>11. QED
      BY <2>7, <2>9, <2>10
  <1>6. QED
    BY <1>4, <1>5 DEF VoteEnd

LEMMA SafeWriteStart ==
  ASSUME SafeIInv, NEW c \in Clusters, NEW v \in Values, WriteStart(c, v)
  PROVE  Safe'
  <1> USE DEF SafeIInv, Safe
  <1>1. /\ copies' = copies /\ pc = "idle" /\ pc' = "copying" /\ caller' = "write_fat"
        /\ ca' = c /\ value' = v /\ idx' = 0 /\ truth \in [Clusters -> SUBSET Values]
        /\ \A d \in Clusters : d # c => truth'[d] = truth[d]
    BY DEF WriteStart, diskVars, voteVars, VoteIInv, TypeOK, IdleInv
  <1>2. /\ cacheOn' = cacheOn /\ \A d \in Clusters : d # c => cache'[d] = cache[d]
        /\ cacheOn => cache'[c] = v
    BY RememberOthers DEF WriteStart, VoteIInv
  <1>3. Majority(WriteView', value')
    <2>1. \A k \in Copies : WriteView'[k] = value'
      BY <1>1 DEF WriteView, Copies
    <2>2. QED
      BY <2>1, MajorityOfAll
  <1>4. \A d \in Clusters, w \in Values :
           truth'[d] = {w} /\ d # c => Majority(copies'[d], w)
    BY <1>1 DEF Sound, Tolerable, Overwriting
  <1>5. Tolerable'
    BY <1>1, <1>3, <1>4 DEF Tolerable, Majority, Agreeing, Overwriting
  <1>6. Sound'
    BY <1>1, <1>2, <1>5 DEF Sound, Stored, Settled, Overwriting
  <1>7. QED
    BY <1>1, <1>2, <1>6 DEF ReadCorrect, CacheCoherent

LEMMA SafeWriteCopy ==
  ASSUME SafeIInv, WriteCopy
  PROVE  Safe'
  <1> USE DEF SafeIInv, Safe
  <1>1. /\ UNCHANGED <<truth, cache, cacheOn, pc, caller, ca, value, table_value>>
        /\ pc = "copying" /\ idx \in Copies /\ idx' = idx + 1 /\ ca \in Clusters
        /\ copies \in [Clusters -> [Copies -> Values]]
        /\ copies' = [copies EXCEPT ![ca][idx] = value]
    BY DEF WriteCopy, ramVars, opVars, VoteIInv, TypeOK, Copies
  <1>2. /\ \A d \in Clusters : d # ca => copies'[d] = copies[d]
        /\ \A k \in Copies : copies'[ca][k] = IF k = idx THEN value ELSE copies[ca][k]
    BY <1>1
  <1>3. \A k \in Copies : WriteView'[k] = WriteView[k]
    BY <1>1, <1>2 DEF WriteView, Copies
  <1>4. ASSUME NEW w \in Values, truth[ca] = {w}, caller # "write_fat"
        PROVE  Majority(copies'[ca], w)
    <2>1. value = w
      BY <1>1, <1>4 DEF Sound, VoteIInv, TypeOK
    <2>2. Majority(copies[ca], w)
      BY <1>1, <1>4 DEF Sound, Tolerable, Overwriting
    <2>3. Agreeing(copies[ca], w) \subseteq Agreeing(copies'[ca], w)
      BY <1>2, <2>1 DEF Agreeing
    <2>4. QED
      BY <2>2, <2>3, MajorityGrows
  <1>5. Tolerable'
    <2>1. Majority(WriteView', value')
      BY <1>1, <1>3, MajoritySame DEF Sound, Tolerable
    <2>2. \A d \in Clusters, w \in Values :
             truth[d] = {w} /\ ~Overwriting(d) => Majority(copies'[d], w)
      BY <1>1, <1>2, <1>4 DEF Sound, Tolerable, Overwriting
    <2>3. QED
      BY <1>1, <2>1, <2>2 DEF Tolerable, Majority, Agreeing, Overwriting
  <1>6. \A d \in Clusters : Overwriting(d) \/ Settled(d) \/ Stored(d)' \subseteq truth[d]
    BY <1>1, <1>2 DEF Sound, Stored, Overwriting, VoteIInv, TypeOK
  <1>7. Sound'
    BY <1>1, <1>5, <1>6 DEF Sound, Settled, Overwriting
  <1>8. QED
    BY <1>1, <1>7 DEF ReadCorrect, CacheCoherent

LEMMA SafeWriteCopyFails ==
  ASSUME SafeIInv, MinorityOnly, WriteCopyFails
  PROVE  Safe'
  <1> USE DEF SafeIInv, Safe
  <1>1. /\ UNCHANGED <<copies, truth, cache, cacheOn, pc, caller, ca, value, table_value>>
        /\ pc = "copying" /\ Tolerable'
    BY DEF WriteCopyFails, diskVars, ramVars
  <1>2. Sound'
    BY <1>1 DEF Sound, Stored, Settled, Overwriting
  <1>3. QED
    BY <1>1, <1>2 DEF ReadCorrect, CacheCoherent

LEMMA SafeCopyEnd ==
  ASSUME SafeIInv, CopyEnd
  PROVE  Safe'
  <1> USE DEF SafeIInv, Safe
  <1>1. /\ UNCHANGED <<copies, cache, cacheOn, caller, ca, value, table_value>>
        /\ pc = "copying" /\ pc' = "done" /\ idx = FatCount /\ ca \in Clusters
        /\ truth \in [Clusters -> SUBSET Values] /\ value \in Values
        /\ SettleOn(ca, value, IF caller = "write_fat" THEN Stored(ca) \cup {value}
                                                      ELSE truth[ca])
    BY DEF CopyEnd, diskVars, ramVars, voteVars, VoteIInv, TypeOK
  <1>2. Majority(copies[ca], value)
    <2>1. \A k \in Copies : WriteView[k] = copies[ca][k]
      BY <1>1 DEF WriteView, Copies
    <2>2. QED
      BY <1>1, <2>1, MajoritySame DEF Sound, Tolerable
  <1>3. truth'[ca] = {value} /\ \A d \in Clusters : d # ca => truth'[d] = truth[d]
    BY <1>1, <1>2 DEF SettleOn
  <1>4. \A d \in Clusters, w \in Values : truth'[d] = {w} => Majority(copies'[d], w)
    BY <1>1, <1>2, <1>3 DEF Sound, Tolerable, Overwriting
  <1>5. Tolerable'
    BY <1>1, <1>4 DEF Tolerable, Majority, Agreeing
  <1>6. \A d \in Clusters : Settled(d)' \/ Stored(d)' \subseteq truth'[d]
    BY <1>1, <1>3 DEF Sound, Settled, Stored, Overwriting
  <1>7. Sound'
    BY <1>1, <1>5, <1>6 DEF Sound, Overwriting
  <1>8. ReadCorrect'
    BY <1>1, <1>3 DEF Sound, ReadCorrect
  <1>9. CacheCoherent'
    BY <1>1, <1>3 DEF Sound, CacheCoherent
  <1>10. QED
    BY <1>7, <1>8, <1>9

LEMMA SafeCrash ==
  ASSUME SafeIInv, Crash
  PROVE  Safe'
  <1> USE DEF SafeIInv, Safe
  <1>1. /\ copies' = copies /\ pc' = "idle" /\ cacheOn' = FALSE
        /\ truth \in [Clusters -> SUBSET Values]
        /\ copies \in [Clusters -> [Copies -> Values]]
    BY DEF Crash, Returned, diskVars, VoteIInv, TypeOK
  <1>2. \A d \in Clusters :
           truth'[d] = IF Overwriting(d) THEN Stored(d) ELSE truth[d]
    BY <1>1 DEF Crash, Overwriting
  <1>3. ASSUME NEW d \in Clusters, NEW w \in Values, truth'[d] = {w}
        PROVE  Majority(copies'[d], w)
    <2>1. CASE Overwriting(d)
      <3>1. \A k \in Copies : copies[d][k] = w
        BY <1>2, <1>3, <2>1 DEF Stored
      <3>2. QED
        BY <1>1, <3>1, MajorityOfAll
    <2>2. CASE ~Overwriting(d)
      BY <1>1, <1>2, <1>3, <2>2 DEF Sound, Tolerable
    <2>3. QED
      BY <2>1, <2>2
  <1>4. Tolerable'
    BY <1>1, <1>3 DEF Tolerable, Majority, Agreeing
  <1>5. \A d \in Clusters : Settled(d)' \/ Stored(d)' \subseteq truth'[d]
    BY <1>1, <1>2 DEF Sound, Settled, Stored
  <1>6. QED
    BY <1>1, <1>4, <1>5 DEF Sound, ReadCorrect, CacheCoherent, Overwriting

LEMMA InitSafe == Init => SafeIInv
  <1> SUFFICES ASSUME Init PROVE SafeIInv
    OBVIOUS
  <1>1. VoteIInv
    BY InitTypes DEF Init, VoteIInv, IdleInv, VoteInv, LoopInv
  <1>2. PICK f \in [Clusters -> Values] :
          /\ copies = [c \in Clusters |-> [k \in Copies |-> f[c]]]
          /\ truth = [c \in Clusters |-> {f[c]}]
    BY DEF Init
  <1>3. ASSUME NEW c \in Clusters, NEW v \in Values, truth[c] = {v}
        PROVE  Majority(copies[c], v)
    <2>1. \A k \in Copies : copies[c][k] = v
      BY <1>2, <1>3
    <2>2. QED
      BY <2>1, MajorityOfAll
  <1>4. pc = "idle" /\ cacheOn = FALSE
    BY DEF Init
  <1>5. Sound
    BY <1>2, <1>3, <1>4 DEF Sound, Tolerable, Settled
  <1>6. QED
    BY <1>1, <1>4, <1>5 DEF SafeIInv, Safe, ReadCorrect, CacheCoherent

LEMMA NextSafe ==
  ASSUME MinorityOnly
  PROVE  SafeIInv /\ [Next]_vars => SafeIInv'
  <1> SUFFICES ASSUME SafeIInv, [Next]_vars PROVE Safe'
    BY NextVote DEF SafeIInv
  <1> USE DEF vars, diskVars, ramVars, passVars, voteVars, opVars
  <1>1. ASSUME NEW m \in CacheModes, Mount(m) PROVE Safe'
    BY <1>1, SafeFrame DEF Mount, FatCacheInit
  <1>2. CASE Unload
    BY <1>2, SafeFrame DEF Unload
  <1>3. CASE UserRead \/ SweepRead
    BY <1>3, SafeReadStart DEF UserRead, SweepRead
  <1>4. CASE UserWrite
    BY <1>4, SafeWriteStart DEF UserWrite
  <1>5. CASE RepairStart \/ SweepOutOfRange \/ SweepTimeout \/ SweepEnd
    BY <1>5, SafeFrame DEF RepairStart, SweepOutOfRange, SweepTimeout, SweepEnd
  <1>6. CASE Release
    BY <1>6, SafeReturned DEF Release
  <1>7. CASE \E c \in Clusters, k \in Copies, v \in Values : Upset(c, k, v)
    BY <1>7, SafeUpset
  <1>8. CASE UNCHANGED vars
    BY <1>8, SafeFrame
  <1>9. QED
    BY <1>1, <1>2, <1>3, <1>4, <1>5, <1>6, <1>7, <1>8, SafeReadCopy, SafeReadCopyFails,
       SafeVoteEnd, SafeWriteCopy, SafeWriteCopyFails, SafeCopyEnd, SafeCrash
       DEF Next, Operation, Pass, Environment

(* While faults stay in the minority read_fat returns what the last        *)
(* completed write_fat stored, whatever the number of copies and clusters, *)
(* through cache, vote, repair, passes, remounts and power loss; and a     *)
(* cached word always is the settled value of its entry.                   *)
THEOREM ReadsAreCorrect ==
  ASSUME MinorityOnly
  PROVE  Spec => [](ReadCorrect /\ CacheCoherent)
  <1>1. SafeIInv => ReadCorrect /\ CacheCoherent
    BY DEF SafeIInv, Safe
  <1>2. QED
    BY <1>1, InitSafe, NextSafe, PTL DEF Spec

-----------------------------------------------------------------------------
(* The table is an array of registers. *)

(* The two sides of the refinement mapping that are not variables. *)
Writing == IF pc = "copying" /\ caller = "write_fat" THEN <<ca, value>> ELSE <<>>
Answer  == CASE pc = "done" /\ caller = "read_fat"  -> <<"read", ca, table_value>>
             [] pc = "done" /\ caller = "write_fat" -> <<"written", ca, value>>
             [] OTHER -> <<>>

LEMMA RegReadStart ==
  ASSUME SafeIInv, NEW c \in Clusters, NEW who, ReadStart(c, who)
  PROVE  [Reg!Next]_<<truth, Writing, Answer>>
  <1> USE DEF SafeIInv, Safe
  <1>1. /\ pc = "idle" /\ caller = "read_fat" /\ UNCHANGED <<truth, caller>> /\ ca' = c
        /\ truth \in [Clusters -> SUBSET Values]
    BY DEF ReadStart, VoteIInv, IdleInv, TypeOK
  <1>2. Writing = <<>> /\ Answer = <<>> /\ Writing' = <<>>
    BY <1>1 DEF Writing, Answer, ReadStart
  <1>3. CASE pc' = "vote"
    <2>1. Answer' = <<>>
      BY <1>3 DEF Answer
    <2>2. QED
      BY <1>1, <1>2, <2>1
  <1>4. CASE pc' = "done"
    <2>1. cacheOn /\ cache[c] # BAD /\ table_value' = cache[c]
      BY <1>4 DEF ReadStart
    <2>2. table_value' \in truth[c]
      BY <1>1, <2>1 DEF CacheCoherent
    <2>3. Answer' = <<"read", c, table_value'>>
      BY <1>1, <1>4 DEF Answer
    <2>4. Reg!Read(c)
      BY <1>1, <1>2, <2>2, <2>3 DEF Reg!Read, Writing, Answer
    <2>5. QED
      BY <2>4 DEF Reg!Next
  <1>5. QED
    BY <1>3, <1>4 DEF ReadStart

LEMMA RegVoteEnd ==
  ASSUME SafeIInv, VoteEnd
  PROVE  [Reg!Next]_<<truth, Writing, Answer>>
  <1> USE DEF SafeIInv, Safe
  <1>1. /\ pc = "vote" /\ idx = FatCount /\ caller = "read_fat" /\ ca \in Clusters
        /\ UNCHANGED <<ca, caller, table_value>>
    BY DEF VoteEnd, Sound, VoteIInv, TypeOK
  <1>2. Writing = <<>> /\ Answer = <<>> /\ Writing' = <<>>
    BY <1>1 DEF Writing, Answer
  <1>3. CASE pc' = "copying"
    <2>1. truth' = truth /\ Answer' = <<>>
      BY <1>3 DEF VoteEnd, Answer
    <2>2. QED
      BY <1>2, <2>1
  <1>4. CASE pc' = "done"
    <2>1. table_value \in truth[ca]
      BY <1>1, VoteKnows
    <2>2. truth' \in {truth, [truth EXCEPT ![ca] = {table_value}]}
      BY <1>1, <1>4 DEF VoteEnd, SettleOn, VoteIInv, TypeOK
    <2>3. Answer' = <<"read", ca, table_value>>
      BY <1>1, <1>4 DEF Answer
    <2>4. Reg!Read(ca)
      BY <1>2, <2>1, <2>2, <2>3 DEF Reg!Read, Writing, Answer
    <2>5. QED
      BY <1>1, <2>4 DEF Reg!Next
  <1>5. QED
    BY <1>3, <1>4 DEF VoteEnd

LEMMA RegWriteStart ==
  ASSUME SafeIInv, NEW c \in Clusters, NEW v \in Values, WriteStart(c, v)
  PROVE  Reg!Next
  <1>1. /\ pc = "idle" /\ pc' = "copying" /\ caller' = "write_fat" /\ ca' = c /\ value' = v
        /\ truth' = [truth EXCEPT ![c] = Stored(c) \cup {v}]
    BY DEF WriteStart
  <1>2. Writing = <<>> /\ Answer = <<>> /\ Writing' = <<c, v>> /\ Answer' = <<>>
    BY <1>1 DEF Writing, Answer
  <1>3. Stored(c) \in SUBSET Values
    BY StoredType DEF SafeIInv, VoteIInv
  <1>4. Reg!Begin(c, v)
    BY <1>1, <1>2, <1>3 DEF Reg!Begin, Writing, Answer
  <1>5. QED
    BY <1>4 DEF Reg!Next

(* A write that is over is the settled value, and so is one that read_fat  *)
(* made to repair the copies.                                              *)
LEMMA RegCopyEnd ==
  ASSUME SafeIInv, CopyEnd
  PROVE  Reg!Next
  <1> USE DEF SafeIInv, Safe
  <1>1. /\ pc = "copying" /\ pc' = "done" /\ idx = FatCount /\ ca \in Clusters /\ value \in Values
        /\ UNCHANGED <<copies, ca, caller, value, table_value>>
        /\ caller \in {"read_fat", "write_fat"}
    BY DEF CopyEnd, diskVars, voteVars, VoteIInv, TypeOK
  <1>2. Majority(copies[ca], value)
    <2>1. \A k \in Copies : WriteView[k] = copies[ca][k]
      BY <1>1 DEF WriteView, Copies
    <2>2. QED
      BY <1>1, <2>1, MajoritySame DEF Sound, Tolerable
  <1>3. truth' = [truth EXCEPT ![ca] = {value}]
    BY <1>2 DEF CopyEnd, SettleOn
  <1>4. CASE caller = "write_fat"
    <2>1. Writing = <<ca, value>> /\ Writing' = <<>> /\ Answer' = <<"written", ca, value>>
      BY <1>1, <1>4 DEF Writing, Answer
    <2>2. Reg!Written(ca, value)
      BY <1>3, <2>1 DEF Reg!Written, Writing, Answer
    <2>3. QED
      BY <1>1, <2>2 DEF Reg!Next
  <1>5. CASE caller = "read_fat"
    <2>1. value = table_value /\ value \in truth[ca]
      BY <1>1, <1>5 DEF Sound
    <2>2. Writing = <<>> /\ Answer = <<>> /\ Writing' = <<>> /\ Answer' = <<"read", ca, value>>
      BY <1>1, <1>5, <2>1 DEF Writing, Answer
    <2>3. Reg!Read(ca)
      BY <1>3, <2>1, <2>2 DEF Reg!Read, Writing, Answer
    <2>4. QED
      BY <1>1, <2>3 DEF Reg!Next
  <1>6. QED
    BY <1>1, <1>4, <1>5

(* The answer is given, or lost with the power.                            *)
LEMMA RegReturn ==
  ASSUME TypeOK, pc = "done", Returned, truth' = truth
  PROVE  Reg!Next
  <1>1. pc' = "idle" /\ caller \in {"read_fat", "write_fat"}
    BY DEF Returned, TypeOK
  <1>2. Writing = <<>> /\ Writing' = <<>> /\ Answer' = <<>>
    BY <1>1 DEF Writing, Answer
  <1>3. Answer # <<>>
    BY <1>1 DEF Answer
  <1>4. Reg!Return
    BY <1>2, <1>3 DEF Reg!Return, Writing, Answer
  <1>5. QED
    BY <1>4 DEF Reg!Next

LEMMA RegCrash ==
  ASSUME SafeIInv, Crash
  PROVE  [Reg!Next]_<<truth, Writing, Answer>>
  <1>1. /\ pc' = "idle" /\ Writing' = <<>> /\ Answer' = <<>>
        /\ TypeOK /\ (pc # "idle" => ca \in Clusters)
    BY DEF Crash, Returned, Writing, Answer, SafeIInv, VoteIInv, TypeOK
  <1>2. CASE pc = "copying" /\ caller = "write_fat"
    <2>1. Writing = <<ca, value>> /\ Answer = <<>>
      BY <1>2 DEF Writing, Answer
    <2>2. Stored(ca) \in (SUBSET Values) \ {{}} /\ value \in Values
      <3>1. 0 \in Copies
        BY DEF Copies
      <3>2. copies[ca][0] \in Stored(ca)
        BY <3>1 DEF Stored
      <3>3. Stored(ca) \subseteq Values
        BY <1>1, <1>2, StoredType
      <3>4. value \in Values
        BY <1>1 DEF TypeOK
      <3>5. QED
        BY <3>2, <3>3, <3>4
    <2>3. truth' = [truth EXCEPT ![ca] = Stored(ca)]
      BY <1>2 DEF Crash
    <2>4. Reg!Torn(ca, value)
      BY <1>1, <2>1, <2>2, <2>3 DEF Reg!Torn, Writing, Answer
    <2>5. QED
      BY <1>1, <1>2, <2>2, <2>4 DEF Reg!Next
  <1>3. CASE ~(pc = "copying" /\ caller = "write_fat")
    <2>1. truth' = truth
      BY <1>3 DEF Crash
    <2>2. CASE pc = "done"
      BY <1>1, <2>1, <2>2, RegReturn DEF Crash
    <2>3. CASE pc # "done"
      <3>1. Writing = <<>> /\ Answer = <<>>
        BY <1>3, <2>3 DEF Writing, Answer
      <3>2. QED
        BY <1>1, <2>1, <3>1
    <2>4. QED
      BY <2>2, <2>3
  <1>4. QED
    BY <1>2, <1>3

LEMMA RegStep ==
  ASSUME MinorityOnly, SafeIInv, [Next]_vars
  PROVE  [Reg!Next]_<<truth, Writing, Answer>>
  <1> USE DEF vars, diskVars, ramVars, passVars, voteVars, opVars
  <1>1. CASE UNCHANGED <<truth, pc, caller, ca, value>> /\ (pc = "done" => UNCHANGED table_value)
    BY <1>1 DEF Writing, Answer
  <1>2. CASE \/ \E m \in CacheModes : Mount(m)
             \/ Unload \/ RepairStart \/ SweepOutOfRange \/ SweepTimeout \/ SweepEnd
    BY <1>1, <1>2 DEF Mount, Unload, RepairStart, SweepOutOfRange, SweepTimeout, SweepEnd
  <1>3. CASE ReadCopy \/ ReadCopyFails \/ WriteCopy \/ WriteCopyFails
    BY <1>1, <1>3 DEF ReadCopy, ReadCopyFails, WriteCopy, WriteCopyFails
  <1>4. CASE UserRead \/ SweepRead
    BY <1>4, RegReadStart DEF UserRead, SweepRead
  <1>5. CASE UserWrite
    BY <1>5, RegWriteStart DEF UserWrite
  <1>6. CASE Release
    BY <1>6, RegReturn DEF Release, SafeIInv, VoteIInv
  <1>7. CASE \E c \in Clusters, k \in Copies, v \in Values : Upset(c, k, v)
    BY <1>1, <1>7 DEF Upset
  <1>8. CASE UNCHANGED vars
    BY <1>1, <1>8
  <1>9. QED
    BY <1>2, <1>3, <1>4, <1>5, <1>6, <1>7, <1>8, RegVoteEnd, RegCopyEnd, RegCrash
       DEF Next, Operation, Pass, Environment

(* Cached, voted and repaired, interrupted by power loss and remounted,    *)
(* with any faults in the minority: read_fat and write_fat together behave *)
(* as one register per cluster, that nothing but write_fat changes.        *)
THEOREM TableRefines ==
  ASSUME MinorityOnly
  PROVE  Spec => ImplementsRegister
  <1>1. Init => Reg!Init
    BY DEF Init, Reg!Init
  <1>2. SafeIInv /\ [Next]_vars => [Reg!Next]_(Reg!vars)
    BY RegStep DEF Reg!vars, Writing, Answer
  <1>3. QED
    BY <1>1, <1>2, InitSafe, NextSafe, PTL DEF Spec, ImplementsRegister, Reg!Spec

-----------------------------------------------------------------------------
(* The copies agree, whatever the faults. *)

(* What a call that nothing disturbed has done so far: the words it has    *)
(* read are those of the copies it has passed, and unless a write failed   *)
(* the copies it has passed hold the word it writes.                       *)
CallInv ==
  /\ pc = "idle" => ~voted
  /\ pc = "vote" => caller = "read_fat"
  /\ pc = "copying" /\ caller = "read_fat" => value = table_value
  /\ pc = "vote" /\ ~disturbed => \A k \in 0 .. idx - 1 : votes[k] = copies[ca][k]
  /\ pc = "copying" /\ result /\ ~disturbed => \A k \in 0 .. idx - 1 : copies[ca][k] = value

AgreeIInv == VoteIInv /\ CallInv /\ CopiesAgree

(* All copies hold v: then v is the one word stored. *)
LEMMA AllStored ==
  ASSUME NEW c, NEW v, \A k \in Copies : copies[c][k] = v
  PROVE  Stored(c) = {v}
  <1>1. 0 \in Copies
    BY DEF Copies
  <1>2. QED
    BY <1>1 DEF Stored

LEMMA AgreeVoteEnd ==
  ASSUME AgreeIInv, VoteEnd
  PROVE  CallInv' /\ CopiesAgree'
  <1> USE DEF AgreeIInv
  <1>1. /\ pc = "vote" /\ idx = FatCount /\ caller = "read_fat"
        /\ UNCHANGED <<copies, ca, caller, table_value, disturbed, votes>>
    BY DEF VoteEnd, diskVars, CallInv
  <1>2. CASE pc' = "copying"
    <2>1. value' = table_value /\ idx' = 0
      BY <1>2 DEF VoteEnd
    <2>2. QED
      BY <1>1, <1>2, <2>1 DEF CallInv, CopiesAgree
  <1>3. CASE pc' = "done"
    <2>1. wrong = -1 \/ wrong = 0
      BY <1>3 DEF VoteEnd, VoteIInv, TypeOK
    <2>2. ASSUME ~disturbed, table_value # BAD
          PROVE  Stored(ca) = {table_value}
      <3>1. \A k \in Copies : votes[k] = table_value
        BY <1>1, <2>1, <2>2, Elected
      <3>2. \A k \in Copies : votes[k] = copies[ca][k]
        BY <1>1, <2>2 DEF CallInv, Copies
      <3>3. QED
        BY <3>1, <3>2, AllStored
    <2>3. QED
      BY <1>1, <1>3, <2>2 DEF CallInv, CopiesAgree, Stored
  <1>4. QED
    BY <1>2, <1>3 DEF VoteEnd

LEMMA AgreeStep == AgreeIInv /\ [Next]_vars => AgreeIInv'
  <1> SUFFICES ASSUME AgreeIInv, [Next]_vars PROVE CallInv' /\ CopiesAgree'
    BY NextVote DEF AgreeIInv
  <1> USE DEF vars, diskVars, ramVars, passVars, voteVars, opVars, AgreeIInv
  <1>1. CASE UNCHANGED <<copies, pc, caller, ca, idx, votes, value, result, voted, disturbed,
                         table_value>>
    BY <1>1 DEF CallInv, CopiesAgree, Stored
  <1>2. CASE \/ \E m \in CacheModes : Mount(m)
             \/ Unload \/ RepairStart \/ SweepOutOfRange \/ SweepTimeout \/ SweepEnd
    BY <1>1, <1>2 DEF Mount, Unload, RepairStart, SweepOutOfRange, SweepTimeout, SweepEnd
  <1>3. ASSUME NEW c, NEW who, ReadStart(c, who)
        PROVE  CallInv' /\ CopiesAgree'
    <2>1. /\ pc' = "vote" \/ (pc' = "done" /\ ~voted')
          /\ caller' = "read_fat" /\ idx' = 0
      BY <1>3 DEF ReadStart, VoteIInv, IdleInv, CallInv
    <2>2. QED
      BY <2>1 DEF CallInv, CopiesAgree
  <1>4. CASE UserRead \/ SweepRead
    BY <1>3, <1>4 DEF UserRead, SweepRead
  <1>5. ASSUME NEW w, Count(w), ReadCopy \/ ReadCopyFails, w = copies[ca][idx] \/ disturbed'
        PROVE  CallInv' /\ CopiesAgree'
    <2>1. /\ UNCHANGED <<copies, pc, caller, ca>> /\ pc = "vote" /\ idx \in Copies
          /\ votes' = [votes EXCEPT ![idx] = w] /\ idx' = idx + 1
          /\ votes \in [Copies -> Values] /\ (disturbed => disturbed')
      BY <1>5 DEF ReadCopy, ReadCopyFails, Count, VoteIInv, TypeOK, Copies
    <2>2. \A k \in 0 .. idx' - 1 : k = idx \/ k \in 0 .. idx - 1
      BY <2>1 DEF Copies
    <2>3. ~disturbed' => \A k \in 0 .. idx' - 1 : votes'[k] = copies[ca][k]
      BY <1>5, <2>1, <2>2 DEF CallInv, Copies
    <2>4. QED
      BY <2>1, <2>3 DEF CallInv, CopiesAgree
  <1>6. CASE ReadCopy \/ ReadCopyFails
    BY <1>5, <1>6 DEF ReadCopy, ReadCopyFails
  <1>7. CASE UserWrite
    <2>1. pc' = "copying" /\ caller' = "write_fat" /\ idx' = 0
      BY <1>7 DEF UserWrite, WriteStart, VoteIInv, IdleInv
    <2>2. QED
      BY <2>1 DEF CallInv, CopiesAgree
  <1>8. CASE WriteCopy
    <2>1. /\ UNCHANGED <<pc, caller, ca, value, result, disturbed, table_value>> /\ pc = "copying"
          /\ idx \in Copies /\ idx' = idx + 1 /\ ca \in Clusters
          /\ \A k \in Copies : copies'[ca][k] = IF k = idx THEN value ELSE copies[ca][k]
      BY <1>8 DEF WriteCopy, VoteIInv, TypeOK, Copies
    <2>2. \A k \in 0 .. idx' - 1 : k \in Copies /\ (k = idx \/ k \in 0 .. idx - 1)
      BY <2>1 DEF Copies
    <2>3. QED
      BY <2>1, <2>2 DEF CallInv, CopiesAgree
  <1>9. CASE WriteCopyFails
    BY <1>9 DEF WriteCopyFails, CallInv, CopiesAgree
  <1>10. CASE CopyEnd
    <2>1. /\ pc = "copying" /\ pc' = "done" /\ idx = FatCount
          /\ UNCHANGED <<copies, caller, ca, value, result, disturbed, table_value>>
      BY <1>10 DEF CopyEnd
    <2>2. result /\ ~disturbed => Stored(ca) = {value}
      BY <2>1, AllStored DEF CallInv, Copies
    <2>3. QED
      BY <2>1, <2>2 DEF CallInv, CopiesAgree, Stored
  <1>11. CASE Release \/ Crash
    BY <1>11 DEF Release, Crash, Returned, CallInv, CopiesAgree
  <1>12. ASSUME NEW c \in Clusters, NEW k \in Copies, NEW v \in Values, Upset(c, k, v)
         PROVE  CallInv' /\ CopiesAgree'
    <2>1. /\ UNCHANGED <<pc, caller, ca, idx, votes, value, result, voted, table_value>>
          /\ \A d \in Clusters : d # c => copies'[d] = copies[d]
          /\ disturbed' = (disturbed \/ (pc # "idle" /\ ca = c))
      BY <1>12 DEF Upset, VoteIInv, TypeOK
    <2>2. CASE pc = "idle"
      BY <2>1, <2>2 DEF CallInv, CopiesAgree
    <2>3. CASE pc # "idle" /\ ca = c
      BY <2>1, <2>3 DEF CallInv, CopiesAgree
    <2>4. CASE pc # "idle" /\ ca # c
      <3>1. copies'[ca] = copies[ca] /\ (disturbed' <=> disturbed)
        BY <2>1, <2>4 DEF VoteIInv, TypeOK
      <3>2. QED
        BY <2>1, <3>1 DEF CallInv, CopiesAgree, Stored
    <2>5. QED
      BY <2>2, <2>3, <2>4
  <1>13. CASE UNCHANGED vars
    BY <1>1, <1>13
  <1>14. QED
    BY <1>2, <1>4, <1>6, <1>7, <1>8, <1>9, <1>10, <1>11, <1>12, <1>13, AgreeVoteEnd
       DEF Next, Operation, Pass, Environment

(* A write_fat that reports success has stored its word in every copy, and *)
(* a read_fat that voted leaves all copies equal, one disagreement being   *)
(* enough to rewrite them: whatever has happened to the table before, for  *)
(* any call that no failed read and no upset disturbed.                    *)
THEOREM CopiesDoAgree == Spec => []CopiesAgree
  <1>1. Init => AgreeIInv
    BY InitTypes
       DEF Init, AgreeIInv, VoteIInv, IdleInv, VoteInv, LoopInv, CallInv, CopiesAgree
  <1>2. AgreeIInv => CopiesAgree
    BY DEF AgreeIInv
  <1>3. QED
    BY <1>1, <1>2, AgreeStep, PTL DEF Spec

-----------------------------------------------------------------------------
(* The bitmap is exact once the table was loaded. *)

(* The pass of fat_cache_hload has set the bits behind it; from then on    *)
(* every store to the table keeps its bit.                                 *)
Charted(c) == mounted = "loaded" \/ (mounted = "loading" /\ c < sweepCa)

MapExact ==
  \A c \in Clusters :
     Charted(c) /\ mapOn /\ ~(pc = "copying" /\ ca = c) => (c \notin occupied <=> truth[c] = {FREE})

CopyMarked == pc = "copying" /\ mapOn => (ca \notin occupied <=> value = FREE)

(* A usable answer of read_fat is the settled value of its entry. *)
AnswerSettled == pc = "done" /\ caller = "read_fat" /\ table_value # BAD => truth[ca] = {table_value}

(* The call of a pass reads the cluster the pass is at. *)
PassInv ==
  /\ pc = "idle" => by = "user"
  /\ by = "sweep" => sweep # "none" /\ sweepCa = ca /\ ca \in Clusters /\ caller = "read_fat"
  /\ sweep = "hload" <=> mounted = "loading"

Chart     == PassInv /\ AnswerSettled /\ CopyMarked /\ MapExact
ChartIInv == SafeIInv /\ Chart

LEMMA ClusterNumbers ==
  /\ Clusters \subseteq Nat
  /\ \A c \in Clusters : c < TotalClusters
  BY DEF Clusters

(* What the bitmap holds after one of its bits was set. *)
LEMMA MarkedBits ==
  ASSUME NEW c, NEW v, occupied' = Marked(c, v)
  PROVE  /\ \A d : d # c => (d \in occupied' <=> d \in occupied)
         /\ mapOn => (c \notin occupied' <=> v = FREE)
  BY DEF Marked

LEMMA ChartReadStart ==
  ASSUME ChartIInv, NEW c \in Clusters, NEW who \in {"user", "sweep"}, ReadStart(c, who),
         who = "sweep" => sweep # "none" /\ sweepCa = c
  PROVE  Chart'
  <1> USE DEF ChartIInv, Chart
  <1>1. /\ UNCHANGED <<truth, mapOn, occupied, mounted, sweep, sweepCa, caller>>
        /\ pc = "idle" /\ caller = "read_fat" /\ ca' = c /\ by' = who
        /\ pc' = "vote" \/ (pc' = "done" /\ cacheOn /\ cache[c] # BAD /\ table_value' = cache[c])
    BY DEF ReadStart, ramVars, passVars, SafeIInv, VoteIInv, IdleInv
  <1>2. PassInv'
    BY <1>1 DEF PassInv
  <1>3. AnswerSettled'
    BY <1>1 DEF AnswerSettled, SafeIInv, Safe, CacheCoherent
  <1>4. CopyMarked' /\ MapExact'
    BY <1>1 DEF CopyMarked, MapExact, Charted
  <1>5. QED
    BY <1>2, <1>3, <1>4 DEF Chart

LEMMA ChartVoteEnd ==
  ASSUME ChartIInv, VoteEnd
  PROVE  Chart'
  <1> USE DEF ChartIInv, Chart
  <1>1. /\ pc = "vote" /\ idx = FatCount /\ ca \in Clusters /\ truth \in [Clusters -> SUBSET Values]
        /\ UNCHANGED <<mapOn, mounted, sweep, sweepCa, caller, by, ca, table_value>>
        /\ occupied' = Marked(ca, table_value)
    BY DEF VoteEnd, Remember, passVars, SafeIInv, VoteIInv, TypeOK
  <1>2. /\ \A d : d # ca => (d \in occupied' <=> d \in occupied)
        /\ mapOn => (ca \notin occupied' <=> table_value = FREE)
    BY <1>1, MarkedBits
  <1>3. PassInv'
    BY <1>1 DEF PassInv, VoteEnd
  <1>4. CASE pc' = "copying"
    <2>1. value' = table_value /\ truth' = truth
      BY <1>4 DEF VoteEnd
    <2>2. AnswerSettled' /\ CopyMarked' /\ MapExact'
      BY <1>1, <1>2, <1>4, <2>1 DEF AnswerSettled, CopyMarked, MapExact, Charted
    <2>3. QED
      BY <1>3, <2>2 DEF Chart
  <1>5. CASE pc' = "done"
    <2>1. ~(wrong > 0) /\ SettleOn(ca, table_value, truth[ca])
      BY <1>5 DEF VoteEnd
    <2>2. /\ \A d \in Clusters : d # ca => truth'[d] = truth[d]
          /\ truth'[ca] = IF Majority(copies[ca], table_value) THEN {table_value} ELSE truth[ca]
      BY <1>1, <2>1 DEF SettleOn
    <2>3. table_value # BAD => truth'[ca] = {table_value}
      <3>1. CASE Settled(ca)
        BY <1>1, <2>2, <3>1, VoteKnows DEF Settled
      <3>2. CASE ~Settled(ca)
        BY <1>1, <2>1, <2>2, <3>2, VoteKnows
      <3>3. QED
        BY <3>1, <3>2
    <2>4. truth'[ca] = {FREE} <=> table_value = FREE
      <3>1. table_value \in truth'[ca]
        BY <1>1, <2>2, VoteKnows
      <3>2. QED
        BY <2>3, <3>1
    <2>5. AnswerSettled' /\ CopyMarked'
      BY <1>1, <1>5, <2>3 DEF AnswerSettled, CopyMarked
    <2>6. MapExact'
      <3> SUFFICES ASSUME NEW c \in Clusters, Charted(c), mapOn
                   PROVE  c \notin occupied' <=> truth'[c] = {FREE}
        BY <1>1 DEF MapExact, Charted
      <3>1. CASE c = ca
        BY <1>2, <2>4, <3>1
      <3>2. CASE c # ca
        BY <1>1, <1>2, <2>2, <3>2 DEF MapExact
      <3>3. QED
        BY <3>1, <3>2
    <2>7. QED
      BY <1>3, <2>5, <2>6 DEF Chart
  <1>6. QED
    BY <1>4, <1>5 DEF VoteEnd

LEMMA ChartWriteStart ==
  ASSUME ChartIInv, NEW c \in Clusters, NEW v \in Values, WriteStart(c, v)
  PROVE  Chart'
  <1> USE DEF ChartIInv, Chart
  <1>1. /\ UNCHANGED <<mapOn, mounted, sweep, sweepCa, by>> /\ by = "user"
        /\ pc = "idle" /\ pc' = "copying" /\ caller' = "write_fat" /\ ca' = c /\ value' = v
        /\ occupied' = Marked(c, v)
        /\ \A d \in Clusters : d # c => truth'[d] = truth[d]
    BY DEF WriteStart, Remember, passVars, PassInv, SafeIInv, VoteIInv, TypeOK
  <1>2. /\ \A d : d # c => (d \in occupied' <=> d \in occupied)
        /\ mapOn => (c \notin occupied' <=> v = FREE)
    BY <1>1, MarkedBits
  <1>3. PassInv' /\ AnswerSettled' /\ CopyMarked' /\ MapExact'
    BY <1>1, <1>2 DEF PassInv, AnswerSettled, CopyMarked, MapExact, Charted
  <1>4. QED
    BY <1>3 DEF Chart

LEMMA ChartCopyEnd ==
  ASSUME ChartIInv, CopyEnd
  PROVE  Chart'
  <1> USE DEF ChartIInv, Chart
  <1>1. /\ UNCHANGED <<copies, mapOn, occupied, mounted, sweep, sweepCa, caller, by, ca, value,
                       table_value>>
        /\ pc = "copying" /\ pc' = "done" /\ idx = FatCount /\ ca \in Clusters
        /\ truth \in [Clusters -> SUBSET Values]
    BY DEF CopyEnd, diskVars, ramVars, passVars, voteVars, SafeIInv, VoteIInv, TypeOK
  <1>2. Majority(copies[ca], value)
    <2>1. \A k \in Copies : WriteView[k] = copies[ca][k]
      BY <1>1 DEF WriteView, Copies
    <2>2. QED
      BY <1>1, <2>1, MajoritySame DEF SafeIInv, Safe, Sound, Tolerable
  <1>3. truth'[ca] = {value} /\ \A d \in Clusters : d # ca => truth'[d] = truth[d]
    BY <1>1, <1>2 DEF CopyEnd, SettleOn
  <1>4. PassInv' /\ CopyMarked'
    BY <1>1 DEF PassInv, CopyMarked
  <1>5. AnswerSettled'
    BY <1>1, <1>3 DEF AnswerSettled, SafeIInv, Safe, Sound
  <1>6. MapExact'
    BY <1>1, <1>3 DEF MapExact, Charted, CopyMarked
  <1>7. QED
    BY <1>4, <1>5, <1>6 DEF Chart

LEMMA ChartRelease ==
  ASSUME ChartIInv, Release
  PROVE  Chart'
  <1> USE DEF ChartIInv, Chart
  <1>1. /\ UNCHANGED <<truth, mapOn, mounted, sweep>> /\ pc = "done" /\ pc' = "idle" /\ by' = "user"
        /\ sweepCa \in Nat
    BY DEF Release, Returned, SafeIInv, VoteIInv, TypeOK
  <1>2. PassInv' /\ AnswerSettled' /\ CopyMarked'
    BY <1>1 DEF PassInv, AnswerSettled, CopyMarked
  <1>3. CASE UNCHANGED <<occupied, sweepCa>>
    BY <1>1, <1>2, <1>3 DEF Chart, MapExact, Charted
  <1>4. CASE by = "sweep" /\ sweep # "hload"
    BY <1>1, <1>2, <1>4 DEF Release, Chart, MapExact, Charted, PassInv
  <1>5. CASE by = "sweep" /\ sweep = "hload"
    <2>1. /\ sweepCa' = sweepCa + 1 /\ sweepCa = ca /\ ca \in Clusters /\ caller = "read_fat"
          /\ occupied' = Marked(ca, table_value) /\ mounted = "loading"
      BY <1>5 DEF Release, PassInv
    <2>2. /\ \A d : d # ca => (d \in occupied' <=> d \in occupied)
          /\ mapOn => (ca \notin occupied' <=> table_value = FREE)
      BY <2>1, MarkedBits
    <2>3. truth[ca] = {FREE} <=> table_value = FREE
      <3>1. table_value \in truth[ca]
        BY <1>1, <2>1 DEF SafeIInv, Safe, ReadCorrect
      <3>2. QED
        BY <1>1, <2>1, <3>1 DEF AnswerSettled
    <2>4. MapExact'
      <3> SUFFICES ASSUME NEW c \in Clusters, c < sweepCa + 1, mapOn
                   PROVE  c \notin occupied' <=> truth[c] = {FREE}
        BY <1>1, <2>1 DEF MapExact, Charted
      <3>1. CASE c = ca
        BY <2>2, <2>3, <3>1
      <3>2. CASE c # ca
        <4>1. c < sweepCa
          BY <1>1, <2>1, <3>2, ClusterNumbers
        <4>2. QED
          BY <1>1, <2>1, <2>2, <3>2, <4>1 DEF MapExact, Charted
      <3>3. QED
        BY <3>1, <3>2
    <2>5. QED
      BY <1>2, <2>4 DEF Chart
  <1>6. QED
    BY <1>3, <1>4, <1>5 DEF Release

LEMMA ChartPass ==
  ASSUME ChartIInv, RepairStart \/ SweepOutOfRange \/ SweepTimeout \/ SweepEnd
  PROVE  Chart'
  <1> USE DEF ChartIInv, Chart, voteVars, opVars, ramVars
  <1>1. /\ UNCHANGED <<truth, mapOn, pc, caller, by, ca, value, table_value>>
        /\ sweepCa \in Nat
        /\ by = "sweep" => sweep # "none" /\ sweepCa = ca /\ ca \in Clusters
        /\ pc = "copying" => ca \in Clusters
    BY DEF RepairStart, SweepOutOfRange, SweepTimeout, SweepEnd, PassInv, SafeIInv, VoteIInv, TypeOK
  <1>2. AnswerSettled'
    BY <1>1 DEF AnswerSettled
  <1>3. CASE RepairStart
    <2>1. PassInv'
      BY <1>1, <1>3 DEF RepairStart, PassInv, Mounted
    <2>2. QED
      BY <1>1, <1>2, <1>3, <2>1 DEF RepairStart, Mounted, Chart, CopyMarked, MapExact, Charted
  <1>4. CASE SweepTimeout
    <2>1. PassInv'
      BY <1>1, <1>4 DEF SweepTimeout, PassInv
    <2>2. QED
      BY <1>1, <1>2, <1>4, <2>1 DEF SweepTimeout, Chart, CopyMarked, MapExact, Charted, PassInv
  <1>5. CASE SweepOutOfRange
    <2>1. /\ sweepCa \notin Clusters /\ sweepCa' = sweepCa + 1 /\ UNCHANGED <<mounted, sweep>>
          /\ occupied' = occupied \/ occupied' = Marked(sweepCa, BAD)
      BY <1>5 DEF SweepOutOfRange
    <2>2. \A d \in Clusters : d \in occupied' <=> d \in occupied
      BY <2>1, MarkedBits
    <2>3. PassInv' /\ CopyMarked'
      BY <1>1, <2>1, <2>2 DEF PassInv, CopyMarked
    <2>4. \A c \in Clusters : Charted(c)' => Charted(c)
      <3>1. \A c \in Clusters : c < sweepCa + 1 => c < sweepCa
        BY <1>1, <2>1, ClusterNumbers
      <3>2. QED
        BY <2>1, <3>1 DEF Charted
    <2>5. MapExact'
      BY <1>1, <2>2, <2>4 DEF MapExact
    <2>6. QED
      BY <1>2, <2>3, <2>5 DEF Chart
  <1>6. CASE SweepEnd
    <2>1. /\ sweepCa >= TotalClusters /\ sweep' = "none" /\ UNCHANGED occupied
          /\ mounted' = IF sweep = "hload" THEN "loaded" ELSE mounted
      BY <1>6 DEF SweepEnd
    <2>2. \A c \in Clusters : c < sweepCa
      BY <1>1, <2>1, ClusterNumbers
    <2>3. by # "sweep"
      BY <1>1, <2>2, ClusterNumbers
    <2>4. PassInv' /\ CopyMarked'
      BY <1>1, <2>1, <2>3 DEF PassInv, CopyMarked
    <2>5. \A c \in Clusters : Charted(c)' => Charted(c)
      BY <2>1, <2>2 DEF Charted, PassInv
    <2>6. MapExact'
      BY <1>1, <2>1, <2>5 DEF MapExact
    <2>7. QED
      BY <1>2, <2>4, <2>6 DEF Chart
  <1>7. QED
    BY <1>3, <1>4, <1>5, <1>6

LEMMA ChartMount ==
  ASSUME ChartIInv, Unload \/ \E m \in CacheModes : Mount(m)
  PROVE  Chart'
  <1> USE DEF ChartIInv, Chart, voteVars, opVars
  <1>1. /\ UNCHANGED <<pc, by>> /\ pc = "idle" /\ by = "user"
        /\ mounted' \in {"no", "yes", "loading"}
        /\ mounted' = "loading" => sweepCa' = 0
    BY DEF Unload, Mount, PassInv
  <1>2. PassInv'
    BY <1>1 DEF Unload, Mount, Mounted, PassInv
  <1>3. \A c \in Clusters : ~Charted(c)'
    <2>1. \A c \in Clusters : ~(c < 0)
      BY ClusterNumbers
    <2>2. QED
      BY <1>1, <2>1 DEF Charted
  <1>4. QED
    BY <1>1, <1>2, <1>3 DEF Chart, AnswerSettled, CopyMarked, MapExact

LEMMA ChartStep ==
  ASSUME MinorityOnly, ChartIInv, [Next]_vars
  PROVE  ChartIInv'
  <1> SUFFICES Chart'
    BY NextSafe DEF ChartIInv
  <1> USE DEF vars, diskVars, ramVars, passVars, voteVars, opVars
  <1>1. CASE /\ UNCHANGED <<truth, mapOn, occupied, mounted, sweep, sweepCa, pc, caller, by, ca, value>>
             /\ pc = "done" => UNCHANGED table_value
    BY <1>1 DEF ChartIInv, Chart, PassInv, AnswerSettled, CopyMarked, MapExact, Charted
  <1>2. CASE ReadCopy \/ ReadCopyFails \/ WriteCopy \/ WriteCopyFails
    BY <1>1, <1>2 DEF ReadCopy, ReadCopyFails, WriteCopy, WriteCopyFails
  <1>3. CASE UserRead \/ SweepRead
    BY <1>3, ChartReadStart DEF UserRead, SweepRead
  <1>4. CASE UserWrite
    BY <1>4, ChartWriteStart DEF UserWrite
  <1>5. CASE \E c \in Clusters, k \in Copies, v \in Values : Upset(c, k, v)
    BY <1>1, <1>5 DEF Upset
  <1>6. CASE Crash
    BY <1>6 DEF Crash, Returned, Chart, PassInv, AnswerSettled, CopyMarked, MapExact
  <1>7. CASE UNCHANGED vars
    BY <1>1, <1>7
  <1>8. QED
    BY <1>2, <1>3, <1>4, <1>5, <1>6, <1>7, ChartVoteEnd, ChartCopyEnd, ChartRelease, ChartPass,
       ChartMount DEF Next, Operation, Pass, Environment

(* The three records of an entry agree: the cache never departs from the   *)
(* disk, and once fat_cache_hload has run the bitmap offers the allocator  *)
(* every free cluster and no other, through writes, repairs, unloads that  *)
(* leave it behind and mounts that find it, with faults in the minority.   *)
THEOREM RecordsDoAgree ==
  ASSUME MinorityOnly
  PROVE  Spec => []RecordsAgree
  <1>1. Init => ChartIInv
    BY InitSafe DEF Init, ChartIInv, Chart, PassInv, AnswerSettled, CopyMarked, MapExact, Charted
  <1>2. ChartIInv => RecordsAgree
    BY DEF ChartIInv, Chart, SafeIInv, Safe, MapExact, Charted, RecordsAgree
  <1>3. QED
    BY <1>1, <1>2, ChartStep, PTL DEF Spec
=============================================================================
