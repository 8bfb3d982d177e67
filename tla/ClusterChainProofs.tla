------------------------- MODULE ClusterChainProofs -------------------------
(***************************************************************************)
(* No cluster is given to two files, and without faults every file is one  *)
(* whole chain: proofs for ClusterChain.                                   *)
(*                                                                         *)
(* Exclusive is not inductive.  That an allocator finds its cluster still  *)
(* FREE when it reserves it rests on the allocator lock and on OneOwner   *)
(* for everybody else; that dealloc_chain frees its own clusters only      *)
(* rests on the shape of the chain: links stay inside the file, no two of  *)
(* them meet, and none leads back to where the walk is.                    *)
(*                                                                         *)
(* Calm is needed: a write_fat that fails on one copy leaves the link of   *)
(* an append in place while the new cluster is freed.  Reads may fail at   *)
(* any time; but then chains are cut, and what was behind the cut leaks.   *)
(*                                                                         *)
(* Without faults (Faultless) WholeInv says which set of clusters is a     *)
(* chain at each step of an append or a walk.  A chain is a numbering of   *)
(* its clusters: Chained is handled by lemmas that extend it or cut its    *)
(* first cluster off, and one lemma says that Reach computes it.           *)
(***************************************************************************)
EXTENDS ClusterChain, FiniteSetTheorems, WellFoundedInduction, TLAPS

Walking(t) == pc[t] \in {"next", "status", "clear"}

\* The allocator lock is held from the search to the reservation.
LockHeld ==
  \A t \in Threads : pc[t] \in {"find", "probe", "scan", "reserve"} => lock = t

\* What was FREE when read is FREE when reserved.
ReservesFree ==
  \A t \in Threads : pc[t] = "reserve" => at[t] \in Clusters /\ fat[at[t]] = FREE

\* Clusters that were BAD or are lost are nobody's to take.
OthersTaken ==
  /\ \A c \in BadAtFirst : fat[c] = BAD
  /\ \A c \in lost : fat[c] # FREE

\* The undo path of the append is not taken, and an append has a chain.
NoUndo ==
  \A t \in Threads : /\ pc[t] \notin {"undo", "undo_write"}
                     /\ pc[t] = "link" => head[t] # None
                     /\ Walking(t) => head[t] = None

\* The cluster a call is at belongs to the file and nothing links to it.
AtMine ==
  \A t \in Threads : pc[t] \in {"end", "link"} \/ Walking(t) =>
    /\ at[t] \in mine[t] /\ head[t] # at[t]
    /\ \A d \in mine[t] : fat[d] # at[t]

HeadMine ==
  \A t \in Threads : head[t] # None =>
    /\ head[t] \in mine[t] /\ tail[t] \in mine[t]
    /\ \A d \in mine[t] : fat[d] # head[t]

\* The link read by the walk is the link stored, unless the read failed.
NextRead ==
  \A t \in Threads : pc[t] \in {"status", "clear"} => next[t] \in {fat[at[t]], BAD}

\* Links stay inside the file, no two of them meet, and only a cluster not
\* yet appended is RESERVED.
Links ==
  \A t \in Threads : \A c \in mine[t] :
    /\ fat[c] \in Clusters => fat[c] \in mine[t]
    /\ fat[c] = RESERVED => pc[t] = "end" /\ c = at[t]
    /\ \A d \in mine[t] : fat[c] = fat[d] /\ fat[c] \in Clusters => c = d

(* The inductive invariant. *)
ChainInv ==
  /\ TypeOK /\ OneOwner
  /\ LockHeld /\ ReservesFree /\ OthersTaken /\ NoUndo
  /\ AtMine /\ HeadMine /\ NextRead /\ Links

-----------------------------------------------------------------------------
(* What a FAT read tells. *)
LEMMA Reads ==
  ASSUME TypeOK, NEW c, NEW w \in Words, ReadFat(c, w)
  PROVE  /\ fat' = fat /\ freeSince' = freeSince
         /\ occupied' \subseteq 0 .. TotalClusters - 1
         /\ c \in Clusters => w \in {fat[c], BAD}
         /\ w = FREE => c \in Clusters /\ fat[c] = FREE
  <1>1. ASSUME NEW v  PROVE Noted(c, v) \subseteq 0 .. TotalClusters - 1
    <2>1. CASE c \in Clusters
      BY <2>1, ShapeAssumption DEF Noted, TypeOK, Clusters
    <2>2. CASE c \notin Clusters
      BY <2>2 DEF Noted, TypeOK
    <2> QED  BY <2>1, <2>2
  <1>2. fat' = fat /\ freeSince' = freeSince
    BY DEF ReadFat
  <1>3. occupied' \subseteq 0 .. TotalClusters - 1
    <2>1. Noted(c, w) \subseteq 0 .. TotalClusters - 1
      BY <1>1
    <2>2. Noted(c, BAD) \subseteq 0 .. TotalClusters - 1
      BY <1>1
    <2>3. occupied' \in {occupied, Noted(c, w), Noted(c, BAD)}
      BY DEF ReadFat
    <2>4. occupied \subseteq 0 .. TotalClusters - 1
      BY DEF TypeOK
    <2> QED  BY <2>1, <2>2, <2>3, <2>4
  <1>4. w = (IF c \in Clusters THEN fat[c] ELSE BAD) \/ w = BAD
    BY DEF ReadFat
  <1> QED  BY <1>2, <1>3, <1>4, WordAssumption

(* A FAT write inside the range does what it should, unless writes fail. *)
LEMMA Writes ==
  ASSUME TypeOK, Calm, NEW c \in Clusters, NEW w \in Words, NEW ok \in BOOLEAN,
         WriteFat(c, w, ok)
  PROVE  /\ ok
         /\ fat' = [fat EXCEPT ![c] = w] /\ fat' \in [Clusters -> Words]
         /\ occupied' \subseteq 0 .. TotalClusters - 1
         /\ freeSince' \in [Threads -> SUBSET Clusters]
  <1>1. Noted(c, w) \subseteq 0 .. TotalClusters - 1
    BY ShapeAssumption DEF Noted, TypeOK, Clusters
  <1> QED  BY <1>1 DEF WriteFat, TypeOK, Calm

\* A cluster is a number, and no special word is.
LEMMA ClusterWords ==
  /\ Clusters \subseteq Nat
  /\ FREE \notin Clusters /\ BAD \notin Clusters
  /\ RESERVED \notin Clusters /\ END \notin Clusters /\ None \notin Clusters
  BY ShapeAssumption, WordAssumption DEF Clusters, Words

THEOREM InitHolds ==
  ASSUME Init, Calm
  PROVE  ChainInv
  <1>1. TypeOK
    BY ClusterWords, ShapeAssumption, WordAssumption DEF Init, Calm, TypeOK, Words, Clusters
  <1> QED
    BY <1>1, ClusterWords, ShapeAssumption, WordAssumption
    DEF Init, Calm, ChainInv, OneOwner, LockHeld, ReservesFree, OthersTaken, NoUndo,
        AtMine, HeadMine, NextRead, Links, Walking

-----------------------------------------------------------------------------
(* Steps that neither write the table nor move a cluster: the file facts   *)
(* stay, and what the thread knows of its own cluster has to be shown.     *)
LEMMA QuietStep ==
  ASSUME ChainInv, NEW t \in Threads, TypeOK',
         fat' = fat, mine' = mine, lost' = lost,
         \A u \in Threads \ {t} : /\ pc'[u] = pc[u] /\ at'[u] = at[u] /\ next'[u] = next[u]
                                  /\ head'[u] = head[u] /\ tail'[u] = tail[u],
         \/ head'[t] = head[t] /\ tail'[t] = tail[t]
         \/ head'[t] = None,
         \A u \in Threads \ {t} : lock = u => lock' = u,
         pc'[t] \in {"find", "probe", "scan", "reserve"} => lock' = t,
         pc'[t] = "reserve" => at'[t] \in Clusters /\ fat[at'[t]] = FREE,
         pc'[t] \notin {"end", "link", "undo", "undo_write"},
         pc[t] \notin {"end", "link"},
         Walking(t)' => /\ at'[t] \in mine[t] /\ head'[t] = None
                        /\ \A d \in mine[t] : fat[d] # at'[t],
         pc'[t] \in {"status", "clear"} => next'[t] \in {fat[at'[t]], BAD}
  PROVE  ChainInv'
  <1> USE DEF ChainInv
  <1>1. OneOwner'
    BY DEF OneOwner
  <1>2. LockHeld'
    BY DEF LockHeld
  <1>3. ReservesFree'
    BY DEF ReservesFree
  <1>4. OthersTaken'
    BY DEF OthersTaken
  <1>5. NoUndo'
    BY DEF NoUndo, Walking
  <1>6. AtMine'
    BY ClusterWords DEF AtMine, Walking, TypeOK
  <1>7. HeadMine'
    BY DEF HeadMine
  <1>8. NextRead'
    BY DEF NextRead
  <1>9. Links'
    BY DEF Links
  <1> QED  BY <1>1, <1>2, <1>3, <1>4, <1>5, <1>6, <1>7, <1>8, <1>9

(* The cluster found FREE becomes the thread's. *)
LEMMA ReserveStep ==
  ASSUME ChainInv, Calm, NEW t \in Threads, Reserve(t)
  PROVE  ChainInv'
  <1> USE DEF ChainInv
  <1>1. /\ pc[t] = "reserve" /\ at[t] \in Clusters /\ fat[at[t]] = FREE /\ lock = t
    BY DEF Reserve, ReservesFree, LockHeld
  <1>2. ~WriteFat(at[t], RESERVED, FALSE)
    BY <1>1 DEF WriteFat, Calm
  <1>3. /\ WriteFat(at[t], RESERVED, TRUE) /\ lock' = None
        /\ last' = (IF hinted[t] THEN last ELSE at[t] + 1)
        /\ mine' = [mine EXCEPT ![t] = @ \cup {at[t]}]
        /\ pc' = [pc EXCEPT ![t] = "end"]
        /\ UNCHANGED <<callVars, report, head, tail, lost>>
    BY <1>2 DEF Reserve, Goto
  <1>4. /\ fat' = [fat EXCEPT ![at[t]] = RESERVED] /\ fat' \in [Clusters -> Words]
        /\ occupied' \subseteq 0 .. TotalClusters - 1
        /\ freeSince' \in [Threads -> SUBSET Clusters]
    BY <1>1, <1>3, Writes DEF Words
  <1>5. /\ \A u \in Threads : at[t] \notin mine[u]
        /\ at[t] \notin BadAtFirst /\ at[t] \notin lost
    BY <1>1, WordAssumption DEF OneOwner, OthersTaken
  <1>6. \A u \in Threads \ {t} : pc[u] \notin {"find", "probe", "scan", "reserve"}
    BY <1>1 DEF LockHeld
  <1>7. TypeOK'
    <2>1. last' \in Nat
      <3>1. CASE hinted[t]
        BY <3>1, <1>3 DEF TypeOK
      <3>2. CASE ~hinted[t]
        <4>1. at[t] \in Nat
          BY <1>1, ClusterWords
        <4>2. at[t] + 1 \in Nat
          BY <4>1
        <4> QED  BY <3>2, <4>2, <1>3
      <3> QED  BY <3>1, <3>2
    <2> QED  BY <1>1, <1>3, <1>4, <2>1 DEF TypeOK, callVars
  <1> USE ClusterWords, WordAssumption DEF TypeOK, callVars
  <1>8. OneOwner'
    BY <1>1, <1>3, <1>4, <1>5 DEF OneOwner
  <1>9. LockHeld'
    BY <1>3, <1>6 DEF LockHeld
  <1>10. ReservesFree'
    BY <1>3, <1>6 DEF ReservesFree
  <1>11. OthersTaken'
    BY <1>1, <1>3, <1>4, <1>5, ShapeAssumption DEF OthersTaken
  <1>12. NoUndo'
    BY <1>3 DEF NoUndo, Walking
  <1>13. AtMine'
    BY <1>1, <1>3, <1>4, <1>5 DEF AtMine, Walking, HeadMine, Links
  <1>14. HeadMine'
    BY <1>1, <1>3, <1>4, <1>5 DEF HeadMine
  <1>15. NextRead'
    BY <1>1, <1>3, <1>4, <1>5 DEF NextRead, AtMine, Walking
  <1>16. Links'
    BY <1>1, <1>3, <1>4, <1>5 DEF Links
  <1> QED
    BY <1>7, <1>8, <1>9, <1>10, <1>11, <1>12, <1>13, <1>14, <1>15, <1>16

(* The reserved cluster becomes the END of a chain of its own. *)
LEMMA SetEndStep ==
  ASSUME ChainInv, Calm, NEW t \in Threads, SetEnd(t)
  PROVE  ChainInv'
  <1> USE DEF ChainInv
  <1>1. /\ pc[t] = "end" /\ at[t] \in mine[t] /\ at[t] \in Clusters /\ head[t] # at[t]
        /\ \A d \in mine[t] : fat[d] # at[t]
    BY DEF SetEnd, AtMine, TypeOK
  <1>2. ~WriteFat(at[t], END, FALSE)
    BY <1>1 DEF WriteFat, Calm
  <1>3. WriteFat(at[t], END, TRUE) /\ UNCHANGED <<last, lock, mine, lost, from, hinted>>
    BY <1>2 DEF SetEnd, Return, fileVars, callVars
  <1>4. /\ fat' = [fat EXCEPT ![at[t]] = END] /\ fat' \in [Clusters -> Words]
        /\ occupied' \subseteq 0 .. TotalClusters - 1
        /\ freeSince' \in [Threads -> SUBSET Clusters]
    BY <1>1, <1>3, Writes DEF Words
  <1>5. \/ /\ head[t] = None
           /\ head' = [head EXCEPT ![t] = at[t]] /\ tail' = [tail EXCEPT ![t] = at[t]]
           /\ pc' = [pc EXCEPT ![t] = "idle"]
           /\ report' = [report EXCEPT ![t] = "allocated"]
           /\ at' = [at EXCEPT ![t] = FREE] /\ skip' = [skip EXCEPT ![t] = 0]
           /\ next' = [next EXCEPT ![t] = FREE]
        \/ /\ head[t] # None
           /\ pc' = [pc EXCEPT ![t] = "link"]
           /\ UNCHANGED <<head, tail, at, skip, next, report>>
    BY <1>2 DEF SetEnd, Return, Goto, fileVars, callVars
  <1>6. \A u \in Threads \ {t} : at[t] \notin mine[u]
    BY <1>1 DEF OneOwner
  <1>7. TypeOK'
    <2>1. at[t] # None /\ FREE \in Words /\ 0 \in Nat
      BY <1>1, ClusterWords DEF Words
    <2>2. CASE head[t] = None
      <3>1. /\ head' = [head EXCEPT ![t] = at[t]] /\ tail' = [tail EXCEPT ![t] = at[t]]
            /\ pc' = [pc EXCEPT ![t] = "idle"] /\ report' = [report EXCEPT ![t] = "allocated"]
            /\ at' = [at EXCEPT ![t] = FREE] /\ skip' = [skip EXCEPT ![t] = 0]
            /\ next' = [next EXCEPT ![t] = FREE]
        BY <1>5, <2>2
      <3>2. /\ head' \in [Threads -> Clusters \cup {None}]
            /\ tail' \in [Threads -> Clusters \cup {None}]
            /\ \A u \in Threads : head'[u] = None <=> tail'[u] = None
        BY <1>1, <2>1, <3>1 DEF TypeOK
      <3>3. /\ at' \in [Threads -> Nat \cup Words] /\ next' \in [Threads -> Words]
            /\ \A u \in Threads : pc'[u] = "scan" => at'[u] \in Nat
        BY <2>1, <3>1 DEF TypeOK
      <3> QED  BY <1>3, <1>4, <2>1, <3>1, <3>2, <3>3, SMTT(30) DEF TypeOK
    <2>3. CASE head[t] # None
      BY <1>3, <1>4, <1>5, <2>1, <2>3, SMTT(30) DEF TypeOK
    <2> QED  BY <2>2, <2>3
  <1> USE ClusterWords, WordAssumption DEF TypeOK
  <1>8. OneOwner'
    BY <1>1, <1>3, <1>4, <1>6 DEF OneOwner
  <1>9. LockHeld'
    BY <1>3, <1>5 DEF LockHeld
  <1>10. ReservesFree'
    <2> SUFFICES ASSUME NEW u \in Threads, pc'[u] = "reserve"
                 PROVE  at'[u] \in Clusters /\ fat'[at'[u]] = FREE
      BY DEF ReservesFree
    <2>1. u # t /\ pc[u] = "reserve" /\ at'[u] = at[u]
      BY <1>5
    <2> QED  BY <1>1, <1>4, <2>1 DEF ReservesFree, OneOwner
  <1>11. OthersTaken'
    BY <1>1, <1>3, <1>4, ShapeAssumption DEF OthersTaken, OneOwner
  <1>12. NoUndo'
    BY <1>1, <1>5 DEF NoUndo, Walking
  <1>13. AtMine'
    BY <1>1, <1>3, <1>4, <1>5, <1>6 DEF AtMine, Walking
  <1>14. HeadMine'
    BY <1>1, <1>3, <1>4, <1>5, <1>6 DEF HeadMine
  <1>15. NextRead'
    BY <1>1, <1>3, <1>4, <1>5, <1>6 DEF NextRead, AtMine, Walking
  <1>16. Links'
    BY <1>1, <1>3, <1>4, <1>5, <1>6 DEF Links
  <1> QED
    BY <1>7, <1>8, <1>9, <1>10, <1>11, <1>12, <1>13, <1>14, <1>15, <1>16

(* The chain grows by a cluster nothing linked to. *)
LEMMA LinkStep ==
  ASSUME ChainInv, Calm, NEW t \in Threads, Link(t)
  PROVE  ChainInv'
  <1> USE DEF ChainInv
  <1>1. /\ pc[t] = "link" /\ at[t] \in mine[t] /\ at[t] \in Clusters /\ head[t] # at[t]
        /\ \A d \in mine[t] : fat[d] # at[t]
        /\ head[t] # None /\ tail[t] \in mine[t] /\ tail[t] \in Clusters
        /\ \A d \in mine[t] : fat[d] # head[t]
    BY DEF Link, AtMine, HeadMine, NoUndo, TypeOK
  <1>2. ~WriteFat(tail[t], at[t], FALSE)
    BY <1>1 DEF WriteFat, Calm
  <1>3. /\ WriteFat(tail[t], at[t], TRUE)
        /\ UNCHANGED <<last, lock, head, mine, lost, from, hinted>>
        /\ tail' = [tail EXCEPT ![t] = at[t]]
        /\ pc' = [pc EXCEPT ![t] = "idle"]
        /\ report' = [report EXCEPT ![t] = "allocated"]
        /\ at' = [at EXCEPT ![t] = FREE] /\ skip' = [skip EXCEPT ![t] = 0]
        /\ next' = [next EXCEPT ![t] = FREE]
    BY <1>2 DEF Link, Return, Goto
  <1>4. /\ fat' = [fat EXCEPT ![tail[t]] = at[t]] /\ fat' \in [Clusters -> Words]
        /\ occupied' \subseteq 0 .. TotalClusters - 1
        /\ freeSince' \in [Threads -> SUBSET Clusters]
    BY <1>1, <1>3, Writes DEF Words
  <1>6. \A u \in Threads \ {t} : tail[t] \notin mine[u]
    BY <1>1 DEF OneOwner
  <1>7. TypeOK'
    <2>1. at[t] # None /\ FREE \in Words /\ 0 \in Nat
      BY <1>1, ClusterWords DEF Words
    <2> QED  BY <1>1, <1>3, <1>4, <2>1 DEF TypeOK
  <1> USE ClusterWords, WordAssumption DEF TypeOK
  <1>8. OneOwner'
    BY <1>1, <1>3, <1>4, <1>6 DEF OneOwner
  <1>9. LockHeld'
    BY <1>3 DEF LockHeld
  <1>10. ReservesFree'
    BY <1>1, <1>3, <1>4 DEF ReservesFree, OneOwner
  <1>11. OthersTaken'
    BY <1>1, <1>3, <1>4, ShapeAssumption DEF OthersTaken, OneOwner
  <1>12. NoUndo'
    BY <1>1, <1>3 DEF NoUndo, Walking
  <1>13. AtMine'
    BY <1>1, <1>3, <1>4, <1>6 DEF AtMine, Walking
  <1>14. HeadMine'
    BY <1>1, <1>3, <1>4, <1>6 DEF HeadMine
  <1>15. NextRead'
    BY <1>1, <1>3, <1>4, <1>6 DEF NextRead, AtMine, Walking
  <1>16. Links'
    BY <1>1, <1>3, <1>4, <1>6 DEF Links
  <1> QED
    BY <1>7, <1>8, <1>9, <1>10, <1>11, <1>12, <1>13, <1>14, <1>15, <1>16

(* The walk frees the cluster it is at, which nothing links to any more,   *)
(* and goes on with the one it linked to, or ends.                         *)
LEMMA ClearStep ==
  ASSUME ChainInv, Calm, NEW t \in Threads, Clear(t)
  PROVE  ChainInv'
  <1> USE DEF ChainInv
  <1>1. /\ pc[t] = "clear" /\ at[t] \in mine[t] /\ at[t] \in Clusters
        /\ \A d \in mine[t] : fat[d] # at[t]
        /\ head[t] = None /\ next[t] \in {fat[at[t]], BAD}
        /\ fat[at[t]] # RESERVED
    BY DEF Clear, AtMine, Walking, NoUndo, NextRead, Links, TypeOK
  <1>2. ~WriteFat(at[t], FREE, FALSE)
    BY <1>1 DEF WriteFat, Calm
  <1>3. /\ WriteFat(at[t], FREE, TRUE) /\ Advance(t, mine[t] \ {at[t]})
        /\ UNCHANGED <<last, lock>>
    BY <1>2 DEF Clear
  <1>4. /\ fat' = [fat EXCEPT ![at[t]] = FREE] /\ fat' \in [Clusters -> Words]
        /\ occupied' \subseteq 0 .. TotalClusters - 1
        /\ freeSince' \in [Threads -> SUBSET Clusters]
    BY <1>1, <1>3, Writes DEF Words
  <1>5. /\ \A u \in Threads \ {t} : at[t] \notin mine[u]
        /\ at[t] \notin lost /\ at[t] \notin BadAtFirst
    BY <1>1 DEF OneOwner
  <1>6. UNCHANGED <<head, tail, from, hinted>>
    BY <1>3 DEF Advance, GiveUp, Return
  <1>7. CASE next[t] \in {END, BAD, FREE}
    <2>1. /\ mine' = [mine EXCEPT ![t] = {}] /\ lost' = lost \cup (mine[t] \ {at[t]})
          /\ pc' = [pc EXCEPT ![t] = "idle"]
          /\ report' = [report EXCEPT ![t] = "deallocated"]
          /\ at' = [at EXCEPT ![t] = FREE] /\ skip' = [skip EXCEPT ![t] = 0]
          /\ next' = [next EXCEPT ![t] = FREE]
      BY <1>3, <1>7 DEF Advance, GiveUp, Return, Goto
    <2>2. TypeOK'
      <3>1. FREE \in Words /\ 0 \in Nat
        BY DEF Words
      <3> QED  BY <1>1, <1>3, <1>4, <1>6, <2>1, <3>1 DEF TypeOK
    <2> USE ClusterWords, WordAssumption DEF TypeOK
    <2>3. OneOwner'
      BY <1>1, <1>4, <1>5, <2>1 DEF OneOwner
    <2>4. LockHeld' /\ NoUndo'
      BY <1>1, <1>3, <1>6, <2>1 DEF LockHeld, NoUndo, Walking
    <2>5. ReservesFree'
      BY <1>1, <1>4, <2>1 DEF ReservesFree
    <2>6. OthersTaken'
      BY <1>1, <1>4, <1>5, <2>1, ShapeAssumption DEF OthersTaken, OneOwner
    <2>7. AtMine'
      BY <1>1, <1>4, <1>5, <1>6, <2>1 DEF AtMine, Walking
    <2>8. HeadMine'
      BY <1>1, <1>4, <1>5, <1>6, <2>1 DEF HeadMine
    <2>9. NextRead'
      BY <1>1, <1>4, <1>5, <2>1 DEF NextRead, AtMine, Walking
    <2>10. Links'
      BY <1>1, <1>4, <1>5, <2>1 DEF Links
    <2> QED  BY <2>2, <2>3, <2>4, <2>5, <2>6, <2>7, <2>8, <2>9, <2>10
  <1>8. CASE next[t] \notin {END, BAD, FREE}
    <2>1. /\ at' = [at EXCEPT ![t] = next[t]] /\ pc' = [pc EXCEPT ![t] = "next"]
          /\ mine' = [mine EXCEPT ![t] = @ \ {at[t]}]
          /\ UNCHANGED <<lost, skip, next, report>>
      BY <1>3, <1>8 DEF Advance, Goto
    <2>2. next[t] = fat[at[t]] /\ next[t] \in Clusters
      BY <1>1, <1>8 DEF TypeOK, Words
    <2>3. next[t] \in mine[t] /\ next[t] # at[t]
      BY <1>1, <2>2 DEF Links
    <2>4. \A d \in mine[t] \ {at[t]} : fat[d] # next[t]
      BY <1>1, <2>2 DEF Links
    <2>5. TypeOK'
      BY <1>1, <1>3, <1>4, <1>6, <2>1, <2>2 DEF TypeOK
    <2> USE ClusterWords, WordAssumption DEF TypeOK
    <2>6. OneOwner'
      BY <1>1, <1>4, <1>5, <2>1 DEF OneOwner
    <2>7. LockHeld' /\ NoUndo'
      BY <1>1, <1>3, <1>6, <2>1 DEF LockHeld, NoUndo, Walking
    <2>8. ReservesFree'
      BY <1>1, <1>4, <2>1 DEF ReservesFree
    <2>9. OthersTaken'
      BY <1>1, <1>4, <1>5, <2>1, ShapeAssumption DEF OthersTaken
    <2>10. AtMine'
      BY <1>1, <1>4, <1>5, <1>6, <2>1, <2>2, <2>3, <2>4 DEF AtMine, Walking
    <2>11. HeadMine'
      BY <1>1, <1>4, <1>5, <1>6, <2>1 DEF HeadMine
    <2>12. NextRead'
      BY <1>1, <1>4, <1>5, <2>1 DEF NextRead, AtMine, Walking
    <2>13. Links'
      BY <1>1, <1>4, <1>5, <2>1 DEF Links
    <2> QED  BY <2>5, <2>6, <2>7, <2>8, <2>9, <2>10, <2>11, <2>12, <2>13
  <1> QED  BY <1>7, <1>8

-----------------------------------------------------------------------------
\* Who calls is a thread, and what it gives is a number.
LEMMA Callers ==
  ASSUME world \in Worlds
  PROVE  world.callers \subseteq Threads /\ world.hints \subseteq Nat \cup {NoHint}
  BY ShapeAssumption

(* The remaining steps of alloc_cluster. *)
LEMMA SearchStep ==
  ASSUME ChainInv, world \in Worlds, NEW t \in Threads,
         \/ \E offt \in world.hints : Alloc(t, offt)
         \/ Find(t) \/ Probe(t) \/ Scan(t) \/ ScanOver(t)
  PROVE  ChainInv'
  <1> USE DEF ChainInv
  <1> USE ClusterWords, WordAssumption
  <1>1. CASE \E offt \in world.hints : Alloc(t, offt)
    <2>1. PICK offt \in world.hints : Alloc(t, offt)
      BY <1>1
    <2>2. {c \in Clusters : fat[c] = FREE} \in SUBSET Clusters
      OBVIOUS
    <2>3. TypeOK'
      <3>1. (IF offt = NoHint THEN last ELSE offt) \in Nat
        BY Callers DEF TypeOK
      <3> QED  BY <2>1, <2>2, <3>1 DEF Alloc, TypeOK, fileVars, Goto
    <2>4. /\ pc[t] = "idle" /\ lock = None /\ lock' = t
          /\ pc' = [pc EXCEPT ![t] = "find"]
          /\ UNCHANGED <<fat, head, tail, mine, lost, at, next>>
      BY <2>1 DEF Alloc, Goto, fileVars
    <2> QED  BY <2>3, <2>4, QuietStep, SMTT(30) DEF TypeOK, Walking
  <1>2. CASE Find(t)
    <2>1. /\ pc[t] = "find" /\ lock = t
          /\ UNCHANGED <<fat, head, tail, mine, lost, next, lock>>
      BY <1>2 DEF Find, LockHeld, tableVars, fileVars
    <2>2. PICK c \in Nat : /\ at' = [at EXCEPT ![t] = c]
                           /\ \/ pc' = [pc EXCEPT ![t] = "probe"]
                              \/ pc' = [pc EXCEPT ![t] = "scan"]
      BY <1>2 DEF Find, Goto, TypeOK, FindFree
    <2>3. TypeOK'
      <3>1. UNCHANGED <<fat, occupied, freeSince, last, lock, head, tail, mine, lost>>
        BY <1>2 DEF Find, tableVars, fileVars
      <3>2. UNCHANGED <<from, hinted, skip, next, report>>
        BY <1>2 DEF Find
      <3> QED  BY <2>2, <3>1, <3>2 DEF TypeOK
    <2>4. pc'[t] \in {"probe", "scan"}
      BY <2>2 DEF TypeOK
    <2>5. \A u \in Threads \ {t} : pc'[u] = pc[u] /\ at'[u] = at[u]
      BY <2>2 DEF TypeOK
    <2> QED  BY <2>1, <2>3, <2>4, <2>5, QuietStep DEF Walking
  <1>3. CASE Probe(t)
    <2>1. PICK w \in Words :
            /\ ReadFat(at[t], w)
            /\ \/ w = FREE /\ Goto(t, "reserve") /\ UNCHANGED at
               \/ w # FREE /\ Goto(t, "scan") /\ at' = [at EXCEPT ![t] = from[t]]
      BY <1>3 DEF Probe
    <2>2. /\ pc[t] = "probe" /\ lock = t
          /\ UNCHANGED <<last, lock, head, tail, mine, lost, from, hinted, skip, next, report>>
      BY <1>3 DEF Probe, LockHeld, fileVars
    <2>3. /\ fat' = fat /\ freeSince' = freeSince
          /\ occupied' \subseteq 0 .. TotalClusters - 1
          /\ w = FREE => at[t] \in Clusters /\ fat[at[t]] = FREE
      BY <2>1, Reads
    <2>4. TypeOK'
      BY <2>1, <2>2, <2>3 DEF TypeOK, Goto
    <2> QED  BY <2>1, <2>2, <2>3, <2>4, QuietStep DEF TypeOK, Walking, Goto
  <1>4. CASE Scan(t)
    <2>1. PICK w \in Words :
            /\ ReadFat(at[t], w)
            /\ \/ w = FREE /\ Goto(t, "reserve") /\ UNCHANGED <<at, skip>>
               \/ /\ w \in {BAD, RESERVED}
                  /\ at' = [at EXCEPT ![t] = @ + skip[t] + 1]
                  /\ skip' = [skip EXCEPT ![t] = @ + 1] /\ UNCHANGED pc
               \/ /\ w \in Clusters \cup {END}
                  /\ at' = [at EXCEPT ![t] = @ + 1] /\ UNCHANGED <<skip, pc>>
      BY <1>4 DEF Scan
    <2>2. /\ pc[t] = "scan" /\ lock = t
          /\ UNCHANGED <<last, lock, head, tail, mine, lost, from, hinted, next, report>>
      BY <1>4 DEF Scan, LockHeld, fileVars
    <2>3. /\ fat' = fat /\ freeSince' = freeSince
          /\ occupied' \subseteq 0 .. TotalClusters - 1
          /\ w = FREE => at[t] \in Clusters /\ fat[at[t]] = FREE
      BY <2>1, Reads
    <2>4. TypeOK'
      BY <2>1, <2>2, <2>3 DEF TypeOK, Goto
    <2> QED  BY <2>1, <2>2, <2>3, <2>4, QuietStep DEF TypeOK, Walking, Goto
  <1>5. CASE ScanOver(t)
    <2>1. /\ pc[t] = "scan" /\ lock = t /\ lock' = None
          /\ pc' = [pc EXCEPT ![t] = "idle"]
          /\ UNCHANGED <<fat, head, tail, mine, lost>>
          /\ at' = [at EXCEPT ![t] = FREE] /\ next' = [next EXCEPT ![t] = FREE]
      BY <1>5 DEF ScanOver, LockHeld, Return, Goto, tableVars, fileVars
    <2>2. TypeOK'
      <3>1. FREE \in Words /\ Root \in Nat /\ 0 \in Nat
        BY ShapeAssumption DEF Words
      <3>2. last' \in Nat
        BY <1>5, <3>1 DEF ScanOver, TypeOK
      <3> QED  BY <1>5, <3>1, <3>2 DEF ScanOver, TypeOK, Return, Goto, tableVars, fileVars
    <2> QED  BY <2>1, <2>2, QuietStep DEF TypeOK, Walking
  <1> QED  BY <1>1, <1>2, <1>3, <1>4, <1>5

(* The steps of dealloc_chain that only read. *)
LEMMA WalkStep ==
  ASSUME ChainInv, NEW t \in Threads, Dealloc(t) \/ ReadNext(t) \/ Status(t)
  PROVE  ChainInv'
  <1> USE DEF ChainInv
  <1> USE ClusterWords, WordAssumption
  <1>1. CASE Dealloc(t)
    <2>1. /\ pc[t] = "idle" /\ head[t] # None
          /\ at' = [at EXCEPT ![t] = head[t]]
          /\ head' = [head EXCEPT ![t] = None] /\ tail' = [tail EXCEPT ![t] = None]
          /\ pc' = [pc EXCEPT ![t] = "next"]
          /\ UNCHANGED <<fat, lock, mine, lost, next>>
      BY <1>1 DEF Dealloc, Goto, tableVars
    <2>2. head[t] \in mine[t] /\ \A d \in mine[t] : fat[d] # head[t]
      BY <2>1 DEF HeadMine
    <2>3. TypeOK'
      BY <1>1, <2>1, <2>2 DEF Dealloc, TypeOK, tableVars, Words
    <2> QED  BY <2>1, <2>2, <2>3, QuietStep DEF TypeOK, Walking
  <1>2. CASE ReadNext(t)
    <2>1. PICK w \in Words : ReadFat(at[t], w) /\ next' = [next EXCEPT ![t] = w]
      BY <1>2 DEF ReadNext
    <2>2. /\ pc[t] = "next" /\ pc' = [pc EXCEPT ![t] = "status"]
          /\ UNCHANGED <<last, lock, head, tail, mine, lost, from, hinted, at, skip, report>>
      BY <1>2 DEF ReadNext, Goto, fileVars
    <2>3. /\ at[t] \in mine[t] /\ at[t] \in Clusters /\ head[t] = None
          /\ \A d \in mine[t] : fat[d] # at[t]
      BY <2>2 DEF AtMine, Walking, NoUndo, TypeOK
    <2>4. /\ fat' = fat /\ freeSince' = freeSince
          /\ occupied' \subseteq 0 .. TotalClusters - 1
          /\ w \in {fat[at[t]], BAD}
      BY <2>1, <2>3, Reads
    <2>5. TypeOK'
      BY <2>1, <2>2, <2>4 DEF TypeOK
    <2> QED  BY <2>1, <2>2, <2>3, <2>4, <2>5, QuietStep DEF TypeOK, Walking
  <1>3. CASE Status(t)
    <2>1. PICK w \in Words :
            /\ ReadFat(at[t], w)
            /\ \/ w = FREE /\ Advance(t, mine[t])
               \/ w # FREE /\ Goto(t, "clear") /\ UNCHANGED <<fileVars, callVars, report>>
      BY <1>3 DEF Status
    <2>2. /\ pc[t] = "status" /\ UNCHANGED <<last, lock>>
      BY <1>3 DEF Status
    <2>3. /\ at[t] \in mine[t] /\ at[t] \in Clusters /\ head[t] = None
          /\ \A d \in mine[t] : fat[d] # at[t]
          /\ next[t] \in {fat[at[t]], BAD} /\ fat[at[t]] # FREE
      BY <2>2 DEF AtMine, Walking, NoUndo, NextRead, OneOwner, TypeOK
    <2>4. /\ fat' = fat /\ freeSince' = freeSince
          /\ occupied' \subseteq 0 .. TotalClusters - 1
          /\ w \in {fat[at[t]], BAD}
      BY <2>1, <2>3, Reads
    <2>5. /\ pc' = [pc EXCEPT ![t] = "clear"]
          /\ UNCHANGED <<head, tail, mine, lost, from, hinted, at, skip, next, report>>
      BY <2>1, <2>3, <2>4 DEF Goto, fileVars, callVars
    <2>6. TypeOK'
      BY <2>2, <2>4, <2>5 DEF TypeOK
    <2> QED  BY <2>2, <2>3, <2>4, <2>5, <2>6, QuietStep DEF TypeOK, Walking
  <1> QED  BY <1>1, <1>2, <1>3

(* No step leaves the invariant. *)
LEMMA NextHolds ==
  ASSUME ChainInv, Calm, world \in Worlds, [Next]_vars
  PROVE  ChainInv'
  <1>1. CASE UNCHANGED vars
    BY <1>1 DEF vars, tableVars, fileVars, callVars, ChainInv, TypeOK, OneOwner, LockHeld,
                ReservesFree, OthersTaken, NoUndo, AtMine, HeadMine, NextRead, Links, Walking
  <1>2. ASSUME NEW t \in Threads, Step(t)  PROVE ChainInv'
    <2>1. ~Undo(t) /\ ~UndoWrite(t)
      BY DEF Undo, UndoWrite, ChainInv, NoUndo
    <2> QED
      BY <1>2, <2>1, SearchStep, ReserveStep, SetEndStep, LinkStep, ClearStep, WalkStep
      DEF Step, Work
  <1> QED  BY <1>1, <1>2, Callers DEF Next

(* Types hold on every volume, damaged or failing: what is given to a file  *)
(* or given up is a cluster, as a write succeeds on clusters only.          *)
TypeInv ==
  /\ world \in Worlds /\ TypeOK
  /\ \A t \in Threads : pc[t] \in {"end", "link", "undo", "undo_write"} => at[t] \in Clusters

LEMMA AnyWrite ==
  ASSUME TypeInv, NEW c, NEW w \in Words, NEW ok \in BOOLEAN, WriteFat(c, w, ok)
  PROVE  /\ fat' \in [Clusters -> Words]
         /\ occupied' \subseteq 0 .. TotalClusters - 1
         /\ freeSince' \in [Threads -> SUBSET Clusters]
         /\ ok => c \in Clusters
  <1>1. ASSUME c \in Clusters  PROVE Noted(c, w) \subseteq 0 .. TotalClusters - 1
    BY <1>1, ShapeAssumption DEF Noted, TypeInv, TypeOK, Clusters
  <1>2. CASE /\ c \in Clusters
             /\ fat' = [fat EXCEPT ![c] = w]
             /\ occupied' = Noted(c, w)
             /\ freeSince' = [t \in Threads |-> IF w = FREE THEN freeSince[t]
                                                           ELSE freeSince[t] \ {c}]
    BY <1>1, <1>2 DEF TypeInv, TypeOK
  <1>3. CASE ~ok /\ UNCHANGED tableVars
    BY <1>3 DEF TypeInv, TypeOK, tableVars
  <1> QED  BY <1>2, <1>3 DEF WriteFat

LEMMA AllocTypes ==
  ASSUME TypeInv, NEW t \in Threads, world' = world,
         \/ \E offt \in world.hints : Alloc(t, offt)
         \/ Find(t) \/ Probe(t) \/ Scan(t) \/ ScanOver(t) \/ Reserve(t)
  PROVE  TypeInv'
  <1> USE ClusterWords, WordAssumption, ShapeAssumption
  <1>1. CASE \E offt \in world.hints : Alloc(t, offt)
    <2>1. PICK offt \in world.hints : Alloc(t, offt)
      BY <1>1
    <2>2. (IF offt = NoHint THEN last ELSE offt) \in Nat
      BY Callers DEF TypeInv, TypeOK
    <2>3. {c \in Clusters : fat[c] = FREE} \in SUBSET Clusters
      OBVIOUS
    <2> QED  BY <2>1, <2>2, <2>3 DEF TypeInv, Alloc, TypeOK, fileVars, Goto
  <1>2. CASE Find(t)
    <2>1. PICK c \in Nat : /\ at' = [at EXCEPT ![t] = c]
                           /\ \/ pc' = [pc EXCEPT ![t] = "probe"]
                              \/ pc' = [pc EXCEPT ![t] = "scan"]
      BY <1>2 DEF Find, Goto, TypeInv, TypeOK, FindFree
    <2> QED  BY <1>2, <2>1 DEF Find, TypeInv, TypeOK, tableVars, fileVars
  <1>3. CASE Probe(t)
    <2>1. PICK w \in Words : /\ ReadFat(at[t], w)
                             /\ \/ w = FREE /\ Goto(t, "reserve") /\ UNCHANGED at
                                \/ w # FREE /\ Goto(t, "scan") /\ at' = [at EXCEPT ![t] = from[t]]
      BY <1>3 DEF Probe
    <2>2. /\ fat' = fat /\ freeSince' = freeSince
          /\ occupied' \subseteq 0 .. TotalClusters - 1
      BY <2>1, Reads DEF TypeInv
    <2> QED  BY <1>3, <2>1, <2>2 DEF Probe, TypeInv, TypeOK, Goto, fileVars
  <1>4. CASE Scan(t)
    <2>1. PICK w \in Words :
            /\ ReadFat(at[t], w)
            /\ \/ w = FREE /\ Goto(t, "reserve") /\ UNCHANGED <<at, skip>>
               \/ /\ w \in {BAD, RESERVED}
                  /\ at' = [at EXCEPT ![t] = @ + skip[t] + 1]
                  /\ skip' = [skip EXCEPT ![t] = @ + 1] /\ UNCHANGED pc
               \/ /\ w \in Clusters \cup {END}
                  /\ at' = [at EXCEPT ![t] = @ + 1] /\ UNCHANGED <<skip, pc>>
      BY <1>4 DEF Scan
    <2>2. /\ fat' = fat /\ freeSince' = freeSince
          /\ occupied' \subseteq 0 .. TotalClusters - 1
      BY <2>1, Reads DEF TypeInv
    <2> QED  BY <1>4, <2>1, <2>2 DEF Scan, TypeInv, TypeOK, Goto, fileVars
  <1>5. CASE ScanOver(t)
    <2>1. last' \in Nat /\ FREE \in Words
      BY <1>5 DEF ScanOver, TypeInv, TypeOK, Words
    <2> QED  BY <1>5, <2>1 DEF ScanOver, TypeInv, TypeOK, Return, Goto, tableVars, fileVars
  <1>6. CASE Reserve(t)
    <2>1. CASE /\ WriteFat(at[t], RESERVED, TRUE)
               /\ last' = (IF hinted[t] THEN last ELSE at[t] + 1)
               /\ mine' = [mine EXCEPT ![t] = @ \cup {at[t]}]
               /\ Goto(t, "end") /\ UNCHANGED <<callVars, report>>
      <3>1. /\ at[t] \in Clusters
            /\ fat' \in [Clusters -> Words] /\ occupied' \subseteq 0 .. TotalClusters - 1
            /\ freeSince' \in [Threads -> SUBSET Clusters]
        BY <2>1, AnyWrite DEF Words
      <3>2. last' \in Nat
        <4>1. at[t] \in Nat /\ last \in Nat
          BY <3>1 DEF TypeInv, TypeOK
        <4>2. at[t] + 1 \in Nat
          BY <4>1
        <4> QED  BY <2>1, <4>1, <4>2
      <3> QED  BY <1>6, <2>1, <3>1, <3>2, ZenonT(60) DEF Reserve, TypeInv, TypeOK, Goto, callVars
    <2>2. CASE /\ WriteFat(at[t], RESERVED, FALSE)
               /\ Return(t, "failed") /\ UNCHANGED <<last, mine>>
      <3>1. /\ fat' \in [Clusters -> Words] /\ occupied' \subseteq 0 .. TotalClusters - 1
            /\ freeSince' \in [Threads -> SUBSET Clusters] /\ FREE \in Words
        BY <2>2, AnyWrite DEF Words
      <3> QED  BY <1>6, <2>2, <3>1 DEF Reserve, TypeInv, TypeOK, Return, Goto
    <2> QED  BY <1>6, <2>1, <2>2 DEF Reserve
  <1> QED  BY <1>1, <1>2, <1>3, <1>4, <1>5, <1>6

\* What a step that ends its call, or goes on inside it, leaves to be shown.
LEMMA MoveTypes ==
  ASSUME TypeInv, NEW t \in Threads, world' = world, UNCHANGED <<last, lock>>,
         fat' \in [Clusters -> Words], occupied' \subseteq 0 .. TotalClusters - 1,
         freeSince' \in [Threads -> SUBSET Clusters],
         head' \in [Threads -> Clusters \cup {None}],
         tail' \in [Threads -> Clusters \cup {None}],
         \A u \in Threads : head'[u] = None <=> tail'[u] = None,
         mine' \in [Threads -> SUBSET Clusters], lost' \subseteq Clusters,
         \/ \E how \in {"failed", "allocated", "deallocated", "broken"} : Return(t, how)
         \/ /\ \E label \in {"link", "undo", "undo_write"} : Goto(t, label)
            /\ at[t] \in Clusters /\ UNCHANGED <<callVars, report>>
  PROVE  TypeInv'
  <1>1. CASE \E how \in {"failed", "allocated", "deallocated", "broken"} : Return(t, how)
    <2>1. FREE \in Words
      BY DEF Words
    <2> QED  BY <1>1, <2>1 DEF Return, Goto, TypeInv, TypeOK
  <1>2. CASE /\ \E label \in {"link", "undo", "undo_write"} : Goto(t, label)
             /\ at[t] \in Clusters /\ UNCHANGED <<callVars, report>>
    BY <1>2 DEF Goto, TypeInv, TypeOK, callVars
  <1> QED  BY <1>1, <1>2

LEMMA AppendTypes ==
  ASSUME TypeInv, NEW t \in Threads, world' = world,
         SetEnd(t) \/ Link(t) \/ Undo(t) \/ UndoWrite(t)
  PROVE  TypeInv'
  <1> USE ClusterWords, WordAssumption
  <1>1. CASE SetEnd(t)
    <2>1. PICK ok \in BOOLEAN : WriteFat(at[t], END, ok)
      BY <1>1 DEF SetEnd
    <2>2. /\ fat' \in [Clusters -> Words] /\ occupied' \subseteq 0 .. TotalClusters - 1
          /\ freeSince' \in [Threads -> SUBSET Clusters] /\ FREE \in Words
          /\ at[t] \in Clusters
      BY <1>1, <2>1, AnyWrite DEF Words, SetEnd, TypeInv
    <2>3. /\ head' \in [Threads -> Clusters \cup {None}]
          /\ tail' \in [Threads -> Clusters \cup {None}]
          /\ \A u \in Threads : head'[u] = None <=> tail'[u] = None
      BY <1>1, <2>2, ZenonT(60) DEF SetEnd, TypeInv, TypeOK, fileVars
    <2>4. mine' \in [Threads -> SUBSET Clusters] /\ lost' \subseteq Clusters
      <3>1. \/ UNCHANGED <<mine, lost>>
            \/ mine' = [mine EXCEPT ![t] = @ \ {at[t]}] /\ lost' = lost \cup {at[t]}
        BY <1>1 DEF SetEnd, fileVars
      <3>2. /\ mine \in [Threads -> SUBSET Clusters] /\ lost \subseteq Clusters
            /\ mine[t] \ {at[t]} \in SUBSET Clusters
        BY DEF TypeInv, TypeOK
      <3>3. CASE mine' = [mine EXCEPT ![t] = @ \ {at[t]}] /\ lost' = lost \cup {at[t]}
        BY <2>2, <3>2, <3>3
      <3> QED  BY <3>1, <3>2, <3>3
    <2>5. \/ \E how \in {"failed", "allocated"} : Return(t, how)
          \/ /\ \E label \in {"link", "undo"} : Goto(t, label)
             /\ UNCHANGED <<callVars, report>>
      BY <1>1 DEF SetEnd
    <2>6. UNCHANGED <<last, lock>>
      BY <1>1 DEF SetEnd
    <2> QED  BY <2>2, <2>3, <2>4, <2>5, <2>6, MoveTypes
  <1>2. CASE Link(t)
    <2>1. PICK ok \in BOOLEAN : WriteFat(tail[t], at[t], ok)
      BY <1>2 DEF Link
    <2>2. /\ fat' \in [Clusters -> Words] /\ occupied' \subseteq 0 .. TotalClusters - 1
          /\ freeSince' \in [Threads -> SUBSET Clusters] /\ FREE \in Words
          /\ at[t] \in Clusters
      BY <1>2, <2>1, AnyWrite DEF Words, Link, TypeInv
    <2>3. WriteFat(tail[t], at[t], TRUE) => tail[t] \in Clusters
      BY DEF WriteFat
    <2>4. /\ head' \in [Threads -> Clusters \cup {None}]
          /\ tail' \in [Threads -> Clusters \cup {None}]
          /\ \A u \in Threads : head'[u] = None <=> tail'[u] = None
      BY <1>2, <2>2, <2>3 DEF Link, TypeInv, TypeOK
    <2>5. mine' \in [Threads -> SUBSET Clusters] /\ lost' \subseteq Clusters
      BY <1>2 DEF Link, TypeInv, TypeOK
    <2>6. \/ Return(t, "allocated")
          \/ Goto(t, "undo") /\ UNCHANGED <<callVars, report>>
      BY <1>2 DEF Link
    <2>7. UNCHANGED <<last, lock>>
      BY <1>2 DEF Link
    <2> QED  BY <2>2, <2>4, <2>5, <2>6, <2>7, MoveTypes
  <1>3. CASE Undo(t)
    <2>1. PICK w \in Words :
            /\ ReadFat(at[t], w)
            /\ \/ w = FREE /\ Return(t, "failed")
               \/ w # FREE /\ Goto(t, "undo_write") /\ UNCHANGED <<callVars, report>>
      BY <1>3 DEF Undo
    <2>2. /\ fat' = fat /\ freeSince' = freeSince /\ FREE \in Words
          /\ occupied' \subseteq 0 .. TotalClusters - 1
      BY <2>1, Reads DEF TypeInv, Words
    <2> QED
      BY <1>3, <2>1, <2>2 DEF Undo, TypeInv, TypeOK, Return, Goto, fileVars, callVars
  <1>4. CASE UndoWrite(t)
    <2>1. PICK ok \in BOOLEAN : /\ WriteFat(at[t], FREE, ok)
                                /\ lost' = IF ok THEN lost ELSE lost \cup {at[t]}
      BY <1>4 DEF UndoWrite
    <2>2. /\ fat' \in [Clusters -> Words] /\ occupied' \subseteq 0 .. TotalClusters - 1
          /\ freeSince' \in [Threads -> SUBSET Clusters] /\ FREE \in Words
          /\ at[t] \in Clusters
      BY <1>4, <2>1, AnyWrite, ZenonT(60) DEF Words, UndoWrite, TypeInv
    <2> QED
      BY <1>4, <2>1, <2>2 DEF UndoWrite, TypeInv, TypeOK, Return, Goto
  <1> QED  BY <1>1, <1>2, <1>3, <1>4

LEMMA AdvanceTypes ==
  ASSUME TypeInv, NEW t \in Threads, world' = world, NEW left \in SUBSET mine[t],
         Advance(t, left), UNCHANGED <<last, lock>>,
         fat' \in [Clusters -> Words], occupied' \subseteq 0 .. TotalClusters - 1,
         freeSince' \in [Threads -> SUBSET Clusters]
  PROVE  TypeInv'
  <1>1. FREE \in Words /\ left \subseteq Clusters
    BY DEF Words, TypeInv, TypeOK
  <1>2. CASE next[t] \in {END, BAD, FREE}
    <2>1. /\ mine' \in [Threads -> SUBSET Clusters] /\ lost' \subseteq Clusters
          /\ Return(t, "deallocated") /\ UNCHANGED <<head, tail>>
      BY <1>1, <1>2 DEF Advance, GiveUp, TypeInv, TypeOK
    <2>2. /\ head' \in [Threads -> Clusters \cup {None}]
          /\ tail' \in [Threads -> Clusters \cup {None}]
          /\ \A u \in Threads : head'[u] = None <=> tail'[u] = None
      BY <2>1 DEF TypeInv, TypeOK
    <2> QED  BY <2>1, <2>2, MoveTypes
  <1>3. CASE next[t] \notin {END, BAD, FREE}
    BY <1>1, <1>3, ZenonT(60) DEF Advance, Goto, TypeInv, TypeOK
  <1> QED  BY <1>2, <1>3

LEMMA WalkTypes ==
  ASSUME TypeInv, NEW t \in Threads, world' = world,
         Dealloc(t) \/ ReadNext(t) \/ Status(t) \/ Clear(t)
  PROVE  TypeInv'
  <1> USE ClusterWords, WordAssumption
  <1>1. CASE Dealloc(t)
    BY <1>1 DEF Dealloc, TypeInv, TypeOK, Goto, tableVars, Words
  <1>2. CASE ReadNext(t)
    <2>1. PICK w \in Words : ReadFat(at[t], w) /\ next' = [next EXCEPT ![t] = w]
      BY <1>2 DEF ReadNext
    <2>2. /\ fat' = fat /\ freeSince' = freeSince
          /\ occupied' \subseteq 0 .. TotalClusters - 1
      BY <2>1, Reads DEF TypeInv
    <2> QED  BY <1>2, <2>1, <2>2 DEF ReadNext, TypeInv, TypeOK, Goto, fileVars
  <1>3. CASE Status(t)
    <2>1. PICK w \in Words :
            /\ ReadFat(at[t], w)
            /\ \/ w = FREE /\ Advance(t, mine[t])
               \/ w # FREE /\ Goto(t, "clear") /\ UNCHANGED <<fileVars, callVars, report>>
      BY <1>3 DEF Status
    <2>2. /\ fat' = fat /\ freeSince' = freeSince /\ UNCHANGED <<last, lock>>
          /\ occupied' \subseteq 0 .. TotalClusters - 1
      BY <1>3, <2>1, Reads DEF TypeInv, Status
    <2>3. CASE Advance(t, mine[t])
      BY <2>2, <2>3, AdvanceTypes DEF TypeInv, TypeOK
    <2>4. CASE Goto(t, "clear") /\ UNCHANGED <<fileVars, callVars, report>>
      BY <2>2, <2>4 DEF TypeInv, TypeOK, Goto, fileVars, callVars
    <2> QED  BY <2>1, <2>3, <2>4
  <1>4. CASE Clear(t)
    <2>1. PICK ok \in BOOLEAN : WriteFat(at[t], FREE, ok)
      BY <1>4 DEF Clear
    <2>2. /\ fat' \in [Clusters -> Words] /\ occupied' \subseteq 0 .. TotalClusters - 1
          /\ freeSince' \in [Threads -> SUBSET Clusters] /\ FREE \in Words
          /\ UNCHANGED <<last, lock>>
      BY <1>4, <2>1, AnyWrite DEF Words, Clear
    <2>3. CASE Advance(t, mine[t] \ {at[t]})
      BY <2>2, <2>3, AdvanceTypes
    <2>4. CASE GiveUp(t, "broken", mine[t])
      BY <2>2, <2>4 DEF GiveUp, Return, Goto, TypeInv, TypeOK
    <2> QED  BY <1>4, <2>3, <2>4 DEF Clear
  <1> QED  BY <1>1, <1>2, <1>3, <1>4

(* Type correctness for every number of threads and clusters, any table,   *)
(* any bitmap mode and any failing reads and writes.                       *)
THEOREM ChainTypes ==
  Spec => []TypeOK
  <1>1. Init => TypeInv
    BY ClusterWords, ShapeAssumption, WordAssumption
    DEF Init, TypeInv, TypeOK, Words, Clusters
  <1>2. TypeInv /\ [Next]_vars => TypeInv'
    <2>1. ASSUME TypeInv, UNCHANGED vars  PROVE TypeInv'
      BY <2>1 DEF vars, tableVars, fileVars, callVars, TypeInv, TypeOK
    <2>2. ASSUME TypeInv, world' = world, NEW t \in Threads, Step(t)  PROVE TypeInv'
      BY <2>2, AllocTypes, AppendTypes, WalkTypes DEF Step, Work
    <2> QED  BY <2>1, <2>2, Callers DEF Next, TypeInv
  <1>3. TypeInv => TypeOK
    BY DEF TypeInv
  <1> QED  BY <1>1, <1>2, <1>3, PTL DEF Spec

-----------------------------------------------------------------------------
(* It holds on every calm volume; the others are not promised anything. *)
LEMMA CalmHolds ==
  Spec => [](world \in Worlds /\ (Calm => ChainInv))
  <1>1. Init => world \in Worlds /\ (Calm => ChainInv)
    BY InitHolds DEF Init
  <1>2. world \in Worlds /\ (Calm => ChainInv) /\ [Next]_vars
          => (world \in Worlds /\ (Calm => ChainInv))'
    <2>1. ASSUME [Next]_vars  PROVE world' = world /\ Calm' = Calm
      BY <2>1 DEF Next, vars, Calm
    <2> QED  BY <2>1, NextHolds
  <1> QED  BY <1>1, <1>2, PTL DEF Spec

(* No cluster is given to two files, and none that a file has is freed by  *)
(* another: alloc_cluster, the append and dealloc_chain run concurrently   *)
(* and FAT reads may fail.                                                 *)
THEOREM NoSharedCluster ==
  Spec => []Exclusive
  <1>1. world \in Worlds /\ (Calm => ChainInv) => Exclusive
    BY DEF ChainInv, Exclusive
  <1> QED  BY <1>1, CalmHolds, PTL

\* No entry of a file leads out of the file.
ChainClosed == Calm =>
  \A t \in Threads : pc[t] = "idle" =>
    \A c \in mine[t] : fat[c] \in Clusters => fat[c] \in mine[t]

(* The links of a file stay inside it, whatever appends and deallocations  *)
(* run: no chain runs into another file or into a FREE cluster.            *)
THEOREM ChainsStayClosed ==
  Spec => []ChainClosed
  <1>1. world \in Worlds /\ (Calm => ChainInv) => ChainClosed
    BY DEF ChainInv, Links, ChainClosed
  <1> QED  BY <1>1, CalmHolds, PTL

-----------------------------------------------------------------------------
\* Small numbers: a set of them has a least one.
LEMMA LeastNumber ==
  ASSUME NEW S, S \subseteq Nat, S # {}
  PROVE  \E m \in S : \A k \in S : m <= k
  <1> DEFINE Below == {0 .. n : n \in S}
  <1>1. Below \subseteq FiniteSubsetsOf(Nat) /\ Below # {}
    <2>1. ASSUME NEW n \in S  PROVE 0 .. n \in FiniteSubsetsOf(Nat)
      <3>1. IsFiniteSet(0 .. n)
        BY FS_Interval
      <3> QED  BY <3>1 DEF FiniteSubsetsOf
    <2> QED  BY <2>1
  <1>2. PICK b \in Below : \A a \in Below : <<a, b>> \notin StrictSubsetOrdering(Nat)
    BY <1>1, FS_StrictSubsetOrderingWellFounded, WFMin
  <1>3. PICK m \in S : b = 0 .. m
    OBVIOUS
  <1>4. ASSUME NEW k \in S, k < m  PROVE FALSE
    <2>1. 0 .. k \in Below /\ 0 .. k \subseteq 0 .. m /\ 0 .. k # 0 .. m
      <3>1. k \in Nat /\ m \in Nat /\ m \in 0 .. m /\ m \notin 0 .. k
        BY <1>4
      <3> QED  BY <3>1, <1>4
    <2>2. <<0 .. k, 0 .. m>> \in StrictSubsetOrdering(Nat)
      BY <2>1 DEF StrictSubsetOrdering
    <2> QED  BY <2>1, <2>2, <1>2, <1>3
  <1> QED  BY <1>4

(* Whole chains.  S is a chain of table T from a to z: its clusters can be *)
(* numbered so that each links to the next one, and the last is END.       *)
Numbering(T, S, a, z, n, f) ==
  /\ f \in [1 .. n -> S]
  /\ f[1] = a /\ f[n] = z /\ T[z] = END
  /\ \A i \in 1 .. n - 1 : T[f[i]] = f[i + 1]
  /\ \A i, j \in 1 .. n : f[i] = f[j] => i = j
  /\ \A c \in S : \E i \in 1 .. n : f[i] = c

Chained(T, S, a, z) ==
  \E n \in Nat \ {0} : \E f : Numbering(T, S, a, z, n, f)

\* A cluster that is END is a chain.
LEMMA ChainOne ==
  ASSUME NEW T, NEW c, T[c] = END
  PROVE  Chained(T, {c}, c, c)
  <1> DEFINE f == [i \in 1 .. 1 |-> c]
  <1>1. f \in [1 .. 1 -> {c}] /\ Numbering(T, {c}, c, c, 1, f)
    BY DEF Numbering
  <1> QED  BY <1>1 DEF Chained

\* Both ends of a chain belong to it.
LEMMA ChainEnds ==
  ASSUME NEW T, NEW S, NEW a, NEW z, Chained(T, S, a, z)
  PROVE  a \in S /\ z \in S /\ T[z] = END
  <1>0. PICK n \in Nat \ {0} : \E f : Numbering(T, S, a, z, n, f)
    BY DEF Chained
  <1>1. PICK f : Numbering(T, S, a, z, n, f)
    BY <1>0
  <1>2. 1 \in 1 .. n /\ n \in 1 .. n
    OBVIOUS
  <1> QED  BY <1>1, <1>2 DEF Numbering

\* Only the entries of its own clusters make a chain.
LEMMA ChainFrame ==
  ASSUME NEW T, NEW S, NEW a, NEW z, Chained(T, S, a, z),
         NEW U, \A c \in S : U[c] = T[c]
  PROVE  Chained(U, S, a, z)
  <1>0. PICK n \in Nat \ {0} : \E f : Numbering(T, S, a, z, n, f)
    BY DEF Chained
  <1>1. PICK f : Numbering(T, S, a, z, n, f)
    BY <1>0
  <1>2. f \in [1 .. n -> S] /\ \A i \in 1 .. n : f[i] \in S
    BY <1>1 DEF Numbering
  <1>3. z \in S /\ \A i \in 1 .. n - 1 : i \in 1 .. n
    BY ChainEnds
  <1>4. Numbering(U, S, a, z, n, f)
    BY <1>1, <1>2, <1>3 DEF Numbering
  <1> QED  BY <1>4 DEF Chained

\* The append puts a new END behind the old one.
LEMMA ChainGrows ==
  ASSUME NEW T, NEW S, NEW a, NEW z, Chained(T, S, a, z),
         NEW c, c \notin S, NEW U, U[z] = c, U[c] = END, \A d \in S \ {z} : U[d] = T[d]
  PROVE  Chained(U, S \cup {c}, a, c)
  <1>0. PICK n \in Nat \ {0} : \E f : Numbering(T, S, a, z, n, f)
    BY DEF Chained
  <1>1. PICK f : Numbering(T, S, a, z, n, f)
    BY <1>0
  <1> DEFINE g == [i \in 1 .. n + 1 |-> IF i = n + 1 THEN c ELSE f[i]]
  <1>2. /\ f \in [1 .. n -> S] /\ \A i \in 1 .. n : f[i] \in S
        /\ \A i \in 1 .. n + 1 : i # n + 1 => i \in 1 .. n
        /\ g \in [1 .. n + 1 -> S \cup {c}] /\ n + 1 \in Nat \ {0}
    <2>1. f \in [1 .. n -> S] /\ \A i \in 1 .. n : f[i] \in S
      BY <1>1 DEF Numbering
    <2>2. \A i \in 1 .. n + 1 : i # n + 1 => i \in 1 .. n
      OBVIOUS
    <2> QED  BY <2>1, <2>2
  <1>3. g[1] = a /\ g[n + 1] = c
    BY <1>1 DEF Numbering
  <1>4. ASSUME NEW i \in 1 .. n  PROVE U[g[i]] = g[i + 1]
    <2>1. CASE i = n
      BY <1>1, <2>1 DEF Numbering
    <2>2. CASE i # n
      <3>1. i \in 1 .. n - 1 /\ g[i] = f[i] /\ g[i + 1] = f[i + 1] /\ n \in 1 .. n
        BY <2>2
      <3>2. f[i] \in S \ {z}
        BY <1>1, <2>2, <3>1 DEF Numbering
      <3> QED  BY <1>1, <3>1, <3>2 DEF Numbering
    <2> QED  BY <2>1, <2>2
  <1>5. ASSUME NEW i \in 1 .. n + 1, NEW j \in 1 .. n + 1, g[i] = g[j]  PROVE i = j
    <2>1. \A k \in 1 .. n + 1 : k # n + 1 => k \in 1 .. n /\ g[k] = f[k] /\ g[k] # c
      BY <1>2
    <2> QED  BY <1>1, <1>5, <2>1 DEF Numbering
  <1>6. ASSUME NEW d \in S \cup {c}  PROVE \E i \in 1 .. n + 1 : g[i] = d
    <2>1. CASE d = c
      BY <1>3, <2>1
    <2>2. CASE d \in S
      <3>1. PICK i \in 1 .. n : f[i] = d
        BY <1>1, <2>2 DEF Numbering
      <3>2. i \in 1 .. n + 1 /\ g[i] = d
        BY <3>1
      <3> QED  BY <3>2
    <2> QED  BY <2>1, <2>2
  <1>7. Numbering(U, S \cup {c}, a, c, n + 1, g)
    <2> HIDE DEF g
    <2>1. \A i \in 1 .. (n + 1) - 1 : U[g[i]] = g[i + 1]
      BY <1>4
    <2> QED  BY <1>2, <1>3, <1>5, <1>6, <2>1 DEF Numbering
  <1> HIDE DEF g
  <1> QED  BY <1>2, <1>7 DEF Chained

\* A chain whose first cluster is END has no other.
LEMMA ChainLast ==
  ASSUME NEW T, NEW S, NEW a, NEW z, Chained(T, S, a, z), T[a] = END, END \notin S
  PROVE  S = {a}
  <1>0. PICK n \in Nat \ {0} : \E f : Numbering(T, S, a, z, n, f)
    BY DEF Chained
  <1>1. PICK f : Numbering(T, S, a, z, n, f)
    BY <1>0
  <1>2. n = 1
    <2> SUFFICES ASSUME n # 1  PROVE FALSE
      OBVIOUS
    <2>1. 1 \in 1 .. n - 1 /\ 2 \in 1 .. n
      OBVIOUS
    <2> QED  BY <1>1, <2>1 DEF Numbering
  <1> QED  BY <1>1, <1>2 DEF Numbering

\* The rest of a chain is the chain of the rest.
LEMMA ChainShrinks ==
  ASSUME NEW T, NEW S, NEW a, NEW z, Chained(T, S, a, z), T[a] # END,
         NEW U, \A d \in S \ {a} : U[d] = T[d]
  PROVE  T[a] \in S \ {a} /\ Chained(U, S \ {a}, T[a], z)
  <1>0. PICK n \in Nat \ {0} : \E f : Numbering(T, S, a, z, n, f)
    BY DEF Chained
  <1>1. PICK f : Numbering(T, S, a, z, n, f)
    BY <1>0
  <1>2. n # 1
    BY <1>1 DEF Numbering
  <1> DEFINE m == n - 1
  <1> DEFINE g == [i \in 1 .. m |-> f[i + 1]]
  <1>3. m \in Nat \ {0} /\ \A i \in 1 .. m : i \in 1 .. n /\ i + 1 \in 1 .. n /\ i + 1 # 1
    BY <1>2
  <1>4. \A i \in 1 .. m : f[i + 1] \in S \ {a}
    BY <1>1, <1>3 DEF Numbering
  <1>5. g \in [1 .. m -> S \ {a}]
    BY <1>4
  <1>6. g[1] = T[a] /\ g[m] = z
    <2>1. 1 \in 1 .. n - 1 /\ m + 1 = n /\ 1 \in 1 .. m /\ m \in 1 .. m
      BY <1>3
    <2> QED  BY <1>1, <2>1 DEF Numbering
  <1>7. T[a] \in S \ {a} /\ z \in S \ {a} /\ U[z] = END
    <2>1. 1 \in 1 .. m /\ m \in 1 .. m
      BY <1>3
    <2>2. g[1] \in S \ {a} /\ g[m] \in S \ {a}
      BY <1>5, <2>1
    <2> QED  BY <1>1, <1>6, <2>2 DEF Numbering
  <1>8. ASSUME NEW i \in 1 .. m - 1  PROVE U[g[i]] = g[i + 1]
    <2>1. i \in 1 .. m /\ i + 1 \in 1 .. m /\ i + 1 \in 1 .. n - 1
      BY <1>3
    <2>2. T[f[i + 1]] = f[(i + 1) + 1]
      BY <1>1, <2>1 DEF Numbering
    <2>3. g[i] = f[i + 1] /\ g[i + 1] = f[(i + 1) + 1]
      BY <2>1
    <2> QED  BY <1>4, <2>1, <2>2, <2>3
  <1>9. ASSUME NEW i \in 1 .. m, NEW j \in 1 .. m, g[i] = g[j]  PROVE i = j
    <2>1. f[i + 1] = f[j + 1] /\ i + 1 \in 1 .. n /\ j + 1 \in 1 .. n
      BY <1>3, <1>9
    <2>2. i + 1 = j + 1
      BY <1>1, <2>1 DEF Numbering
    <2> QED  BY <2>2
  <1>10. ASSUME NEW d \in S \ {a}  PROVE \E i \in 1 .. m : g[i] = d
    <2>1. PICK i \in 1 .. n : f[i] = d
      BY <1>1 DEF Numbering
    <2>2. i # 1
      BY <1>1, <2>1 DEF Numbering
    <2>3. i - 1 \in 1 .. m /\ g[i - 1] = d
      BY <2>1, <2>2
    <2> QED  BY <2>3
  <1>11. Numbering(U, S \ {a}, T[a], z, m, g)
    <2> HIDE DEF g, m
    <2> QED  BY <1>5, <1>6, <1>7, <1>8, <1>9, <1>10 DEF Numbering
  <1> HIDE DEF g, m
  <1> QED  BY <1>3, <1>5, <1>7, <1>11 DEF Chained

\* Following the links from the head of a chain finds the chain.
LEMMA ReachIsChain ==
  ASSUME NEW S \in SUBSET Clusters, NEW a, NEW z, Chained(fat, S, a, z)
  PROVE  Reach(a) = S
  <1>0. PICK n \in Nat \ {0} : \E f : Numbering(fat, S, a, z, n, f)
    BY DEF Chained
  <1>1. PICK f : Numbering(fat, S, a, z, n, f)
    BY <1>0
  <1> DEFINE Follow(R) == R \cup {fat[d] : d \in {e \in R : fat[e] \in Clusters}}
  <1> DEFINE Firsts(k) == {f[i] : i \in {j \in 1 .. n : j <= k + 1}}
  <1> DEFINE h == [k \in Nat |-> Firsts(k)]
  <1>2. ASSUME NEW k \in Nat  PROVE Firsts(k + 1) = Follow(Firsts(k))
    <2>1. ASSUME NEW c \in Firsts(k + 1)  PROVE c \in Follow(Firsts(k))
      <3>1. PICK i \in 1 .. n : i <= k + 2 /\ c = f[i]
        BY <2>1
      <3>2. CASE i <= k + 1
        BY <3>1, <3>2
      <3>3. CASE i = k + 2
        <4>1. i - 1 \in 1 .. n - 1 /\ i - 1 \in 1 .. n /\ i - 1 <= k + 1 /\ (i - 1) + 1 = i
          BY <3>3
        <4>2. fat[f[i - 1]] = c /\ c \in Clusters
          BY <1>1, <3>1, <4>1 DEF Numbering
        <4>3. f[i - 1] \in Firsts(k)
          BY <4>1
        <4> QED  BY <4>2, <4>3
      <3> QED  BY <3>1, <3>2, <3>3
    <2>2. ASSUME NEW c \in Follow(Firsts(k))  PROVE c \in Firsts(k + 1)
      <3>1. CASE c \in Firsts(k)
        BY <3>1
      <3>2. CASE c \notin Firsts(k)
        <4>1. PICK d \in Firsts(k) : fat[d] \in Clusters /\ c = fat[d]
          BY <2>2, <3>2
        <4>2. PICK i \in 1 .. n : i <= k + 1 /\ d = f[i]
          BY <4>1
        <4>3. i # n
          BY <1>1, <4>1, <4>2, ClusterWords DEF Numbering
        <4>4. i \in 1 .. n - 1 /\ i + 1 \in 1 .. n /\ i + 1 <= k + 2
          BY <4>2, <4>3
        <4>5. c = f[i + 1]
          BY <1>1, <4>1, <4>2, <4>4 DEF Numbering
        <4> QED  BY <4>4, <4>5
      <3> QED  BY <3>1, <3>2
    <2> QED  BY <2>1, <2>2
  <1>3. Firsts(0) = {a}
    <2>1. \A j \in 1 .. n : j <= 0 + 1 <=> j = 1
      OBVIOUS
    <2>2. 1 \in 1 .. n
      OBVIOUS
    <2> QED  BY <1>1, <2>1, <2>2 DEF Numbering
  <1> DEFINE Solves(g) == g = [m \in Nat |-> IF m = 0 THEN {a} ELSE Follow(g[m - 1])]
  <1>4. Solves(h)
    <2>1. ASSUME NEW m \in Nat  PROVE h[m] = IF m = 0 THEN {a} ELSE Follow(h[m - 1])
      <3>1. CASE m = 0
        BY <1>3, <3>1
      <3>2. CASE m # 0
        <4>1. m - 1 \in Nat /\ (m - 1) + 1 = m
          BY <3>2
        <4>2. Firsts((m - 1) + 1) = Follow(Firsts(m - 1))
          BY <1>2, <4>1
        <4>3. h[m] = Firsts(m) /\ h[m - 1] = Firsts(m - 1)
          BY <4>1
        <4> HIDE DEF h, Firsts, Follow
        <4> QED  BY <3>2, <4>1, <4>2, <4>3
      <3> QED  BY <3>1, <3>2
    <2>2. h = [m \in Nat |-> h[m]]
      OBVIOUS
    <2> HIDE DEF h, Follow
    <2> QED  BY <2>1, <2>2
  <1> DEFINE r == CHOOSE g : Solves(g)
  <1>5. Solves(r)
    <2> HIDE DEF Solves, h
    <2> QED  BY <1>4
  <1>6. Reach(a) = r[TotalClusters]
    BY DEF Reach
  <1>7. \A k \in Nat : r[k] = h[k]
    <2> DEFINE Bad == {k \in Nat : r[k] # h[k]}
    <2> SUFFICES ASSUME Bad # {}  PROVE FALSE
      OBVIOUS
    <2>1. PICK k \in Bad : \A m \in Bad : k <= m
      BY LeastNumber
    <2> HIDE DEF r, h, Follow
    <2>2. \A m \in Nat : r[m] = IF m = 0 THEN {a} ELSE Follow(r[m - 1])
      BY <1>5
    <2>3. \A m \in Nat : h[m] = IF m = 0 THEN {a} ELSE Follow(h[m - 1])
      BY <1>4
    <2>4. k # 0
      BY <2>1, <2>2, <2>3
    <2>5. k - 1 \in Nat /\ k - 1 \notin Bad
      BY <2>1, <2>4
    <2>6. r[k - 1] = h[k - 1]
      BY <2>5
    <2> QED  BY <2>1, <2>2, <2>3, <2>4, <2>6
  <1>8. n <= TotalClusters
    <2>1. f \in Injection(1 .. n, Clusters)
      <3>1. f \in [1 .. n -> S] /\ \A i, j \in 1 .. n : f[i] = f[j] => i = j
        BY <1>1 DEF Numbering
      <3>2. f \in [1 .. n -> Clusters]
        BY <3>1
      <3> QED  BY <3>1, <3>2 DEF Injection, IsInjective
    <2>2. IsFiniteSet(Clusters) /\ Cardinality(Clusters) <= TotalClusters
      <3>1. Root \in Int /\ TotalClusters - 1 \in Int
        BY ShapeAssumption
      <3>2. IsFiniteSet(Root .. TotalClusters - 1)
            /\ Cardinality(Root .. TotalClusters - 1) =
                 (IF Root > TotalClusters - 1 THEN 0 ELSE (TotalClusters - 1) - Root + 1)
        BY <3>1, FS_Interval
      <3> QED  BY <3>2, ShapeAssumption DEF Clusters
    <2>3. IsFiniteSet(1 .. n) /\ Cardinality(1 .. n) = n
      BY FS_Interval
    <2>4. Cardinality(1 .. n) <= Cardinality(Clusters)
      BY <2>1, <2>2, <2>3, FS_Injection
    <2>5. Cardinality(Clusters) \in Nat
      BY <2>2, FS_CardinalityType
    <2> QED  BY <2>2, <2>3, <2>4, <2>5, ShapeAssumption
  <1>9. h[TotalClusters] = S
    <2>1. \A j \in 1 .. n : j <= TotalClusters + 1
      BY <1>8, ShapeAssumption
    <2> QED  BY <1>1, <2>1, ShapeAssumption DEF Numbering
  <1> HIDE DEF r, h
  <1> QED  BY <1>6, <1>7, <1>9, ShapeAssumption

-----------------------------------------------------------------------------
(* Volumes without faults.  There a file is not only closed but one chain: *)
(* what the walk of dealloc_chain, or an append, finds at each of its      *)
(* steps is a chain of table, and nothing leaks.                           *)
\* A cluster that is being appended is not yet in the chain.
InChain(t) == IF pc[t] \in {"end", "link"} THEN mine[t] \ {at[t]} ELSE mine[t]

Shape(t) ==
  /\ Walking(t) => \E z : Chained(fat, mine[t], at[t], z)
  /\ ~Walking(t) /\ head[t] = None => InChain(t) = {}
  /\ ~Walking(t) /\ head[t] # None => Chained(fat, InChain(t), head[t], tail[t])
  /\ pc[t] = "link" => fat[at[t]] = END
  /\ pc[t] \in {"status", "clear"} => next[t] = fat[at[t]]

NoLeak ==
  /\ lost = {}
  /\ \A c \in Clusters : fat[c] # FREE => c \in BadAtFirst \/ \E t \in Threads : c \in mine[t]

(* A loaded bitmap is right, what it offered is still FREE when it is      *)
(* read, so the linear scan begins only when it had nothing to offer.      *)
FreeNow  == \A t \in Threads : \A c \in freeSince[t] : fat[c] = FREE
Mapped   == \A c \in 0 .. TotalClusters - 1 :
              c \in occupied <=> (c \in Clusters => fat[c] # FREE)
Probing  == \A t \in Threads : pc[t] = "probe" => at[t] \in Clusters /\ fat[at[t]] = FREE
Scanning == \A t \in Threads : pc[t] = "scan" \/ report[t] = "full" =>
              \A c \in freeSince[t] : c < from[t]

WholeInv ==
  /\ ChainInv /\ world \in Worlds
  /\ \A t \in Threads : Shape(t)
  /\ NoLeak /\ FreeNow
  /\ world.map = "loaded" => Mapped /\ Probing /\ Scanning

\* Without faults a read tells the entry and leaves a right bitmap alone.
LEMMA SureRead ==
  ASSUME TypeOK, Faultless, NEW c, NEW w \in Words, ReadFat(c, w)
  PROVE  /\ fat' = fat /\ freeSince' = freeSince
         /\ w = IF c \in Clusters THEN fat[c] ELSE BAD
         /\ world.map = "loaded" /\ Mapped => occupied' = occupied
  <1>1. /\ fat' = fat /\ freeSince' = freeSince
        /\ w = (IF c \in Clusters THEN fat[c] ELSE BAD) /\ occupied' = Noted(c, w)
    BY DEF ReadFat, Faultless
  <1>2. ASSUME world.map = "loaded", Mapped, c \in Clusters  PROVE Noted(c, w) = occupied
    <2>1. c \in 0 .. TotalClusters - 1
      BY <1>2, ShapeAssumption DEF Clusters
    <2>2. c \in occupied <=> w # FREE
      BY <1>1, <1>2, <2>1 DEF Mapped
    <2> QED  BY <1>2, <2>2 DEF Noted
  <1> QED  BY <1>1, <1>2 DEF Noted

\* Without faults a write does what it should, in the table and the bitmap.
LEMMA SureWrite ==
  ASSUME TypeOK, Faultless, world' = world, NEW c \in Clusters, NEW w \in Words,
         WriteFat(c, w, TRUE)
  PROVE  /\ fat' = [fat EXCEPT ![c] = w]
         /\ \A t \in Threads : \A d \in freeSince'[t] :
              d \in freeSince[t] /\ (d = c => w = FREE)
         /\ world.map = "loaded" /\ Mapped => Mapped'
  <1>1. /\ fat' = [fat EXCEPT ![c] = w] /\ occupied' = Noted(c, w)
        /\ freeSince' = [t \in Threads |-> IF w = FREE THEN freeSince[t]
                                                       ELSE freeSince[t] \ {c}]
    BY DEF WriteFat
  <1>2. ASSUME world.map = "loaded", Mapped  PROVE Mapped'
    <2>1. occupied' = IF w = FREE THEN occupied \ {c} ELSE occupied \cup {c}
      BY <1>1, <1>2 DEF Noted
    <2>2. SUFFICES ASSUME NEW d \in 0 .. TotalClusters - 1
                   PROVE  d \in occupied' <=> (d \in Clusters => fat'[d] # FREE)
      BY DEF Mapped
    <2>3. CASE d = c
      BY <1>1, <2>1, <2>3 DEF TypeOK
    <2>4. CASE d # c
      <3>1. d \in occupied' <=> d \in occupied
        BY <2>1, <2>4
      <3>2. d \in Clusters => fat'[d] = fat[d]
        BY <1>1, <2>4 DEF TypeOK
      <3> QED  BY <1>2, <3>1, <3>2 DEF Mapped
    <2> QED  BY <2>3, <2>4
  <1> QED  BY <1>1, <1>2

\* A thread's file does not change when nobody touches it.
LEMMA ShapeStays ==
  ASSUME NEW u \in Threads, Shape(u), ChainInv,
         pc'[u] = pc[u], at'[u] = at[u], next'[u] = next[u],
         head'[u] = head[u], tail'[u] = tail[u], mine'[u] = mine[u],
         \A c \in mine[u] : fat'[c] = fat[c]
  PROVE  Shape(u)'
  <1>1. /\ Walking(u)' <=> Walking(u)
        /\ InChain(u)' = InChain(u) /\ InChain(u) \subseteq mine[u]
    BY DEF Walking, InChain
  <1>2. pc[u] \in {"link", "status", "clear"} => at[u] \in mine[u]
    BY DEF ChainInv, AtMine, Walking
  <1>3. \A z : Chained(fat, mine[u], at[u], z) => Chained(fat', mine[u], at[u], z)
    BY ChainFrame
  <1>4. Chained(fat, InChain(u), head[u], tail[u]) => Chained(fat', InChain(u), head[u], tail[u])
    <2>1. \A c \in InChain(u) : fat'[c] = fat[c]
      BY <1>1
    <2> QED  BY <2>1, ChainFrame
  <1> QED  BY <1>1, <1>2, <1>3, <1>4 DEF Shape

(* A step that only looks: the table, the files and the bitmap stay.       *)
LEMMA LookStep ==
  ASSUME WholeInv, ChainInv', world' = world, NEW t \in Threads,
         fat' = fat, mine' = mine, lost' = lost,
         \A u \in Threads \ {t} :
           /\ pc'[u] = pc[u] /\ at'[u] = at[u] /\ next'[u] = next[u]
           /\ head'[u] = head[u] /\ tail'[u] = tail[u]
           /\ from'[u] = from[u] /\ report'[u] = report[u]
           /\ freeSince'[u] = freeSince[u],
         Shape(t)', \A c \in freeSince'[t] : fat[c] = FREE,
         world.map = "loaded" => occupied' = occupied,
         world.map = "loaded" =>
           /\ pc'[t] = "probe" => at'[t] \in Clusters /\ fat[at'[t]] = FREE
           /\ pc'[t] = "scan" \/ report'[t] = "full" => \A c \in freeSince'[t] : c < from'[t]
  PROVE  WholeInv'
  <1> USE DEF WholeInv
  <1>1. \A u \in Threads : Shape(u)'
    <2> SUFFICES ASSUME NEW u \in Threads, u # t  PROVE Shape(u)'
      OBVIOUS
    <2> QED  BY ShapeStays
  <1>2. NoLeak'
    BY DEF NoLeak
  <1>3. FreeNow'
    BY DEF FreeNow
  <1>4. world.map = "loaded" => Mapped'
    BY DEF Mapped
  <1>5. world.map = "loaded" => Probing'
    BY DEF Probing
  <1>6. world.map = "loaded" => Scanning'
    BY DEF Scanning
  <1> QED  BY <1>1, <1>2, <1>3, <1>4, <1>5, <1>6

(* A step that writes entry c, which is the thread's or was reserved for   *)
(* it under the allocator lock.                                            *)
LEMMA WriteStep ==
  ASSUME WholeInv, ChainInv', Faultless, world' = world, NEW t \in Threads,
         NEW c \in Clusters, NEW w \in Words, WriteFat(c, w, TRUE),
         c \in mine[t] \/ (pc[t] = "reserve" /\ c = at[t]),
         \A u \in Threads \ {t} :
           /\ pc'[u] = pc[u] /\ at'[u] = at[u] /\ next'[u] = next[u]
           /\ head'[u] = head[u] /\ tail'[u] = tail[u]
           /\ mine'[u] = mine[u] /\ report'[u] = report[u],
         from' = from, pc'[t] \notin {"probe", "scan"},
         report'[t] \in {report[t], "allocated", "deallocated"},
         Shape(t)', lost' = {},
         \A d \in mine[t] \cup {c} : d \in mine'[t] \/ fat'[d] = FREE
  PROVE  WholeInv'
  <1> USE DEF WholeInv
  <1>1. /\ fat' = [fat EXCEPT ![c] = w] /\ fat \in [Clusters -> Words]
        /\ \A u \in Threads : \A d \in freeSince'[u] :
             d \in freeSince[u] /\ (d = c => w = FREE)
        /\ world.map = "loaded" /\ Mapped => Mapped'
    <2>1. TypeOK
      BY DEF ChainInv
    <2>2. fat \in [Clusters -> Words]
      BY <2>1 DEF TypeOK
    <2> QED  BY <2>1, <2>2, SureWrite
  <1>2. \A u \in Threads \ {t} : c \notin mine[u]
    BY DEF ChainInv, OneOwner, ReservesFree
  <1>3. \A u \in Threads : Shape(u)'
    <2> SUFFICES ASSUME NEW u \in Threads, u # t  PROVE Shape(u)'
      OBVIOUS
    <2>1. \A d \in mine[u] : fat'[d] = fat[d]
      BY <1>1, <1>2 DEF ChainInv, TypeOK
    <2> QED  BY <2>1, ShapeStays
  <1>4. NoLeak'
    <2> SUFFICES ASSUME NEW d \in Clusters, fat'[d] # FREE, d \notin BadAtFirst
                 PROVE  \E u \in Threads : d \in mine'[u]
      BY DEF NoLeak
    <2>1. CASE d = c
      BY <2>1
    <2>2. CASE d # c
      <3>1. PICK u \in Threads : d \in mine[u]
        BY <1>1, <2>2 DEF NoLeak
      <3> QED  BY <3>1
    <2> QED  BY <2>1, <2>2
  <1>5. FreeNow'
    BY <1>1 DEF FreeNow, ChainInv, TypeOK
  <1>6. world.map = "loaded" => Probing'
    <2> SUFFICES ASSUME world.map = "loaded", NEW u \in Threads, pc'[u] = "probe"
                 PROVE  at'[u] \in Clusters /\ fat'[at'[u]] = FREE
      BY DEF Probing
    <2>1. u # t /\ pc[u] = "probe" /\ at'[u] = at[u]
      OBVIOUS
    <2>2. at[u] \in Clusters /\ fat[at[u]] = FREE
      BY <2>1 DEF Probing
    <2>3. pc[t] # "reserve"
      BY <2>1 DEF ChainInv, LockHeld
    <2>4. at[u] # c
      BY <2>2, <2>3 DEF ChainInv, OneOwner
    <2> QED  BY <1>1, <2>1, <2>2, <2>4
  <1>7. world.map = "loaded" => Scanning'
    <2> SUFFICES ASSUME world.map = "loaded", NEW u \in Threads,
                        pc'[u] = "scan" \/ report'[u] = "full", NEW d \in freeSince'[u]
                 PROVE  d < from'[u]
      BY DEF Scanning
    <2>1. pc[u] = "scan" \/ report[u] = "full"
      OBVIOUS
    <2>2. d \in freeSince[u]
      BY <1>1
    <2> QED  BY <2>1, <2>2 DEF Scanning
  <1> QED  BY <1>1, <1>3, <1>4, <1>5, <1>6, <1>7

-----------------------------------------------------------------------------
\* The file of a thread that searches for a cluster stays as it was.
LEMMA SearchShape ==
  ASSUME NEW t \in Threads, Shape(t),
         fat' = fat, mine' = mine, head'[t] = head[t], tail'[t] = tail[t],
         pc[t] \in {"idle", "find", "probe", "scan"},
         pc'[t] \in {"idle", "find", "probe", "scan", "reserve"}
  PROVE  Shape(t)'
  BY DEF Shape, Walking, InChain

\* A right bitmap that has nothing to offer has seen no FREE cluster.
LEMMA NothingToFind ==
  ASSUME TypeOK, Mapped, FreeNow, world.map = "loaded", NEW t \in Threads,
         FindFree(from[t]) = {}
  PROVE  \A c \in freeSince[t] : c < from[t]
  <1>1. SUFFICES ASSUME NEW c \in freeSince[t], ~(c < from[t])  PROVE FALSE
    OBVIOUS
  <1>2. c \in Clusters /\ c \in Nat /\ from[t] \in Nat /\ TotalClusters \in Nat /\ fat[c] = FREE
    BY ClusterWords, ShapeAssumption DEF TypeOK, FreeNow
  <1> DEFINE S == {d \in from[t] .. TotalClusters - 1 : d \notin occupied}
  <1>3. c \in 0 .. TotalClusters - 1 /\ c \in from[t] .. TotalClusters - 1
    BY <1>1, <1>2, ShapeAssumption DEF Clusters
  <1>4. c \in S
    BY <1>2, <1>3 DEF Mapped
  <1>5. PICK m \in S : \A k \in S : m <= k
    <2>1. S \subseteq Nat
      BY <1>2
    <2> HIDE DEF S
    <2> QED  BY <1>4, <2>1, LeastNumber
  <1>6. m \in 0 .. TotalClusters - 1 /\ m \notin occupied
    BY <1>2
  <1>7. m \in Clusters /\ m # 0
    BY <1>6, ShapeAssumption DEF Mapped, Clusters
  <1>8. \A d \in from[t] .. m - 1 : d \in occupied
    <2>1. SUFFICES ASSUME NEW d \in from[t] .. m - 1, d \notin occupied  PROVE FALSE
      OBVIOUS
    <2>2. d \in S /\ ~(m <= d)
      BY <1>2, <1>6, <2>1
    <2> QED  BY <1>5, <2>2
  <1>9. m \in FindFree(from[t])
    BY <1>7, <1>8, WordAssumption DEF FindFree
  <1> QED  BY <1>9

(* alloc_cluster up to the reservation. *)
LEMMA WholeSearch ==
  ASSUME WholeInv, Faultless, world' = world, NEW t \in Threads,
         \/ \E offt \in world.hints : Alloc(t, offt)
         \/ Find(t) \/ Probe(t) \/ Scan(t) \/ ScanOver(t)
  PROVE  WholeInv'
  <1>1. ChainInv' /\ ChainInv /\ TypeOK /\ Shape(t) /\ FreeNow
    BY SearchStep DEF WholeInv, ChainInv
  <1>2. CASE \E offt \in world.hints : Alloc(t, offt)
    <2>1. /\ UNCHANGED <<fat, occupied, mine, lost, head, tail, at, next>>
          /\ pc[t] = "idle" /\ pc' = [pc EXCEPT ![t] = "find"]
          /\ freeSince' = [freeSince EXCEPT ![t] = {c \in Clusters : fat[c] = FREE}]
          /\ report' = [report EXCEPT ![t] = "none"]
          /\ \A u \in Threads \ {t} : from'[u] = from[u]
      BY <1>1, <1>2 DEF Alloc, Goto, fileVars, TypeOK
    <2>2. pc'[t] = "find" /\ report'[t] = "none" /\ \A c \in freeSince'[t] : fat[c] = FREE
      BY <1>1, <2>1 DEF TypeOK
    <2>3. Shape(t)'
      BY <1>1, <2>1, <2>2, SearchShape
    <2> QED  BY <1>1, <2>1, <2>2, <2>3, LookStep
  <1>3. CASE Find(t)
    <2>1. /\ UNCHANGED <<fat, occupied, freeSince, mine, lost, head, tail, next, from, report>>
          /\ pc[t] = "find"
      BY <1>3 DEF Find, tableVars, fileVars
    <2>2. /\ \A u \in Threads \ {t} : pc'[u] = pc[u] /\ at'[u] = at[u]
          /\ \/ pc'[t] = "probe" /\ at'[t] \in FindFree(from[t])
             \/ pc'[t] = "scan" /\ FindFree(from[t]) = {}
      BY <1>1, <1>3 DEF Find, Goto, TypeOK
    <2>3. Shape(t)'
      BY <1>1, <2>1, <2>2, SearchShape
    <2>4. ASSUME world.map = "loaded"
          PROVE  /\ pc'[t] = "probe" => at'[t] \in Clusters /\ fat[at'[t]] = FREE
                 /\ pc'[t] = "scan" \/ report'[t] = "full" =>
                      \A c \in freeSince'[t] : c < from'[t]
      <3>1. Mapped /\ Scanning
        BY <2>4 DEF WholeInv
      <3>2. ASSUME pc'[t] = "probe"  PROVE at'[t] \in Clusters /\ fat[at'[t]] = FREE
        <4>1. at'[t] \in from[t] .. TotalClusters - 1 /\ at'[t] \notin occupied
          BY <2>2, <3>2 DEF FindFree
        <4>2. at'[t] \in 0 .. TotalClusters - 1
          BY <1>1, <4>1, ShapeAssumption DEF TypeOK
        <4> QED  BY <3>1, <4>1, <4>2 DEF Mapped
      <3>3. ASSUME pc'[t] = "scan"  PROVE \A c \in freeSince'[t] : c < from'[t]
        BY <1>1, <2>1, <2>2, <2>4, <3>1, <3>3, NothingToFind
      <3> QED  BY <2>1, <3>1, <3>2, <3>3 DEF Scanning
    <2>5. \A c \in freeSince'[t] : fat[c] = FREE
      BY <1>1, <2>1 DEF FreeNow
    <2> QED  BY <1>1, <2>1, <2>2, <2>3, <2>4, <2>5, LookStep
  <1>4. CASE Probe(t) \/ Scan(t)
    <2>1. /\ UNCHANGED <<mine, lost, head, tail, next, from, report>>
          /\ pc[t] \in {"probe", "scan"}
      BY <1>4 DEF Probe, Scan, fileVars
    <2>2. PICK w \in Words : /\ ReadFat(at[t], w)
                             /\ w = FREE => pc' = [pc EXCEPT ![t] = "reserve"]
                             /\ \/ pc' = [pc EXCEPT ![t] = "reserve"]
                                \/ pc' = [pc EXCEPT ![t] = "scan"]
                                \/ pc[t] = "scan" /\ pc' = pc
      <3>1. CASE Probe(t)
        BY <3>1 DEF Probe, Goto
      <3>2. CASE Scan(t)
        BY <3>2, WordAssumption, ClusterWords DEF Scan, Goto
      <3> QED  BY <1>4, <3>1, <3>2
    <2>3. \A u \in Threads \ {t} : pc'[u] = pc[u] /\ at'[u] = at[u]
      BY <1>1, <1>4, <2>2 DEF Probe, Scan, TypeOK
    <2>4. /\ fat' = fat /\ freeSince' = freeSince
          /\ w = (IF at[t] \in Clusters THEN fat[at[t]] ELSE BAD)
          /\ world.map = "loaded" => occupied' = occupied
      BY <1>1, <2>2, SureRead DEF WholeInv
    <2>5. pc'[t] \in {"reserve", "scan"} /\ (w = FREE => pc'[t] = "reserve")
      BY <1>1, <2>2 DEF TypeOK
    <2>6. Shape(t)'
      BY <1>1, <2>1, <2>4, <2>5, SearchShape
    <2>7. ASSUME world.map = "loaded", pc'[t] = "scan" \/ report'[t] = "full"
          PROVE  \A c \in freeSince'[t] : c < from'[t]
      <3>1. Probing /\ Scanning
        BY <2>7 DEF WholeInv
      <3>2. pc[t] = "scan" \/ report[t] = "full"
        BY <2>1, <2>4, <2>5, <2>7, <3>1 DEF Probing
      <3> QED  BY <2>1, <2>4, <3>1, <3>2 DEF Scanning
    <2>8. \A c \in freeSince'[t] : fat[c] = FREE
      BY <1>1, <2>4 DEF FreeNow
    <2> QED  BY <1>1, <2>1, <2>3, <2>4, <2>5, <2>6, <2>7, <2>8, LookStep
  <1>5. CASE ScanOver(t)
    <2>1. /\ UNCHANGED <<fat, occupied, freeSince, mine, lost, head, tail, from>>
          /\ pc[t] = "scan" /\ pc' = [pc EXCEPT ![t] = "idle"]
          /\ \A u \in Threads \ {t} : /\ at'[u] = at[u] /\ next'[u] = next[u]
                                      /\ report'[u] = report[u]
      BY <1>1, <1>5 DEF ScanOver, Return, Goto, tableVars, fileVars, TypeOK
    <2>2. pc'[t] = "idle" /\ \A u \in Threads \ {t} : pc'[u] = pc[u]
      BY <1>1, <2>1 DEF TypeOK
    <2>3. Shape(t)'
      BY <1>1, <2>1, <2>2, SearchShape
    <2>4. world.map = "loaded" => \A c \in freeSince'[t] : c < from'[t]
      BY <2>1 DEF WholeInv, Scanning
    <2>5. \A c \in freeSince'[t] : fat[c] = FREE
      BY <1>1, <2>1 DEF FreeNow
    <2> QED  BY <1>1, <2>1, <2>2, <2>3, <2>4, <2>5, LookStep
  <1> QED  BY <1>2, <1>3, <1>4, <1>5

(* dealloc_chain: the walk starts at the head of a chain and learns the    *)
(* next cluster of it.                                                     *)
LEMMA WholeWalk ==
  ASSUME WholeInv, Faultless, world' = world, NEW t \in Threads,
         Dealloc(t) \/ ReadNext(t) \/ Status(t)
  PROVE  WholeInv'
  <1>1. ChainInv' /\ ChainInv /\ TypeOK /\ Shape(t) /\ FreeNow
    BY WalkStep DEF WholeInv, ChainInv
  <1>2. \A c \in freeSince[t] : fat[c] = FREE
    BY <1>1 DEF FreeNow
  <1>3. CASE Dealloc(t)
    <2>1. /\ UNCHANGED <<fat, occupied, freeSince, mine, lost, from, next>>
          /\ pc[t] = "idle" /\ head[t] # None
          /\ pc'[t] = "next" /\ at'[t] = head[t] /\ report'[t] = "none"
          /\ \A u \in Threads \ {t} : /\ pc'[u] = pc[u] /\ at'[u] = at[u]
                                      /\ head'[u] = head[u] /\ tail'[u] = tail[u]
                                      /\ report'[u] = report[u]
      BY <1>1, <1>3, WordAssumption DEF Dealloc, Goto, tableVars, TypeOK, Words
    <2>2. Chained(fat, mine[t], head[t], tail[t])
      BY <1>1, <2>1 DEF Shape, Walking, InChain
    <2>3. Shape(t)'
      BY <2>1, <2>2 DEF Shape, Walking, InChain
    <2> QED  BY <1>1, <1>2, <2>1, <2>3, LookStep
  <1>4. CASE ReadNext(t) \/ Status(t)
    <2>1. Walking(t) /\ at[t] \in mine[t] /\ at[t] \in Clusters /\ fat[at[t]] # FREE
      BY <1>1, <1>4 DEF ReadNext, Status, Walking, ChainInv, AtMine, OneOwner, TypeOK
    <2>2. PICK w \in Words :
            /\ ReadFat(at[t], w)
            /\ ReadNext(t) => next' = [next EXCEPT ![t] = w]
            /\ Status(t) /\ w # FREE => Goto(t, "clear") /\ UNCHANGED <<fileVars, callVars, report>>
      <3>1. CASE ReadNext(t)
        <4>1. ~Status(t)
          BY <3>1 DEF ReadNext, Status
        <4> QED  BY <3>1, <4>1 DEF ReadNext
      <3>2. CASE Status(t)
        <4>1. ~ReadNext(t)
          BY <3>2 DEF ReadNext, Status
        <4> QED  BY <3>2, <4>1 DEF Status
      <3> QED  BY <1>4, <3>1, <3>2
    <2>3. /\ fat' = fat /\ freeSince' = freeSince /\ w = fat[at[t]]
          /\ world.map = "loaded" => occupied' = occupied
      BY <1>1, <2>1, <2>2, SureRead DEF WholeInv
    <2>4. /\ UNCHANGED <<mine, lost, head, tail, at, from, report>>
          /\ \A u \in Threads \ {t} : pc'[u] = pc[u] /\ next'[u] = next[u]
          /\ pc'[t] \in {"status", "clear"} /\ next'[t] = fat[at[t]]
      <3>1. CASE ReadNext(t)
        BY <1>1, <2>2, <2>3, <3>1 DEF ReadNext, Goto, fileVars, TypeOK
      <3>2. CASE Status(t)
        <4>1. Goto(t, "clear") /\ UNCHANGED <<fileVars, callVars, report>>
          BY <2>1, <2>2, <2>3, <3>2
        <4>2. next[t] = fat[at[t]]
          BY <1>1, <3>2 DEF Shape, Status
        <4> QED  BY <1>1, <4>1, <4>2 DEF Goto, fileVars, callVars, TypeOK
      <3> QED  BY <1>4, <3>1, <3>2
    <2>5. Shape(t)'
      <3>1. Walking(t)' /\ pc'[t] # "link"
        BY <2>4 DEF Walking
      <3>2. PICK z : Chained(fat, mine[t], at[t], z)
        BY <1>1, <2>1 DEF Shape
      <3> QED  BY <2>3, <2>4, <3>1, <3>2 DEF Shape
    <2>6. world.map = "loaded" /\ report'[t] = "full" => \A c \in freeSince'[t] : c < from'[t]
      BY <2>3, <2>4 DEF WholeInv, Scanning
    <2> QED  BY <1>1, <1>2, <2>3, <2>4, <2>5, <2>6, LookStep
  <1> QED  BY <1>3, <1>4

\* Without faults a write of a cluster succeeds.
LEMMA WriteSucceeds ==
  ASSUME Faultless, NEW c \in Clusters, NEW w
  PROVE  ~WriteFat(c, w, FALSE)
  BY DEF WriteFat, Faultless

(* The reserved cluster is the file's, but not yet of its chain. *)
LEMMA WholeReserve ==
  ASSUME WholeInv, Faultless, world' = world, NEW t \in Threads, Reserve(t)
  PROVE  WholeInv'
  <1>1. Calm
    BY DEF Calm, Faultless
  <1>2. ChainInv' /\ ChainInv /\ TypeOK /\ Shape(t) /\ lost = {} /\ RESERVED \in Words
    BY <1>1, ReserveStep DEF WholeInv, ChainInv, NoLeak, Words
  <1>3. pc[t] = "reserve" /\ at[t] \in Clusters /\ fat[at[t]] = FREE
    BY <1>2 DEF Reserve, ChainInv, ReservesFree
  <1>4. /\ WriteFat(at[t], RESERVED, TRUE)
        /\ mine' = [mine EXCEPT ![t] = @ \cup {at[t]}]
        /\ pc' = [pc EXCEPT ![t] = "end"]
        /\ UNCHANGED <<callVars, report, head, tail, lost>>
    BY <1>3, WriteSucceeds DEF Reserve, Goto
  <1>5. /\ pc'[t] = "end" /\ mine'[t] = mine[t] \cup {at[t]} /\ at[t] \notin mine[t]
        /\ \A u \in Threads \ {t} : pc'[u] = pc[u] /\ mine'[u] = mine[u]
        /\ UNCHANGED <<from, at, next>>
    BY <1>2, <1>3, <1>4 DEF TypeOK, ChainInv, OneOwner, callVars
  <1>6. \A d \in mine[t] : fat'[d] = fat[d]
    <2>1. fat' = [fat EXCEPT ![at[t]] = RESERVED]
      BY <1>4 DEF WriteFat
    <2> QED  BY <1>2, <1>5, <2>1 DEF TypeOK
  <1>7. Shape(t)'
    <2>1. InChain(t) = mine[t] /\ InChain(t)' = mine[t] /\ ~Walking(t) /\ ~Walking(t)'
      BY <1>3, <1>5 DEF InChain, Walking
    <2>2. head[t] # None => Chained(fat', mine[t], head[t], tail[t])
      BY <1>2, <1>6, <2>1, ChainFrame DEF Shape
    <2> QED  BY <1>2, <1>4, <1>5, <2>1, <2>2 DEF Shape
  <1> QED
    BY <1>2, <1>3, <1>4, <1>5, <1>7, WriteStep

(* The reserved cluster becomes a chain, of its own or still to be linked. *)
LEMMA WholeSetEnd ==
  ASSUME WholeInv, Faultless, world' = world, NEW t \in Threads, SetEnd(t)
  PROVE  WholeInv'
  <1>1. Calm
    BY DEF Calm, Faultless
  <1>2. ChainInv' /\ ChainInv /\ TypeOK /\ Shape(t) /\ lost = {} /\ END \in Words
    BY <1>1, SetEndStep DEF WholeInv, ChainInv, NoLeak, Words
  <1>3. pc[t] = "end" /\ at[t] \in mine[t] /\ at[t] \in Clusters
    BY <1>2 DEF SetEnd, ChainInv, AtMine, TypeOK
  <1>4. /\ WriteFat(at[t], END, TRUE) /\ UNCHANGED <<mine, lost, from, last, lock>>
        /\ \/ /\ head[t] = None
              /\ head' = [head EXCEPT ![t] = at[t]] /\ tail' = [tail EXCEPT ![t] = at[t]]
              /\ Return(t, "allocated")
           \/ /\ head[t] # None /\ Goto(t, "link")
              /\ UNCHANGED <<fileVars, callVars, report>>
    BY <1>3, WriteSucceeds DEF SetEnd, Return, fileVars, callVars
  <1>5. /\ fat' = [fat EXCEPT ![at[t]] = END] /\ fat'[at[t]] = END
        /\ \A d \in mine[t] \ {at[t]} : fat'[d] = fat[d]
    BY <1>2, <1>3, <1>4 DEF WriteFat, TypeOK
  <1>6. ~Walking(t) /\ InChain(t) = mine[t] \ {at[t]}
    BY <1>3 DEF Walking, InChain
  <1>7. CASE head[t] = None
    <2>1. /\ head'[t] = at[t] /\ tail'[t] = at[t] /\ at[t] # None
          /\ pc'[t] = "idle" /\ report'[t] = "allocated"
          /\ \A u \in Threads \ {t} : /\ pc'[u] = pc[u] /\ at'[u] = at[u] /\ next'[u] = next[u]
                                      /\ head'[u] = head[u] /\ tail'[u] = tail[u]
                                      /\ report'[u] = report[u]
      BY <1>2, <1>3, <1>4, <1>7, ClusterWords DEF Return, Goto, TypeOK
    <2>2. mine[t] = {at[t]}
      BY <1>2, <1>3, <1>6, <1>7 DEF Shape
    <2>3. Chained(fat', mine[t], at[t], at[t])
      <3>1. Chained(fat', {at[t]}, at[t], at[t])
        BY <1>5, ChainOne
      <3> QED  BY <2>2, <3>1
    <2>4. Shape(t)'
      BY <1>4, <2>1, <2>3 DEF Shape, Walking, InChain
    <2> QED  BY <1>2, <1>3, <1>4, <2>1, <2>4, WriteStep
  <1>8. CASE head[t] # None
    <2>1. /\ pc'[t] = "link" /\ UNCHANGED <<head, tail, at, next, report>>
          /\ \A u \in Threads \ {t} : pc'[u] = pc[u]
      BY <1>2, <1>4, <1>8 DEF Goto, TypeOK, fileVars, callVars
    <2>2. Chained(fat', mine[t] \ {at[t]}, head[t], tail[t])
      BY <1>2, <1>5, <1>6, <1>8, ChainFrame DEF Shape
    <2>3. Shape(t)'
      BY <1>4, <1>5, <1>8, <2>1, <2>2 DEF Shape, Walking, InChain
    <2> QED  BY <1>2, <1>3, <1>4, <2>1, <2>3, WriteStep
  <1> QED  BY <1>7, <1>8

(* The append links the new END behind the old one. *)
LEMMA WholeLink ==
  ASSUME WholeInv, Faultless, world' = world, NEW t \in Threads, Link(t)
  PROVE  WholeInv'
  <1>1. Calm
    BY DEF Calm, Faultless
  <1>2. ChainInv' /\ ChainInv /\ TypeOK /\ Shape(t) /\ lost = {}
    BY <1>1, LinkStep DEF WholeInv, ChainInv, NoLeak
  <1>3. /\ pc[t] = "link" /\ at[t] \in mine[t] /\ at[t] \in Clusters /\ at[t] \in Words
        /\ head[t] # None /\ tail[t] \in mine[t] /\ tail[t] \in Clusters
    BY <1>2 DEF Link, ChainInv, AtMine, HeadMine, NoUndo, TypeOK, Words
  <1>4. /\ WriteFat(tail[t], at[t], TRUE) /\ UNCHANGED <<last, lock, head, mine, lost, from>>
        /\ tail' = [tail EXCEPT ![t] = at[t]] /\ Return(t, "allocated")
    BY <1>3, WriteSucceeds DEF Link, Return
  <1>5. /\ pc'[t] = "idle" /\ tail'[t] = at[t] /\ report'[t] = "allocated"
        /\ \A u \in Threads \ {t} : /\ pc'[u] = pc[u] /\ at'[u] = at[u] /\ next'[u] = next[u]
                                    /\ tail'[u] = tail[u] /\ report'[u] = report[u]
    BY <1>2, <1>4 DEF Return, Goto, TypeOK
  <1>6. fat' = [fat EXCEPT ![tail[t]] = at[t]]
    BY <1>4 DEF WriteFat
  <1> DEFINE S == mine[t] \ {at[t]}
  <1>7. Chained(fat, S, head[t], tail[t]) /\ fat[at[t]] = END
    BY <1>2, <1>3 DEF Shape, Walking, InChain
  <1>8. tail[t] \in S
    BY <1>7, ChainEnds
  <1>9. /\ fat'[tail[t]] = at[t] /\ fat'[at[t]] = END
        /\ \A d \in S \ {tail[t]} : fat'[d] = fat[d]
    BY <1>2, <1>3, <1>6, <1>7, <1>8 DEF TypeOK
  <1>10. Chained(fat', S \cup {at[t]}, head[t], at[t])
    <2>1. at[t] \notin S
      OBVIOUS
    <2> HIDE DEF S
    <2> QED  BY <1>7, <1>9, <2>1, ChainGrows
  <1>11. S \cup {at[t]} = mine[t]
    BY <1>3
  <1>12. Shape(t)'
    BY <1>3, <1>4, <1>5, <1>10, <1>11 DEF Shape, Walking, InChain
  <1> QED  BY <1>2, <1>3, <1>4, <1>5, <1>12, WriteStep

(* The walk frees the first cluster of its chain and goes on with the rest,*)
(* or ends when there is none.                                             *)
LEMMA WholeClear ==
  ASSUME WholeInv, Faultless, world' = world, NEW t \in Threads, Clear(t)
  PROVE  WholeInv'
  <1>1. Calm
    BY DEF Calm, Faultless
  <1>2. ChainInv' /\ ChainInv /\ TypeOK /\ Shape(t) /\ lost = {} /\ FREE \in Words
    BY <1>1, ClearStep DEF WholeInv, ChainInv, NoLeak, Words
  <1>3. /\ pc[t] = "clear" /\ at[t] \in mine[t] /\ at[t] \in Clusters
        /\ head[t] = None /\ next[t] = fat[at[t]]
        /\ mine[t] \subseteq Clusters /\ END \notin mine[t]
    BY <1>2, ClusterWords DEF Clear, ChainInv, AtMine, Walking, NoUndo, TypeOK, Shape
  <1>4. /\ WriteFat(at[t], FREE, TRUE) /\ Advance(t, mine[t] \ {at[t]})
        /\ UNCHANGED <<last, lock>>
    BY <1>3, WriteSucceeds DEF Clear
  <1>5. /\ fat' = [fat EXCEPT ![at[t]] = FREE] /\ fat'[at[t]] = FREE
        /\ \A d \in mine[t] \ {at[t]} : fat'[d] = fat[d]
    BY <1>2, <1>3, <1>4 DEF WriteFat, TypeOK
  <1>6. PICK z : Chained(fat, mine[t], at[t], z)
    BY <1>2, <1>3 DEF Shape, Walking
  <1>7. UNCHANGED <<head, tail, from>>
    BY <1>4 DEF Advance, GiveUp, Return
  <1>8. CASE fat[at[t]] = END
    <2>1. mine[t] = {at[t]}
      BY <1>3, <1>6, <1>8, ChainLast
    <2>2. /\ mine' = [mine EXCEPT ![t] = {}] /\ lost' = lost \cup (mine[t] \ {at[t]})
          /\ Return(t, "deallocated")
      BY <1>3, <1>4, <1>8 DEF Advance, GiveUp
    <2>3. /\ mine'[t] = {} /\ lost' = {} /\ pc'[t] = "idle" /\ report'[t] = "deallocated"
          /\ \A u \in Threads \ {t} : /\ pc'[u] = pc[u] /\ at'[u] = at[u] /\ next'[u] = next[u]
                                      /\ mine'[u] = mine[u] /\ report'[u] = report[u]
      BY <1>2, <2>1, <2>2 DEF Return, Goto, TypeOK
    <2>4. Shape(t)'
      BY <1>3, <1>7, <2>3 DEF Shape, Walking, InChain
    <2>5. \A d \in mine[t] \cup {at[t]} : d \in mine'[t] \/ fat'[d] = FREE
      BY <1>5, <2>1
    <2> QED  BY <1>2, <1>3, <1>4, <1>7, <2>3, <2>4, <2>5, WriteStep
  <1>9. CASE fat[at[t]] # END
    <2>1. /\ fat[at[t]] \in mine[t] \ {at[t]}
          /\ Chained(fat', mine[t] \ {at[t]}, fat[at[t]], z)
      BY <1>5, <1>6, <1>9, ChainShrinks, ZenonT(60)
    <2>2. next[t] \notin {END, BAD, FREE}
      BY <1>3, <2>1, ClusterWords
    <2>3. /\ at' = [at EXCEPT ![t] = next[t]] /\ pc' = [pc EXCEPT ![t] = "next"]
          /\ mine' = [mine EXCEPT ![t] = mine[t] \ {at[t]}]
          /\ UNCHANGED <<lost, next, report>>
      BY <1>4, <2>2 DEF Advance, Goto
    <2>4. /\ at'[t] = fat[at[t]] /\ pc'[t] = "next" /\ mine'[t] = mine[t] \ {at[t]} /\ lost' = {}
          /\ \A u \in Threads \ {t} : pc'[u] = pc[u] /\ at'[u] = at[u] /\ mine'[u] = mine[u]
      BY <1>2, <1>3, <2>3 DEF TypeOK
    <2>5. Shape(t)'
      BY <2>1, <2>4 DEF Shape, Walking
    <2>6. \A d \in mine[t] \cup {at[t]} : d \in mine'[t] \/ fat'[d] = FREE
      BY <1>5, <2>4
    <2> QED  BY <1>2, <1>3, <1>4, <1>7, <2>3, <2>4, <2>5, <2>6, WriteStep
  <1> QED  BY <1>8, <1>9

-----------------------------------------------------------------------------
(* It holds on every volume without faults. *)
LEMMA WholeHolds ==
  Spec => [](world \in Worlds /\ (Faultless => WholeInv))
  <1>1. ASSUME Init, Faultless  PROVE WholeInv
    <2>1. ChainInv /\ world \in Worlds
      BY <1>1, InitHolds DEF Init, Faultless, Calm
    <2>2. \A t \in Threads : Shape(t)
      BY <1>1 DEF Init, Faultless, Shape, Walking, InChain
    <2>3. NoLeak /\ FreeNow
      BY <1>1 DEF Init, Faultless, NoLeak, FreeNow
    <2>4. world.map = "loaded" => Mapped
      BY <1>1 DEF Init, Mapped
    <2>5. Probing /\ Scanning
      BY <1>1 DEF Init, Probing, Scanning
    <2> QED  BY <2>1, <2>2, <2>3, <2>4, <2>5 DEF WholeInv
  <1>2. ASSUME WholeInv, UNCHANGED vars  PROVE WholeInv'
    <2>1. UNCHANGED <<world, fat, occupied, last, lock, head, tail, pc, from, hinted, at,
                      skip, next, report, mine, lost, freeSince>>
      BY <1>2 DEF vars, tableVars, fileVars, callVars
    <2>2. ChainInv'
      BY <1>2, <2>1 DEF WholeInv, ChainInv, TypeOK, OneOwner, LockHeld, ReservesFree, OthersTaken,
                        NoUndo, AtMine, HeadMine, NextRead, Links, Walking
    <2>3. (\A t \in Threads : Shape(t))'
      BY <1>2, <2>1 DEF WholeInv, Shape, Walking, InChain
    <2>4. NoLeak' /\ FreeNow' /\ (world.map = "loaded" => Mapped /\ Probing /\ Scanning)'
      BY <1>2, <2>1 DEF WholeInv, NoLeak, FreeNow, Mapped, Probing, Scanning
    <2> QED  BY <1>2, <2>1, <2>2, <2>3, <2>4 DEF WholeInv
  <1>3. ASSUME WholeInv, Faultless, world' = world, NEW t \in Threads, Step(t)  PROVE WholeInv'
    <2>1. ~Undo(t) /\ ~UndoWrite(t)
      BY <1>3 DEF Undo, UndoWrite, WholeInv, ChainInv, NoUndo
    <2> QED
      BY <1>3, <2>1, WholeSearch, WholeWalk, WholeReserve, WholeSetEnd, WholeLink, WholeClear
      DEF Step, Work
  <1>4. world \in Worlds /\ (Faultless => WholeInv) /\ [Next]_vars
          => (world \in Worlds /\ (Faultless => WholeInv))'
    <2>1. ASSUME [Next]_vars  PROVE world' = world /\ Faultless' = Faultless
      BY <2>1 DEF Next, vars, Faultless
    <2> QED  BY <2>1, <1>2, <1>3, Callers DEF Next
  <1>5. Init => world \in Worlds
    BY DEF Init
  <1> QED  BY <1>1, <1>4, <1>5, PTL DEF Spec

(* On a volume without faults every file is one whole chain between calls, *)
(* and nothing has leaked when no call runs: whatever alloc_cluster,       *)
(* _add_cluster_to_chain and dealloc_chain do at the same time.            *)
THEOREM FilesAreWhole ==
  Spec => []FilesWhole
  <1>1. ASSUME WholeInv  PROVE FilesWhole
    <2>1. ASSUME NEW t \in Threads, pc[t] = "idle", head[t] # None
          PROVE  /\ Reach(head[t]) = mine[t]
                 /\ fat[tail[t]] = END /\ tail[t] \in mine[t]
      <3>1. Chained(fat, mine[t], head[t], tail[t])
        BY <1>1, <2>1 DEF WholeInv, Shape, Walking, InChain
      <3>2. mine[t] \in SUBSET Clusters
        BY <1>1 DEF WholeInv, ChainInv, TypeOK
      <3> QED  BY <3>1, <3>2, ReachIsChain, ChainEnds
    <2>2. {c \in Clusters : fat[c] # FREE} = BadAtFirst \cup (UNION {mine[t] : t \in Threads})
      <3>1. ASSUME NEW c \in Clusters, fat[c] # FREE
            PROVE  c \in BadAtFirst \/ \E t \in Threads : c \in mine[t]
        BY <1>1, <3>1 DEF WholeInv, NoLeak
      <3>2. ASSUME NEW c \in BadAtFirst  PROVE c \in Clusters /\ fat[c] # FREE
        BY <1>1, ShapeAssumption, WordAssumption DEF WholeInv, ChainInv, OthersTaken
      <3>3. ASSUME NEW t \in Threads, NEW c \in mine[t]  PROVE c \in Clusters /\ fat[c] # FREE
        BY <1>1 DEF WholeInv, ChainInv, TypeOK, OneOwner
      <3> QED  BY <3>1, <3>2, <3>3
    <2> QED  BY <2>1, <2>2 DEF FilesWhole
  <1>2. world \in Worlds /\ (Faultless => WholeInv) => FilesWhole
    BY <1>1 DEF FilesWhole
  <1> QED  BY <1>2, WholeHolds, PTL

(* With a loaded bitmap alloc_cluster refuses only when no cluster from    *)
(* its offset on has been FREE throughout the call, although its linear    *)
(* scan skips clusters: it never comes to scan past a FREE one.            *)
THEOREM NoFreeIsMissed ==
  Spec => []NoMissedFree
  <1>1. world \in Worlds /\ (Faultless => WholeInv) => NoMissedFree
    BY DEF WholeInv, Scanning, NoMissedFree
  <1> QED  BY <1>1, WholeHolds, PTL

(* dealloc_chain says 1 only when it has freed the whole chain.            *)
THEOREM DeallocIsWhole ==
  Spec => DeallocWhole
  <1>1. /\ world \in Worlds /\ (Faultless => WholeInv)
        /\ (world \in Worlds /\ (Faultless => WholeInv))' /\ [Next]_vars
        => [Faultless => \A t \in Threads : pc[t] # "idle" /\ report'[t] = "deallocated"
                                              => lost' = lost]_vars
    <2>1. ASSUME [Next]_vars  PROVE Faultless' = Faultless
      BY <2>1 DEF Next, vars, Faultless
    <2>2. WholeInv => lost = {}
      BY DEF WholeInv, NoLeak
    <2>3. WholeInv' => lost' = {}
      BY DEF WholeInv, NoLeak
    <2> QED  BY <2>1, <2>2, <2>3
  <1> QED  BY <1>1, WholeHolds, PTL DEF Spec, DeallocWhole
=============================================================================
