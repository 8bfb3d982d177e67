-------------------------- MODULE ThreadLockProofs --------------------------
(***************************************************************************)
(* The lock of threading.c excludes, for any number of threads, readers    *)
(* and owner ids: proofs for ThreadLock.                                   *)
(*                                                                         *)
(* The inductive invariant adds to WordExact what a thread knows between   *)
(* its load and its swap: the word it loaded was fit for the swap.  If the *)
(* word is still the same, WordExact turns that into a fact about the      *)
(* other threads, and the swap preserves WordExact in turn.                *)
(***************************************************************************)
EXTENDS ThreadLock, FiniteSetTheorems, TLAPS

(* What thread t holds while it is inside a call, and what it knows of the *)
(* word it loaded.                                                         *)
Knows(t) ==
  /\ pc[t] \in {"require_read", "require_write", "read_cas", "write_cas"}
       => held[t] = "none"
  /\ pc[t] \in {"release_read", "unread_cas"} => held[t] = "read"
  /\ pc[t] \in {"release_write", "unwrite_cas"}
       => \/ held[t] = "write"
          \/ ~Disciplined /\ held[t] = "none"
  /\ pc[t] = "read_cas"    => ~old_val[t].write /\ old_val[t].readers < MAX_READERS
  /\ pc[t] = "write_cas"   => ~old_val[t].write /\ old_val[t].readers = 0
  /\ pc[t] = "unread_cas"  => ~old_val[t].write /\ old_val[t].readers > 0
  /\ pc[t] = "unwrite_cas" => old_val[t].write /\ old_val[t].owner = Owner(t)

(* The inductive invariant. *)
LockInv ==
  /\ TypeOK
  /\ WordExact
  /\ lock.write => lock.readers = 0
  /\ \A t, u \in Writers : t = u
  /\ \A t \in Threads : Knows(t)

-----------------------------------------------------------------------------
(* Masking a field of the word is the identity for values that fit it. *)
LEMMA SmallMod ==
  ASSUME NEW m \in Nat \ {0}, NEW n \in 0 .. m - 1
  PROVE  n % m = n
  OBVIOUS

LEMMA ModBound ==
  ASSUME NEW m \in Nat \ {0}, NEW n \in Nat
  PROVE  n % m \in 0 .. m - 1
  OBVIOUS

(* LOCK_PACK yields a word, with the fields it was given if they fit. *)
LEMMA PackedReaders ==
  ASSUME NEW r \in 0 .. READERS - 1
  PROVE  LET word == LOCK_PACK(r, FALSE, NO_OWNER)
         IN  word \in Words /\ word.readers = r /\ word.write = FALSE
  <1>1. r % READERS = r /\ NO_OWNER % OWNERS \in 0 .. OWNERS - 1
    BY SmallMod, ModBound, WordAssumption
  <1> QED  BY <1>1 DEF LOCK_PACK, Words

LEMMA PackedWriter ==
  ASSUME NEW o \in 0 .. OWNERS - 1
  PROVE  LET word == LOCK_PACK(0, TRUE, o)
         IN  word \in Words /\ word.readers = 0 /\ word.write = TRUE /\ word.owner = o
  <1>1. 0 % READERS = 0 /\ 0 \in 0 .. READERS - 1 /\ o % OWNERS = o
    BY SmallMod, WordAssumption
  <1> QED  BY <1>1 DEF LOCK_PACK, Words

(* The id a thread passes fits the owner field. *)
LEMMA OwnerFits ==
  ASSUME NEW t \in Threads
  PROVE  Owner(t) \in 0 .. OWNERS - 1
  BY ModBound, ThreadAssumption, WordAssumption DEF Owner

LEMMA FreeWord ==
  /\ NULL_LOCK \in Words
  /\ NULL_LOCK.readers = 0 /\ NULL_LOCK.write = FALSE
  <1>1. 0 \in 0 .. READERS - 1
    BY WordAssumption
  <1> QED  BY <1>1, PackedReaders DEF NULL_LOCK

(* How the number of readers moves when one thread changes what it holds. *)
LEMMA ReaderCount ==
  ASSUME TypeOK, NEW t \in Threads, NEW h \in {"none", "read", "write"},
         held' = [held EXCEPT ![t] = h]
  PROVE  /\ Cardinality(Readers) \in Nat
         /\ h = "read" /\ held[t] # "read" => Cardinality(Readers') = Cardinality(Readers) + 1
         /\ h # "read" /\ held[t] = "read" => Cardinality(Readers') = Cardinality(Readers) - 1
         /\ h # "read" /\ held[t] # "read" => Cardinality(Readers') = Cardinality(Readers)
  <1>1. IsFiniteSet(Readers)
    BY FS_Subset, ThreadAssumption DEF Readers
  <1>2. Cardinality(Readers) \in Nat
    BY <1>1, FS_CardinalityType
  <1>3. CASE h = "read" /\ held[t] # "read"
    <2>1. Readers' = Readers \cup {t} /\ t \notin Readers
      BY <1>3 DEF Readers, TypeOK
    <2> QED  BY <2>1, <1>1, <1>2, <1>3, FS_AddElement
  <1>4. CASE h # "read" /\ held[t] = "read"
    <2>1. Readers' = Readers \ {t} /\ t \in Readers
      BY <1>4 DEF Readers, TypeOK
    <2> QED  BY <2>1, <1>1, <1>2, <1>4, FS_RemoveElement
  <1>5. CASE h # "read" /\ held[t] # "read"
    <2>1. Readers' = Readers
      BY <1>5 DEF Readers, TypeOK
    <2> QED  BY <2>1, <1>2, <1>5
  <1> QED  BY <1>2, <1>3, <1>4, <1>5

(* The steps that leave the word and the holders alone keep what is said   *)
(* about them; only the thread that moves has to be looked at.             *)
LEMMA QuietStep ==
  ASSUME LockInv, NEW t \in Threads, UNCHANGED <<lock, held>>, TypeOK',
         \A u \in Threads \ {t} : pc'[u] = pc[u] /\ old_val'[u] = old_val[u],
         Knows(t)'
  PROVE  LockInv'
  <1>1. Readers' = Readers /\ Writers' = Writers
    BY DEF Readers, Writers
  <1>2. WordExact' /\ (lock.write => lock.readers = 0)'
    BY <1>1 DEF LockInv, WordExact, Owner
  <1>3. (\A u, v \in Writers : u = v)'
    BY <1>1 DEF LockInv
  <1>4. \A u \in Threads : Knows(u)'
    BY DEF LockInv, Knows, Owner
  <1> QED  BY <1>2, <1>3, <1>4 DEF LockInv

(* A swap that fails only sends its thread back to the loop. *)
LEMMA FailedSwap ==
  ASSUME LockInv, NEW t \in Threads, NEW again,
         \/ pc[t] = "read_cas"    /\ again = "require_read"
         \/ pc[t] = "write_cas"   /\ again = "require_write"
         \/ pc[t] = "unread_cas"  /\ again = "release_read"
         \/ pc[t] = "unwrite_cas" /\ again = "release_write",
         pc' = [pc EXCEPT ![t] = again], UNCHANGED <<lock, held, delay, old_val>>
  PROVE  LockInv'
  <1>1. TypeOK'
    BY DEF LockInv, TypeOK, Requires, Releases, Swaps
  <1>2. \A u \in Threads \ {t} : pc'[u] = pc[u] /\ old_val'[u] = old_val[u]
    BY DEF LockInv, TypeOK
  <1>3. Knows(t)'
    BY DEF LockInv, TypeOK, Knows
  <1> QED  BY <1>1, <1>2, <1>3, QuietStep

(* After a successful swap its thread is idle, and the others know what    *)
(* they knew: they know it of the word they loaded, not of the lock.       *)
LEMMA SwapKnows ==
  ASSUME LockInv, NEW t \in Threads, NEW h \in {"none", "read", "write"},
         held' = [held EXCEPT ![t] = h], Return(t)
  PROVE  \A u \in Threads : Knows(u)'
  <1> TAKE u \in Threads
  <1>1. CASE u = t
    BY <1>1 DEF LockInv, TypeOK, Knows, Return
  <1>2. CASE u # t
    <2>1. pc'[u] = pc[u] /\ old_val'[u] = old_val[u] /\ held'[u] = held[u]
      BY <1>2 DEF LockInv, TypeOK, Return
    <2> QED  BY <2>1 DEF LockInv, Knows, Owner
  <1> QED  BY <1>1, <1>2

LEMMA SwapType ==
  ASSUME LockInv, NEW t \in Threads, NEW h \in {"none", "read", "write"},
         held' = [held EXCEPT ![t] = h], Return(t), lock' \in Words
  PROVE  TypeOK'
  BY FreeWord DEF LockInv, TypeOK, Return

-----------------------------------------------------------------------------
(* The four successful swaps. *)
LEMMA ReadSwap ==
  ASSUME LockInv, NEW t \in Threads, pc[t] = "read_cas", lock = old_val[t],
         lock' \in Words, lock'.readers = lock.readers + 1, lock'.write = FALSE,
         held' = [held EXCEPT ![t] = "read"], Return(t)
  PROVE  LockInv'
  <1>1. /\ held[t] = "none" /\ ~lock.write /\ lock.readers < MAX_READERS
        /\ lock.readers \in Nat /\ Writers = {} /\ lock.readers = Cardinality(Readers)
    BY DEF LockInv, Knows, WordExact, TypeOK, Words
  <1>2. Writers' = {}
    BY <1>1 DEF LockInv, TypeOK, Writers
  <1>3. Cardinality(Readers') = lock.readers + 1
    <2>1. TypeOK /\ "read" \in {"none", "read", "write"}
      BY DEF LockInv
    <2> QED  BY <1>1, <2>1, ReaderCount
  <1>4. TypeOK' /\ \A u \in Threads : Knows(u)'
    <2>1. TypeOK'
      BY SwapType
    <2>2. \A u \in Threads : Knows(u)'
      BY SwapKnows
    <2> QED  BY <2>1, <2>2
  <1>5. WordExact'
    <2>1. (lock.write <=> Writers # {})'
      BY <1>2
    <2>2. (lock.readers = Cardinality(Readers) /\ lock.readers <= MAX_READERS)'
      BY <1>1, <1>3, WordAssumption
    <2>3. (\A u \in Writers : lock.owner = Owner(u))'
      BY <1>2
    <2> QED  BY <1>4, <2>1, <2>2, <2>3 DEF WordExact
  <1> QED  BY <1>2, <1>4, <1>5 DEF LockInv

LEMMA WriteSwap ==
  ASSUME LockInv, NEW t \in Threads, pc[t] = "write_cas", lock = old_val[t],
         lock' \in Words, lock'.readers = 0, lock'.write = TRUE, lock'.owner = Owner(t),
         held' = [held EXCEPT ![t] = "write"], Return(t)
  PROVE  LockInv'
  <1>1. /\ held[t] = "none" /\ ~lock.write /\ lock.readers = 0
        /\ Writers = {} /\ Cardinality(Readers) = 0
    BY DEF LockInv, Knows, WordExact
  <1>2. Writers' = {t}
    BY <1>1 DEF LockInv, TypeOK, Writers
  <1>3. Cardinality(Readers') = 0
    <2>1. TypeOK /\ "write" \in {"none", "read", "write"}
      BY DEF LockInv
    <2> QED  BY <1>1, <2>1, ReaderCount
  <1>4. TypeOK' /\ \A u \in Threads : Knows(u)'
    <2>1. TypeOK'
      BY SwapType
    <2>2. \A u \in Threads : Knows(u)'
      BY SwapKnows
    <2> QED  BY <2>1, <2>2
  <1>5. WordExact'
    <2>1. (lock.write <=> Writers # {})'
      BY <1>2
    <2>2. (lock.readers = Cardinality(Readers) /\ lock.readers <= MAX_READERS)'
      BY <1>3, WordAssumption
    <2>3. (\A u \in Writers : lock.owner = Owner(u))'
      BY <1>2 DEF Owner
    <2> QED  BY <1>4, <2>1, <2>2, <2>3 DEF WordExact
  <1> QED  BY <1>2, <1>4, <1>5 DEF LockInv

LEMMA UnreadSwap ==
  ASSUME LockInv, NEW t \in Threads, pc[t] = "unread_cas", lock = old_val[t],
         lock' \in Words, lock'.readers = lock.readers - 1, lock'.write = FALSE,
         held' = [held EXCEPT ![t] = "none"], Return(t)
  PROVE  LockInv'
  <1>1. /\ held[t] = "read" /\ ~lock.write /\ lock.readers > 0
        /\ lock.readers \in 0 .. READERS - 1 /\ lock.readers <= MAX_READERS
        /\ Writers = {} /\ lock.readers = Cardinality(Readers)
    BY DEF LockInv, Knows, WordExact, TypeOK, Words
  <1>2. Writers' = {}
    BY <1>1 DEF LockInv, TypeOK, Writers
  <1>3. Cardinality(Readers') = lock.readers - 1
    <2>1. TypeOK /\ "none" \in {"none", "read", "write"}
      BY DEF LockInv
    <2> QED  BY <1>1, <2>1, ReaderCount
  <1>4. TypeOK' /\ \A u \in Threads : Knows(u)'
    <2>1. TypeOK'
      BY SwapType
    <2>2. \A u \in Threads : Knows(u)'
      BY SwapKnows
    <2> QED  BY <2>1, <2>2
  <1>5. WordExact'
    <2>1. (lock.write <=> Writers # {})'
      BY <1>2
    <2>2. (lock.readers = Cardinality(Readers) /\ lock.readers <= MAX_READERS)'
      BY <1>1, <1>3, WordAssumption
    <2>3. (\A u \in Writers : lock.owner = Owner(u))'
      BY <1>2
    <2> QED  BY <1>4, <2>1, <2>2, <2>3 DEF WordExact
  <1> QED  BY <1>2, <1>4, <1>5 DEF LockInv

(* Here the assumption on the callers is needed: the word shows the id of  *)
(* the writer, and the one who releases it must be that writer.            *)
LEMMA UnwriteSwap ==
  ASSUME Disciplined \/ DistinctOwners,
         LockInv, NEW t \in Threads, pc[t] = "unwrite_cas", lock = old_val[t],
         lock' = NULL_LOCK, held' = [held EXCEPT ![t] = "none"], Return(t)
  PROVE  LockInv' /\ held[t] = "write"
  <1>1. /\ lock.write /\ lock.owner = Owner(t) /\ lock.readers = 0
        /\ Writers # {} /\ Cardinality(Readers) = 0
    BY DEF LockInv, Knows, WordExact
  <1>2. held[t] = "write"
    <2>1. PICK u \in Threads : held[u] = "write"
      BY <1>1 DEF Writers
    <2>2. Owner(u) = Owner(t)
      BY <1>1, <2>1 DEF LockInv, WordExact, Writers
    <2> QED  BY <2>1, <2>2 DEF LockInv, Knows, DistinctOwners
  <1>3. Writers' = {}
    BY <1>2 DEF LockInv, TypeOK, Writers
  <1>4. Cardinality(Readers') = 0
    <2>1. TypeOK /\ "none" \in {"none", "read", "write"}
      BY DEF LockInv
    <2> QED  BY <1>1, <1>2, <2>1, ReaderCount
  <1>5. TypeOK' /\ \A u \in Threads : Knows(u)'
    BY FreeWord, SwapType, SwapKnows
  <1> QED  BY <1>2, <1>3, <1>4, <1>5, FreeWord, WordAssumption DEF LockInv, WordExact

-----------------------------------------------------------------------------
(* What a successful swap stores, in terms of the word it replaces. *)
LEMMA ReadWord ==
  ASSUME LockInv, NEW t \in Threads, pc[t] = "read_cas", lock = old_val[t]
  PROVE  LET word == LOCK_PACK(old_val[t].readers + 1, FALSE, NO_OWNER)
         IN  word \in Words /\ word.readers = lock.readers + 1 /\ word.write = FALSE
  <1>1. lock.readers + 1 \in 0 .. READERS - 1
    BY WordAssumption DEF LockInv, Knows, TypeOK, Words
  <1> QED  BY <1>1, PackedReaders

LEMMA UnreadWord ==
  ASSUME LockInv, NEW t \in Threads, pc[t] = "unread_cas", lock = old_val[t],
         NEW word, word = IF old_val[t].readers = 1 THEN NULL_LOCK
                          ELSE LOCK_PACK(old_val[t].readers - 1, FALSE, NO_OWNER)
  PROVE  word \in Words /\ word.readers = lock.readers - 1 /\ word.write = FALSE
  <1>1. lock.readers - 1 \in 0 .. READERS - 1 /\ lock.readers \in Nat
    BY WordAssumption DEF LockInv, Knows, TypeOK, Words
  <1>2. CASE lock.readers = 1
    BY <1>2, FreeWord
  <1>3. CASE lock.readers # 1
    <2>1. word = LOCK_PACK(lock.readers - 1, FALSE, NO_OWNER)
      BY <1>3
    <2> QED  BY <1>1, <2>1, PackedReaders
  <1> QED  BY <1>2, <1>3

(* The steps that do not swap: the word and the holders stay. *)
LEMMA QuietSteps ==
  ASSUME LockInv, NEW t \in Threads,
         \/ Call(t) \/ GiveUp(t) \/ RequireRead(t) \/ RequireWrite(t)
         \/ ReleaseRead(t) \/ ReleaseWrite(t)
  PROVE  LockInv'
  <1>1. UNCHANGED <<lock, held>>
    BY DEF Call, GiveUp, RequireRead, RequireWrite, ReleaseRead, ReleaseWrite
  <1>2. \A u \in Threads \ {t} : pc'[u] = pc[u] /\ old_val'[u] = old_val[u]
    BY DEF Call, GiveUp, RequireRead, RequireWrite, ReleaseRead, ReleaseWrite, Return,
           Loaded, LockInv, TypeOK
  <1>3. TypeOK' /\ Knows(t)'
    <2> USE <1>1 DEF LockInv, TypeOK, Knows, Requires, Releases, Swaps
    <2>1. CASE Call(t)
      BY <2>1, TimeAssumption DEF Call
    <2>2. CASE GiveUp(t)
      BY <2>2, FreeWord DEF GiveUp, Return
    <2>3. CASE RequireRead(t)
      <3>1. lock.readers \in Nat /\ MAX_READERS \in Nat
        BY WordAssumption DEF Words
      <3> QED  BY <2>3, <3>1, FreeWord DEF RequireRead, Return, Loaded
    <2>4. CASE RequireWrite(t)
      BY <2>4 DEF RequireWrite, Loaded
    <2>5. CASE ReleaseRead(t)
      <3>1. lock.readers \in Nat
        BY WordAssumption DEF Words
      <3> QED  BY <2>5, <3>1, FreeWord DEF ReleaseRead, Return, Loaded
    <2>6. CASE ReleaseWrite(t)
      BY <2>6, FreeWord DEF ReleaseWrite, Return, Loaded, Owner
    <2> QED  BY <2>1, <2>2, <2>3, <2>4, <2>5, <2>6
  <1> QED  BY <1>1, <1>2, <1>3, QuietStep

(* What a swap does, spelled out. *)
LEMMA SwapCases ==
  ASSUME NEW t \in Threads, NEW new_val, NEW acquired, NEW again,
         CompareAndSwap(t, new_val, acquired, again)
  PROVE  \/ /\ lock = old_val[t] /\ lock' = new_val /\ Return(t)
            /\ held' = [held EXCEPT ![t] = acquired]
         \/ pc' = [pc EXCEPT ![t] = again] /\ UNCHANGED <<lock, held, delay, old_val>>
  BY DEF CompareAndSwap

LEMMA NextInv ==
  ASSUME Disciplined \/ DistinctOwners, LockInv, [Next]_vars
  PROVE  LockInv'
  <1>1. CASE UNCHANGED vars
    <2>1. Readers' = Readers /\ Writers' = Writers
      BY <1>1 DEF vars, Readers, Writers
    <2> QED  BY <1>1, <2>1 DEF vars, LockInv, TypeOK, WordExact, Knows, Owner
  <1>2. SUFFICES ASSUME NEW t \in Threads, Call(t) \/ Step(t)
                 PROVE  LockInv'
    BY <1>1 DEF Next
  <1>3. CASE ReadCas(t)
    <2> DEFINE word == LOCK_PACK(old_val[t].readers + 1, FALSE, NO_OWNER)
    <2>1. pc[t] = "read_cas" /\ CompareAndSwap(t, word, "read", "require_read")
      BY <1>3 DEF ReadCas
    <2>2. lock = old_val[t] => /\ word \in Words /\ word.write = FALSE
                              /\ word.readers = lock.readers + 1
      BY <2>1, ReadWord
    <2> HIDE DEF word
    <2>3. CASE /\ lock = old_val[t] /\ lock' = word /\ Return(t)
               /\ held' = [held EXCEPT ![t] = "read"]
      BY <2>1, <2>2, <2>3, ReadSwap
    <2>4. CASE /\ pc' = [pc EXCEPT ![t] = "require_read"]
               /\ UNCHANGED <<lock, held, delay, old_val>>
      BY <2>1, <2>4, FailedSwap
    <2> QED  BY <2>1, <2>3, <2>4, SwapCases
  <1>4. CASE WriteCas(t)
    <2> DEFINE word == LOCK_PACK(0, TRUE, Owner(t))
    <2>1. pc[t] = "write_cas" /\ CompareAndSwap(t, word, "write", "require_write")
      BY <1>4 DEF WriteCas
    <2>2. lock = old_val[t] => /\ word \in Words /\ word.write = TRUE
                              /\ word.readers = 0 /\ word.owner = Owner(t)
      BY <2>1, OwnerFits, PackedWriter
    <2> HIDE DEF word
    <2>3. CASE /\ lock = old_val[t] /\ lock' = word /\ Return(t)
               /\ held' = [held EXCEPT ![t] = "write"]
      BY <2>1, <2>2, <2>3, WriteSwap
    <2>4. CASE /\ pc' = [pc EXCEPT ![t] = "require_write"]
               /\ UNCHANGED <<lock, held, delay, old_val>>
      BY <2>1, <2>4, FailedSwap
    <2> QED  BY <2>1, <2>3, <2>4, SwapCases
  <1>5. CASE UnreadCas(t)
    <2> DEFINE word == IF old_val[t].readers = 1 THEN NULL_LOCK
                   ELSE LOCK_PACK(old_val[t].readers - 1, FALSE, NO_OWNER)
    <2>1. pc[t] = "unread_cas" /\ CompareAndSwap(t, word, "none", "release_read")
      BY <1>5 DEF UnreadCas
    <2>2. lock = old_val[t] => /\ word \in Words /\ word.write = FALSE
                              /\ word.readers = lock.readers - 1
      BY <2>1, UnreadWord
    <2> HIDE DEF word
    <2>3. CASE /\ lock = old_val[t] /\ lock' = word /\ Return(t)
               /\ held' = [held EXCEPT ![t] = "none"]
      BY <2>1, <2>2, <2>3, UnreadSwap
    <2>4. CASE /\ pc' = [pc EXCEPT ![t] = "release_read"]
               /\ UNCHANGED <<lock, held, delay, old_val>>
      BY <2>1, <2>4, FailedSwap
    <2> QED  BY <2>1, <2>3, <2>4, SwapCases
  <1>6. CASE UnwriteCas(t)
    BY <1>6, SwapCases, UnwriteSwap, FailedSwap DEF UnwriteCas
  <1> QED  BY <1>2, <1>3, <1>4, <1>5, <1>6, QuietSteps DEF Step

LEMMA InitInv == Init => LockInv
  <1> SUFFICES ASSUME Init PROVE LockInv
    OBVIOUS
  <1>1. Readers = {} /\ Writers = {}
    BY DEF Init, Readers, Writers
  <1>2. Cardinality(Readers) = 0
    BY <1>1, FS_EmptySet
  <1>3. TypeOK
    BY FreeWord DEF Init, TypeOK
  <1>4. \A t \in Threads : Knows(t)
    BY DEF Init, Knows
  <1>5. WordExact
    BY <1>1, <1>2, <1>3, FreeWord, WordAssumption DEF Init, WordExact
  <1> QED  BY <1>1, <1>3, <1>4, <1>5, FreeWord DEF Init, LockInv

(* The lock excludes: when only holders release, or when the ids that      *)
(* get_thread_num returns stay distinct in 16 bits, a writer is alone, for *)
(* any number of threads.                                                  *)
THEOREM LockIsExclusive ==
  ASSUME Disciplined \/ DistinctOwners
  PROVE  Spec => []Exclusion
  <1>1. LockInv => Exclusion
    <2> SUFFICES ASSUME LockInv, NEW t \in Threads, NEW u \in Threads,
                        held[t] = "write", held[u] # "none"
                 PROVE  t = u
      BY DEF Exclusion
    <2>1. Cardinality(Readers) = 0 /\ IsFiniteSet(Readers)
      BY FS_Subset, ThreadAssumption DEF LockInv, WordExact, Writers, Readers
    <2>2. Readers = {}
      BY <2>1, FS_EmptySet
    <2> QED  BY <2>2 DEF LockInv, TypeOK, Readers, Writers
  <1> QED  BY <1>1, InitInv, NextInv, PTL DEF Spec

(* The word never lies: its count is the number of threads that hold the   *)
(* lock for reading and does not pass MAX_READERS, its flag says whether   *)
(* there is a writer and its owner field whose id that writer has.         *)
THEOREM WordIsExact ==
  ASSUME Disciplined \/ DistinctOwners
  PROVE  Spec => []WordExact
  <1>1. LockInv => WordExact
    BY DEF LockInv
  <1> QED  BY <1>1, InitInv, NextInv, PTL DEF Spec

(* A holder that calls THR_release_read or THR_release_write is never      *)
(* refused: the call returns only with the lock given back.                *)
THEOREM ReleasesSucceed ==
  ASSUME Disciplined \/ DistinctOwners
  PROVE  Spec => ReleaseWorks
  <1>1. ASSUME LockInv, [Next]_vars, NEW t \in Threads,
               pc[t] \in Releases \cup {"unread_cas", "unwrite_cas"}, pc'[t] = "idle"
        PROVE  held'[t] = "none"
    <2>1. PICK u \in Threads : Call(u) \/ Step(u)
      BY <1>1 DEF Next, vars, Releases
    <2>2. u = t
      BY <1>1, <2>1
      DEF Call, Step, GiveUp, RequireRead, RequireWrite, ReleaseRead, ReleaseWrite, ReadCas,
          WriteCas, UnreadCas, UnwriteCas, CompareAndSwap, Return, Loaded, LockInv, TypeOK, Releases
    <2>3. CASE ReleaseRead(t)
      <3>1. held[t] = "read" /\ t \in Readers /\ IsFiniteSet(Readers)
        BY <1>1, <2>3, FS_Subset, ThreadAssumption DEF ReleaseRead, LockInv, Knows, Readers
      <3>2. lock.readers # 0
        <4>1. Cardinality(Readers) # 0
          BY <3>1, FS_EmptySet
        <4> QED  BY <1>1, <4>1 DEF LockInv, WordExact
      <3>3. ~lock.write
        BY <1>1, <3>2 DEF LockInv
      <3> QED  BY <1>1, <2>3, <3>2, <3>3 DEF ReleaseRead, Loaded, LockInv, TypeOK
    <2>4. CASE ReleaseWrite(t)
      <3>1. CASE held[t] = "none"
        BY <2>4, <3>1 DEF ReleaseWrite
      <3>2. CASE held[t] = "write"
        <4>1. t \in Writers
          BY <3>2 DEF Writers
        <4>2. lock.write /\ lock.owner = Owner(t)
          BY <1>1, <4>1 DEF LockInv, WordExact
        <4> QED  BY <1>1, <2>4, <4>2 DEF ReleaseWrite, Loaded, LockInv, TypeOK
      <3> QED  BY <1>1, <2>4, <3>1, <3>2 DEF ReleaseWrite, LockInv, Knows
    <2>5. CASE UnreadCas(t) \/ UnwriteCas(t)
      BY <1>1, <2>5 DEF UnreadCas, UnwriteCas, CompareAndSwap, Return, LockInv, TypeOK
    <2> QED
      BY <1>1, <2>1, <2>2, <2>3, <2>4, <2>5
      DEF Call, Step, GiveUp, RequireRead, RequireWrite, ReadCas, WriteCas, Releases, Requires
  <1>2. LockInv /\ [Next]_vars
          => [\A t \in Threads :
                pc[t] \in Releases \cup {"unread_cas", "unwrite_cas"} /\ pc'[t] = "idle"
                  => held'[t] = "none"]_vars
    BY <1>1
  <1> QED  BY <1>2, InitInv, NextInv, PTL DEF Spec, ReleaseWorks

-----------------------------------------------------------------------------
(* A successful swap is a step of the abstract lock. *)
LEMMA SwapRefines ==
  ASSUME Disciplined \/ DistinctOwners, LockInv, NEW t \in Threads,
         lock = old_val[t], NEW h, held' = [held EXCEPT ![t] = h],
         \/ pc[t] = "read_cas"    /\ h = "read"
         \/ pc[t] = "write_cas"   /\ h = "write"
         \/ pc[t] = "unread_cas"  /\ h = "none"
         \/ pc[t] = "unwrite_cas" /\ h = "none" /\ held[t] = "write"
  PROVE  RW!Next
  <1> USE DEF LockInv, Knows, WordExact, TypeOK
  <1>1. CASE pc[t] = "read_cas"
    <2>1. Writers = {} /\ held[t] = "none"
      BY <1>1
    <2> QED  BY <1>1, <2>1 DEF RW!Next, RW!AcquireRead, RW!Writers, Writers
  <1>2. CASE pc[t] = "write_cas"
    <2>1. Writers = {} /\ Cardinality(Readers) = 0 /\ held[t] = "none"
      BY <1>2
    <2>2. Readers = {}
      BY <2>1, FS_Subset, FS_EmptySet, ThreadAssumption DEF Readers
    <2> QED
      BY <1>2, <2>1, <2>2 DEF RW!Next, RW!AcquireWrite, RW!Readers, RW!Writers,
         Readers, Writers
  <1>3. CASE pc[t] \in {"unread_cas", "unwrite_cas"}
    BY <1>3 DEF RW!Next, RW!Release
  <1> QED  BY <1>1, <1>2, <1>3

LEMMA StepRefines ==
  ASSUME Disciplined \/ DistinctOwners, LockInv, [Next]_vars
  PROVE  [RW!Next]_held
  <1> SUFFICES ASSUME NEW t \in Threads, Call(t) \/ Step(t), held' # held
               PROVE  RW!Next
    BY DEF Next, vars
  <1>1. CASE ReadCas(t)
    BY <1>1, SwapRefines DEF ReadCas, CompareAndSwap
  <1>2. CASE WriteCas(t)
    BY <1>2, SwapRefines DEF WriteCas, CompareAndSwap
  <1>3. CASE UnreadCas(t)
    BY <1>3, SwapRefines DEF UnreadCas, CompareAndSwap
  <1>4. CASE UnwriteCas(t)
    <2>1. /\ pc[t] = "unwrite_cas" /\ lock = old_val[t] /\ lock' = NULL_LOCK /\ Return(t)
          /\ held' = [held EXCEPT ![t] = "none"]
      BY <1>4 DEF UnwriteCas, CompareAndSwap
    <2>2. held[t] = "write"
      BY <2>1, UnwriteSwap
    <2> QED  BY <2>1, <2>2, SwapRefines
  <1> QED
    BY <1>1, <1>2, <1>3, <1>4 DEF Step, Call, GiveUp, RequireRead, RequireWrite,
       ReleaseRead, ReleaseWrite

(* The word, the loads and the swaps implement the reader/writer lock the  *)
(* rest of the file system counts on: every step is a step of RWLock.      *)
THEOREM LockRefines ==
  ASSUME Disciplined \/ DistinctOwners
  PROVE  Spec => ImplementsRWLock
  <1>1. Init => RW!Init
    BY DEF Init, RW!Init
  <1> QED
    BY <1>1, InitInv, NextInv, StepRefines, PTL DEF Spec, ImplementsRWLock, RW!Spec
=============================================================================
