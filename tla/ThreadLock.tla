----------------------------- MODULE ThreadLock -----------------------------
(***************************************************************************)
(* The reader/writer spin lock of NiFAT32 (src/std/threading.c).           *)
(*                                                                         *)
(* The lock is one 32-bit word: a reader count, a write flag and the id of *)
(* the writer.  Every call loads the word, computes the next one and tries *)
(* a compare-and-swap; the load and the swap are separate steps, so that   *)
(* any step of another thread falls between them.  The require calls give  *)
(* up after REQUIRE_TIME rounds, the release calls try forever.            *)
(***************************************************************************)
EXTENDS Integers, FiniteSets

CONSTANTS
  Threads,
  ThreadNum,     (* ThreadNum[t]: what get_thread_num() returns in t       *)
  MAX_READERS,
  READERS,       (* LOCK_READERS_MASK + 1: the count is kept modulo this   *)
  OWNERS,        (* OWNER_MASK + 1: ids are kept modulo this               *)
  NO_OWNER,
  REQUIRE_TIME,
  Disciplined    (* only the holder calls THR_release_write                *)

ASSUME ThreadAssumption == /\ IsFiniteSet(Threads)
                           /\ ThreadNum \in [Threads -> Nat]
ASSUME WordAssumption   == /\ MAX_READERS \in Nat /\ READERS \in Nat \ {0}
                           /\ MAX_READERS < READERS
                           /\ OWNERS \in Nat \ {0} /\ NO_OWNER \in 0 .. OWNERS - 1
ASSUME TimeAssumption   == REQUIRE_TIME \in Nat /\ Disciplined \in BOOLEAN

VARIABLES
  lock,    (* the word                                                     *)
  pc,      (* pc[t]: the call t is in, and whether it is about to swap     *)
  old_val, (* the word t loaded                                            *)
  delay,   (* rounds t has left                                            *)
  held     (* history: what t has acquired, "none", "read" or "write"      *)

vars == <<lock, pc, old_val, delay, held>>

LOCK_PACK(readers, write, owner) ==
  [readers |-> readers % READERS, write |-> write, owner |-> owner % OWNERS]

Words == [readers : 0 .. READERS - 1, write : BOOLEAN, owner : 0 .. OWNERS - 1]

NULL_LOCK == LOCK_PACK(0, FALSE, NO_OWNER)

\* The owner_t a thread passes to the calls: 16 bits of its number.
Owner(t) == ThreadNum[t] % OWNERS

DistinctOwners == \A t, u \in Threads : Owner(t) = Owner(u) => t = u

Requires == {"require_read", "require_write"}
Releases == {"release_read", "release_write"}
Swaps    == {"read_cas", "write_cas", "unread_cas", "unwrite_cas"}

Readers == {t \in Threads : held[t] = "read"}
Writers == {t \in Threads : held[t] = "write"}

Init ==
  /\ lock = NULL_LOCK
  /\ pc = [t \in Threads |-> "idle"]
  /\ old_val = [t \in Threads |-> NULL_LOCK]
  /\ delay = [t \in Threads |-> 0]
  /\ held = [t \in Threads |-> "none"]

-----------------------------------------------------------------------------
(* A thread enters one of the four calls.  Locks are not taken twice, and  *)
(* a read lock is released by one who holds it; THR_release_write checks   *)
(* the owner itself, so without discipline anybody may call it.            *)
Call(t) ==
  /\ pc[t] = "idle"
  /\ \/ held[t] = "none"  /\ \E op \in Requires : pc' = [pc EXCEPT ![t] = op]
     \/ held[t] = "read"  /\ pc' = [pc EXCEPT ![t] = "release_read"]
     \/ held[t] = "write" /\ pc' = [pc EXCEPT ![t] = "release_write"]
     \/ ~Disciplined /\ held[t] = "none" /\ pc' = [pc EXCEPT ![t] = "release_write"]
  /\ delay' = [delay EXCEPT ![t] = REQUIRE_TIME]
  /\ UNCHANGED <<lock, old_val, held>>

\* The call returns.
Return(t) ==
  /\ pc' = [pc EXCEPT ![t] = "idle"]
  /\ delay' = [delay EXCEPT ![t] = 0]
  /\ old_val' = [old_val EXCEPT ![t] = NULL_LOCK]

\* The word was found fit: the swap is next.
Loaded(t, swap) ==
  /\ pc' = [pc EXCEPT ![t] = swap]
  /\ old_val' = [old_val EXCEPT ![t] = lock]

(* __sync_bool_compare_and_swap: on success the call returns 1, otherwise  *)
(* its loop starts over.                                                   *)
CompareAndSwap(t, new_val, acquired, again) ==
  IF lock = old_val[t]
    THEN /\ lock' = new_val
         /\ held' = [held EXCEPT ![t] = acquired]
         /\ Return(t)
    ELSE /\ pc' = [pc EXCEPT ![t] = again]
         /\ UNCHANGED <<lock, held, delay, old_val>>

GiveUp(t) ==
  /\ pc[t] \in Requires /\ delay[t] = 0
  /\ Return(t)
  /\ UNCHANGED <<lock, held>>

-----------------------------------------------------------------------------
\* Mutant: one reader too many is let in, and the count wraps.
RequireRead_OneMore(t) ==
  /\ pc[t] = "require_read" /\ delay[t] > 0
  /\ UNCHANGED <<lock, held>>
  /\ IF ~lock.write /\ lock.readers > MAX_READERS
       THEN Return(t)
       ELSE /\ delay' = [delay EXCEPT ![t] = @ - 1]
            /\ IF lock.write THEN UNCHANGED <<pc, old_val>> ELSE Loaded(t, "read_cas")

(* One round of THR_require_read up to the swap. *)
RequireRead(t) ==
  /\ pc[t] = "require_read" /\ delay[t] > 0
  /\ UNCHANGED <<lock, held>>
  /\ IF ~lock.write /\ lock.readers >= MAX_READERS
       THEN Return(t)
       ELSE /\ delay' = [delay EXCEPT ![t] = @ - 1]
            /\ IF lock.write THEN UNCHANGED <<pc, old_val>> ELSE Loaded(t, "read_cas")

\* Mutant: the word is stored without comparing.
ReadCas_Blind(t) ==
  /\ pc[t] = "read_cas"
  /\ lock' = LOCK_PACK(old_val[t].readers + 1, FALSE, NO_OWNER)
  /\ held' = [held EXCEPT ![t] = "read"]
  /\ Return(t)

ReadCas(t) ==
  /\ pc[t] = "read_cas"
  /\ CompareAndSwap(t, LOCK_PACK(old_val[t].readers + 1, FALSE, NO_OWNER),
                    "read", "require_read")

\* Mutant: only the write flag is looked at, readers are overrun.
RequireWrite_OverReaders(t) ==
  /\ pc[t] = "require_write" /\ delay[t] > 0
  /\ delay' = [delay EXCEPT ![t] = @ - 1]
  /\ IF ~lock.write THEN Loaded(t, "write_cas") ELSE UNCHANGED <<pc, old_val>>
  /\ UNCHANGED <<lock, held>>

\* Mutant: the wait for the lock has no end.
RequireWrite_Forever(t) ==
  /\ pc[t] = "require_write" /\ delay[t] > 0
  /\ IF ~lock.write /\ lock.readers = 0
       THEN Loaded(t, "write_cas") ELSE UNCHANGED <<pc, old_val>>
  /\ UNCHANGED <<lock, held, delay>>

(* One round of THR_require_write up to the swap. *)
RequireWrite(t) ==
  /\ pc[t] = "require_write" /\ delay[t] > 0
  /\ delay' = [delay EXCEPT ![t] = @ - 1]
  /\ IF ~lock.write /\ lock.readers = 0
       THEN Loaded(t, "write_cas") ELSE UNCHANGED <<pc, old_val>>
  /\ UNCHANGED <<lock, held>>

WriteCas(t) ==
  /\ pc[t] = "write_cas"
  /\ CompareAndSwap(t, LOCK_PACK(0, TRUE, Owner(t)), "write", "require_write")

(* One round of THR_release_read up to the swap. *)
ReleaseRead(t) ==
  /\ pc[t] = "release_read"
  /\ IF lock.write \/ lock.readers = 0
       THEN Return(t) ELSE Loaded(t, "unread_cas") /\ UNCHANGED delay
  /\ UNCHANGED <<lock, held>>

UnreadCas(t) ==
  /\ pc[t] = "unread_cas"
  /\ CompareAndSwap(t, IF old_val[t].readers = 1 THEN NULL_LOCK
                       ELSE LOCK_PACK(old_val[t].readers - 1, FALSE, NO_OWNER),
                    "none", "release_read")

\* Mutant: the owner is compared before it is cut to 16 bits.
ReleaseWrite_WideOwner(t) ==
  /\ pc[t] = "release_write"
  /\ IF ~lock.write \/ lock.owner # ThreadNum[t]
       THEN Return(t) ELSE Loaded(t, "unwrite_cas") /\ UNCHANGED delay
  /\ UNCHANGED <<lock, held>>

(* One round of THR_release_write up to the swap. *)
ReleaseWrite(t) ==
  /\ pc[t] = "release_write"
  /\ IF ~lock.write \/ lock.owner # Owner(t)
       THEN Return(t) ELSE Loaded(t, "unwrite_cas") /\ UNCHANGED delay
  /\ UNCHANGED <<lock, held>>

UnwriteCas(t) ==
  /\ pc[t] = "unwrite_cas"
  /\ CompareAndSwap(t, NULL_LOCK, "none", "release_write")

Step(t) ==
  \/ GiveUp(t)
  \/ RequireRead(t)  \/ ReadCas(t)
  \/ RequireWrite(t) \/ WriteCas(t)
  \/ ReleaseRead(t)  \/ UnreadCas(t)
  \/ ReleaseWrite(t) \/ UnwriteCas(t)

Next == \E t \in Threads : Call(t) \/ Step(t)

Spec == Init /\ [][Next]_vars

(* A thread inside a call is scheduled again and again; nobody is forced   *)
(* to call.                                                                *)
FairSpec == Spec /\ \A t \in Threads : WF_vars(Step(t))

-----------------------------------------------------------------------------
TypeOK ==
  /\ lock \in Words
  /\ pc \in [Threads -> {"idle"} \cup Requires \cup Releases \cup Swaps]
  /\ old_val \in [Threads -> Words]
  /\ delay \in [Threads -> Nat]
  /\ held \in [Threads -> {"none", "read", "write"}]

(* A writer is alone: while THR_require_write of one thread stands, no     *)
(* other thread holds the lock for reading or for writing.                 *)
Exclusion ==
  \A t, u \in Threads : held[t] = "write" /\ held[u] # "none" => t = u

(* Types, and the word tells the truth: its count is the number of         *)
(* readers, without wrap-around, its flag says whether there is a writer   *)
(* and its owner who.                                                      *)
WordExact ==
  /\ TypeOK
  /\ lock.readers = Cardinality(Readers)
  /\ lock.readers <= MAX_READERS
  /\ lock.write <=> Writers # {}
  /\ \A t \in Writers : lock.owner = Owner(t)

(* The release of a holder succeeds; the callers ignore what it returns,   *)
(* so a refusal would leave the lock taken for good.                       *)
ReleaseWorks ==
  [][\A t \in Threads :
       pc[t] \in Releases \cup {"unread_cas", "unwrite_cas"} /\ pc'[t] = "idle"
         => held'[t] = "none"]_vars

(* Nobody waits forever for a lock: the require calls return, whatever the *)
(* others do with it, and so does the release of a writer.                 *)
CallsReturn ==
  \A t \in Threads : pc[t] \in Requires \cup {"release_write"} ~> pc[t] = "idle"

RW == INSTANCE RWLock

(* The word and the swaps implement a reader/writer lock. *)
ImplementsRWLock == RW!Spec
=============================================================================
