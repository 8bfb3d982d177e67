------------------------------- MODULE Mount --------------------------------
(***************************************************************************)
(* Mounting (NIFAT32_init of nifat32.c): the copies of the boot sector,    *)
(* their choice, their repair, and the ring of errors, which is loaded     *)
(* before the geometry is known that says where its sectors are.           *)
(*                                                                         *)
(* A boot sector stands on two encoded bytes: the geometry and a checksum, *)
(* which differs for different geometries (murmur3 does but for chance).   *)
(* An attempt holds the API lock; between two attempts other calls may     *)
(* run.  What init does after the boot sector (cache, table of handles,    *)
(* journal) is modelled by FatTable, Content and Directory.                *)
(***************************************************************************)
EXTENDS Hamming, ErrorRing

CONSTANTS
  Boots,       (* params->bs_count                                         *)
  Format,      (* the geometry the volume was formatted with               *)
  Worlds,      (* the volumes and drivers there are, see World             *)
  Astray,      (* what file data may look like, read as entry 0            *)
  Bits         (* bound: bits of a boot word that are upset                *)

(* errors: ec is not 0; far: the sectors computed for a volume of no       *)
(* sectors exist; empty: the driver takes transfers of no bytes; blank:    *)
(* copies the formatter left out (--b-bsbc).  Bounds: hits, the upsets of  *)
(* boot sectors; faults, the operations that meet failing transfers and    *)
(* the entries of the ring that are damaged.                               *)
World == [errors : BOOLEAN, far : BOOLEAN, empty : BOOLEAN,
          blank : 0 .. Boots, hits : Nat, faults : Nat]

Unknown  == {-1}     (* _fs_data before the first mount                    *)
BootCopy == [data : SUBSET (0 .. 14), sum : SUBSET (0 .. 14)]

ASSUME MountAssumption ==
  /\ Boots \in Nat \ {0} /\ Format \subseteq 0 .. 7 /\ Bits \subseteq 0 .. 14
  /\ Worlds \subseteq World /\ Astray \subseteq Info

VARIABLES
  world,   (* never changes                                                *)
  boot,    (* on disk: the copies of the boot sector                       *)
  ring,    (* on disk: the copies of the error entries                     *)
  astray,  (* on disk: entry 0 where it is looked for without a geometry   *)
  fs,      (* _fs_data                                                     *)
  errs,    (* _errors                                                      *)
  bsnum,   (* params->bs_num                                               *)
  pc,      (* where NIFAT32_init is                                        *)
  got,     (* the last answer of NIFAT32_get_last_error                    *)
  intact,  (* history: the ring has been in order since it was loaded      *)
  upsets, faults

disk == <<boot, ring, astray>>
ram  == <<fs, errs, bsnum>>
mountVars == <<world, disk, ram, pc, got, intact, upsets, faults>>

Sum(b)      == 0 .. 7 \ b
BootOf(b)   == [data |-> SetByte(b), sum |-> SetByte(Sum(b))]
Blank       == [data |-> {}, sum |-> {}]
Valid(c)    == GetByte(c.sum) = Sum(GetByte(c.data))
Known       == fs # Unknown
Copies      == IF world.errors THEN 1 .. ErrorCopies ELSE {}

MountInit ==
  /\ world \in Worlds
  /\ boot = [i \in 0 .. Boots - 1 |-> IF i < world.blank THEN Blank ELSE BootOf(Format)]
  /\ ring = [c \in Copies |-> [i \in 0 .. Stored - 1 |-> IF i = 0 THEN <<0, 0>> ELSE NO_ERROR]]
  /\ astray \in Astray
  /\ fs = Unknown /\ errs = Static /\ bsnum = 0
  /\ pc = "idle" /\ got = NOTHING /\ intact = FALSE
  /\ upsets = 0 /\ faults = 0
-----------------------------------------------------------------------------
\* The sets of copies whose transfer fails, as far as the bound goes.  Each is
\* bound on its own below: TLC finds no F, G \in SUBSET {}, but finds one F.
Failing     == {F \in SUBSET Copies : F = {} \/ faults < world.faults}
Tally(S)    == faults' = IF S = {} THEN faults ELSE faults + 1

\* For an entry behind the end of its sector nothing is transferred.
FailingAt(i) == {F \in Failing : i > Stored => F = {}}

(* errors_register_error: F and G are the copies whose writes of the code  *)
(* and of entry 0 fail.  Without a geometry both end up astray.            *)
Register(code, F, G) ==
  LET ok == Written(ring, errs.current, F, world.empty)
      E  == IF ok THEN Registered(errs, Known) ELSE errs
      A  == Write(ring, errs.current, code, F)
  IN /\ errs' = E
     /\ ring' = IF ~Known THEN ring
                ELSE IF ok THEN Write(A, 0, Packed(E), G) ELSE A
     /\ astray' = IF Known \/ ~world.errors THEN astray ELSE Packed(E)

(* A call of the library fails and registers why. *)
Report ==
  /\ pc \in {"idle", "begin"} /\ Known
  /\ \E code \in Codes, F \in Failing, G \in Failing :
       (F = {} \/ G = {}) /\ Register(code, F, G) /\ Tally(F \cup G)
  /\ UNCHANGED <<world, boot, fs, bsnum, pc, got, intact, upsets>>

\* NIFAT32_get_last_error: errors_last_error finds none.
NoErrors ==
  /\ pc \in {"idle", "begin"} /\ Known
  /\ errs.first = errs.last
  /\ got' = NOTHING
  /\ UNCHANGED <<world, disk, ram, pc, intact, upsets, faults>>

\* It cannot read the entry of any copy.
Unreadable ==
  /\ pc \in {"idle", "begin"} /\ Known
  /\ errs.first # errs.last
  /\ \/ Refused(errs.first, world.empty) /\ UNCHANGED faults
     \/ Copies \in FailingAt(errs.first) /\ Tally(Copies)
  /\ got' = NOTHING
  /\ UNCHANGED <<world, disk, ram, pc, intact, upsets>>

(* It is answered, from the copies but those in U.  The word is written    *)
(* back where copies dissented, but not into those in F, then the indices  *)
(* without those in G.                                                     *)
GetLastError ==
  /\ pc \in {"idle", "begin"} /\ Known
  /\ errs.first # errs.last
  /\ ~Refused(errs.first, world.empty)
  /\ \E U \in FailingAt(errs.first), F \in FailingAt(errs.first), G \in Failing :
       LET v == Read(ring, errs.first, U, F)
           E == [errs EXCEPT !.first = NextIndex(@, TRUE)]
       IN /\ U # Copies /\ (v.heals \/ F = {})
          /\ got' = v.code /\ errs' = E
          /\ ring' = Write(v.ring, 0, Packed(E), G)
          /\ Tally(U \cup F \cup G)
  /\ UNCHANGED <<world, boot, astray, fs, bsnum, pc, intact, upsets>>
-----------------------------------------------------------------------------
\* NIFAT32_init is called, with new parameters or those of the last call.
Begin ==
  /\ pc = "idle"
  /\ pc' = "begin" /\ bsnum' \in {0, bsnum}
  /\ UNCHANGED <<world, disk, fs, errs, got, intact, upsets, faults>>

\* "No reserved sectors!"
NoneLeft ==
  /\ pc = "begin" /\ bsnum >= Boots
  /\ pc' = "idle"
  /\ UNCHANGED <<world, disk, ram, got, intact, upsets, faults>>

\* errors_setup cannot read entry 0 of any copy.
SetupFails ==
  /\ pc = "begin" /\ bsnum < Boots /\ world.errors
  /\ IF Known \/ world.far THEN faults < world.faults /\ faults' = faults + 1
                           ELSE UNCHANGED faults
  /\ pc' = "idle"
  /\ UNCHANGED <<world, disk, ram, got, intact, upsets>>

\* Before the first mount entry 0 is read astray, where no copy fails alone.
SetupFailing == IF Known THEN Failing ELSE {{}}

(* errors_setup, when there are errors: entry 0 is read from the copies    *)
(* but those in U, and written back, but not into those in F.  A damaged   *)
(* word may say anything.                                                  *)
Setup ==
  /\ pc = "begin" /\ bsnum < Boots
  /\ world.errors => Known \/ world.far
  /\ \E U \in SetupFailing, F \in SetupFailing :
       LET v == IF Known /\ world.errors
                THEN Read(ring, 0, U, F)
                ELSE [code |-> astray, heals |-> FALSE, ring |-> ring]
       IN /\ (world.errors => U # Copies) /\ (v.heals \/ F = {})
          /\ \E w \in IF v.code = DAMAGED THEN Info ELSE {v.code} :
               errs' = IF world.errors THEN Loaded(w) ELSE errs
          /\ ring' = v.ring
          /\ Tally(U \cup F)
  /\ intact' = (world.errors /\ errs'.first = errs'.last /\ errs'.last < Ring)
  /\ pc' = "read"
  /\ UNCHANGED <<world, boot, astray, fs, bsnum, got, upsets>>

\* DSK_read_sector of the boot sector fails.
ReadFails ==
  /\ pc = "read" /\ faults < world.faults /\ faults' = faults + 1
  /\ \E code \in Codes, F \in SUBSET Copies, G \in SUBSET Copies :
       (F = {} \/ G = {}) /\ Register(code, F, G)
  /\ pc' = "idle"
  /\ UNCHANGED <<world, boot, fs, bsnum, got, intact, upsets>>

(* The checksum is wrong: the next copy is tried, by a call of init that   *)
(* takes the API lock anew.                                                *)
Reject ==
  /\ pc = "read" /\ ~Valid(boot[bsnum])
  /\ bsnum' = bsnum + 1
  /\ \E code \in Codes, F \in Failing, G \in Failing :
       (F = {} \/ G = {}) /\ Register(code, F, G) /\ Tally(F \cup G)
  /\ pc' = "begin"
  /\ UNCHANGED <<world, boot, fs, got, intact, upsets>>

\* Mutant: the loop over the copies leaves out the first one.
Accept_SkipsFirst ==
  /\ pc = "read" /\ Valid(boot[bsnum])
  /\ fs' = GetByte(boot[bsnum].data)
  /\ boot' = [i \in DOMAIN boot |-> IF bsnum > 0 /\ i > 0 THEN boot[bsnum] ELSE boot[i]]
  /\ pc' = "idle"
  /\ UNCHANGED <<world, ring, astray, errs, bsnum, got, intact, upsets, faults>>

(* The geometry is taken over.  When it is not from the first copy the     *)
(* sector as it was read goes to all the others; a failing write leaves    *)
(* its copy as it was.                                                     *)
Accept ==
  /\ pc = "read" /\ Valid(boot[bsnum])
  /\ fs' = GetByte(boot[bsnum].data)
  /\ \E F \in SUBSET (0 .. Boots - 1) :
       /\ F = {} \/ (bsnum > 0 /\ faults < world.faults)
       /\ boot' = [i \in DOMAIN boot |->
                     IF bsnum > 0 /\ i \notin F THEN boot[bsnum] ELSE boot[i]]
       /\ Tally(F)
  /\ pc' = "idle"
  /\ UNCHANGED <<world, ring, astray, errs, bsnum, got, intact, upsets>>

(* NIFAT32_repair_bootsectors, from the geometry in memory.                *)
RepairBoots ==
  /\ pc \in {"idle", "begin"} /\ Known
  /\ \E F \in SUBSET (0 .. Boots - 1) :
       /\ F = {} \/ faults < world.faults
       /\ boot' = [i \in DOMAIN boot |-> IF i \in F THEN boot[i] ELSE BootOf(fs)]
       /\ Tally(F)
  /\ UNCHANGED <<world, ring, astray, ram, pc, got, intact, upsets>>
-----------------------------------------------------------------------------
Upset ==
  /\ upsets < world.hits /\ upsets' = upsets + 1
  /\ \E i \in DOMAIN boot, w \in {"data", "sum"}, b \in Bits :
       boot' = [boot EXCEPT ![i][w] = Flip(@, b)]
  /\ UNCHANGED <<world, ring, astray, ram, pc, got, intact, faults>>

(* One copy of an entry on which all agree is hit beyond repair. *)
Damage ==
  /\ faults < world.faults /\ faults' = faults + 1
  /\ \E c \in Copies, i \in 0 .. Stored - 1 :
       /\ \A d \in Copies : ring[d][i] = ring[c][i]
       /\ ring' = [ring EXCEPT ![c][i] = DAMAGED]
  /\ UNCHANGED <<world, boot, astray, ram, pc, got, intact, upsets>>

\* The program ends, or loses power, and starts again.
Restart ==
  /\ fs' = Unknown /\ errs' = Static /\ bsnum' = 0
  /\ pc' = "idle" /\ got' = NOTHING /\ intact' = FALSE
  /\ UNCHANGED <<world, disk, upsets, faults>>

Call  == Report \/ NoErrors \/ Unreadable \/ GetLastError \/ RepairBoots
Work  == NoneLeft \/ SetupFails \/ Setup \/ ReadFails \/ Reject \/ Accept
MountNext  == Begin \/ Work \/ Call \/ Upset \/ Damage \/ Restart

MountSpec  == MountInit /\ [][MountNext]_mountVars
-----------------------------------------------------------------------------
(* The codes from first to last, as more than half of the copies have      *)
(* them.                                                                   *)
Agreed(i) ==
  IF i >= Stored THEN NO_ERROR
  ELSE LET M == {v \in Codes \cup {NO_ERROR} :
                   2 * Cardinality({c \in Copies : ring[c][i] = v}) > ErrorCopies}
       IN IF M = {} THEN DAMAGED ELSE CHOOSE v \in M : TRUE

Pending ==
  IF ~intact \/ ~Known THEN <<>>
  ELSE [k \in 1 .. (errs.last - errs.first) % (Ring - 1) |->
          Agreed(((errs.first + k - 2) % (Ring - 1)) + 1)]

Q == INSTANCE ErrorQueue WITH queue <- Pending, out <- got, NoCode <- NOTHING,
                              Codes <- Codes \cup {NO_ERROR}, Capacity <- Ring - 2

\* Two bits of one word differ from what was formatted.
Spoilt(c) ==
  LET Hits(e, f) == Cardinality((e \ f) \cup (f \ e)) IN
  \/ Hits(c.data, BootOf(Format).data) >= 2
  \/ Hits(c.sum, BootOf(Format).sum) >= 2

MountTypes ==
  /\ world \in Worlds /\ boot \in [0 .. Boots - 1 -> BootCopy]
  /\ ring \in [Copies -> [0 .. Stored - 1 -> Entries]] /\ astray \in Info
  /\ fs \in {Unknown} \cup SUBSET (0 .. 7) /\ errs \in Indices
  /\ bsnum \in 0 .. Boots /\ pc \in {"idle", "begin", "read"}
  /\ got \in Codes \cup {NO_ERROR, NOTHING, DAMAGED} /\ intact \in BOOLEAN
  /\ upsets \in 0 .. world.hits /\ faults \in 0 .. world.faults

(* Types, and once it has been loaded without pending errors the ring      *)
(* keeps its order through failing writes, full rings and the time without *)
(* a geometry: new errors go where the last one ends, inside the ring, and *)
(* every pending error is the same in more than half of the copies.        *)
RingOrdered ==
  /\ MountTypes
  /\ intact => /\ errs.current = errs.last
               /\ {errs.first, errs.last} \subseteq 1 .. Ring - 1
               /\ \A k \in 1 .. Len(Pending) : Pending[k] # DAMAGED

(* The oldest error is answered as DAMAGED, and is gone: one of its copies *)
(* is damaged and another could not be read, so that no more than half of  *)
(* those counted show the code.                                            *)
Misread ==
  /\ \E c, d \in Copies : Shows(ring, c, errs.first) # Shows(ring, d, errs.first)
  /\ faults' # faults
  /\ got' = DAMAGED /\ Pending # <<>> /\ Pending' = Tail(Pending)

(* Between two loads the errors are a queue: none is lost, repeated or     *)
(* out of turn but for the oldest of a full ring ("Append a new persistent *)
(* error code", "Read and consume the oldest", errors.h), whatever         *)
(* transfers fail and single copies are damaged; only where a damaged copy *)
(* and one that cannot be read meet in one vote may the answer be the      *)
(* damaged word.  An entry behind the end of its sector reads as NO_ERROR. *)
RingIsQueue ==
  [][intact /\ intact' /\ ~(pc = "begin" /\ pc' # pc)
       => UNCHANGED <<Pending, got>> \/ Q!Next \/ Misread]_mountVars

(* NIFAT32_init skips a copy only when two bits of one word have been hit, *)
(* and up to three upsets never make it believe a wrong geometry: one bit  *)
(* per word is corrected, the checksum catches what is miscorrected.       *)
CopiesJudged ==
  [][/\ bsnum' = bsnum + 1 => Spoilt(boot[bsnum])
     /\ fs' # fs => fs' \in {Format, Unknown}]_mountVars

(* Nothing the library does spoils a copy that could be read, and a mount  *)
(* from a reserved copy leaves all copies readable when its writes succeed *)
(* ("Attempt to fix...").                                                  *)
Readable == {i \in DOMAIN boot : Valid(boot[i]) /\ GetByte(boot[i].data) = Format}

BootsHeal ==
  [][/\ upsets' = upsets /\ boot' # boot => Readable \subseteq Readable'
     /\ pc = "read" /\ fs' # Unknown /\ pc' = "idle" /\ bsnum > 0 /\ faults' = faults
          => Readable' = DOMAIN boot]_mountVars
=============================================================================
