---------------------------- MODULE FatRegister -----------------------------
(***************************************************************************)
(* What the file allocation table promises to the code above it, the API   *)
(* of src/include/nft32/fat.h: one register per cluster.  read_fat returns *)
(* the register, write_fat sets it, and nothing else changes it.  A write  *)
(* that power loss tears leaves a set of possible values, of which later   *)
(* reads return members until one of them sticks.                          *)
(***************************************************************************)
EXTENDS Integers

CONSTANTS
  Clusters,   (* the accessible entries *)
  Values      (* the words they hold    *)

VARIABLES
  reg,        (* reg[c]: the values entry c may read as *)
  writing,    (* <<c, v>> while v is being stored, or <<>> *)
  answer      (* what the finished call is about to return, or <<>> *)

vars == <<reg, writing, answer>>

Init ==
  /\ \E f \in [Clusters -> Values] : reg = [c \in Clusters |-> {f[c]}]
  /\ writing = <<>> /\ answer = <<>>

(* A read answers with a possible value, which may settle the register. *)
Read(c) ==
  /\ writing = <<>> /\ answer = <<>>
  /\ \E v \in reg[c] :
       /\ answer' = <<"read", c, v>>
       /\ \/ UNCHANGED reg
          \/ reg' = [reg EXCEPT ![c] = {v}]
  /\ UNCHANGED writing

(* While v is being stored the entry may read as v, as what it was, or as  *)
(* a word some damaged copy holds.                                         *)
Begin(c, v) ==
  /\ writing = <<>> /\ answer = <<>>
  /\ writing' = <<c, v>>
  /\ \E words \in SUBSET Values : reg' = [reg EXCEPT ![c] = words \cup {v}]
  /\ UNCHANGED answer

Written(c, v) ==
  /\ writing = <<c, v>>
  /\ writing' = <<>> /\ answer' = <<"written", c, v>>
  /\ reg' = [reg EXCEPT ![c] = {v}]

(* Power loss in the middle of a write. *)
Torn(c, v) ==
  /\ writing = <<c, v>>
  /\ writing' = <<>>
  /\ \E words \in (SUBSET Values) \ {{}} : reg' = [reg EXCEPT ![c] = words]
  /\ UNCHANGED answer

Return ==
  /\ answer # <<>> /\ answer' = <<>>
  /\ UNCHANGED <<reg, writing>>

Next ==
  \/ \E c \in Clusters : Read(c)
  \/ \E c \in Clusters, v \in Values : Begin(c, v) \/ Written(c, v) \/ Torn(c, v)
  \/ Return

Spec == Init /\ [][Next]_vars
=============================================================================
