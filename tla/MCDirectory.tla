---------------------------- MODULE MCDirectory -----------------------------
(***************************************************************************)
(* Directory for TLC.  Names are only compared, and any free data cluster  *)
(* may be given to a file: both may be permuted.                           *)
(***************************************************************************)
EXTENDS Directory, TLC

Additions == {[ops |-> {"add"}, faults |-> {f}, empty |-> FALSE, whole |-> JSlots] :
                f \in {"crash", "write"}}
AllCalls  == {[ops |-> {"add", "del", "edit"}, faults |-> {"crash"}, empty |-> TRUE,
               whole |-> JSlots]}
ShortLog  == {[ops |-> {"add", "del"}, faults |-> {"crash"}, empty |-> TRUE, whole |-> w] :
                w \in 0 .. 1}
NoFaults  == {[ops |-> {"add", "del"}, faults |-> {}, empty |-> TRUE, whole |-> JSlots]}

Volumes   == Additions \cup AllCalls \cup ShortLog

Symmetry == Permutations(Names) \cup Permutations(Ids)
=============================================================================
