------------------------------- MODULE RWLock -------------------------------
(***************************************************************************)
(* What a lock of src/include/std/threading.h promises: several readers or *)
(* one writer, and whoever acquired it is the one who releases it.         *)
(***************************************************************************)
CONSTANT Threads

VARIABLE held   (* held[t]: "none", "read" or "write" *)

Readers == {t \in Threads : held[t] = "read"}
Writers == {t \in Threads : held[t] = "write"}

Init == held = [t \in Threads |-> "none"]

AcquireRead(t) ==
  /\ held[t] = "none" /\ Writers = {}
  /\ held' = [held EXCEPT ![t] = "read"]

AcquireWrite(t) ==
  /\ held[t] = "none" /\ Writers = {} /\ Readers = {}
  /\ held' = [held EXCEPT ![t] = "write"]

Release(t) ==
  /\ held[t] # "none"
  /\ held' = [held EXCEPT ![t] = "none"]

Next == \E t \in Threads : AcquireRead(t) \/ AcquireWrite(t) \/ Release(t)

Spec == Init /\ [][Next]_held
=============================================================================
