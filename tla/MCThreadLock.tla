---------------------------- MODULE MCThreadLock ----------------------------
(***************************************************************************)
(* Instance of ThreadLock: what get_thread_num() may return.  With the     *)
(* default of threading.h every thread is 0; the theorems cover that too.  *)
(***************************************************************************)
EXTENDS ThreadLock, TLC

CONSTANTS t1, t2, t3

\* Thread ids wider than owner_t; the id of t3 is cut to NO_OWNER.
Wide == [t \in Threads |-> CASE t = t1 -> 1 [] t = t2 -> 2 [] OTHER -> 7]
=============================================================================
