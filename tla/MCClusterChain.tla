--------------------------- MODULE MCClusterChain ---------------------------
(***************************************************************************)
(* A small instance of ClusterChain.                                       *)
(***************************************************************************)
EXTENDS ClusterChain

CONSTANTS t1, t2

\* Two threads on a clean volume mounted with its bitmap; one thread on damaged
\* ones, where reads or writes fail and the bitmap is filled as it goes.
Damaged(clusters, faults) ==
  [callers |-> {t1}, hints |-> {2}, map |-> "lazy", damaged |-> clusters, faults |-> faults]
Volumes ==
  {[callers |-> {t1, t2}, hints |-> {0, 3, NoHint}, map |-> "loaded",
    damaged |-> {}, faults |-> {}],
   Damaged({2, 4, 5}, {"read"}), Damaged({4, 5}, {"write"})}
=============================================================================
