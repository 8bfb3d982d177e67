------------------------------- MODULE DirMap -------------------------------
(***************************************************************************)
(* What a directory promises: a set of named files.  One call is under way *)
(* at a time.  While it is, the directory shows the files as they were     *)
(* before it or as they are after it; when it is done it shows them as     *)
(* they are after it, and when it failed, or a power loss cut it short, it *)
(* shows one or the other, and nothing else has changed.                   *)
(***************************************************************************)
CONSTANTS Names, Ids

File == [name : Names, id : Ids]

VARIABLES
  files,    (* what a listing shows                                        *)
  before,   (* what it showed when the call began                          *)
  call      (* the files the call adds: none, or one                       *)

TypeOK == files \subseteq File /\ before \subseteq File /\ call \subseteq File

Init == files = {} /\ before = {} /\ call = {}

Begin(f) ==
  /\ call = {}
  /\ \A g \in files : g.name # f.name
  /\ call' = {f} /\ before' = files
  /\ UNCHANGED files

\* The step that takes effect, and the recovery that drops it again.
Work ==
  /\ call # {}
  /\ files' \in {before, before \cup call}
  /\ UNCHANGED <<before, call>>

Done ==
  /\ call # {} /\ files = before \cup call
  /\ call' = {} /\ before' = {}
  /\ UNCHANGED files

\* The caller is told of a failure, or of nothing.
Fail ==
  /\ call # {}
  /\ call' = {} /\ before' = {}
  /\ files' \in {before, before \cup call}

Next == (\E f \in File : Begin(f)) \/ Work \/ Done \/ Fail

Spec == Init /\ [][Next]_<<files, before, call>>
=============================================================================
