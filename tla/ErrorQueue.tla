----------------------------- MODULE ErrorQueue -----------------------------
(***************************************************************************)
(* What errors.h promises of the registered errors: a queue with room for  *)
(* some of them, the oldest of which gives way to a new one.               *)
(***************************************************************************)
EXTENDS Integers, Sequences

CONSTANTS Codes, Capacity, NoCode

VARIABLES
  queue,   (* the errors nobody has asked for yet                          *)
  out      (* the answer to the last question                              *)

\* errors_register_error
Put(c) ==
  /\ queue' = Append(IF Len(queue) = Capacity THEN Tail(queue) ELSE queue, c)
  /\ UNCHANGED out

\* errors_last_error: the oldest one, once.
Take ==
  /\ queue # <<>>
  /\ out' = Head(queue) /\ queue' = Tail(queue)

\* No error, or none that can be read now.
Nothing == out' = NoCode /\ UNCHANGED queue

Next == Take \/ Nothing \/ \E c \in Codes : Put(c)
=============================================================================
