----------------------------- MODULE BoundedFifo -----------------------------
(***************************************************************************)
(* What a pipe promises: a first-in first-out queue of at most Capacity    *)
(* bytes.  It may be closed for writing, once and for all; and a reader is *)
(* told that the bytes have ended only when no byte is left and none can   *)
(* follow.                                                                 *)
(***************************************************************************)
EXTENDS Naturals, Sequences

CONSTANTS Byte, Capacity

VARIABLES
  queue,     \* the bytes in the pipe
  out,       \* the byte a reader got last, or any byte at first
  closed,    \* nobody can write any more
  ended      \* some reader has been told so

vars == <<queue, out, closed, ended>>

Init ==
  /\ queue = <<>> /\ out \in Byte
  /\ closed = FALSE /\ ended = FALSE

Put(b) ==
  /\ ~closed /\ Len(queue) < Capacity
  /\ queue' = Append(queue, b)
  /\ UNCHANGED <<out, closed, ended>>

Get ==
  /\ queue # <<>>
  /\ out' = Head(queue)
  /\ queue' = Tail(queue)
  /\ UNCHANGED <<closed, ended>>

Close ==
  /\ ~closed /\ closed' = TRUE
  /\ UNCHANGED <<queue, out, ended>>

End ==
  /\ closed /\ queue = <<>>
  /\ ended' = TRUE
  /\ UNCHANGED <<queue, out, closed>>

Next == (\E b \in Byte : Put(b)) \/ Get \/ Close \/ End

Spec == Init /\ [][Next]_vars
=============================================================================
