------------------------------ MODULE FamilyTree ------------------------------
(***************************************************************************)
(* What fork, exit and waitpid promise: a tree of processes rooted at      *)
(* init.  The children of a process that dies go to init, a dead process   *)
(* stays until its parent reaps it, and its pid is free only after that.   *)
(***************************************************************************)
CONSTANTS Pid, Init0, NoPid

VARIABLES
  parentOf,          \* [Pid -> Pid \cup {NoPid}], NoPid for init and unused pids
  living, dead       \* the processes that run, and those not reaped yet

vars == <<parentOf, living, dead>>

Init ==
  /\ parentOf = [p \in Pid |-> NoPid]
  /\ living = {Init0}
  /\ dead = {}

Fork(p, c) ==
  /\ p \in living /\ c \notin living \cup dead
  /\ living' = living \cup {c}
  /\ parentOf' = [parentOf EXCEPT ![c] = p]
  /\ UNCHANGED dead

Die(p) ==
  /\ p \in living \ {Init0}
  /\ living' = living \ {p}
  /\ dead' = dead \cup {p}
  /\ parentOf' = [c \in Pid |-> IF parentOf[c] = p THEN Init0 ELSE parentOf[c]]

Reap(p, c) ==
  /\ p \in living /\ c \in dead /\ parentOf[c] = p
  /\ dead' = dead \ {c}
  /\ parentOf' = [parentOf EXCEPT ![c] = NoPid]
  /\ UNCHANGED living

\* Init exits when it has no children left, and the machine stops.
Halt ==
  /\ Init0 \in living /\ living \cup dead = {Init0}
  /\ living' = {} /\ dead' = {Init0}
  /\ UNCHANGED parentOf

Next ==
  \/ \E p, c \in Pid : Fork(p, c) \/ Reap(p, c)
  \/ \E p \in Pid : Die(p)
  \/ Halt

Spec == Init /\ [][Next]_vars
====
