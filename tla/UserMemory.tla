------------------------------ MODULE UserMemory ------------------------------
(***************************************************************************)
(* What an address space promises a process: private pages.  A new page is *)
(* zero, exec gives the pages of the program, fork a copy of the parent's, *)
(* and a page only changes by a store of its own process.                  *)
(***************************************************************************)
CONSTANTS Proc, Vpn, Index, Value, NoPage,
  Program            \* the images exec may install

VARIABLE image       \* [Proc -> [Vpn -> page or NoPage]]

Zero == [i \in Index |-> 0]
Nothing == [v \in Vpn |-> NoPage]

Init == \E p \in Proc, prog \in Program :
          image = [q \in Proc |-> IF q = p THEN prog ELSE Nothing]

Fork(p, c) ==
  /\ image[p] # Nothing /\ image[c] = Nothing
  /\ image' = [image EXCEPT ![c] = image[p]]

Exec(p, prog) ==
  /\ image[p] # Nothing
  /\ image' = [image EXCEPT ![p] = prog]

\* The stack and the trap context of a thread appear, or go.
Grow(p, stack, trap) ==
  /\ image[p] # Nothing /\ image[p][stack] = NoPage /\ image[p][trap] = NoPage
  /\ image' = [image EXCEPT ![p][stack] = Zero, ![p][trap] = Zero]

Shrink(p, stack, trap) ==
  /\ image[p][stack] # NoPage /\ image[p][trap] # NoPage
  /\ image' = [image EXCEPT ![p][stack] = NoPage, ![p][trap] = NoPage]

Die(p) ==
  /\ image[p] # Nothing
  /\ image' = [image EXCEPT ![p] = Nothing]

Store(p, v, i, x) ==
  /\ image[p][v] # NoPage
  /\ image' = [image EXCEPT ![p][v][i] = x]

Next ==
  \E p \in Proc :
    \/ \E c \in Proc : Fork(p, c)
    \/ \E prog \in Program : Exec(p, prog)
    \/ \E stack, trap \in Vpn : Grow(p, stack, trap) \/ Shrink(p, stack, trap)
    \/ Die(p)
    \/ \E v \in Vpn, i \in Index, x \in Value : Store(p, v, i, x)

Spec == Init /\ [][Next]_image
====
