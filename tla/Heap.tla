--------------------------------- MODULE Heap ---------------------------------
(***************************************************************************)
(* What a heap promises its callers: a block handed out is inside the      *)
(* heap, aligned as asked, and apart from all blocks in use.               *)
(***************************************************************************)
EXTENDS Integers

CONSTANTS
  Space,     \* the addresses of the heap
  Layout     \* the layouts that are asked for: records of size and align

VARIABLE used     \* blocks in use: records of addr and layout

Range(b) == b.addr..(b.addr + b.layout.size - 1)

Init == used = {}

Alloc(b) ==
  /\ Range(b) \subseteq Space
  /\ b.addr % b.layout.align = 0
  /\ \A c \in used : Range(b) \cap Range(c) = {}
  /\ used' = used \cup {b}

Free(b) ==
  /\ b \in used
  /\ used' = used \ {b}

Next ==
  \E addr \in Space, layout \in Layout :
    \/ Alloc([addr |-> addr, layout |-> layout])
    \/ Free([addr |-> addr, layout |-> layout])

Spec == Init /\ [][Next]_used
====
