--------------------------- MODULE RecycleAllocator ---------------------------
(***************************************************************************)
(* The allocator of small identifiers (os/src/task/utils.rs) behind pids,  *)
(* tids and kernel stacks: a counter and a stack of identifiers given      *)
(* back.  A failed assertion of dealloc is recorded in the field failed.   *)
(***************************************************************************)
EXTENDS Integers, Sequences

Elements(s) == {s[i] : i \in 1..Len(s)}

new == [current |-> 0, recycled |-> <<>>, failed |-> FALSE]

NextId(a) ==
  IF a.recycled # <<>> THEN a.recycled[Len(a.recycled)] ELSE a.current

alloc(a) ==
  IF a.recycled # <<>>
    THEN [a EXCEPT !.recycled = SubSeq(@, 1, Len(@) - 1)]
    ELSE [a EXCEPT !.current = @ + 1]

\* A mutant: dealloc pushes the identifier before its own.
DeallocBefore(a, id) == [a EXCEPT !.recycled = Append(@, id - 1)]

dealloc(a, id) ==
  IF id < a.current /\ id \notin Elements(a.recycled)
    THEN [a EXCEPT !.recycled = Append(@, id)]
    ELSE [a EXCEPT !.failed = TRUE]

\* The identifiers that are given out.
InUse(a) == (0..(a.current - 1)) \ Elements(a.recycled)

\* The identifiers in q are given back, one after the other.
dealloc_each(a, q) ==
  IF /\ Elements(q) \subseteq InUse(a)
     /\ \A i, j \in 1..Len(q) : q[i] = q[j] => i = j
    THEN [a EXCEPT !.recycled = @ \o q]
    ELSE [a EXCEPT !.failed = TRUE]

Allocator ==
  [current : Nat, recycled : Seq(Nat), failed : BOOLEAN]

\* No identifier is in the stack twice, and none was never given out.
WellFormed(a) ==
  /\ Elements(a.recycled) \subseteq 0..(a.current - 1)
  /\ \A i, j \in 1..Len(a.recycled) :
       a.recycled[i] = a.recycled[j] => i = j
====
