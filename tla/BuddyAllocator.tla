--------------------------- MODULE BuddyAllocator ---------------------------
(***************************************************************************)
(* The heap of the kernel (and of each program): buddy-allocator.          *)
(*                                                                         *)
(* Free blocks of 2^class bytes are linked through their own first words:  *)
(* head[class] is the first block of a list and mem[block] the next one.   *)
(* Callers fill a block they are given, so a word in use holds Junk, and   *)
(* whoever follows or keeps a link in such a word is found out.  A word    *)
(* that has been a link counts as Junk as well.                            *)
(***************************************************************************)
EXTENDS Integers, FiniteSetsExt, SequencesExt

CONSTANTS
  WORD,        \* bytes of a usize
  Classes,     \* length of free_list
  Start, Size, \* the range given to init
  Layout       \* layouts asked for: records of size and align

BuddyAssumption ==
  /\ Classes \in Nat \ {0} /\ Start \in Nat \ {0} /\ Size \in Nat
  /\ \E k \in 0..Classes : WORD = 2^k
  /\ \A l \in Layout : l.size \in Nat \ {0} /\ \E k \in 0..Classes : l.align = 2^k

VARIABLES heap,    \* head, mem and panic
          used     \* blocks handed out: records of addr and layout

vars == <<heap, used>>

null == 0
Junk == -1
Class == 0..(Classes - 1)

RoundUp(a) == ((a + WORD - 1) \div WORD) * WORD
RoundDown(a) == (a \div WORD) * WORD
HeapStart == RoundUp(Start)
HeapEnd == RoundDown(HeapStart + Size)
Words == {a \in HeapStart..(HeapEnd - 1) : a % WORD = 0}

-----------------------------------------------------------------------------
\* LinkedList
is_empty(h, class) == h.head[class] = null

push(h, class, item) ==
  [h EXCEPT !.mem[item] = h.head[class], !.head[class] = item]

pop(h, class) ==
  [h EXCEPT !.head[class] = h.mem[h.head[class]], !.mem[h.head[class]] = Junk]

\* The blocks IterMut goes through, at most one per word of the heap.
Follow(mem, first) ==
  LET step(list, n) ==
        LET next == IF list = <<>> THEN first ELSE mem[Last(list)]
        IN IF next \in Words /\ next \notin ToSet(list) THEN Append(list, next) ELSE list
  IN FoldLeft(step, <<>>, [n \in 1..Cardinality(Words) |-> n])

List(h, class) == Follow(h.mem, h.head[class])

\* ListNode::pop of a block that is not the first.
Unlink(h, class, block) ==
  LET list == List(h, class)
      prev == list[(CHOOSE k \in DOMAIN list : list[k] = block) - 1]
  IN [h EXCEPT !.mem[prev] = h.mem[block], !.mem[block] = Junk]

-----------------------------------------------------------------------------
Pow2 == {2^k : k \in 0..Classes}
next_power_of_two(n) == Min({p \in Pow2 : p >= n})
prev_power_of_two(n) == Max({p \in Pow2 : p <= n})
trailing_zeros(p) == CHOOSE k \in 0..Classes : 2^k = p
lowbit(a) == Max({p \in Pow2 : a % p = 0})

\* The loop of BuddyAllocator::init: the largest aligned block that fits, again
\* and again.
Empty == [head |-> [c \in Class |-> null], mem |-> [a \in Words |-> Junk], panic |-> FALSE]

init ==
  LET take(a, n) ==
        LET size == Min({lowbit(a.start), prev_power_of_two(HeapEnd - a.start)})
        IN IF a.start >= HeapEnd THEN a
           ELSE [h |-> push(a.h, trailing_zeros(size), a.start), start |-> a.start + size]
  IN FoldLeft(take, [h |-> Empty, start |-> HeapStart],
              [n \in 1..Cardinality(Words) |-> n]).h

Init == heap = init /\ used = {}

\* A mutant: the alignment is forgotten.
ClassUnaligned(layout) == trailing_zeros(Max({next_power_of_two(layout.size), WORD}))

class_of(layout) ==
  trailing_zeros(Max({next_power_of_two(layout.size), layout.align, WORD}))

\* A block of class j becomes two of class j - 1.
Split(h, j) ==
  LET block == h.head[j]
  IN push(push(pop(h, j), j - 1, block), j - 1, block + 2^(j - 1))

\* The classes that have a block of class or more.
Available(h, class) == {i \in class..(Classes - 1) : ~ is_empty(h, i)}

\* BuddyAllocator::alloc where it succeeds; the owner fills its block.
alloc(layout) ==
  LET class == class_of(layout)
      i == Min(Available(heap, class))
      split == FoldLeft(Split, heap, [n \in 1..(i - class) |-> i + 1 - n])
      block == split.head[class]
  IN /\ ~ heap.panic
     /\ Available(heap, class) # {}
     /\ used' = used \cup {[addr |-> block, layout |-> layout]}
     /\ heap' = pop(split, class)

buddy_of(ptr, class) ==
  IF (ptr \div 2^class) % 2 = 0 THEN ptr + 2^class ELSE ptr - 2^class

\* A mutant: merging stops after one class.
MergeOnce(a, class) ==
  LET buddy == buddy_of(a.ptr, class)
      ptr == Min({a.ptr, buddy})
  IN IF a.done \/ buddy \notin ToSet(List(a.h, class)) \/ class + 1 \notin Class
       THEN [a EXCEPT !.done = TRUE]
     ELSE [a EXCEPT !.ptr = ptr, !.done = TRUE,
                    !.h = push(pop(Unlink(a.h, class, buddy), class), class + 1, ptr)]

\* One turn of the loop of dealloc.  A merge in the last class indexes
\* free_list past its end.
Merge(a, class) ==
  LET buddy == buddy_of(a.ptr, class)
      ptr == Min({a.ptr, buddy})
  IN IF a.done \/ buddy \notin ToSet(List(a.h, class)) THEN [a EXCEPT !.done = TRUE]
     ELSE IF class + 1 \notin Class THEN [a EXCEPT !.done = TRUE, !.h.panic = TRUE]
     ELSE [a EXCEPT !.ptr = ptr, !.h = push(pop(Unlink(a.h, class, buddy), class), class + 1, ptr)]

dealloc(b) ==
  LET class == class_of(b.layout)
      first == [h |-> push(heap, class, b.addr), ptr |-> b.addr, done |-> FALSE]
  IN /\ ~ heap.panic
     /\ b \in used
     /\ used' = used \ {b}
     /\ heap' = FoldLeft(Merge, first, [n \in 1..(Classes - class) |-> class + n - 1]).h

Next ==
  \/ \E layout \in Layout : alloc(layout)
  \/ \E b \in used : dealloc(b)

Spec == Init /\ [][Next]_vars

-----------------------------------------------------------------------------
(* Properties.                                                             *)

BlockRange(b, class) == b..(b + 2^class - 1)
FreeBlocks == UNION {{<<b, c>> : b \in ToSet(List(heap, c))} : c \in Class}
FreeBytes == UNION {BlockRange(b[1], b[2]) : b \in FreeBlocks}
UsedBytes == UNION {BlockRange(b.addr, class_of(b.layout)) : b \in used}

\* Types: heads and links are null, Junk or word-aligned addresses of the heap,
\* and blocks in use are inside it (LinkedList::push writes to its item).
TypeOK ==
  /\ heap.head \in [Class -> {null} \cup Words]
  /\ \A w \in Words : heap.mem[w] \in {null, Junk} \cup Words
  /\ heap.panic = FALSE
  /\ UsedBytes \subseteq HeapStart..(HeapEnd - 1)

\* The lists threaded through free memory hold together (push, pop, ListNode::pop):
\* each ends in null, and the free blocks of all classes and the blocks in use
\* cut the heap up without overlap or loss, after any sequence of splits and
\* merges.
Partition ==
  /\ \A c \in Class :
       LET list == List(heap, c)
       IN (IF list = <<>> THEN heap.head[c] ELSE heap.mem[Last(list)]) = null
  /\ FreeBytes \cap UsedBytes = {}
  /\ FreeBytes \cup UsedBytes = HeapStart..(HeapEnd - 1)
  /\ \A b, d \in FreeBlocks : b # d => BlockRange(b[1], b[2]) \cap BlockRange(d[1], d[2]) = {}
  /\ \A b, d \in used :
       b # d => BlockRange(b.addr, class_of(b.layout)) \cap BlockRange(d.addr, class_of(d.layout)) = {}

\* The allocator never writes to memory a caller owns.
OwnersKeepData ==
  \A b \in used : \A w \in Words :
    w >= b.addr /\ w < b.addr + b.layout.size => heap.mem[w] = Junk

\* dealloc merges all that can be merged: alloc fails (finds all lists of the
\* class and above empty) only when no aligned run of that many free bytes is
\* left anywhere in the heap.
FailsOnlyWhenFull ==
  \A c \in Class :
    Available(heap, c) = {} =>
      \A a \in Words : a % (2^c) = 0 => ~ (BlockRange(a, c) \subseteq FreeBytes)

Abstract == INSTANCE Heap WITH Space <- HeapStart..(HeapEnd - 1)

\* The buddy allocator is a heap (GlobalAlloc): blocks are aligned as the layout
\* asks, apart from one another, and in the heap.
HeapSpec == Abstract!Spec
====
