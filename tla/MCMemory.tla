------------------------------- MODULE MCMemory -------------------------------
(***************************************************************************)
(* The memory of the kernel: the address spaces, the heap and the access   *)
(* to the memory of programs.  They share no state, so a behaviour         *)
(* exercises one of them: part says which, and the others stay as they     *)
(* start.                                                                  *)
(***************************************************************************)
EXTENDS AddressSpace, Translate

Small == <<[start |-> 0, end |-> 1, data |-> <<2>>]>>
Large == <<[start |-> 0, end |-> 2, data |-> <<2, 2, 2>>],
           [start |-> 2, end |-> 3, data |-> <<>>]>>
TwoElves == {Small, Large}

\* Eight pages of four bytes; one has no table, one is not mapped; the others
\* are not in the order of the physical pages.
UserReached == (0..7) \ {2}
UserTable == [p \in UserReached \ {7} |-> (3 * p + 1) % 8]
UserText == [a \in 0..31 |-> a % 6]

VARIABLES
  part,
  heap, used

heapVars == <<heap, used>>

\* A heap of a block of two bytes and a block of sixteen.
Buddy == INSTANCE BuddyAllocator WITH
  WORD <- 2, Classes <- 6, Start <- 14, Size <- 18,
  Layout <- {[size |-> 1, align |-> 1], [size |-> 3, align |-> 2], [size |-> 2, align |-> 8]}

ASSUME BuddyAssumption == Buddy!BuddyAssumption

\* A part that does not move has one initial state.
MCInit ==
  /\ part \in {"spaces", "heap", "user"}
  /\ UserInit /\ (part # "user" => call = "buffer" /\ ptr = 0 /\ len = 0)
  /\ Init /\ (part # "spaces" => proc[First].base = user_stack_base(Small))
  /\ Buddy!Init

MCNext ==
  \/ part = "spaces" /\ Next /\ UNCHANGED <<part, heapVars, userVars>>
  \/ part = "heap" /\ Buddy!Next /\ UNCHANGED <<part, vars, userVars>>
  \/ part = "user" /\ UserNext /\ UNCHANGED <<part, vars, heapVars>>

MCSpec == MCInit /\ [][MCNext]_<<part, vars, heapVars, userVars>>

-----------------------------------------------------------------------------
\* Types of the part that moves.
MemoryTypeOK ==
  /\ part = "spaces" => TypeOK
  /\ part = "heap" => Buddy!TypeOK
  /\ part = "user" => UserTypeOK

\* Every frame that frame_alloc ever gave out has exactly one owner, whatever
\* the order of fork, exec, exit and waitpid: none is lost, shared or freed
\* twice.  The page table of every live address space says what its segments
\* say.  No assertion of map, unmap and the allocators fails; only a lack of
\* frames may stop the kernel.
SpacesExact == part = "spaces" => FramesExact /\ TablesAgree /\ NoPanic

\* The bytes of the heap are split between the free lists of the buddy allocator
\* and the blocks in use: none is lost and none is in two blocks.  No word of a
\* block in use is written.  alloc fails only when no aligned run of free bytes
\* of the size is left: dealloc has merged all that can be merged.
HeapExact == part = "heap" => Buddy!Partition /\ Buddy!OwnersKeepData /\ Buddy!FailsOnlyWhenFull

\* The buddy allocator implements a heap: blocks handed out are inside, aligned
\* as asked and apart from all others in use.
HeapSpec == Buddy!HeapSpec
====
