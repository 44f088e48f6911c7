------------------------------- MODULE Translate -------------------------------
(***************************************************************************)
(* How the kernel reaches the memory of a program (os/src/mm/page_table.rs *)
(* and address.rs): a system call gives a pointer, the kernel cuts the     *)
(* buffer into slices of pages and goes through them byte by byte, or      *)
(* reads a string up to its zero.                                          *)
(*                                                                         *)
(* A usize has UBITS bits, a virtual address VA_WIDTH; a pointer of the    *)
(* upper half has all the bits above VA_WIDTH set.  Table maps the pages   *)
(* of the program; Text holds the characters of physical memory.           *)
(***************************************************************************)
EXTENDS Shift, SequencesExt

CONSTANTS
  VA_WIDTH, PAGE_SIZE_BITS,
  Table,      \* [virtual page -> physical page], the program's pages
  Reached,    \* virtual pages that have a last level table, mapped or not
  Text,       \* the characters of physical memory, as a function of address
  MaxLen      \* bound: bytes of a buffer

ASSUME TranslateAssumption ==
  /\ PAGE_SIZE_BITS \in Nat /\ VA_WIDTH \in Nat
  /\ PAGE_SIZE_BITS < VA_WIDTH /\ VA_WIDTH <= UBITS
  /\ DOMAIN Table \subseteq Reached /\ \A p \in DOMAIN Table : Table[p] \in Nat
  /\ MaxLen \in Nat

PAGE_SIZE == Shl[PAGE_SIZE_BITS]
Usize == 0..(Shl[UBITS] - 1)

\* VirtAddr::from(usize) cuts a pointer down to VA_WIDTH bits.
VirtAddr(v) == v % Shl[VA_WIDTH]

\* usize::from(VirtAddr) extends its highest bit.
usize(va) ==
  IF va \div Shl[VA_WIDTH - 1] > 0
    THEN Shl[UBITS] - Shl[VA_WIDTH - 1] + (va % Shl[VA_WIDTH - 1])
    ELSE va

page_offset(va) == va % PAGE_SIZE
floor(va) == va \div PAGE_SIZE

\* The pointers a program has: those the hardware takes.
Canonical == {v \in Usize : usize(VirtAddr(v)) = v}

VARIABLES
  call,       \* "buffer" or "str"
  ptr, len,   \* its arguments
  start, end, \* locals of translated_byte_buffer; start is va in translated_str
  v,          \* the slices: sequences of physical addresses
  buffer_id, offset,  \* UserBufferIterator
  out,        \* addresses the iterator gave, or characters of the string
  pc

userVars == <<call, ptr, len, start, end, v, buffer_id, offset, out, pc>>

\* A buffer does not run over the end of its half, nor to the last byte of the
\* address space: the last page is the trampoline.
SameHalf(p, n) == p + n \in Usize /\ \A k \in 0..(n - 1) : p + k \in Canonical

UserInit ==
  /\ call \in {"buffer", "str"}
  /\ ptr \in Canonical
  /\ len \in 0..MaxLen
  /\ SameHalf(ptr, len)
  /\ call = "str" => len = 0
  /\ start = ptr /\ end = ptr + len
  /\ v = <<>> /\ buffer_id = 0 /\ offset = 0 /\ out = <<>>
  /\ pc = "translate"

Bytes(page, from, to) == [k \in 1..(to - from) |-> page * PAGE_SIZE + from + k - 1]

MinOf(a, b) == IF a < b THEN a ELSE b

\* translate(vpn).unwrap() fails where there is no last level table.  Where
\* there is one its entry is taken as it is: that of an unmapped page is zero.
Unreached(va) == floor(va) \notin Reached
ppn(va) == IF floor(va) \in DOMAIN Table THEN Table[floor(va)] ELSE 0

Slice(start_va, end_va) ==
  Bytes(ppn(start_va), page_offset(start_va),
        IF page_offset(end_va) = 0 THEN PAGE_SIZE ELSE page_offset(end_va))

\* A mutant: the end of the page alone ends a slice.
EndOfPage(start_va) == (floor(start_va) + 1) * PAGE_SIZE

\* The end of the page or of the buffer, whichever is first.
EndOf(start_va) == MinOf((floor(start_va) + 1) * PAGE_SIZE, VirtAddr(end))

After(end_va) == usize(end_va)

\* One turn of the loop of translated_byte_buffer.
translated_byte_buffer ==
  /\ call = "buffer" /\ pc = "translate" /\ start < end
  /\ LET start_va == VirtAddr(start)
         end_va == EndOf(start_va)
     IN IF Unreached(start_va) THEN pc' = "panic" /\ UNCHANGED <<v, start>>
        ELSE /\ v' = Append(v, Slice(start_va, end_va))
             /\ start' = After(end_va)
             /\ UNCHANGED pc
  /\ UNCHANGED <<call, ptr, len, end, buffer_id, offset, out>>

IntoIter ==
  /\ call = "buffer" /\ pc = "translate" /\ start >= end
  /\ pc' = "iterate"
  /\ UNCHANGED <<call, ptr, len, start, end, v, buffer_id, offset, out>>

Step(slice) ==
  IF offset + 1 = Len(slice) THEN buffer_id' = buffer_id + 1 /\ offset' = 0
  ELSE offset' = offset + 1 /\ buffer_id' = buffer_id

\* UserBufferIterator::next; an index past the end of a slice panics.
next ==
  /\ call = "buffer" /\ pc = "iterate" /\ buffer_id < Len(v)
  /\ LET slice == v[buffer_id + 1]
     IN IF offset >= Len(slice)
          THEN pc' = "panic" /\ UNCHANGED <<out, buffer_id, offset>>
          ELSE /\ out' = Append(out, slice[offset + 1])
               /\ Step(slice)
               /\ UNCHANGED pc
  /\ UNCHANGED <<call, ptr, len, start, end, v>>

Exhausted ==
  /\ call = "buffer" /\ pc = "iterate" /\ buffer_id >= Len(v)
  /\ pc' = "done"
  /\ UNCHANGED <<call, ptr, len, start, end, v, buffer_id, offset, out>>

\* PageTableView::translate_va
translate_va(va) == ppn(va) * PAGE_SIZE + page_offset(va)

\* One turn of the loop of translated_str.
translated_str ==
  /\ call = "str" /\ pc = "translate"
  /\ LET va == VirtAddr(start)
         ch == Text[translate_va(va)]
     IN IF Unreached(va) THEN pc' = "panic" /\ UNCHANGED <<out, start>>
        ELSE IF ch = 0 THEN pc' = "done" /\ UNCHANGED <<out, start>>
        ELSE /\ out' = Append(out, ch)
             /\ start' = (start + 1) % Shl[UBITS]
             /\ UNCHANGED pc
  /\ UNCHANGED <<call, ptr, len, end, v, buffer_id, offset>>

UserNext == translated_byte_buffer \/ IntoIter \/ next \/ Exhausted \/ translated_str

UserSpec == UserInit /\ [][UserNext]_userVars

-----------------------------------------------------------------------------
(* Properties.                                                             *)

\* Where the program's own access to the k-th byte would go.
Byte(k) == translate_va(VirtAddr(ptr + k))
Mapped == \A k \in 0..(len - 1) : floor(VirtAddr(ptr + k)) \in DOMAIN Table

\* Types: the locals stay in the width of a usize, offset stays in a page, and
\* the loops come to an end: a buffer has at most one slice per byte.
UserTypeOK ==
  /\ start \in Usize /\ end \in Usize
  /\ pc \in {"translate", "iterate", "done", "panic"}
  /\ \A s \in DOMAIN v : \A k \in DOMAIN v[s] : v[s][k] \in Nat
  /\ Len(v) <= MaxLen /\ buffer_id \in 0..Len(v) /\ offset < PAGE_SIZE

\* translated_byte_buffer gives the kernel the very bytes of a buffer of the
\* program, in order: over page boundaries, to the last byte of a page, and in
\* the upper half, where pointers are longer than virtual addresses.  No slice
\* is empty (the iterator would index past the end of one).
BufferExact ==
  call = "buffer" /\ Mapped =>
    /\ IsPrefix(FlattenSeq(v), [k \in 1..len |-> Byte(k - 1)])
    /\ pc \in {"iterate", "done"} => Len(FlattenSeq(v)) = len
    /\ pc # "panic"
    /\ \A s \in DOMAIN v : v[s] # <<>>

\* UserBufferIterator gives every byte once, in order, across slices.
IteratorExact ==
  call = "buffer" /\ Mapped =>
    /\ \A k \in DOMAIN out : k <= len /\ out[k] = Byte(k - 1)
    /\ pc = "done" => Len(out) = len

\* translated_str gives the characters before the first zero.
StringExact ==
  call = "str" /\ pc = "done" =>
    /\ \A k \in DOMAIN out : out[k] = Text[Byte(k - 1)] /\ out[k] # 0
    /\ Text[Byte(Len(out))] = 0

\* translated_byte_buffer gives the kernel the very bytes of a buffer of the
\* program, in order, over page boundaries and in both halves of the space;
\* UserBufferIterator gives each once, in order; and translated_str gives the
\* characters before the first zero.
AccessExact == BufferExact /\ IteratorExact /\ StringExact
====
