------------------------------ MODULE PageTable ------------------------------
(***************************************************************************)
(* Frames, three-level page tables and address spaces as pure operators    *)
(* (os/src/mm/frame_allocator.rs, page_table.rs and address_space.rs).     *)
(*                                                                         *)
(* They act on a record w: physical memory mem and the frame allocator     *)
(* (current, recycled), together with the address space at work (root,     *)
(* frames of its page table, segments) and the places a walk is at (ppn,   *)
(* at, data).  A page has Radix words.  A word is 0, a datum, or a page    *)
(* table entry: 1 + the frame it points to.  Permissions are left out.     *)
(* The first assertion or unwrap to fail is kept in bad.                   *)
(***************************************************************************)
EXTENDS Integers, FiniteSetsExt, SequencesExt

CONSTANTS
  Radix,             \* words of a page, entries of a table (512 in the code)
  FrameBegin,        \* ekernel: the first frame of the allocator
  FrameEnd           \* MEMORY_END

ASSUME PageTableAssumption ==
  Radix \in Nat \ {0, 1} /\ FrameBegin \in Nat \ {0} /\ FrameEnd \in Nat

Index == 0..(Radix - 1)
Frame == 0..(FrameEnd - 1)
Vpn == 0..(Radix * Radix * Radix - 1)
ZeroPage == [i \in Index |-> 0]
TextFrame == 0       \* the frame of the kernel that holds the trampoline

TRAMPOLINE == Radix * Radix * Radix - 1
TRAP_CONTEXT_BASE == TRAMPOLINE - 1

Fail(w, why) == IF w.bad = "no" THEN [w EXCEPT !.bad = why] ELSE w

-----------------------------------------------------------------------------
Fill(w, ppn) == [w EXCEPT !.mem[ppn] = ZeroPage]

frame_alloc(w) ==
  IF w.recycled # <<>>
    THEN Fill([w EXCEPT !.recycled = Front(@), !.ppn = Last(w.recycled)], Last(w.recycled))
  ELSE IF w.current = FrameEnd THEN Fail(w, "no frame")
  ELSE Fill([w EXCEPT !.current = @ + 1, !.ppn = w.current], w.current)

frame_dealloc(w, ppn) ==
  IF ppn >= w.current \/ Contains(w.recycled, ppn)
    THEN Fail(w, "dealloc")
    ELSE [w EXCEPT !.recycled = Append(@, ppn)]

DropFrames(w, ppns) == FoldLeft(frame_dealloc, w, ppns)

-----------------------------------------------------------------------------
indexes(vpn) ==
  <<(vpn \div (Radix * Radix)) % Radix, (vpn \div Radix) % Radix, vpn % Radix>>

\* One level of find_pte_create: a missing table is made.
Descend(w, i) ==
  LET a == frame_alloc(w)
  IN IF w.mem[w.at][i] # 0 THEN [w EXCEPT !.at = w.mem[w.at][i] - 1]
     ELSE [a EXCEPT !.mem[w.at][i] = a.ppn + 1, !.frames = Append(@, a.ppn), !.at = a.ppn]

find_pte_create(w, vpn) ==
  Descend(Descend([w EXCEPT !.at = w.root], indexes(vpn)[1]), indexes(vpn)[2])

\* PageTableView::find_pte: the last table, or -1 when one is missing.
find_pte(mem, root, vpn) ==
  LET id == indexes(vpn)
      t1 == mem[root][id[1]] - 1
  IN IF t1 = -1 THEN -1 ELSE mem[t1][id[2]] - 1

\* The frame of the entry that translate returns, -1 when it is not valid.
translate(mem, root, vpn) ==
  LET t == find_pte(mem, root, vpn)
  IN IF t = -1 THEN -1 ELSE mem[t][indexes(vpn)[3]] - 1

map(w, vpn, ppn) ==
  LET t == find_pte_create(w, vpn)
  IN IF t.mem[t.at][indexes(vpn)[3]] # 0 THEN Fail(t, "mapped before mapping")
     ELSE [t EXCEPT !.mem[t.at][indexes(vpn)[3]] = ppn + 1]

unmap(w, vpn) ==
  LET t == find_pte(w.mem, w.root, vpn)
  IN IF translate(w.mem, w.root, vpn) = -1 THEN Fail(w, "invalid before unmapping")
     ELSE [w EXCEPT !.mem[t][indexes(vpn)[3]] = 0]

-----------------------------------------------------------------------------
VpnSeq(start, end) == [i \in 1..(end - start) |-> start + i - 1]

\* MapType::Framed: the kernel's identity mappings own no frame.
map_page(w, vpn) ==
  LET a == frame_alloc(w)
  IN map([a EXCEPT !.data = Append(@, a.ppn)], vpn, a.ppn)

\* The pages [start, end) get fresh frames, which the new segment owns.
add_segment(w, start, end) ==
  LET m == FoldLeft(map_page, [w EXCEPT !.data = <<>>], VpnSeq(start, end))
  IN [m EXCEPT !.segments = Append(@, [start |-> start, end |-> end, data_frames |-> m.data])]

\* copy_data: the words of an ELF segment, page by page; the rest stays zero.
copy_data(w, start, data) ==
  LET word(n) == IF n < Len(data) THEN data[n + 1] ELSE 0
      copyPage(v, vpn) ==
        [v EXCEPT !.mem[translate(v.mem, v.root, vpn)] =
                    [j \in Index |-> word((vpn - start) * Radix + j)]]
  IN FoldLeft(copyPage, w, VpnSeq(start, start + (Len(data) + Radix - 1) \div Radix))

\* The first segment that starts at start is unmapped and removed; its
\* frames are given back one page at a time.
remove_segment_with_start_vpn(w, start) ==
  LET ids == {i \in 1..Len(w.segments) : w.segments[i].start = start}
      seg == w.segments[Min(ids)]
      unmap_page(v, vpn) == unmap(frame_dealloc(v, seg.data_frames[vpn - start + 1]), vpn)
  IN IF ids = {} THEN w
     ELSE [FoldLeft(unmap_page, w, VpnSeq(seg.start, seg.end))
             EXCEPT !.segments = RemoveAt(@, Min(ids))]

DataFrames(segments) ==
  FlattenSeq([i \in 1..Len(segments) |-> segments[i].data_frames])

\* The page table keeps its entries: only the frames of the pages go.
recycle_data_pages(w) ==
  [DropFrames(w, DataFrames(w.segments)) EXCEPT !.segments = <<>>]

\* The address space is dropped: the page table first, then the segments.
DropSpace(w) ==
  [DropFrames(w, w.frames \o DataFrames(w.segments)) EXCEPT !.frames = <<>>, !.segments = <<>>]

map_trampoline(w) == map(w, TRAMPOLINE, TextFrame)

\* A space with the root of its page table only.
new_bare(w) ==
  LET a == frame_alloc(w)
  IN [a EXCEPT !.root = a.ppn, !.frames = <<a.ppn>>, !.segments = <<>>]

\* What new_kernel, from_elf and from_existed_user start from.
NewSpace(w) == map_trampoline(new_bare(w))

\* elf is a sequence of loadable segments [start, end, data].
LoadSegment(w, ph) == copy_data(add_segment(w, ph.start, ph.end), ph.start, ph.data)

from_elf(bare, elf) == FoldLeft(LoadSegment, bare, elf)

\* A guard page follows the last segment.
user_stack_base(elf) == Last(elf).end + 1

\* A mutant: the child's page gets the parent's frame.
CopySegmentShares(w, src, seg) ==
  LET share(v, vpn) == map([v EXCEPT !.data = Append(@, translate(w.mem, src, vpn))],
                           vpn, translate(w.mem, src, vpn))
      m == FoldLeft(share, [w EXCEPT !.data = <<>>], VpnSeq(seg.start, seg.end))
  IN [m EXCEPT !.segments = Append(@, [start |-> seg.start, end |-> seg.end,
                                       data_frames |-> m.data])]

\* One segment of from_existed_user: fresh frames, then the bytes.
CopySegment(w, src, seg) ==
  LET a == add_segment(w, seg.start, seg.end)
      copy(v, vpn) == [v EXCEPT !.mem[translate(v.mem, v.root, vpn)] =
                                  v.mem[translate(v.mem, src, vpn)]]
  IN FoldLeft(copy, a, VpnSeq(seg.start, seg.end))

from_existed_user(bare, src, segments) ==
  LET copy(v, seg) == CopySegment(v, src, seg)
  IN FoldLeft(copy, bare, segments)
====
