----------------------------- MODULE AddressSpace -----------------------------
(***************************************************************************)
(* The address spaces of the kernel and of its processes over one frame    *)
(* allocator: what fork, exec, thread_create, the exit of a thread and of  *)
(* a process, waittid and waitpid do to them (os/src/task/process/mod.rs,  *)
(* task/thread/user_resource.rs and kernel_stack.rs, task/mod.rs).         *)
(*                                                                         *)
(* The user stack and the kernel stack of a thread are one page each, with *)
(* a guard page; the kernel space has the trampoline and the kernel stacks *)
(* only, since its identity mappings own no frame.                         *)
(***************************************************************************)
EXTENDS PageTable, RecycleAllocator

CONSTANTS
  Proc, First,       \* processes; the one the kernel starts
  Kernel,            \* the name of the kernel's space
  Elf,               \* programs: sequences of segments [start, end, data]
  MaxTid,            \* bound: tids 0..MaxTid - 1
  MaxStack,          \* bound: kernel stacks 0..MaxStack - 1
  Value,             \* what a store writes
  MaxOps, MaxStores  \* bounds: the operations, and the stores, of a behaviour

Tid == 0..(MaxTid - 1)
Main == 0
None == -1

ASSUME AddressSpaceAssumption ==
  /\ First \in Proc /\ Kernel \notin Proc
  /\ MaxTid \in Nat \ {0} /\ MaxStack \in Nat \ {0}
  /\ MaxOps \in Nat /\ MaxStores \in Nat

VARIABLES
  memory, frame_allocator,   \* physical frames; [current, recycled]
  space,             \* [Proc \cup {Kernel} -> [root, frames, segments]]
  proc,              \* [Proc -> the PCB and its TCBs]
  kernel_stacks,     \* KERNEL_STACK_ALLOCATOR
  panic,
  ops, stores        \* operations and stores so far, for the bounds

vars == <<memory, frame_allocator, space, proc, kernel_stacks, panic, ops, stores>>

NoSpace == [root |-> None, frames |-> <<>>, segments |-> <<>>]

\* slots: the length of tasks; resource: the tids with a TaskUserResource;
\* stack and trap_cx_ppn: of the TCB of a tid, None when there is none.
NoProc == [state |-> "none", base |-> None, slots |-> 1, resource |-> {},
           stack |-> [t \in Tid |-> None], trap_cx_ppn |-> [t \in Tid |-> None]]

Machine(mem, fa) ==
  [mem |-> mem, current |-> fa.current, recycled |-> fa.recycled, bad |-> "no",
   ppn |-> 0, at |-> 0, data |-> <<>>, root |-> None, frames |-> <<>>, segments |-> <<>>]

\* w goes on to work on the space sp.
At(w, sp) == [w EXCEPT !.root = sp.root, !.frames = sp.frames, !.segments = sp.segments]
SpaceOf(w) == [root |-> w.root, frames |-> w.frames, segments |-> w.segments]

-----------------------------------------------------------------------------
trap_cx_bottom(tid) == TRAP_CONTEXT_BASE - tid
user_stack_bottom(base, tid) == base + 2 * tid
kernel_stack_bottom(id) == TRAMPOLINE - 2 * id - 1

alloc_user_resource(w, base, tid) ==
  add_segment(add_segment(w, user_stack_bottom(base, tid), user_stack_bottom(base, tid) + 1),
              trap_cx_bottom(tid), trap_cx_bottom(tid) + 1)

dealloc_user_resource(w, base, tid) ==
  remove_segment_with_start_vpn(
    remove_segment_with_start_vpn(w, user_stack_bottom(base, tid)), trap_cx_bottom(tid))

alloc_kernel_stack(w, id) ==
  add_segment(w, kernel_stack_bottom(id), kernel_stack_bottom(id) + 1)

DropKernelStack(w, id) == remove_segment_with_start_vpn(w, kernel_stack_bottom(id))

trap_cx_ppn(w, tid) == translate(w.mem, w.root, trap_cx_bottom(tid))

\* What frames hold before they are first given out: not zeros.
Junk == [i \in Index |-> 1]

\* new_kernel, without the identity mappings.
Boot(mem) == NewSpace(Machine(mem, [current |-> FrameBegin, recycled |-> <<>>]))

\* ProcessControlBlock::new for initproc.
Init ==
  \E elf \in Elf, mem \in [Frame -> {Junk}] :
  \E boot \in {Boot(mem)} : \E bare \in {NewSpace(boot)} :
  \E loaded \in {from_elf(bare, elf)} :
  \E user \in {alloc_user_resource(loaded, user_stack_base(elf), Main)} :
  \E kern \in {alloc_kernel_stack(At(user, SpaceOf(boot)), 0)} :
       /\ memory = kern.mem
       /\ frame_allocator = [current |-> kern.current, recycled |-> kern.recycled]
       /\ space = [s \in Proc \cup {Kernel} |->
                     IF s = Kernel THEN SpaceOf(kern)
                     ELSE IF s = First THEN SpaceOf(user) ELSE NoSpace]
       /\ proc = [p \in Proc |->
                    IF p = First
                      THEN [NoProc EXCEPT !.state = "alive", !.base = user_stack_base(elf),
                                          !.resource = {Main}, !.stack[Main] = 0,
                                          !.trap_cx_ppn[Main] = trap_cx_ppn(user, Main)]
                      ELSE NoProc]
       /\ kernel_stacks = alloc(new)
       /\ panic = "no"
       /\ ops = 0 /\ stores = 0

-----------------------------------------------------------------------------
Load(s) == At(Machine(memory, frame_allocator), space[s])

\* The operators are applied one after the other: \E w \in {e} names the
\* outcome e of one.  The machine w is the new one, unless an assertion or an unwrap failed on
\* the way, which stops the kernel.
Commit(w, spaces, procs, stacks) ==
  /\ ops < MaxOps /\ ops' = ops + 1
  /\ UNCHANGED stores
  /\ IF w.bad # "no"
       THEN panic' = w.bad /\ UNCHANGED <<memory, frame_allocator, space, proc, kernel_stacks>>
       ELSE /\ memory' = w.mem
            /\ frame_allocator' = [current |-> w.current, recycled |-> w.recycled]
            /\ space' = spaces /\ proc' = procs /\ kernel_stacks' = stacks
            /\ UNCHANGED panic

Runs(p) == panic = "no" /\ proc[p].state = "alive"
OneThread(p) == proc[p].slots = 1

fork(p, c) ==
  LET id == NextId(kernel_stacks)
  IN /\ Runs(p) /\ OneThread(p) /\ proc[c].state = "none" /\ id < MaxStack
     /\ \E bare \in {NewSpace(Load(p))} :
        \E child \in {from_existed_user(bare, space[p].root, space[p].segments)} :
        \E kern \in {alloc_kernel_stack(At(child, space[Kernel]), id)} :
        Commit(kern, [space EXCEPT ![c] = SpaceOf(child), ![Kernel] = SpaceOf(kern)],
               [proc EXCEPT ![c] = [proc[p] EXCEPT
                                      !.stack = [t \in Tid |-> IF t = Main THEN id ELSE None],
                                      !.trap_cx_ppn[Main] = trap_cx_ppn(child, Main)]],
               alloc(kernel_stacks))

\* A mutant: exec keeps the cached frame of the trap context.
ExecutedStale(p, base, ppn) == [proc EXCEPT ![p].base = base]

Executed(p, base, ppn) == [proc EXCEPT ![p].base = base, ![p].trap_cx_ppn[Main] = ppn]

exec(p, elf) ==
  /\ Runs(p) /\ OneThread(p)
  /\ \E bare \in {NewSpace(Load(p))} :
     \E loaded \in {from_elf(bare, elf)} :
     \E dropped \in {DropSpace(At(loaded, space[p]))} :
     \E final \in {alloc_user_resource(At(dropped, SpaceOf(loaded)), user_stack_base(elf), Main)} :
     Commit(final, [space EXCEPT ![p] = SpaceOf(final)],
            Executed(p, user_stack_base(elf), trap_cx_ppn(final, Main)), kernel_stacks)

\* Bound: the stacks stay below the trap contexts, as they do where a space has
\* 2^27 pages.
Fits(base, tid) == user_stack_bottom(base, tid) < trap_cx_bottom(tid)

sys_thread_create(p, tid) ==
  LET id == NextId(kernel_stacks)
      user == alloc_user_resource(Load(p), proc[p].base, tid)
      kern == alloc_kernel_stack(At(user, space[Kernel]), id)
  IN /\ Runs(p) /\ id < MaxStack /\ Fits(proc[p].base, tid)
     /\ proc[p].stack[tid] = None /\ \A t \in Tid : t < tid => proc[p].stack[t] # None
     /\ Commit(kern, [space EXCEPT ![p] = SpaceOf(user), ![Kernel] = SpaceOf(kern)],
               [proc EXCEPT ![p].resource = @ \cup {tid}, ![p].stack[tid] = id,
                            ![p].slots = Max({@, tid + 1}),
                            ![p].trap_cx_ppn[tid] = trap_cx_ppn(user, tid)],
               alloc(kernel_stacks))

\* exit of a thread that is not the main one.
ThreadExit(p, tid) ==
  LET user == dealloc_user_resource(Load(p), proc[p].base, tid)
  IN /\ Runs(p) /\ tid # Main /\ tid \in proc[p].resource
     /\ Commit(user, [space EXCEPT ![p] = SpaceOf(user)],
               [proc EXCEPT ![p].resource = @ \ {tid}], kernel_stacks)

sys_waittid(p, tid) ==
  LET id == proc[p].stack[tid]
      kern == DropKernelStack(Load(Kernel), id)
  IN /\ Runs(p) /\ id # None /\ tid \notin proc[p].resource
     /\ Commit(kern, [space EXCEPT ![Kernel] = SpaceOf(kern)],
               [proc EXCEPT ![p].stack[tid] = None, ![p].trap_cx_ppn[tid] = None],
               dealloc(kernel_stacks, id))

\* exit_current_and_run_next of thread tid terminates the process: its own
\* user resource goes first, then the others', then the data pages, then the
\* kernel stacks of the other threads.
Terminate(p, tid) ==
  LET rest == SetToSortSeq(proc[p].resource \ {tid}, <)
      others == SetToSortSeq({t \in Tid \ {tid} : proc[p].stack[t] # None}, <)
      release(w, t) == dealloc_user_resource(w, proc[p].base, t)
      user == recycle_data_pages(FoldLeft(release, release(Load(p), tid), rest))
      freeStack(w, t) == DropKernelStack(w, proc[p].stack[t])
      kern == FoldLeft(freeStack, At(user, space[Kernel]), others)
      giveBack(a, t) == dealloc(a, proc[p].stack[t])
  IN /\ Runs(p) /\ tid \in proc[p].resource
     /\ Commit(kern, [space EXCEPT ![p] = SpaceOf(user), ![Kernel] = SpaceOf(kern)],
               [proc EXCEPT ![p] = [NoProc EXCEPT !.state = "zombie",
                                                  !.stack[tid] = proc[p].stack[tid]]],
               FoldLeft(giveBack, kernel_stacks, others))

\* waitpid drops the PCB: the space, then the TCB of the last thread.
Reap(p) ==
  LET user == DropSpace(Load(p))
      t == CHOOSE t \in Tid : proc[p].stack[t] # None
      kern == DropKernelStack(At(user, space[Kernel]), proc[p].stack[t])
  IN /\ panic = "no" /\ proc[p].state = "zombie"
     /\ Commit(kern, [space EXCEPT ![p] = NoSpace, ![Kernel] = SpaceOf(kern)],
               [proc EXCEPT ![p] = NoProc], dealloc(kernel_stacks, proc[p].stack[t]))

Store(f, i, x) ==
  /\ stores < MaxStores /\ stores' = stores + 1
  /\ memory' = [memory EXCEPT ![f][i] = x]
  /\ UNCHANGED <<frame_allocator, space, proc, kernel_stacks, panic, ops>>

\* A user instruction stores through the page table; translated_refmut does
\* the same for the kernel.
StoreUser(p, vpn, i, x) ==
  LET f == translate(memory, space[p].root, vpn)
  IN /\ Runs(p) /\ vpn <= TRAP_CONTEXT_BASE - MaxTid /\ f # -1
     /\ Store(f, i, x)

\* The kernel writes a trap context through the frame cached in the TCB.
StoreTrapContext(p, tid, x) ==
  LET f == proc[p].trap_cx_ppn[tid]
  IN /\ Runs(p) /\ tid \in proc[p].resource
     /\ Store(f, 0, x)

Next ==
  \E p \in Proc :
    \/ \E c \in Proc : fork(p, c)
    \/ \E elf \in Elf : exec(p, elf)
    \/ \E tid \in Tid : \/ sys_thread_create(p, tid) \/ ThreadExit(p, tid)
                        \/ sys_waittid(p, tid) \/ Terminate(p, tid)
    \/ Reap(p)
    \/ \E vpn \in Vpn, i \in Index, x \in Value : StoreUser(p, vpn, i, x)
    \/ \E tid \in Tid, x \in Value : StoreTrapContext(p, tid, x)

Spec == Init /\ [][Next]_vars

-----------------------------------------------------------------------------
Spaces == Proc \cup {Kernel}
Word == 0..FrameEnd

TypeOK ==
  /\ memory \in [Frame -> [Index -> Word]]
  /\ frame_allocator.current \in FrameBegin..FrameEnd
  /\ frame_allocator.recycled \in Seq(Frame)
  /\ \A s \in Spaces : /\ space[s].root \in Frame \cup {None}
                       /\ space[s].frames \in Seq(Frame)
                       /\ \A i \in 1..Len(space[s].segments) :
                            /\ space[s].segments[i].start \in Vpn
                            /\ space[s].segments[i].end \in Vpn
                            /\ space[s].segments[i].data_frames \in Seq(Frame)
  /\ proc \in [Proc -> [state : {"none", "alive", "zombie"}, base : Vpn \cup {None},
                        slots : 1..MaxTid, resource : SUBSET Tid,
                        stack : [Tid -> (0..(MaxStack - 1)) \cup {None}],
                        trap_cx_ppn : [Tid -> Frame \cup {None}]]]
  /\ kernel_stacks \in Allocator
  /\ ops \in 0..MaxOps /\ stores \in 0..MaxStores

Owned(s) == space[s].frames \o DataFrames(space[s].segments)

\* Every frame the allocator ever gave out is in the hands of exactly one
\* owner: a page table, a segment of one address space, or the stack of
\* recycled frames.  So no frame is lost, none is shared, and none is freed
\* twice, whatever the order of fork, exec, exit and waitpid.
FramesExact ==
  LET count(seq, f) == Cardinality({i \in 1..Len(seq) : seq[i] = f})
      owners(f) == MapThenSumSet(LAMBDA s : count(Owned(s), f), Spaces)
  IN \A f \in Frame :
       count(frame_allocator.recycled, f) + owners(f) =
         IF f \in FrameBegin..(frame_allocator.current - 1) THEN 1 ELSE 0

\* The page table of every live space says what its segments say: a page of
\* a segment is mapped to the frame the segment owns, the trampoline to the
\* kernel's text, and nothing else is mapped.
TablesAgree ==
  \A s \in {Kernel} \cup {p \in Proc : proc[p].state = "alive"} :
    LET segs == {space[s].segments[i] : i \in 1..Len(space[s].segments)}
        backing(vpn) == {g.data_frames[vpn - g.start + 1] :
                           g \in {h \in segs : vpn \in h.start..(h.end - 1)}}
    IN \A vpn \in Vpn :
         {translate(memory, space[s].root, vpn)} =
           IF vpn = TRAMPOLINE THEN {TextFrame}
           ELSE IF backing(vpn) = {} THEN {None} ELSE backing(vpn)

\* No assertion of map, unmap, the frame allocator or the stack allocator
\* fails; only a lack of frames may stop the kernel.
NoPanic == panic \in {"no", "no frame"} /\ ~kernel_stacks.failed

\* Processes see private memory, as UserMemory describes it: through every
\* reuse of frames a new page is zero, fork copies, and no store of one
\* process, nor the kernel's store into a trap context, shows in another.
NoPage == [i \in Index |-> -1]

Image(elf) ==
  [v \in Vpn \ {TRAMPOLINE} |->
     LET ph == {i \in 1..Len(elf) : v \in elf[i].start..(elf[i].end - 1)}
         at(i, j) == (v - elf[i].start) * Radix + j + 1
     IN IF ph # {} THEN [j \in Index |-> IF at(Min(ph), j) <= Len(elf[Min(ph)].data)
                                           THEN elf[Min(ph)].data[at(Min(ph), j)] ELSE 0]
        ELSE IF v \in {user_stack_base(elf), TRAP_CONTEXT_BASE} THEN ZeroPage
        ELSE NoPage]

Memory == INSTANCE UserMemory WITH
  Vpn <- Vpn \ {TRAMPOLINE}, Program <- {Image(elf) : elf \in Elf},
  image <- [p \in Proc |-> [v \in Vpn \ {TRAMPOLINE} |->
              LET f == translate(memory, space[p].root, v)
              IN IF proc[p].state # "alive" \/ f = None THEN NoPage ELSE memory[f]]]

MemorySpec == Memory!Spec
====
