----------------------------- MODULE ProcessTree -----------------------------
(***************************************************************************)
(* Processes and threads as resources: fork, thread_create, exit, waitpid  *)
(* and waittid (os/src/task/process/mod.rs, os/src/task/mod.rs,            *)
(* os/src/syscall/process.rs and thread.rs) with the three allocators of   *)
(* identifiers and the reference counts that keep a PCB or a TCB alive.    *)
(*                                                                         *)
(* A TCB is named by its kernel stack, which lives exactly as long.  A     *)
(* thread that gave up the CPU inside a system call has a set of held      *)
(* references: "process", a strong reference to its own PCB on its kernel  *)
(* stack (sys_read, sys_write, sys_semaphore_down, sys_condvar_wait), and  *)
(* "queue", a reference to its TCB from a waiter_queue that its own kernel *)
(* stack keeps alive.  The kernel is not preempted, so a system call is    *)
(* one step up to the point at which it gives up the CPU.                  *)
(***************************************************************************)
EXTENDS RecycleAllocator, FiniteSetsExt

CONSTANTS
  MaxPid,            \* bound: pids 0..MaxPid - 1
  MaxTask,           \* bound: kernel stacks 0..MaxTask - 1
  MaxTid,            \* bound: tids 0..MaxTid - 1 of a process
  Holds              \* what a system call that waits may hold

Pid == 0..(MaxPid - 1)
Task == 0..(MaxTask - 1)
Tid == 0..(MaxTid - 1)
None == -1
INITPROC == 0

ASSUME ProcessTreeAssumption ==
  /\ MaxPid \in Nat \ {0} /\ MaxTask \in Nat \ {0} /\ MaxTid \in Nat \ {0}
  /\ Holds \subseteq SUBSET {"process", "queue"}

VARIABLES
  pid_allocator, kernel_stack_allocator,
  pcb,               \* [Pid -> PCB]
  tcb,               \* [Task -> TCB]
  pid2pcb,           \* the pids that PID2PCB maps
  leaked,            \* references to a PCB on kernel stacks never unwound
  current,           \* the TCB whose kernel stack is in use
  panic              \* the assertion of the kernel that failed, or "no"

allocators == <<pid_allocator, kernel_stack_allocator>>
vars == <<allocators, pcb, tcb, pid2pcb, leaked, current, panic>>

NoPcb == [state |-> "none", killed |-> FALSE, parent |-> None,
          children |-> <<>>, tasks |-> <<>>, tids |-> new]
NoTcb == [state |-> "none", process |-> None, tid |-> None, holds |-> {}]

\* ProcessControlBlock::new and fork: one thread, with tid 0.
NewProcess(parent, k) ==
  [NoPcb EXCEPT !.state = "alive", !.parent = parent, !.tasks = <<k>>, !.tids = alloc(new)]

NewTask(p, tid) == [NoTcb EXCEPT !.state = "live", !.process = p, !.tid = tid]

Init ==
  /\ pid_allocator = alloc(new)
  /\ kernel_stack_allocator = alloc(new)
  /\ pcb = [p \in Pid |-> IF p = INITPROC THEN NewProcess(None, 0) ELSE NoPcb]
  /\ tcb = [k \in Task |-> IF k = 0 THEN NewTask(INITPROC, 0) ELSE NoTcb]
  /\ pid2pcb = {INITPROC}
  /\ leaked = [p \in Pid |-> 0]
  /\ current = 0
  /\ panic = "no"

-----------------------------------------------------------------------------
Process(k) == tcb[k].process

\* Thread k runs in user mode and enters the kernel.
Runs(k) ==
  /\ panic = "no" /\ pcb[INITPROC].state = "alive"
  /\ tcb[k].state = "live" /\ tcb[k].holds = {}
  /\ current' = k

Panics(why) ==
  /\ panic' = why
  /\ UNCHANGED <<allocators, pcb, tcb, pid2pcb, leaked>>

\* A system call waits (a pipe, the console, a lock), and later goes on.
Wait(k, holds) ==
  /\ Runs(k)
  /\ tcb' = [tcb EXCEPT ![k].holds = holds]
  /\ UNCHANGED <<allocators, pcb, pid2pcb, leaked, panic>>

Resume(k) ==
  /\ panic = "no" /\ pcb[INITPROC].state = "alive"
  /\ tcb[k].state = "live" /\ tcb[k].holds # {}
  /\ current' = k
  /\ tcb' = [tcb EXCEPT ![k].holds = {}]
  /\ UNCHANGED <<allocators, pcb, pid2pcb, leaked, panic>>

thread_count(p) == Len(pcb[p].tasks)

sys_fork(k) ==
  LET p == Process(k)
      c == NextId(pid_allocator)
      n == NextId(kernel_stack_allocator)
  IN /\ Runs(k)
     /\ thread_count(p) = 1
     /\ c \in Pid /\ n \in Task
     /\ pid_allocator' = alloc(pid_allocator)
     /\ kernel_stack_allocator' = alloc(kernel_stack_allocator)
     /\ pcb' = [pcb EXCEPT ![c] = NewProcess(p, n), ![p].children = Append(@, c)]
     /\ tcb' = [tcb EXCEPT ![n] = NewTask(c, 0)]
     /\ pid2pcb' = pid2pcb \cup {c}
     /\ UNCHANGED <<leaked, panic>>

\* The assertion of fork, and of exec, on the number of threads.
ForkOrExecAsserts(k) ==
  /\ Runs(k)
  /\ thread_count(Process(k)) # 1
  /\ Panics("thread_count")

\* None is pushed until there is a slot tid; n goes there.
Placed(tasks, tid, n) ==
  [i \in 1..(IF tid < Len(tasks) THEN Len(tasks) ELSE tid + 1) |->
     IF i = tid + 1 THEN n ELSE IF i <= Len(tasks) THEN tasks[i] ELSE None]

sys_thread_create(k) ==
  LET p == Process(k)
      tid == NextId(pcb[p].tids)
      n == NextId(kernel_stack_allocator)
  IN /\ Runs(k)
     /\ tid \in Tid /\ n \in Task
     /\ kernel_stack_allocator' = alloc(kernel_stack_allocator)
     /\ tcb' = [tcb EXCEPT ![n] = NewTask(p, tid)]
     /\ pcb' = [pcb EXCEPT ![p].tids = alloc(@),
                           ![p].tasks = Placed(@, tid, n)]
     /\ UNCHANGED <<pid_allocator, pid2pcb, leaked, panic>>

\* The filled slots of tasks, and those whose TCB no waiter_queue refers to.
Filled(tasks) == {i \in 1..Len(tasks) : tasks[i] # None}
Unqueued(tasks, slots) == {i \in slots : "queue" \notin tcb[tasks[i]].holds}

\* The references to TCBs in some slots of tasks are dropped, in their order: a
\* TCB that no waiter_queue still refers to is freed, and its kernel stack with
\* it.  The rest of the TCBs are as in tcbs.
DropTasks(tasks, slots, tcbs) ==
  LET freed == Unqueued(tasks, slots)
  IN /\ \E order \in [1..Cardinality(freed) -> freed] :
          /\ \A i, j \in DOMAIN order : i < j => order[i] < order[j]
          /\ kernel_stack_allocator' =
               dealloc_each(kernel_stack_allocator, [i \in DOMAIN order |-> tasks[order[i]]])
     /\ tcb' = [t \in Task |->
                  IF \E i \in freed : tasks[i] = t THEN NoTcb
                  ELSE IF \E i \in slots : tasks[i] = t THEN [tcb[t] EXCEPT !.state = "leaked"]
                  ELSE tcbs[t]]

\* waittid finds no such thread, or one that runs: nothing changes.
WaitTidIdle(k, tid) ==
  LET tasks == pcb[Process(k)].tasks
  IN /\ Runs(k)
     /\ \/ tcb[k].tid = tid
        \/ Len(tasks) < tid
        \/ tid < Len(tasks) /\ tasks[tid + 1] = None
        \/ tid < Len(tasks) /\ tasks[tid + 1] # None /\ tcb[tasks[tid + 1]].state = "live"
     /\ UNCHANGED <<allocators, pcb, tcb, pid2pcb, leaked, panic>>

\* tasks[tid] is evaluated with tid = tasks.len().
WaitTidIndex(k, tid) ==
  /\ Runs(k)
  /\ tcb[k].tid # tid /\ tid = Len(pcb[Process(k)].tasks)
  /\ Panics("index")

WaitTidExited(k, tid) ==
  LET p == Process(k)
      tasks == pcb[p].tasks
  IN /\ Runs(k)
     /\ tid < Len(tasks) /\ tasks[tid + 1] # None
     /\ tcb[tasks[tid + 1]].state = "exited"
     /\ pcb' = [pcb EXCEPT ![p].tasks[tid + 1] = None, ![p].tids = dealloc(@, tid)]
     /\ DropTasks(tasks, {tid + 1}, tcb)
     /\ UNCHANGED <<pid_allocator, pid2pcb, leaked, panic>>

sys_waittid(k, tid) ==
  WaitTidIdle(k, tid) \/ WaitTidIndex(k, tid) \/ WaitTidExited(k, tid)

-----------------------------------------------------------------------------
\* A mutant: waitpid looks at the oldest child only.
OldestZombie(p, w) ==
  {i \in 1..Len(pcb[p].children) :
     i = 1 /\ pcb[pcb[p].children[i]].state = "zombie" /\ w \in {-1, pcb[p].children[i]}}

\* Where the zombies that waitpid(w) may reap are among the children; w = -1: any.
Zombie(p, w) ==
  {i \in 1..Len(pcb[p].children) :
     pcb[pcb[p].children[i]].state = "zombie" /\ w \in {-1, pcb[p].children[i]}}

\* The first of them is the one that is found.
Found(p, w) == pcb[p].children[Min(Zombie(p, w))]

\* Vec::remove.
remove(s, i) == [j \in 1..(Len(s) - 1) |-> IF j < i THEN s[j] ELSE s[j + 1]]

strong_count(c) == 1 + leaked[c] + (IF c \in pid2pcb THEN 1 ELSE 0)

\* The last reference to the PCB goes: pid, TCBs and kernel stacks with it.
WaitPidReap(k, w) ==
  LET p == Process(k)
      c == Found(p, w)
  IN /\ Runs(k)
     /\ Zombie(p, w) # {}
     /\ strong_count(c) = 1
     /\ pid_allocator' = dealloc(pid_allocator, c)
     /\ pcb' = [pcb EXCEPT ![p].children = remove(@, Min(Zombie(p, w))), ![c] = NoPcb]
     /\ DropTasks(pcb[c].tasks, Filled(pcb[c].tasks), tcb)
     /\ UNCHANGED <<pid2pcb, leaked, panic>>

WaitPidAsserts(k, w) ==
  /\ Runs(k)
  /\ Zombie(Process(k), w) # {}
  /\ strong_count(Found(Process(k), w)) # 1
  /\ Panics("strong_count")

\* -1 or -2: no such child, or none that is a zombie.
WaitPidIdle(k, w) ==
  /\ Runs(k)
  /\ Zombie(Process(k), w) = {}
  /\ UNCHANGED <<allocators, pcb, tcb, pid2pcb, leaked, panic>>

sys_waitpid(k, w) == WaitPidReap(k, w) \/ WaitPidAsserts(k, w) \/ WaitPidIdle(k, w)

-----------------------------------------------------------------------------
\* call_kernel_signal_handler marks the process of k.
SetKilled(k) ==
  /\ Runs(k)
  /\ pcb' = [pcb EXCEPT ![Process(k)].killed = TRUE]
  /\ UNCHANGED <<allocators, tcb, pid2pcb, leaked, panic>>

\* A thread exits and its process goes on.
ExitThread(k) ==
  /\ Runs(k)
  /\ tcb[k].tid # 0 /\ ~pcb[Process(k)].killed
  /\ tcb' = [tcb EXCEPT ![k].state = "exited"]
  /\ UNCHANGED <<allocators, pcb, pid2pcb, leaked, panic>>

\* Mutants: the first thread is kept, not the current one; the children keep
\* their parent, or are not handed over.
KeptFirst(k) == Head(pcb[Process(k)].tasks)
AdoptedKeepParent(p) ==
  [pcb EXCEPT ![INITPROC].children = @ \o pcb[p].children]
AdoptedNowhere(p) == pcb

remove_from_pid2process(p) == pid2pcb \ {p}

\* The TCB that stays in the zombie: its kernel stack is in use.
Kept(k) == k

\* The children of p go to INITPROC.
Adopted(p) ==
  [q \in Pid |->
     IF q \in Elements(pcb[p].children) THEN [pcb[q] EXCEPT !.parent = INITPROC]
     ELSE IF q = INITPROC THEN [pcb[q] EXCEPT !.children = @ \o pcb[p].children]
     ELSE pcb[q]]

\* The main thread exits, or a thread of a killed process.  The loop over the
\* children borrows INITPROC, which is borrowed already when it is the one
\* that exits.
Terminate(k) ==
  LET p == Process(k)
      tasks == pcb[p].tasks
      others == {i \in Filled(tasks) : tasks[i] # Kept(k)}
      stuck == {tasks[i] : i \in {j \in others : "process" \in tcb[tasks[j]].holds}}
  IN /\ Runs(k)
     /\ tcb[k].tid = 0 \/ pcb[p].killed
     /\ pid2pcb' = remove_from_pid2process(p)
     /\ pcb' = [Adopted(p) EXCEPT ![p].state = "zombie", ![p].children = <<>>,
                                  ![p].tasks = <<Kept(k)>>]
     /\ DropTasks(tasks, others, [tcb EXCEPT ![Kept(k)].state = "exited"])
     /\ leaked' = [leaked EXCEPT ![p] = @ + Cardinality(stuck)]
     /\ panic' = IF p = INITPROC /\ pcb[p].children # <<>> THEN "borrow" ELSE panic
     /\ UNCHANGED pid_allocator

exit_current_and_run_next(k) == ExitThread(k) \/ Terminate(k)

-----------------------------------------------------------------------------
\* initproc: one fork, then wait until it returns -1, then exit.
InitProgram(k) ==
  \/ pid_allocator.current = 1 /\ sys_fork(k)
  \/ pid_allocator.current > 1 /\ pcb[INITPROC].children # <<>> /\ sys_waitpid(k, -1)
  \/ pid_allocator.current > 1 /\ pcb[INITPROC].children = <<>>
       /\ exit_current_and_run_next(k)

\* Any other program calls anything in any order.
UserProgram(k) ==
  \/ sys_fork(k)
  \/ ForkOrExecAsserts(k)
  \/ sys_thread_create(k)
  \/ \E tid \in 0..MaxTid : sys_waittid(k, tid)
  \/ \E w \in Pid \cup {-1} : sys_waitpid(k, w)
  \/ \E holds \in Holds : Wait(k, holds)
  \/ SetKilled(k)
  \/ exit_current_and_run_next(k)

Step(k) ==
  \/ Process(k) = INITPROC /\ InitProgram(k)
  \/ Process(k) # INITPROC /\ UserProgram(k)

Next == \E k \in Task : Step(k) \/ Resume(k)

Spec == Init /\ [][Next]_vars

InitprocStep == \E k \in Task : Process(k) = INITPROC /\ InitProgram(k)

\* The ready queue is first in, first out: every thread that can run does.
FairSpec == Spec /\ WF_vars(InitprocStep)

-----------------------------------------------------------------------------
Exists == {p \in Pid : pcb[p].state # "none"}
Alive == {p \in Pid : pcb[p].state = "alive"}

TypeOK ==
  /\ pid_allocator \in Allocator /\ kernel_stack_allocator \in Allocator
  /\ \A p \in Pid :
       /\ pcb[p].state \in {"none", "alive", "zombie"} /\ pcb[p].killed \in BOOLEAN
       /\ pcb[p].parent \in Pid \cup {None}
       /\ pcb[p].children \in Seq(Pid) /\ pcb[p].tasks \in Seq(Task \cup {None})
       /\ pcb[p].tids \in Allocator
  /\ tcb \in [Task -> [state : {"none", "live", "exited", "leaked"}, process : Pid \cup {None},
                       tid : Tid \cup {None}, holds : SUBSET {"process", "queue"}]]
  /\ pid2pcb \subseteq Pid
  /\ leaked \in [Pid -> 0..MaxTask]
  /\ current \in Task
  /\ panic \in {"no", "thread_count", "index", "strong_count", "borrow"}

\* Identifiers: a pid is taken exactly while its PCB exists, a kernel stack
\* exactly while its TCB does, and in a process that is alive a tid exactly
\* while its slot of tasks is filled, by the TCB with that tid; no allocator
\* met a failed assertion.  PID2PCB maps the processes that are alive.  The
\* kernel stack in use belongs to a TCB that exists, through every exit,
\* waittid and waitpid, and no thread of a zombie is live.
IdsExact ==
  /\ ~pid_allocator.failed /\ ~kernel_stack_allocator.failed
  /\ WellFormed(pid_allocator) /\ WellFormed(kernel_stack_allocator)
  /\ InUse(pid_allocator) = Exists
  /\ InUse(kernel_stack_allocator) = {k \in Task : tcb[k].state # "none"}
  /\ pid2pcb = Alive
  /\ \A p \in Alive :
       LET tasks == pcb[p].tasks
       IN /\ ~pcb[p].tids.failed
          /\ InUse(pcb[p].tids) = {i - 1 : i \in {j \in 1..Len(tasks) : tasks[j] # None}}
          /\ \A i \in 1..Len(tasks) : tasks[i] # None =>
               tcb[tasks[i]].tid = i - 1 /\ tcb[tasks[i]].process = p
  /\ tcb[current].state # "none"
  /\ \A k \in Task : tcb[k].state = "live" => pcb[Process(k)].state = "alive"

\* waitpid holds the last reference to the zombie it found (the assertion in
\* sys_waitpid), so reaping it frees its pid and its kernel stack.
LastReference == panic # "strong_count"

\* The process whose children name c.
ParentOf(c) ==
  LET P == {p \in Pid : c \in Elements(pcb[p].children)}
  IN IF P = {} THEN None ELSE CHOOSE p \in P : TRUE

Tree == INSTANCE FamilyTree WITH
  Init0 <- INITPROC, NoPid <- None,
  parentOf <- [c \in Pid |-> ParentOf(c)],
  living <- Alive, dead <- Exists \ Alive

\* fork, exit and waitpid keep the tree of processes that FamilyTree describes:
\* orphans go to initproc, and only its parent takes a zombie out of the tree.
TreeSpec == Tree!Spec

\* Each process but initproc is in the children of exactly one process, once,
\* which is alive and is its parent.  initproc has no child left when it exits,
\* whoever forked, died and was adopted before: the loop over its children
\* never borrows it twice.
OneParent ==
  /\ panic # "borrow"
  /\ \A c \in Exists \ {INITPROC} :
       /\ pcb[c].parent \in Alive
       /\ \A p \in Pid : Cardinality({i \in 1..Len(pcb[p].children) : pcb[p].children[i] = c})
                           = IF p = pcb[c].parent THEN 1 ELSE 0

\* A zombie that initproc has inherited is reaped.
OrphansReaped ==
  \A c \in Pid : pcb[c].state = "zombie" /\ pcb[c].parent = INITPROC ~>
                   pcb[c].state # "zombie" \/ panic # "no"
====
