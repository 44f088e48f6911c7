------------------------------ MODULE MCLiveness ------------------------------
(***************************************************************************)
(* What must eventually happen, on small instances of the scheduler and    *)
(* the synchronisation objects (TaskSync), a pipe, signals and the tree of *)
(* processes.  They share no state, so a behaviour exercises one of them:  *)
(* part says which, and the others stay as they start.  Fairness is asked  *)
(* of that part.                                                           *)
(***************************************************************************)
EXTENDS Integers, Sequences, TLC

CONSTANTS i0, m0, t1, p0, ini, o0, NoTask, NoProc, NoObj, NoThread

VARIABLES
  part,
  ready_queue, current, status, timers, now, power, kpc, kobj, exited, sigkill, killed,
  zombie, exiting, exit_todo, kind, locked, count, waiter_queue, holds, permits,
  arr, head, tail, ring_status, fd_table, live, pipe_pc, buf_len, already, cpu, turns,
  byte, eof, panicked,
  signals, signal_mask, handling_signal, signal_actions, frozen, sig_killed, is_zombie,
  sig_pc, kernel, trap_cx, trap_cx_backup, interrupted,
  pid_allocator, kernel_stack_allocator, pcb, tcb, pid2pcb, leaked, tree_current, panic

taskVars == <<ready_queue, current, status, timers, now, power, kpc, kobj, exited, sigkill,
              killed, zombie, exiting, exit_todo, kind, locked, count, waiter_queue, holds,
              permits>>
pipeVars == <<arr, head, tail, ring_status, fd_table, live, pipe_pc, buf_len, already, cpu,
              turns, byte, eof, panicked>>
signalVars == <<signals, signal_mask, handling_signal, signal_actions, frozen, sig_killed,
                is_zombie, sig_pc, kernel, trap_cx, trap_cx_backup, interrupted>>
treeVars == <<pid_allocator, kernel_stack_allocator, pcb, tcb, pid2pcb, leaked, tree_current,
              panic>>
allVars == <<part, taskVars, pipeVars, signalVars, treeVars>>

\* initproc, and a process with two threads and one object.
Tasks == INSTANCE TaskSync WITH
  Task <- {i0, m0, t1}, Proc <- {ini, p0}, InitProc <- ini,
  ProcOf <- (i0 :> ini) @@ (m0 :> p0) @@ (t1 :> p0), Main <- (ini :> i0) @@ (p0 :> m0),
  Obj <- {o0}, OwnerOf <- (o0 :> p0), MaxTime <- 1, MaxCount <- 0

\* A parent and a child with one thread each.
Ring == INSTANCE Pipe WITH
  Thread <- {m0, t1}, Proc <- {p0, ini}, First <- p0,
  ProcOf <- (m0 :> p0) @@ (t1 :> ini), Main <- (p0 :> m0) @@ (ini :> t1),
  Byte <- {0}, Zero <- 0, RING_BUFFER_SIZE <- 2, Lens <- {3}, MaxFd <- 2,
  status <- ring_status, pc <- pipe_pc

\* Two threads; every user signal has a handler that keeps the others out.
Handlers == {[handler |-> 1, mask |-> {10}]}

Signalling == INSTANCE Signals WITH
  Sig <- {9, 10, 18, 19}, Thread <- {m0, t1}, Main <- m0,
  InitAction <- Handlers, Action <- Handlers, Mask <- {}, Progress <- 1,
  killed <- sig_killed, pc <- sig_pc

\* Four processes with one thread each.
Tree == INSTANCE ProcessTree WITH
  MaxPid <- 4, MaxTask <- 4, MaxTid <- 1, Holds <- {}, current <- tree_current

MCInit ==
  /\ part \in {"tasks", "pipe", "signals", "tree"}
  /\ Ring!Init /\ Signalling!Init /\ Tree!Init
  /\ Tasks!Init /\ (part # "tasks" => ready_queue = <<i0, m0>>)

MCNext ==
  \/ /\ part = "tasks" /\ Tasks!Next
     /\ UNCHANGED <<part, pipeVars, signalVars, treeVars>>
  \/ /\ part = "pipe" /\ Ring!Next
     /\ UNCHANGED <<part, taskVars, signalVars, treeVars>>
  \/ /\ part = "signals" /\ Signalling!Next
     /\ UNCHANGED <<part, taskVars, pipeVars, treeVars>>
  \/ /\ part = "tree" /\ Tree!Next
     /\ UNCHANGED <<part, taskVars, pipeVars, signalVars>>

\* The fairness of each part, for the one that moves.
Fairness ==
  /\ WF_taskVars(part = "tasks" /\ Tasks!Kernel)
  /\ SF_taskVars(part = "tasks" /\ Tasks!AdvanceClock)
  /\ SF_taskVars(part = "tasks" /\ Tasks!Interrupt)
  /\ \A t \in {m0, t1} :
       /\ WF_pipeVars(part = "pipe" /\ Ring!Kernel(t))
       /\ SF_pipeVars(part = "pipe" /\ Ring!ReadTop(t) /\ Ring!all_write_ends_closed)
       /\ SF_signalVars(part = "signals" /\ Signalling!handle_signals(t))
       /\ SF_signalVars(part = "signals" /\ Signalling!Tick(t))
  /\ WF_treeVars(part = "tree" /\ Tree!InitprocStep)

MCSpec == MCInit /\ [][MCNext]_allVars /\ Fairness

-----------------------------------------------------------------------------
(* Properties *)

\* run_tasks and fetch_task: a thread that is ready gets the CPU, however the
\* others yield, block, wake and exit.
ReadyGetsCpu == part = "tasks" => Tasks!ReadyRuns

\* check_timer: a thread that sleeps is made ready once its time has come,
\* whatever else is in the heap of timers.
SleeperWakes == part = "tasks" => Tasks!SleepEnds

\* A process with SIGKILL pending becomes a zombie, whatever its threads wait
\* for, as long as one of them comes to the end of a trap.
KillEndsProcess == part = "tasks" => Tasks!KillTerminates

\* Pipe::read returns once every write end is closed, and a reader and a writer
\* that are both inside their loops do not stay so with nothing moved: each gives
\* the CPU up when it can do nothing.
PipeProgress == part = "pipe" => Ring!ReadEnds /\ Ring!NoStandstill

\* handle_signals and trap_handler: SIGKILL ends the process, frozen or not, and
\* so does the mark that call_kernel_signal_handler leaves.
SigkillEnds == part = "signals" => Signalling!KillTerminates /\ Signalling!KilledTerminates

\* handle_signals: a frozen process that gets SIGCONT runs again.
SigcontResumes == part = "signals" => Signalling!ContResumes

\* initproc reaps what exit_current_and_run_next leaves to it.
OrphansAreReaped == part = "tree" => Tree!OrphansReaped
====
