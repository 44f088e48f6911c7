------------------------------- MODULE TaskSync -------------------------------
(***************************************************************************)
(* Threads of several processes that synchronise through the kernel:       *)
(* mutexes, semaphores and condition variables (os/src/sync and            *)
(* os/src/syscall/sync.rs), sleeping (os/src/timer), the timer interrupt,  *)
(* SIGKILL at the end of a trap (os/src/trap/mod.rs), and the exit of a    *)
(* thread or of its whole process (os/src/task/mod.rs).                    *)
(*                                                                         *)
(* A thread that gave the CPU up inside a syscall continues there when it  *)
(* is scheduled again; kpc says where, and kobj with which object:         *)
(*   "user"      it runs user code, and may trap                           *)
(*   "trap_end"  it is past the body of trap_handler's match               *)
(*   "tick"      it is in check_timer, called for a timer interrupt        *)
(*   "lock"      it is about to (re)enter Mutex::lock on kobj              *)
(*   "locked"    it waits in MutexBlocking::lock on kobj                   *)
(*   "downed"    it waits in Semaphore::down on kobj                       *)
(*   "dead"      it has exited                                             *)
(* A mutex, semaphore or condition variable is an object; kind says what   *)
(* it was created as.  Every object sits in a list of one process, and     *)
(* only the threads of that process can name it.                           *)
(***************************************************************************)
EXTENDS Scheduler, Integers, FiniteSets

CONSTANTS
  Proc, InitProc,    \* processes; the one that runs initproc
  NoProc,
  ProcOf,            \* the process of each task
  Main,              \* the main thread (tid 0) of each process
  Obj, NoObj,        \* sync objects that may be created
  OwnerOf,           \* the process whose lists an object belongs to
  MaxTime,           \* bound: the clock stops here
  MaxCount           \* bound: the largest count of a semaphore

ASSUME ProcAssumption ==
  /\ IsFiniteSet(Proc)
  /\ InitProc \in Proc
  /\ NoProc \notin Proc
  /\ ProcOf \in [Task -> Proc]
  /\ Main \in [Proc -> Task]
  /\ \A p \in Proc : ProcOf[Main[p]] = p

ASSUME ObjAssumption ==
  /\ NoObj \notin Obj
  /\ OwnerOf \in [Obj -> Proc]

ASSUME BoundAssumption == MaxTime \in Nat /\ MaxCount \in Nat

VARIABLES
  kpc, kobj,
  exited,            \* tasks whose exit_code is Some
  sigkill,           \* processes with SIGKILL in PCB.signals
  killed,            \* processes with PCB.killed
  zombie,            \* processes with PCB.is_zombie
  exiting,           \* the process exit_current_and_run_next is tearing down
  exit_todo,         \* its tasks that remove_inactive_task has not seen yet
  kind,              \* what an object was created as, or "none"
  locked,            \* MutexSpin.locked, MutexBlockingInner.locked
  count,             \* SemaphoreInner.count
  waiter_queue,      \* of a MutexBlocking, a Semaphore or a Condvar
  holds,             \* ghost: the mutexes whose lock returned to a thread
  permits            \* ghost: initial count + ups - downs that returned

contVars == <<kpc, kobj>>
exitVars == <<exited, zombie, exiting, exit_todo>>
procVars == <<exitVars, sigkill, killed>>
objVars == <<kind, locked, count, waiter_queue>>
ghostVars == <<holds, permits>>
vars == <<schedVars, contVars, procVars, objVars, ghostVars>>

Kinds == {"none", "spin", "blocking", "semaphore", "condvar"}
IsMutex(o) == kind[o] \in {"spin", "blocking"}
KernelPC == {"user", "trap_end", "tick", "lock", "locked", "downed", "dead"}

TypeOK ==
  /\ SchedTypeOK
  /\ kpc \in [Task -> KernelPC]
  /\ kobj \in [Task -> Obj \cup {NoObj}]
  /\ exited \subseteq Task
  /\ sigkill \subseteq Proc /\ killed \subseteq Proc /\ zombie \subseteq Proc
  /\ exiting \in Proc \cup {NoProc}
  /\ exit_todo \subseteq Task
  /\ kind \in [Obj -> Kinds]
  /\ locked \in [Obj -> BOOLEAN]
  /\ count \in [Obj -> Int]
  /\ waiter_queue \in [Obj -> Seq(Task)]
  /\ holds \in [Task -> SUBSET Obj]
  /\ permits \in [Obj -> Int]

\* Every process has been forked and nothing else has happened yet.
Init ==
  /\ ready_queue \in {q \in [1..Cardinality(Proc) -> {Main[p] : p \in Proc}] :
                        /\ \A i, j \in DOMAIN q : q[i] = q[j] => i = j
                        /\ \A p \in Proc : \E i \in DOMAIN q : q[i] = Main[p]}
  /\ current = NoTask
  /\ status = [t \in Task |-> IF t = Main[ProcOf[t]] THEN "Ready" ELSE "absent"]
  /\ timers = {} /\ now = 0 /\ power = "on"
  /\ kpc = [t \in Task |-> "user"] /\ kobj = [t \in Task |-> NoObj]
  /\ exited = {} /\ sigkill = {} /\ killed = {} /\ zombie = {}
  /\ exiting = NoProc /\ exit_todo = {}
  /\ kind = [o \in Obj |-> "none"] /\ locked = [o \in Obj |-> FALSE]
  /\ count = [o \in Obj |-> 0] /\ waiter_queue = [o \in Obj |-> <<>>]
  /\ holds = [t \in Task |-> {}] /\ permits = [o \in Obj |-> 0]

-----------------------------------------------------------------------------
(* What several handlers share *)

Running(t) == power = "on" /\ current = t
InUser(t) == Running(t) /\ kpc[t] = "user"

Goto(t, pc, o) ==
  /\ kpc' = [kpc EXCEPT ![t] = pc]
  /\ kobj' = [kobj EXCEPT ![t] = o]

\* The syscall returns to trap_handler.
Return(t) == Goto(t, "trap_end", NoObj)

Takes(t, o) == holds' = [holds EXCEPT ![t] = @ \cup {o}]
Gives(t, o) == holds' = [holds EXCEPT ![t] = @ \ {o}]

\* An index or an assertion of the kernel fails.
Panic ==
  /\ power' = "panic"
  /\ UNCHANGED <<ready_queue, current, status, timers, now, contVars, procVars,
                 objVars, ghostVars>>

\* The object is in a list of the calling thread's process.
Named(t, o) == OwnerOf[o] = ProcOf[t]

-----------------------------------------------------------------------------
(* Mutexes *)

\* Mutex::lock, from sys_mutex_lock and from the end of Condvar::wait.
lock(t, o) ==
  \/ /\ ~locked[o]
     /\ locked' = [locked EXCEPT ![o] = TRUE]
     /\ Takes(t, o)
     /\ KeepRunning
     /\ Return(t)
     /\ UNCHANGED waiter_queue
  \/ /\ locked[o] /\ kind[o] = "spin"
     /\ suspend_current_and_run_next
     /\ Goto(t, "lock", o)
     /\ UNCHANGED <<locked, waiter_queue, holds>>
  \/ /\ locked[o] /\ kind[o] = "blocking"
     /\ waiter_queue' = [waiter_queue EXCEPT ![o] = Append(@, t)]
     /\ block_current_and_run_next
     /\ Goto(t, "locked", o)
     /\ UNCHANGED <<locked, holds>>

\* Mutex::unlock leaves a blocking mutex locked when it wakes a waiter: the
\* waiter owns it from then on.  The caller need not be the owner.
HandsOff(o) == kind[o] = "blocking" /\ waiter_queue[o] # <<>>

\* A mutant: the flag is cleared although a waiter was handed the lock.
UnlockedAlways(o) == [locked EXCEPT ![o] = FALSE]

Unlocked(o) == IF HandsOff(o) THEN locked ELSE [locked EXCEPT ![o] = FALSE]
UnlockPanics(o) == kind[o] = "blocking" /\ ~locked[o]

sys_mutex_create(t, o, blocking) ==
  /\ InUser(t) /\ Named(t, o) /\ kind[o] = "none"
  /\ kind' = [kind EXCEPT ![o] = IF blocking THEN "blocking" ELSE "spin"]
  /\ KeepRunning /\ Return(t)
  /\ UNCHANGED <<timers, now, power, procVars, locked, count, waiter_queue,
                 ghostVars>>

sys_mutex_lock(t, o) ==
  /\ InUser(t) /\ Named(t, o)
  /\ IF IsMutex(o)
       THEN /\ lock(t, o)
            /\ UNCHANGED <<timers, now, power, procVars, kind, count, permits>>
       ELSE Panic

sys_mutex_unlock(t, o) ==
  /\ InUser(t) /\ Named(t, o)
  /\ IF IsMutex(o) /\ ~UnlockPanics(o)
       THEN /\ IF HandsOff(o)
                 THEN /\ waiter_queue' = [waiter_queue EXCEPT ![o] = Tail(@)]
                      /\ wakeup_task(Head(waiter_queue[o]))
                      /\ UNCHANGED current
                 ELSE KeepRunning /\ UNCHANGED waiter_queue
            /\ locked' = Unlocked(o)
            /\ Gives(t, o)
            /\ Return(t)
            /\ UNCHANGED <<timers, now, power, procVars, kind, count, permits>>
       ELSE Panic

\* A thread inside Mutex::lock has the CPU again.
ResumeLock(t) ==
  /\ Running(t)
  /\ \/ kpc[t] = "lock" /\ lock(t, kobj[t])
     \/ /\ kpc[t] = "locked"
        /\ Takes(t, kobj[t])
        /\ KeepRunning /\ Return(t)
        /\ UNCHANGED <<locked, waiter_queue>>
  /\ UNCHANGED <<timers, now, power, procVars, kind, count, permits>>

-----------------------------------------------------------------------------
(* Semaphores *)

sys_semaphore_create(t, o, res_count) ==
  /\ InUser(t) /\ Named(t, o) /\ kind[o] = "none"
  /\ kind' = [kind EXCEPT ![o] = "semaphore"]
  /\ count' = [count EXCEPT ![o] = res_count]
  /\ permits' = [permits EXCEPT ![o] = res_count]
  /\ KeepRunning /\ Return(t)
  /\ UNCHANGED <<timers, now, power, procVars, locked, waiter_queue, holds>>

\* A mutant: up wakes nobody for the last waiter.
UpWakesBelow(o) == count[o] + 1 < 0 /\ waiter_queue[o] # <<>>

\* up and down decide on the count they have just stored.
UpWakes(o) == count[o] + 1 <= 0 /\ waiter_queue[o] # <<>>
DownBlocks(o) == count[o] - 1 < 0

sys_semaphore_up(t, o) ==
  /\ InUser(t) /\ Named(t, o)
  /\ IF kind[o] = "semaphore"
       THEN /\ count[o] < MaxCount
            /\ count' = [count EXCEPT ![o] = @ + 1]
            /\ permits' = [permits EXCEPT ![o] = @ + 1]
            /\ IF UpWakes(o)
                 THEN /\ waiter_queue' = [waiter_queue EXCEPT ![o] = Tail(@)]
                      /\ wakeup_task(Head(waiter_queue[o]))
                      /\ UNCHANGED current
                 ELSE KeepRunning /\ UNCHANGED waiter_queue
            /\ Return(t)
            /\ UNCHANGED <<timers, now, power, procVars, kind, locked, holds>>
       ELSE Panic

sys_semaphore_down(t, o) ==
  /\ InUser(t) /\ Named(t, o)
  /\ IF kind[o] = "semaphore"
       THEN /\ count' = [count EXCEPT ![o] = @ - 1]
            /\ IF DownBlocks(o)
                 THEN /\ waiter_queue' = [waiter_queue EXCEPT ![o] = Append(@, t)]
                      /\ block_current_and_run_next
                      /\ Goto(t, "downed", o)
                      /\ UNCHANGED permits
                 ELSE /\ permits' = [permits EXCEPT ![o] = @ - 1]
                      /\ KeepRunning /\ Return(t)
                      /\ UNCHANGED waiter_queue
            /\ UNCHANGED <<timers, now, power, procVars, kind, locked, holds>>
       ELSE Panic

\* The rest of Semaphore::down, once a thread that waited in it is scheduled.
ResumeDown(t) ==
  /\ Running(t) /\ kpc[t] = "downed"
  /\ permits' = [permits EXCEPT ![kobj[t]] = @ - 1]
  /\ KeepRunning /\ Return(t)
  /\ UNCHANGED <<timers, now, power, procVars, objVars, holds>>

-----------------------------------------------------------------------------
(* Condition variables *)

sys_condvar_create(t, o) ==
  /\ InUser(t) /\ Named(t, o) /\ kind[o] = "none"
  /\ kind' = [kind EXCEPT ![o] = "condvar"]
  /\ KeepRunning /\ Return(t)
  /\ UNCHANGED <<timers, now, power, procVars, locked, count, waiter_queue,
                 ghostVars>>

sys_condvar_signal(t, o) ==
  /\ InUser(t) /\ Named(t, o)
  /\ IF kind[o] = "condvar"
       THEN /\ IF waiter_queue[o] # <<>>
                 THEN /\ waiter_queue' = [waiter_queue EXCEPT ![o] = Tail(@)]
                      /\ wakeup_task(Head(waiter_queue[o]))
                      /\ UNCHANGED current
                 ELSE KeepRunning /\ UNCHANGED waiter_queue
            /\ Return(t)
            /\ UNCHANGED <<timers, now, power, procVars, kind, locked, count,
                           ghostVars>>
       ELSE Panic

\* Condvar::wait up to the block: the mutex is unlocked, which may hand it to
\* a waiter, and the caller queues.  It locks the mutex again when it resumes.
sys_condvar_wait(t, c, o) ==
  /\ InUser(t) /\ Named(t, c) /\ Named(t, o)
  /\ IF kind[c] = "condvar" /\ IsMutex(o) /\ ~UnlockPanics(o)
       THEN /\ waiter_queue' = [waiter_queue EXCEPT
                                  ![o] = IF HandsOff(o) THEN Tail(@) ELSE @,
                                  ![c] = Append(@, t)]
            /\ IF HandsOff(o)
                 THEN /\ status' = [status EXCEPT ![Head(waiter_queue[o])] = "Ready",
                                                  ![t] = "Blocked"]
                      /\ add_task(Head(waiter_queue[o]))
                 ELSE /\ status' = [status EXCEPT ![t] = "Blocked"]
                      /\ UNCHANGED ready_queue
            /\ current' = NoTask
            /\ locked' = Unlocked(o)
            /\ Gives(t, o)
            /\ Goto(t, "lock", o)
            /\ UNCHANGED <<timers, now, power, procVars, kind, count, permits>>
       ELSE Panic

-----------------------------------------------------------------------------
(* Yield, sleep and the timer interrupt *)

sys_yield(t) ==
  /\ InUser(t)
  /\ suspend_current_and_run_next /\ Return(t)
  /\ UNCHANGED <<timers, now, power, procVars, objVars, ghostVars>>

\* Bound: a sleep ends by MaxTime.
sys_sleep(t, sleep_ms) ==
  /\ InUser(t) /\ now + sleep_ms <= MaxTime
  /\ add_timer(now + sleep_ms, t)
  /\ block_current_and_run_next /\ Return(t)
  /\ UNCHANGED <<now, power, procVars, objVars, ghostVars>>

\* The machine timer raised a supervisor software interrupt.
TimerInterrupt(t) ==
  /\ InUser(t)
  /\ Goto(t, "tick", NoObj)
  /\ UNCHANGED <<schedVars, procVars, objVars, ghostVars>>

\* check_timer, one turn of its loop at a time, and then the suspend.
Tick(t) ==
  /\ Running(t) /\ kpc[t] = "tick"
  /\ \/ /\ \E x \in Expired : WakeExpired(x)
        /\ UNCHANGED <<current, contVars>>
     \/ /\ Expired = {}
        /\ suspend_current_and_run_next /\ Return(t)
        /\ UNCHANGED timers
  /\ UNCHANGED <<now, power, procVars, objVars, ghostVars>>

\* Time passes; check_timer reads the clock once.
AdvanceClock ==
  /\ power = "on" /\ now < MaxTime
  /\ current # NoTask => kpc[current] # "tick"
  /\ now' = now + 1
  /\ UNCHANGED <<ready_queue, current, status, timers, power, contVars, procVars,
                 objVars, ghostVars>>

-----------------------------------------------------------------------------
(* Threads and processes come and go *)

sys_thread_create(t, u) ==
  /\ InUser(t) /\ ProcOf[u] = ProcOf[t] /\ status[u] = "absent"
  /\ status' = [status EXCEPT ![u] = "Ready"]
  /\ add_task(u)
  /\ Return(t)
  /\ UNCHANGED <<current, timers, now, power, procVars, objVars, ghostVars>>

\* The part of exit_current_and_run_next before the loop over the tasks.
exit_current_and_run_next(t, was_killed) ==
  /\ current' = NoTask
  /\ exited' = exited \cup {t}
  /\ Goto(t, "dead", NoObj)
  /\ IF t = Main[ProcOf[t]] \/ was_killed
       THEN /\ zombie' = zombie \cup {ProcOf[t]}
            /\ exiting' = ProcOf[t]
            /\ exit_todo' = {u \in Task : /\ ProcOf[u] = ProcOf[t]
                                          /\ status[u] # "absent"}
       ELSE UNCHANGED <<zombie, exiting, exit_todo>>
  /\ UNCHANGED <<ready_queue, status, timers, now, power, objVars, ghostVars>>

\* The loop over the tasks of a process that terminates.
RemoveTask ==
  /\ power = "on"
  /\ \E u \in exit_todo :
       /\ remove_inactive_task(u)
       /\ exit_todo' = exit_todo \ {u}
  /\ UNCHANGED <<current, status, now, power, contVars, exited, zombie, exiting,
                 sigkill, killed, objVars, ghostVars>>

\* After the loop: the lists of mutexes, semaphores and condvars are cleared.
\* An object that a thread is blocked on stays alive with its waiter_queue: the
\* kernel stack of the blocked thread has a reference that nobody drops.
DropLists ==
  /\ power = "on" /\ exiting # NoProc /\ exit_todo = {}
  /\ kind' = [o \in Obj |-> IF OwnerOf[o] = exiting THEN "none" ELSE kind[o]]
  /\ exiting' = NoProc
  /\ UNCHANGED <<schedVars, contVars, exited, zombie, exit_todo, sigkill, killed,
                 locked, count, waiter_queue, ghostVars>>

sys_exit(t) ==
  /\ InUser(t)
  /\ exit_current_and_run_next(t, ProcOf[t] \in killed)
  /\ UNCHANGED <<sigkill, killed>>

\* SIGKILL to a process that PID2PCB still has.  Nobody signals initproc.
sys_kill(t, p) ==
  /\ InUser(t) /\ p # InitProc
  /\ sigkill' = IF p \in zombie THEN sigkill ELSE sigkill \cup {p}
  /\ KeepRunning /\ Return(t)
  /\ UNCHANGED <<timers, now, power, exitVars, killed, objVars, ghostVars>>

\* Mutant: the process is marked killed and the thread goes on.
trap_end_marks(t) ==
  /\ Running(t) /\ kpc[t] = "trap_end"
  /\ killed' = IF ProcOf[t] \in sigkill THEN killed \cup {ProcOf[t]} ELSE killed
  /\ Goto(t, "user", NoObj)
  /\ UNCHANGED <<schedVars, exitVars, sigkill, objVars, ghostVars>>

\* handle_signals, check_signals_of_current and trap_return, for SIGKILL.
trap_end(t) ==
  /\ Running(t) /\ kpc[t] = "trap_end"
  /\ IF ProcOf[t] \in sigkill
       THEN /\ killed' = killed \cup {ProcOf[t]}
            /\ exit_current_and_run_next(t, TRUE)
            /\ UNCHANGED sigkill
       ELSE /\ Goto(t, "user", NoObj)
            /\ UNCHANGED <<schedVars, procVars, objVars, ghostVars>>

-----------------------------------------------------------------------------
\* Mutant: initproc sleeps between two calls of wait().
InitSleeps(t) ==
  IF \A p \in Proc \ {InitProc} : p \in zombie THEN sys_exit(t) ELSE sys_sleep(t, 0)

\* initproc yields while wait() finds no zombie and exits when it has no child.
InitProgram(t) ==
  IF \A p \in Proc \ {InitProc} : p \in zombie THEN sys_exit(t) ELSE sys_yield(t)

\* What a thread of any other process may call.  A disciplined program uses
\* what it created, as what it created it, and unlocks only what it holds.
UserProgram(t, disciplined) ==
  \/ \E o \in Obj, b \in BOOLEAN : sys_mutex_create(t, o, b)
  \/ \E o \in Obj : (disciplined => IsMutex(o)) /\ sys_mutex_lock(t, o)
  \/ \E o \in Obj : (disciplined => o \in holds[t]) /\ sys_mutex_unlock(t, o)
  \/ \E o \in Obj, n \in 0..MaxCount : sys_semaphore_create(t, o, n)
  \/ \E o \in Obj : (disciplined => kind[o] = "semaphore") /\ sys_semaphore_up(t, o)
  \/ \E o \in Obj : (disciplined => kind[o] = "semaphore") /\ sys_semaphore_down(t, o)
  \/ \E o \in Obj : sys_condvar_create(t, o)
  \/ \E o \in Obj : (disciplined => kind[o] = "condvar") /\ sys_condvar_signal(t, o)
  \/ \E c, o \in Obj : /\ disciplined => kind[c] = "condvar" /\ o \in holds[t]
                       /\ sys_condvar_wait(t, c, o)
  \/ sys_yield(t)
  \/ \E d \in 0..MaxTime : sys_sleep(t, d)
  \/ \E u \in Task : sys_thread_create(t, u)
  \/ sys_exit(t)
  \/ \E p \in Proc : sys_kill(t, p)

\* What the kernel does next, whatever the programs do.
Kernel ==
  \/ /\ power = "on" /\ exiting = NoProc /\ run_tasks
     /\ UNCHANGED <<timers, now, contVars, procVars, objVars, ghostVars>>
  \/ RemoveTask
  \/ DropLists
  \/ \E t \in Task : ResumeLock(t) \/ ResumeDown(t) \/ Tick(t) \/ trap_end(t)

Interrupt == \E t \in Task : TimerInterrupt(t)

\* The machine is off.
Halted == power # "on" /\ UNCHANGED vars

NextOf(disciplined) ==
  \/ Kernel
  \/ Interrupt
  \/ AdvanceClock
  \/ InitProgram(Main[InitProc])
  \/ \E t \in Task : ProcOf[t] # InitProc /\ UserProgram(t, disciplined)
  \/ Halted

Next == NextOf(FALSE)

\* Any programs at all.
Spec == Init /\ [][Next]_vars

\* The kernel does not stop between two switches; the clock runs on, whenever
\* check_timer happens to read it; and a timer interrupt that is pending is
\* taken as soon as the hart is in user mode, which it enters again and again.
Fairness ==
  /\ WF_vars(Kernel)
  /\ SF_vars(AdvanceClock)
  /\ SF_vars(Interrupt)

FairSpec == Spec /\ Fairness

-----------------------------------------------------------------------------
(* Properties *)

Queued(t, q) == \E i \in 1..Len(q) : q[i] = t
Distinct(q) == \A i, j \in 1..Len(q) : q[i] = q[j] => i = j
Waits(t, o) == Queued(t, waiter_queue[o])
Sleeps(t) == \E x \in timers : x.task = t

\* The kernel may still schedule t: its process is alive, or the loop of
\* exit_current_and_run_next has not come to t yet.
Alive(t) == ProcOf[t] \notin zombie \/ t \in exit_todo

\* The ready queue has a task at most once, and it has exactly the tasks that
\* are alive and Ready: suspend, wakeup_task, fetch and remove_task lose no
\* task and queue none twice, whatever the programs call.
ReadyQueueExact ==
  /\ Distinct(ready_queue)
  /\ \A t \in Task : Queued(t, ready_queue) <=> Alive(t) /\ status[t] = "Ready"

\* A live Blocked task waits in exactly one place, where exactly one wakeup_task
\* will find it: once in one waiter_queue or once in TIMERS.  A task in any of
\* these is Blocked, so no wakeup can queue a task that is already Ready.
BlockedOnce ==
  /\ \A o \in Obj : Distinct(waiter_queue[o])
  /\ \A t \in Task, o1, o2 \in Obj : Waits(t, o1) /\ Waits(t, o2) => o1 = o2
  /\ \A x, y \in timers : x.task = y.task => x = y
  /\ \A t \in Task, o \in Obj : ~(Sleeps(t) /\ Waits(t, o))
  /\ \A t \in Task : Sleeps(t) => status[t] = "Blocked"
  /\ \A t \in Task, o \in Obj : Waits(t, o) => status[t] = "Blocked"
  /\ \A t \in Task : Alive(t) /\ status[t] = "Blocked" =>
                       Sleeps(t) \/ \E o \in Obj : Waits(t, o)

\* The CPU never runs a thread of a process that exit_current_and_run_next has
\* terminated, nor a thread that has exited: no wakeup brings one back.
DeadNeverRun ==
  current # NoTask => ProcOf[current] \notin zombie /\ current \notin exited

\* A semaphore with a negative count has that many waiters, and one with a
\* count of zero or more has none, so no up is lost; and at no time have more
\* calls of down returned than the initial count and the calls of up allow.
SemaphoreExact ==
  \A o \in Obj :
    /\ permits[o] >= 0
    /\ kind[o] = "semaphore" =>
         Len(waiter_queue[o]) = IF count[o] < 0 THEN -count[o] ELSE 0

\* run_tasks shuts the machine down only when every process has terminated:
\* initproc, which never blocks, keeps the ready queue from running dry while
\* all other threads sleep or wait.
ShutdownOnlyAtEnd == power = "off" => zombie = Proc

\* Programs that obey the discipline never have two threads past the lock of
\* the same mutex, spinning or blocking, also across Condvar::wait.
MutualExclusion ==
  \A t, u \in Task : holds[t] \cap holds[u] # {} => t = u

\* The lock of o returned to t, or will when t, which was handed it, resumes.
Owns(t, o) ==
  \/ o \in holds[t]
  \/ kpc[t] = "locked" /\ kobj[t] = o /\ ~Waits(t, o)

\* A mutex that is locked has an owner: a thread whose lock returned, or the
\* one waiter that unlock handed it to.  No handoff loses the lock.
LockHasOwner ==
  \A o \in Obj : IsMutex(o) /\ locked[o] => \E t \in Task : Owns(t, o)

\* The assertion in MutexBlocking::unlock, and the indexing of the lists, never
\* fail for programs that obey the discipline.
NoPanic == power # "panic"

\* What the comment on remove_inactive_task says: once a process has been torn
\* down only its PCB refers to its tasks, so no waiter_queue does.
NoStaleWaiter ==
  \A t \in Task : ProcOf[t] \in zombie /\ exiting = NoProc =>
    \A o \in Obj : ~Waits(t, o)

On == power = "on"

\* A Ready thread is scheduled eventually, unless its process is terminated: the
\* queue is first-in first-out and the timer takes the CPU from every program.
ReadyRuns ==
  \A t \in Task : (Alive(t) /\ status[t] = "Ready") ~> (current = t \/ ~Alive(t) \/ ~On)

\* A sleeping thread leaves TIMERS eventually, although check_timer only runs
\* when an interrupt finds some thread in user mode.
SleepEnds == \A t \in Task : Sleeps(t) ~> (~Sleeps(t) \/ ~On)

\* SIGKILL terminates a process that has a thread in user mode, whatever that
\* thread and the others do: the interrupt brings it to the end of a trap.
KillTerminates ==
  \A t \in Task :
    (status[t] # "absent" /\ kpc[t] = "user" /\ ProcOf[t] \in sigkill)
      ~> (ProcOf[t] \in zombie \/ ~On)

=============================================================================
