------------------------------ MODULE Scheduler ------------------------------
(***************************************************************************)
(* The ready queue, the processor and the timer heap of the kernel         *)
(* (os/src/task/scheduler, os/src/timer, and the three ways a thread gives *)
(* the CPU up in os/src/task/mod.rs).                                      *)
(*                                                                         *)
(* There is one hart, and an interrupt is only taken in user mode: the     *)
(* kernel runs from one switch to the next without interleaving.  Tasks    *)
(* are TaskControlBlocks; a task that has not been created yet has the     *)
(* status "absent".                                                        *)
(*                                                                         *)
(* The definitions below are the fragments other modules build their       *)
(* actions from; each one says which of these variables it determines.     *)
(***************************************************************************)
EXTENDS Naturals, Sequences

CONSTANTS Task,      \* the TaskControlBlocks that may ever exist
          NoTask     \* Processor.current is None

ASSUME NoTaskAssumption == NoTask \notin Task

VARIABLES
  ready_queue,       \* TASK_MANAGER.ready_queue: a sequence of tasks
  current,           \* PROCESSOR.current
  status,            \* TaskControlBlockInner.status of each task
  timers,            \* TIMERS: a set of [task, expire_ms]
  now,               \* the value get_time_ms() returns
  power              \* "on", "off" (shutdown was called) or "panic"

schedVars == <<ready_queue, current, status, timers, now, power>>

TaskStatus == {"Ready", "Running", "Blocked"}

SchedTypeOK ==
  /\ ready_queue \in Seq(Task)
  /\ current \in Task \cup {NoTask}
  /\ status \in [Task -> TaskStatus \cup {"absent"}]
  /\ timers \subseteq [task: Task, expire_ms: Nat]
  /\ now \in Nat
  /\ power \in {"on", "off", "panic"}

-----------------------------------------------------------------------------
(* TaskManager *)

\* TaskManager::remove: the first occurrence of t, if there is one, goes.
remove(q, t) ==
  IF \E k \in 1..Len(q) : q[k] = t
    THEN LET first == CHOOSE k \in 1..Len(q) :
                        q[k] = t /\ \A j \in 1..Len(q) : j < k => q[j] # t
         IN  [i \in 1..(Len(q) - 1) |-> IF i < first THEN q[i] ELSE q[i + 1]]
    ELSE q

\* Mutant: the queue becomes a stack.
add_task_front(t) == ready_queue' = <<t>> \o ready_queue

\* Determines ready_queue.
add_task(t) == ready_queue' = Append(ready_queue, t)

\* Mutant: the status stays Blocked.
wakeup_task_blocked(t) == add_task(t) /\ UNCHANGED status

\* Determines ready_queue and status.  There is no check of the old status.
wakeup_task(t) ==
  /\ status' = [status EXCEPT ![t] = "Ready"]
  /\ add_task(t)

-----------------------------------------------------------------------------
(* Processor: these determine current, status, ready_queue (and power). *)

\* The idle loop: with nothing to fetch the machine is shut down.
run_tasks ==
  /\ current = NoTask
  /\ IF ready_queue = <<>>
       THEN power' = "off" /\ UNCHANGED <<ready_queue, current, status>>
       ELSE /\ current' = Head(ready_queue)
            /\ ready_queue' = Tail(ready_queue)
            /\ status' = [status EXCEPT ![Head(ready_queue)] = "Running"]
            /\ power' = power

\* Mutant: the current task is read again after take_current_task.
suspend_after_take ==
  /\ current' = NoTask
  /\ status' = [status EXCEPT ![current] = "Ready"]
  /\ add_task(current')

suspend_current_and_run_next ==
  /\ current' = NoTask
  /\ status' = [status EXCEPT ![current] = "Ready"]
  /\ add_task(current)

block_current_and_run_next ==
  /\ current' = NoTask
  /\ status' = [status EXCEPT ![current] = "Blocked"]
  /\ UNCHANGED ready_queue

\* A syscall that returns to its caller and wakes nobody.
KeepRunning == UNCHANGED <<current, status, ready_queue>>

-----------------------------------------------------------------------------
(* TIMERS, a heap that pops the smallest expire_ms first *)

add_timer(expire, t) ==
  timers' = timers \cup {[task |-> t, expire_ms |-> expire]}

remove_timer(t) == timers' = {x \in timers : x.task # t}

\* Mutant: the comparison with the clock is turned round.
NotExpired == {x \in timers : /\ now <= x.expire_ms
                              /\ \A y \in timers : x.expire_ms <= y.expire_ms}

\* What peek() may return, when it has expired.
Expired == {x \in timers : /\ x.expire_ms <= now
                           /\ \A y \in timers : x.expire_ms <= y.expire_ms}

\* Mutant: peek without pop.
WakeWithoutPop(x) == wakeup_task(x.task) /\ UNCHANGED timers

\* One turn of the loop of check_timer.
WakeExpired(x) ==
  /\ wakeup_task(x.task)
  /\ timers' = timers \ {x}

\* Mutant: the timer of the task stays.
remove_from_queue_only(t) ==
  /\ ready_queue' = remove(ready_queue, t)
  /\ UNCHANGED timers

\* Determines ready_queue and timers.
remove_inactive_task(t) ==
  /\ ready_queue' = remove(ready_queue, t)
  /\ remove_timer(t)
=============================================================================
