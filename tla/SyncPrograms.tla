----------------------------- MODULE SyncPrograms -----------------------------
(***************************************************************************)
(* Programs of user/src/bin that synchronise their threads by system       *)
(* calls, on the kernel that TaskSync describes: phil_din_mutex,           *)
(* barrier_condvar, condsync_condvar, condsync_sem, mpsc_sem, sync_sem and *)
(* adder_mutex_blocking (or _spin).  Each is a sequence of instructions    *)
(* per thread, one for each system call and each access to shared memory;  *)
(* the timer may interrupt a thread between any two.  Loops with a fixed   *)
(* number of rounds are unrolled.                                          *)
(***************************************************************************)
EXTENDS TaskSync, SequencesExt

CONSTANTS
  Programs,          \* the programs that are run
  Worker,            \* the threads the main thread creates, in this order
  BARRIERS,          \* bound: barriers a thread of barrier_condvar comes to
  ROUND,             \* rounds of a philosopher, an adder and a producer
  BUFFER_SIZE        \* of mpsc_sem

VARIABLES
  program,           \* the one that runs
  at,                \* where each thread is in its code
  A, cur,            \* the variable of adder and condsync; a thread's copy of it
  arrived, once,     \* Barrier.count; the state of the lazy_static of a barrier
  BUFFER, FRONT, TAIL,
  sent, printed      \* ghosts: what the producers stored, what the consumer read

data == <<A, cur, arrived, once, BUFFER, FRONT, TAIL, sent, printed>>
allVars == <<vars, program, at, data>>

Workers == ToSet(Worker)
p0 == ProcOf[Worker[1]]
Barrier == 0..(BARRIERS - 1)
Nth(t) == CHOOSE n \in 1..Len(Worker) : Worker[n] = t

-----------------------------------------------------------------------------
(* Instructions: x and y are objects, threads or numbers *)

I(op, x, y) == <<[op |-> op, x |-> x, y |-> y]>>
Repeat(code, n) == FlattenSeq([k \in 1..n |-> code])

Lock(o) == I("lock", o, 0)
Unlock(o) == I("unlock", o, 0)
Up(o) == I("up", o, 0)
Down(o) == I("down", o, 0)
Signal(o) == I("signal", o, 0)
WaitOn(c, o) == I("wait", c, o)
Sleep == I("sleep", 0, 0)
Exit == I("exit", 0, 0)

\* Jumps are relative.
UnlessSet(n) == I("unless", n, 0)      \* past n instructions when A is set
Back(n) == I("back", n, 0)

\* The first n workers are created, and waited for.
Spawn(n) == FlattenSeq([k \in 1..n |-> I("spawn", Worker[k], 0)])
Join(n) == FlattenSeq([k \in 1..n |-> I("join", Worker[k], 0)]) \o Exit

N == Len(Worker)

\* Mutant: the left fork first.
LeftFirst(id) == <<id, IF id = N - 1 THEN 0 ELSE id + 1>>

\* The forks of a philosopher in the order it takes them: min, then max.
Forks(id) ==
  LET left == id
      right == IF id = N - 1 THEN 0 ELSE id + 1
      min == IF left < right THEN left ELSE right
  IN <<min, left + right - min>>

philosopher_dining_problem(id) ==
  Repeat(Sleep \o Lock(Forks(id)[1]) \o Lock(Forks(id)[2]) \o Sleep
           \o Unlock(Forks(id)[2]) \o Unlock(Forks(id)[1]), ROUND) \o Exit

PhilMain ==
  FlattenSeq([n \in DOMAIN Worker |-> I("mutex", n - 1, 0) \o I("spawn", Worker[n], 0)])
    \o Join(N)

\* The barrier b has the mutex 2 * b and the condvar 2 * b + 1; the first that
\* comes creates them.
barrier_new(b) ==
  I("once", b, 3) \o I("spin", 2 * b, 0) \o I("condvar", 2 * b + 1, 0) \o I("made", b, 0)

block(b) ==
  Lock(2 * b) \o I("arrive", b, 0) \o I("unlessfull", b, 1) \o WaitOn(2 * b + 1, 2 * b)
    \o Signal(2 * b + 1) \o Unlock(2 * b)

BarrierThread ==
  FlattenSeq([k \in 1..BARRIERS |-> barrier_new(k - 1) \o block(k - 1) \o I("past", k - 1, 0)])
    \o Exit

CondvarFirst == Sleep \o Lock(0) \o I("set", 1, 0) \o Signal(1) \o Unlock(0) \o Exit
CondvarSecond == Lock(0) \o UnlessSet(2) \o WaitOn(1, 0) \o Back(2) \o Unlock(0) \o Exit

SemFirst == Sleep \o Lock(0) \o I("set", 1, 0) \o Up(1) \o Unlock(0) \o Exit
SemSecond ==
  Lock(0) \o UnlessSet(3) \o Unlock(0) \o Down(1) \o Back(4) \o Unlock(0) \o Exit

\* A stands for the work of the first thread.
SyncFirst == Sleep \o I("set", 1, 0) \o Up(1) \o Exit

SyncSecond == Down(1) \o Exit

\* SEM_MUTEX, SEM_EMPTY and SEM_AVAIL are 0, 1 and 2.
producer(id) ==
  Repeat(Down(1) \o Down(0) \o I("put", id, 0) \o I("tail", 0, 0) \o Up(0) \o Up(2), ROUND) \o Exit

consumer(n) ==
  Repeat(Down(2) \o Down(0) \o I("print", 0, 0) \o I("front", 0, 0) \o Up(0) \o Up(1), n * ROUND)
    \o Exit

\* The semaphores of main: res_count of SEM_MUTEX, SEM_EMPTY and SEM_AVAIL.
MpscSemaphores == I("sem", 0, 1) \o I("sem", 1, BUFFER_SIZE) \o I("sem", 2, 0)

adder ==
  Repeat(Lock(0) \o I("load", 0, 0) \o I("store", 0, 0) \o Unlock(0), ROUND) \o Exit

\* The mains.
BarrierMain == Spawn(N) \o Join(N)
CondvarMain == I("condvar", 1, 0) \o I("mutex", 0, 0) \o Spawn(2) \o Join(2)
SemMain == I("sem", 1, 0) \o I("mutex", 0, 0) \o Spawn(2) \o Join(2)
SyncMain == I("sem", 1, 0) \o Spawn(2) \o Join(2)
MpscMain == MpscSemaphores \o Spawn(N) \o Join(N)
AdderMain(kind_of_mutex) == I(kind_of_mutex, 0, 0) \o Spawn(N) \o Join(N)

MainCode(p) ==
  CASE p = "phil_din_mutex" -> PhilMain
    [] p = "barrier_condvar" -> BarrierMain
    [] p = "condsync_condvar" -> CondvarMain
    [] p = "condsync_sem" -> SemMain
    [] p = "sync_sem" -> SyncMain
    [] p = "mpsc_sem" -> MpscMain
    [] p = "adder_mutex_blocking" -> AdderMain("mutex")
    [] p = "adder_mutex_spin" -> AdderMain("spin")

WorkerCode(p, n) ==
  CASE p = "phil_din_mutex" -> philosopher_dining_problem(n - 1)
    [] p = "barrier_condvar" -> BarrierThread
    [] p = "condsync_condvar" -> IF n = 1 THEN CondvarFirst ELSE CondvarSecond
    [] p = "condsync_sem" -> IF n = 1 THEN SemFirst ELSE SemSecond
    [] p = "sync_sem" -> IF n = 1 THEN SyncFirst ELSE SyncSecond
    [] p = "mpsc_sem" -> IF n < N THEN producer(n - 1) ELSE consumer(N - 1)
    [] OTHER -> adder

Code == [p \in Programs |-> [t \in Workers \cup {Main[p0]} |->
           IF t \in Workers THEN WorkerCode(p, Nth(t)) ELSE MainCode(p)]]

ProgramsInit ==
  /\ Init
  /\ program \in Programs
  /\ at = [t \in Task |-> 1]
  /\ A = 0 /\ cur = [t \in Task |-> 0]
  /\ arrived = [b \in Barrier |-> 0] /\ once = [b \in Barrier |-> "none"]
  /\ BUFFER = [k \in 0..(BUFFER_SIZE - 1) |-> 0] /\ FRONT = 0 /\ TAIL = 0
  /\ sent = <<>> /\ printed = <<>>

-----------------------------------------------------------------------------
(* Execution *)

Jump(t, n) == at' = [at EXCEPT ![t] = @ + n]

\* A system call of TaskSync.  Bound: a sleep ends at MaxTime, or at the next tick.
Call(t, x) ==
  \/ x.op = "lock" /\ sys_mutex_lock(t, x.x)
  \/ x.op = "unlock" /\ sys_mutex_unlock(t, x.x)
  \/ x.op = "up" /\ sys_semaphore_up(t, x.x)
  \/ x.op = "down" /\ sys_semaphore_down(t, x.x)
  \/ x.op = "signal" /\ sys_condvar_signal(t, x.x)
  \/ x.op = "wait" /\ sys_condvar_wait(t, x.x, x.y)
  \/ x.op = "mutex" /\ sys_mutex_create(t, x.x, TRUE)
  \/ x.op = "spin" /\ sys_mutex_create(t, x.x, FALSE)
  \/ x.op = "sem" /\ sys_semaphore_create(t, x.x, x.y)
  \/ x.op = "condvar" /\ sys_condvar_create(t, x.x)
  \/ x.op = "spawn" /\ sys_thread_create(t, x.x)
  \/ x.op = "exit" /\ sys_exit(t)
  \/ x.op = "sleep" /\ sys_sleep(t, MaxTime - now)

\* Mutants: the last thread but one finds the barrier full; an index runs over
\* the end of BUFFER.
FullEarly(b) == arrived[b] + 1 = N
RunsOver(k) == k + 1
Full(b) == arrived[b] = N
NextSlot(k) == (k + 1) % BUFFER_SIZE

\* Once::call_once of lazy_static: how far a thread goes on.
OnceJump(b, rest) ==
  IF once[b] = "none" THEN 1 ELSE IF once[b] = "running" THEN 0 ELSE rest + 1

\* User code, which leaves the kernel alone: how far it goes on, and what it
\* stores.
Local(t, x) ==
  \/ /\ x.op = "set" /\ A' = 1
     /\ Jump(t, 1) /\ UNCHANGED <<cur, arrived, once, BUFFER, FRONT, TAIL, sent, printed>>
  \/ /\ x.op = "load" /\ cur' = [cur EXCEPT ![t] = A]
     /\ Jump(t, 1) /\ UNCHANGED <<A, arrived, once, BUFFER, FRONT, TAIL, sent, printed>>
  \/ /\ x.op = "store" /\ A' = cur[t] + 1
     /\ Jump(t, 1) /\ UNCHANGED <<cur, arrived, once, BUFFER, FRONT, TAIL, sent, printed>>
  \/ /\ x.op = "arrive" /\ arrived' = [arrived EXCEPT ![x.x] = @ + 1]
     /\ Jump(t, 1) /\ UNCHANGED <<A, cur, once, BUFFER, FRONT, TAIL, sent, printed>>
  \/ /\ x.op = "put" /\ BUFFER' = [BUFFER EXCEPT ![TAIL] = x.x] /\ sent' = Append(sent, x.x)
     /\ Jump(t, 1) /\ UNCHANGED <<A, cur, arrived, once, FRONT, TAIL, printed>>
  \/ /\ x.op = "tail" /\ TAIL' = NextSlot(TAIL)
     /\ Jump(t, 1) /\ UNCHANGED <<A, cur, arrived, once, BUFFER, FRONT, sent, printed>>
  \/ /\ x.op = "print" /\ printed' = Append(printed, BUFFER[FRONT])
     /\ Jump(t, 1) /\ UNCHANGED <<A, cur, arrived, once, BUFFER, FRONT, TAIL, sent>>
  \/ /\ x.op = "front" /\ FRONT' = NextSlot(FRONT)
     /\ Jump(t, 1) /\ UNCHANGED <<A, cur, arrived, once, BUFFER, TAIL, sent, printed>>
  \/ /\ x.op = "once"                   \* spins while another thread creates b
     /\ once' = [once EXCEPT ![x.x] = IF @ = "none" THEN "running" ELSE @]
     /\ Jump(t, OnceJump(x.x, x.y))
     /\ UNCHANGED <<A, cur, arrived, BUFFER, FRONT, TAIL, sent, printed>>
  \/ /\ x.op = "made" /\ once' = [once EXCEPT ![x.x] = "done"]
     /\ Jump(t, 1) /\ UNCHANGED <<A, cur, arrived, BUFFER, FRONT, TAIL, sent, printed>>
  \/ /\ \/ x.op = "unless" /\ Jump(t, IF A # 0 THEN x.x + 1 ELSE 1)
        \/ x.op = "unlessfull" /\ Jump(t, IF Full(x.x) THEN x.y + 1 ELSE 1)
        \/ x.op = "back" /\ Jump(t, -x.x)
        \/ x.op = "past" /\ Jump(t, 1)
        \/ x.op = "join" /\ x.x \in exited /\ Jump(t, 1)
     /\ UNCHANGED data

\* waittid yields while the thread has not exited.
Again(t, x) == x.op = "join" /\ x.x \notin exited /\ sys_yield(t)

Step(t) ==
  LET x == Code[program][t][at[t]]
  IN /\ InUser(t) /\ at[t] <= Len(Code[program][t])
     /\ \/ Call(t, x) /\ Jump(t, 1) /\ UNCHANGED data
        \/ Local(t, x) /\ UNCHANGED vars
        \/ Again(t, x) /\ UNCHANGED <<at, data>>

\* The sleeps of some hundred milliseconds last longer than main takes to create
\* its threads, as phil_din_mutex relies on.
Started == program = "phil_din_mutex" => \A t \in Workers : status[t] # "absent"

ProgramsNext ==
  \/ \E t \in Workers \cup {Main[p0]} : Step(t) /\ UNCHANGED program
  \/ (Kernel \/ Interrupt \/ InitProgram(Main[InitProc]) \/ Halted) /\ UNCHANGED <<program, at, data>>
  \/ AdvanceClock /\ Started /\ UNCHANGED <<program, at, data>>

-----------------------------------------------------------------------------
(* Properties *)

\* Types of what the programs share, and code is not left at its end.
ProgramsTypeOK ==
  /\ TypeOK
  /\ \A t \in Workers \cup {Main[p0]} : at[t] \in 1..(Len(Code[program][t]) + 1)
  /\ A \in Nat /\ cur \in [Task -> Nat]
  /\ arrived \in [Barrier -> 0..N] /\ once \in [Barrier -> {"none", "running", "done"}]
  /\ FRONT \in DOMAIN BUFFER /\ TAIL \in DOMAIN BUFFER

\* The thread has gone past the instruction i of its code.
Past(t, i) ==
  LET code == Code[program][t]
  IN \E k \in 1..Len(code) : code[k] = i[1] /\ k < at[t] /\ kpc[t] \in {"user", "trap_end", "dead"}

\* Barrier::block of barrier_condvar lets no thread go on before all have come.
BarrierHolds ==
  program = "barrier_condvar" =>
    \A b \in Barrier, t \in Workers : Past(t, I("past", b, 0)) => arrived[b] = N

\* The consumer of mpsc_sem prints what the producers put into the buffer, in
\* order: no slot is overwritten before it is read, or read before it is filled.
BufferInOrder ==
  program = "mpsc_sem" => IsPrefix(printed, sent) /\ Len(sent) - Len(printed) <= BUFFER_SIZE

\* The second thread of sync_sem, condsync_sem and condsync_condvar goes on only
\* when the first has done its work.
SecondAfterFirst ==
  program \in {"sync_sem", "condsync_sem", "condsync_condvar"} =>
    (Worker[2] \in exited => A = 1)

\* The assertion of main in adder_mutex_blocking and adder_mutex_spin: no
\* addition is lost.
AdditionsCounted ==
  program \in {"adder_mutex_blocking", "adder_mutex_spin"} /\ Workers \subseteq exited
    => A = N * ROUND

\* The kernel never panics over a call of these programs: every object exists
\* when it is used, whichever thread creates it, and no mutex is unlocked twice.
NoKernelPanic == power # "panic"

\* The program has come to its end, for good.
Ended == p0 \in zombie
====
