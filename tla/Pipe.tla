--------------------------------- MODULE Pipe ---------------------------------
(***************************************************************************)
(* One pipe (os/src/fs/pipe.rs) and the descriptors that lead to it        *)
(* (os/src/syscall/fs.rs), shared by the threads of several processes.     *)
(*                                                                         *)
(* A thread inside Pipe::read or Pipe::write keeps the CPU until it finds  *)
(* the buffer empty or full; then it suspends itself and starts its loop   *)
(* again when it is scheduled.  cpu is the thread that is inside such a    *)
(* loop and has not suspended itself; turns is what is left of its for     *)
(* loop.  pc tells where a thread is:                                      *)
(*   "absent"  it has not been created                                     *)
(*   "user"    it runs user code                                           *)
(*   "read", "write"  it is in Pipe::read or Pipe::write                   *)
(*   "dead"    it has exited                                               *)
(* A thread whose process terminates while it is suspended in a pipe is    *)
(* never scheduled again: its pc stays "read" or "write", for its kernel   *)
(* stack keeps the Arc of the file.                                        *)
(***************************************************************************)
EXTENDS Naturals, Sequences

CONSTANTS
  Thread, NoThread,
  Proc, First,       \* processes; the one that calls sys_pipe
  ProcOf, Main,      \* the process of a thread, the main thread of a process
  Byte, Zero,
  RING_BUFFER_SIZE,
  Lens,              \* the lengths of the buffers programs pass
  MaxFd              \* bound: entries of a descriptor table

ASSUME PipeAssumption ==
  /\ NoThread \notin Thread
  /\ First \in Proc
  /\ ProcOf \in [Thread -> Proc]
  /\ Main \in [Proc -> Thread]
  /\ \A p \in Proc : ProcOf[Main[p]] = p
  /\ Zero \in Byte
  /\ RING_BUFFER_SIZE \in Nat \ {0}
  /\ Lens \subseteq Nat
  /\ MaxFd \in Nat

VARIABLES
  arr, head, tail, status,     \* PipeRingBuffer
  fd_table,                    \* of each process: "none", "read" or "write"
  live,                        \* processes that run
  pc,
  buf_len, already,            \* the locals of read and write
  cpu, turns,
  byte,                        \* the byte read_byte returned last
  eof,                         \* ghost: a read returned less than asked for
  panicked                     \* an unwrap failed

ringVars == <<arr, head, tail, status>>
callVars == <<buf_len, already, cpu, turns>>
procVars == <<fd_table, live>>
vars == <<ringVars, procVars, pc, callVars, byte, eof, panicked>>

End == {"read", "write"}

TypeOK ==
  /\ arr \in [0..(RING_BUFFER_SIZE - 1) -> Byte]
  /\ head \in 0..(RING_BUFFER_SIZE - 1) /\ tail \in 0..(RING_BUFFER_SIZE - 1)
  /\ status \in {"Full", "Empty", "Normal"}
  /\ fd_table \in [Proc -> Seq(End \cup {"none"})]
  /\ live \subseteq Proc
  /\ pc \in [Thread -> End \cup {"absent", "user", "dead"}]
  /\ buf_len \in [Thread -> Nat] /\ already \in [Thread -> Nat]
  /\ cpu \in Thread \cup {NoThread} /\ turns \in Nat
  /\ byte \in Byte /\ eof \in BOOLEAN /\ panicked \in BOOLEAN

\* make_pipe and sys_pipe; the descriptors of the standard streams are left out.
Init ==
  /\ arr = [i \in 0..(RING_BUFFER_SIZE - 1) |-> Zero]
  /\ head = 0 /\ tail = 0 /\ status = "Empty"
  /\ fd_table = [p \in Proc |-> IF p = First THEN <<"read", "write">> ELSE <<>>]
  /\ live = {First}
  /\ pc = [t \in Thread |-> IF t = Main[First] THEN "user" ELSE "absent"]
  /\ buf_len = [t \in Thread |-> 0] /\ already = [t \in Thread |-> 0]
  /\ cpu = NoThread /\ turns = 0
  /\ byte = Zero /\ eof = FALSE /\ panicked = FALSE

-----------------------------------------------------------------------------
(* PipeRingBuffer *)

\* Mutant: the index runs past the array.
AdvancePast(i) == i + 1

Advance(i) == (i + 1) % RING_BUFFER_SIZE

\* Determines ringVars and byte.
read_byte ==
  /\ byte' = arr[head]
  /\ head' = Advance(head)
  /\ status' = IF head' = tail THEN "Empty" ELSE "Normal"
  /\ UNCHANGED <<arr, tail>>

\* Determines ringVars.
write_byte(b) ==
  /\ arr' = [arr EXCEPT ![tail] = b]
  /\ tail' = Advance(tail)
  /\ status' = IF tail' = head THEN "Full" ELSE "Normal"
  /\ UNCHANGED head

\* Mutant: a buffer whose ends meet counts as empty.
MeetsEmpty ==
  IF tail >= head THEN tail - head ELSE tail + RING_BUFFER_SIZE - head

available_read ==
  IF status = "Empty" THEN 0
  ELSE IF tail > head THEN tail - head
  ELSE tail + RING_BUFFER_SIZE - head

available_write == RING_BUFFER_SIZE - available_read

\* Entries of a table that refer to an end of the pipe.
Refers(p, end) == \E fd \in 1..Len(fd_table[p]) : fd_table[p][fd] = end

\* The Weak reference cannot be upgraded: no table has the write end, and no
\* kernel stack has it.
all_write_ends_closed ==
  /\ \A p \in Proc : ~Refers(p, "write")
  /\ \A t \in Thread : pc[t] # "write"

-----------------------------------------------------------------------------
(* System calls *)

\* t runs user code, and no other thread is in the middle of a loop.
InUser(t) ==
  /\ ~panicked /\ cpu = NoThread
  /\ pc[t] = "user" /\ ProcOf[t] \in live

\* The table after alloc_fd has found an entry and it was set to end.
alloc_fd(table, end) ==
  IF \E fd \in 1..Len(table) : table[fd] = "none"
    THEN LET free == CHOOSE fd \in 1..Len(table) :
                       /\ table[fd] = "none"
                       /\ \A g \in 1..Len(table) : table[g] = "none" => fd <= g
         IN  [table EXCEPT ![free] = end]
    ELSE Append(table, end)

sys_dup(t, fd) ==
  LET table == fd_table[ProcOf[t]] IN
  /\ InUser(t) /\ fd \in 1..Len(table) /\ table[fd] # "none"
  /\ Len(alloc_fd(table, table[fd])) <= MaxFd
  /\ fd_table' = [fd_table EXCEPT ![ProcOf[t]] = alloc_fd(table, table[fd])]
  /\ UNCHANGED <<ringVars, live, pc, callVars, byte, eof, panicked>>

sys_close(t, fd) ==
  LET table == fd_table[ProcOf[t]] IN
  /\ InUser(t) /\ fd \in 1..Len(table) /\ table[fd] # "none"
  /\ fd_table' = [fd_table EXCEPT ![ProcOf[t]][fd] = "none"]
  /\ UNCHANGED <<ringVars, live, pc, callVars, byte, eof, panicked>>

\* sys_read and sys_write up to the first turn of the loop.
Call(t, fd, end, len) ==
  /\ InUser(t) /\ fd \in 1..Len(fd_table[ProcOf[t]])
  /\ fd_table[ProcOf[t]][fd] = end
  /\ pc' = [pc EXCEPT ![t] = end]
  /\ buf_len' = [buf_len EXCEPT ![t] = len]
  /\ already' = [already EXCEPT ![t] = 0]
  /\ cpu' = t /\ turns' = 0
  /\ UNCHANGED <<ringVars, procVars, byte, eof, panicked>>

sys_read(t, fd, len) == Call(t, fd, "read", len)
sys_write(t, fd, len) == Call(t, fd, "write", len)

\* fork asserts that the caller is the only thread that was ever created.
fork(t, q) ==
  /\ InUser(t) /\ q \in Proc \ live /\ pc[Main[q]] = "absent"
  /\ \A u \in Thread : ProcOf[u] = ProcOf[t] /\ u # t => pc[u] = "absent"
  /\ fd_table' = [fd_table EXCEPT ![q] = fd_table[ProcOf[t]]]
  /\ live' = live \cup {q}
  /\ pc' = [pc EXCEPT ![Main[q]] = "user"]
  /\ UNCHANGED <<ringVars, callVars, byte, eof, panicked>>

sys_thread_create(t, u) ==
  /\ InUser(t) /\ ProcOf[u] = ProcOf[t] /\ pc[u] = "absent"
  /\ pc' = [pc EXCEPT ![u] = "user"]
  /\ UNCHANGED <<ringVars, procVars, callVars, byte, eof, panicked>>

\* The main thread takes its process with it, whatever the others are doing.
sys_exit(t) ==
  /\ InUser(t)
  /\ pc' = [pc EXCEPT ![t] = "dead"]
  /\ IF t = Main[ProcOf[t]]
       THEN /\ fd_table' = [fd_table EXCEPT ![ProcOf[t]] = <<>>]
            /\ live' = live \ {ProcOf[t]}
       ELSE UNCHANGED procVars
  /\ UNCHANGED <<ringVars, callVars, byte, eof, panicked>>

-----------------------------------------------------------------------------
(* The loops of Pipe::read and Pipe::write *)

\* t is at the top of the loop: it has just come there, or has been scheduled.
AtTop(t, end) ==
  /\ ~panicked /\ pc[t] = end /\ ProcOf[t] \in live
  /\ cpu \in {t, NoThread} /\ turns = 0
  /\ already[t] < buf_len[t] \/ buf_len[t] = 0

Return(t) ==
  /\ pc' = [pc EXCEPT ![t] = "user"]
  /\ cpu' = NoThread /\ turns' = 0
  /\ buf_len' = [buf_len EXCEPT ![t] = 0]
  /\ already' = [already EXCEPT ![t] = 0]

\* Enters the for loop with so many turns.
Enter(t, n) ==
  /\ cpu' = t /\ turns' = n
  /\ UNCHANGED <<buf_len, already, pc, eof>>

suspend_current_and_run_next ==
  /\ cpu' = NoThread
  /\ UNCHANGED <<buf_len, already, turns, pc, eof>>

ReadTop(t) ==
  /\ AtTop(t, "read")
  /\ \/ /\ available_read = 0 /\ all_write_ends_closed
        /\ Return(t)
        /\ eof' = TRUE
     \/ /\ available_read = 0 /\ ~all_write_ends_closed
        /\ suspend_current_and_run_next
     \/ available_read # 0 /\ Enter(t, available_read)
  /\ UNCHANGED <<ringVars, procVars, byte, panicked>>

\* Mutant: the writer waits until all it has left fits.
WriteTopWhole(t) ==
  /\ AtTop(t, "write")
  /\ \/ /\ available_write < buf_len[t] - already[t]
        /\ suspend_current_and_run_next
     \/ /\ available_write >= buf_len[t] - already[t]
        /\ Enter(t, available_write)
  /\ UNCHANGED <<ringVars, procVars, byte, panicked>>

WriteTop(t) ==
  /\ AtTop(t, "write")
  /\ \/ available_write = 0 /\ suspend_current_and_run_next
     \/ available_write # 0 /\ Enter(t, available_write)
  /\ UNCHANGED <<ringVars, procVars, byte, panicked>>

\* t is in its for loop and has a byte to move; the last one ends the loop.
InLoop(t, end) ==
  /\ ~panicked /\ cpu = t /\ pc[t] = end /\ turns > 0
  /\ already[t] < buf_len[t]

Count(t) ==
  /\ already' = [already EXCEPT ![t] = @ + 1]
  /\ turns' = IF already[t] + 1 = buf_len[t] THEN 0 ELSE turns - 1
  /\ UNCHANGED <<buf_len, cpu, pc, procVars, eof, panicked>>

ReadByte(t) == InLoop(t, "read") /\ read_byte /\ Count(t)

WriteByte(t, b) == InLoop(t, "write") /\ write_byte(b) /\ Count(t) /\ UNCHANGED byte

\* The return inside the for loop.
Finish(t) ==
  /\ ~panicked /\ cpu = t /\ pc[t] \in End
  /\ already[t] = buf_len[t] /\ buf_len[t] > 0
  /\ Return(t)
  /\ UNCHANGED <<ringVars, procVars, byte, eof, panicked>>

\* buf_iter.next().unwrap() for a buffer without a byte.
UnwrapNone(t) ==
  /\ ~panicked /\ cpu = t /\ turns > 0 /\ buf_len[t] = 0
  /\ panicked' = TRUE
  /\ UNCHANGED <<ringVars, procVars, pc, callVars, byte, eof>>

-----------------------------------------------------------------------------
Program(t) ==
  \/ \E fd \in 1..MaxFd : sys_dup(t, fd) \/ sys_close(t, fd)
  \/ \E fd \in 1..MaxFd, len \in Lens : sys_read(t, fd, len) \/ sys_write(t, fd, len)
  \/ \E q \in Proc : fork(t, q)
  \/ \E u \in Thread : sys_thread_create(t, u)
  \/ sys_exit(t)

Kernel(t) ==
  \/ ReadTop(t) \/ WriteTop(t) \/ ReadByte(t)
  \/ \E b \in Byte : WriteByte(t, b)
  \/ Finish(t) \/ UnwrapNone(t)

Next == \E t \in Thread : Program(t) \/ Kernel(t)

Spec == Init /\ [][Next]_vars

\* Every thread inside a pipe is scheduled again and again: the ready queue is
\* first-in first-out, and a thread that waits in a pipe puts itself there.
\* It may find the buffer empty each time, but not a pipe that is closed open.
Fairness ==
  \A t \in Thread : /\ WF_vars(Kernel(t))
                    /\ SF_vars(ReadTop(t) /\ all_write_ends_closed)

FairSpec == Spec /\ Fairness

-----------------------------------------------------------------------------
(* Properties *)

\* The bytes between head and tail, the oldest first.
Contents ==
  [i \in 1..available_read |-> arr[(head + i - 1) % RING_BUFFER_SIZE]]

Fifo == INSTANCE BoundedFifo WITH
  Capacity <- RING_BUFFER_SIZE, queue <- Contents, out <- byte,
  closed <- all_write_ends_closed, ended <- eof

\* The ring buffer and its loops implement the queue: every byte that was
\* written is read once and in order, whoever reads and writes in between; the
\* pipe never counts as closed and then is written to; and a read comes back
\* short only when the pipe is empty for good.
FifoSpec == Fifo!Spec

Waiting(t, end) == pc[t] = end /\ ProcOf[t] \in live

\* A reader of a pipe that nobody can write to any more returns, also when other
\* readers take the bytes that are left.
ReadEnds ==
  \A t \in Thread :
    (Waiting(t, "read") /\ all_write_ends_closed) ~> ~Waiting(t, "read")

\* A reader and a writer that have the pipe to themselves do not wait for each
\* other for ever, whatever the lengths of their buffers: one of them returns.
NoStandstill ==
  \A t, u \in Thread :
    LET Alone == /\ Waiting(t, "read") /\ Waiting(u, "write")
                 /\ \A v \in Thread \ {t, u} : pc[v] \notin End
    IN  Alone ~> ~Alone

\* No unwrap fails: the for loops ask for a byte only when the buffer of the
\* caller has one.
NoPanic == ~panicked

\* What "Drop file descriptors" in exit_current_and_run_next is for: when no live
\* process has the write end, in its table or in a call, the reader sees that.
WriteEndsDropped ==
  all_write_ends_closed \/ \E p \in live :
    Refers(p, "write") \/ \E t \in Thread : ProcOf[t] = p /\ pc[t] = "write"
=============================================================================
