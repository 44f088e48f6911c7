------------------------------ MODULE SyncProofs ------------------------------
(***************************************************************************)
(* Proofs about the synchronisation objects of TaskSync and Discipline:    *)
(* semaphores, mutexes and the end of the machine.                         *)
(*                                                                         *)
(* TaskSyncProofs says where every task is.  The invariants below add what *)
(* a task in the kernel is doing there, and what that means for the object *)
(* it does it with.                                                        *)
(***************************************************************************)
EXTENDS Discipline, TaskSyncProofs

-----------------------------------------------------------------------------
(* A thread inside a syscall and the kind of the object it works on *)

\* The place where t will continue suits what its object was created as.
Fits(t) ==
  /\ kpc[t] = "lock" => kind[kobj[t]] \in {"spin", "blocking"}
  /\ kpc[t] = "locked" => kind[kobj[t]] = "blocking"
  /\ kpc[t] = "downed" => kind[kobj[t]] = "semaphore"

\* t waits in the waiter_queue of o for what o was created for.
WaitFits(t, o) ==
  \/ kind[o] = "blocking" /\ kpc[t] = "locked" /\ kobj[t] = o
  \/ kind[o] = "semaphore" /\ kpc[t] = "downed" /\ kobj[t] = o
  \/ kind[o] = "condvar" /\ kpc[t] = "lock"

\* The lists of a process are cleared only when it is terminated, so the kind
\* of an object that a live thread is in the middle of using does not change.
KindsFit ==
  /\ \A t \in Task : ProcOf[t] \notin zombie => Fits(t)
  /\ \A t \in Task, o \in Obj : Waits(t, o) /\ OwnerOf[o] \notin zombie => WaitFits(t, o)

\* An object of a live process that is not created yet is used by nobody.
LEMMA FreshObject ==
  ASSUME IInv, KindsFit, NEW o \in Obj, OwnerOf[o] \notin zombie, kind[o] = "none"
  PROVE  /\ waiter_queue[o] = <<>>
         /\ \A t \in Task : kpc[t] \in {"lock", "locked", "downed"} => kobj[t] # o
         /\ \A t \in Task : ~Waits(t, o)
  <1>1. \A t \in Task : ~Waits(t, o)
    BY Zenon DEF KindsFit, WaitFits
  <1>2. waiter_queue[o] \in Seq(Task)
    BY DEF IInv, TypeOK
  <1>3. waiter_queue[o] = <<>>
    BY <1>1, <1>2, TailQueue, Zenon DEF Waits
  <1>4. ASSUME NEW t \in Task, kpc[t] \in {"lock", "locked", "downed"}, kobj[t] = o
        PROVE  FALSE
    <2>1. ProcOf[t] \notin zombie
      BY <1>4, Zenon DEF IInv, Continues
    <2>2. Fits(t)
      BY <2>1, Zenon DEF KindsFit
    <2> QED BY <1>4, <2>2 DEF Fits
  <1> QED BY <1>1, <1>3, <1>4, Zenon

\* What Goto writes.
LEMMA GotoEffect ==
  ASSUME TypeOK, NEW t \in Task, NEW pc, NEW o, Goto(t, pc, o)
  PROVE  /\ kpc'[t] = pc /\ kobj'[t] = o
         /\ \A u \in Task : u # t => kpc'[u] = kpc[u] /\ kobj'[u] = kobj[u]
  BY ZenonT(30) DEF Goto, TypeOK

\* What queueing on an object does to the waiter queues.
LEMMA AppendWaits ==
  ASSUME TypeOK, NEW t \in Task, NEW o \in Obj,
         waiter_queue' = [waiter_queue EXCEPT ![o] = Append(@, t)]
  PROVE  /\ \A u \in Task, x \in Obj : Waits(u, x)' <=> Waits(u, x) \/ (x = o /\ u = t)
         /\ \A x \in Obj : x # o => waiter_queue'[x] = waiter_queue[x]
         /\ Len(waiter_queue'[o]) = Len(waiter_queue[o]) + 1
  <1>1. /\ waiter_queue[o] \in Seq(Task)
        /\ waiter_queue'[o] = Append(waiter_queue[o], t)
        /\ \A x \in Obj : x # o => waiter_queue'[x] = waiter_queue[x]
    BY Zenon DEF TypeOK
  <1>2. \A u \in Task : Waits(u, o)' <=> Waits(u, o) \/ u = t
    BY <1>1, AppendQueue DEF Waits
  <1>3. \A u \in Task, x \in Obj : x # o => (Waits(u, x)' <=> Waits(u, x))
    BY <1>1, Zenon DEF Waits
  <1>4. Len(waiter_queue'[o]) = Len(waiter_queue[o]) + 1
    BY <1>1, AppendQueue
  <1> QED BY <1>1, <1>2, <1>3, <1>4, Zenon

\* What popping the first waiter of an object does to the waiter queues.
LEMMA TailWaits ==
  ASSUME TypeOK, BlockedOnce, NEW o \in Obj, waiter_queue[o] # <<>>,
         waiter_queue' = [waiter_queue EXCEPT ![o] = Tail(@)]
  PROVE  LET w == Head(waiter_queue[o]) IN
         /\ w \in Task /\ Waits(w, o)
         /\ \A u \in Task, x \in Obj : Waits(u, x)' <=> Waits(u, x) /\ ~(x = o /\ u = w)
         /\ \A x \in Obj : x # o => waiter_queue'[x] = waiter_queue[x]
         /\ Len(waiter_queue'[o]) = Len(waiter_queue[o]) - 1
  <1> DEFINE w == Head(waiter_queue[o])
  <1>1. /\ waiter_queue[o] \in Seq(Task) /\ Distinct(waiter_queue[o])
        /\ waiter_queue'[o] = Tail(waiter_queue[o])
        /\ \A x \in Obj : x # o => waiter_queue'[x] = waiter_queue[x]
    BY Zenon DEF TypeOK, BlockedOnce
  <1>2. w \in Task /\ Waits(w, o)
    BY <1>1, TailQueue, Zenon DEF Waits
  <1>3. \A u \in Task : Waits(u, o)' <=> Waits(u, o) /\ u # w
    BY <1>1, TailQueue DEF Waits
  <1>4. \A u \in Task, x \in Obj : x # o => (Waits(u, x)' <=> Waits(u, x))
    BY <1>1, Zenon DEF Waits
  <1>5. Len(waiter_queue'[o]) = Len(waiter_queue[o]) - 1
    BY <1>1, TailQueue
  <1> QED BY <1>1, <1>2, <1>3, <1>4, <1>5, Zenon

\* A step leaves what u does in the kernel alone, and queues u nowhere.
Untouched(u) ==
  /\ kpc'[u] = kpc[u] /\ kobj'[u] = kobj[u]
  /\ \A x \in Obj : Waits(u, x)' => Waits(u, x)

\* A step leaves u where it fits.
Placed(u) ==
  /\ ProcOf[u] \notin zombie' => Fits(u)'
  /\ \A x \in Obj : Waits(u, x)' => WaitFits(u, x)'

\* Live objects that exist keep their kind.
KindsKept ==
  \A o \in Obj : OwnerOf[o] \notin zombie' => kind'[o] = kind[o] \/ kind[o] = "none"

\* What a step has to do for the kinds to fit afterwards.
LEMMA KindsStep ==
  ASSUME IInv, KindsFit, zombie \subseteq zombie', KindsKept,
         \A u \in Task : Untouched(u) \/ Placed(u)
  PROVE  KindsFit'
  <1>1. ASSUME NEW u \in Task, ProcOf[u] \notin zombie' PROVE Fits(u)'
    <2>1. CASE Placed(u)
      BY <1>1, <2>1, Zenon DEF Placed
    <2>2. CASE Untouched(u) /\ kpc[u] \notin {"lock", "locked", "downed"}
      BY <2>2 DEF Untouched, Fits
    <2>3. CASE Untouched(u) /\ kpc[u] \in {"lock", "locked", "downed"}
      <3>1. kobj[u] \in Obj /\ OwnerOf[kobj[u]] = ProcOf[u] /\ ProcOf[u] \notin zombie
        BY <1>1, <2>3, Zenon DEF IInv, Continues
      <3>2. kind[kobj[u]] # "none"
        BY <2>3, <3>1, FreshObject, Zenon
      <3>3. kind'[kobj[u]] = kind[kobj[u]] /\ kpc'[u] = kpc[u] /\ kobj'[u] = kobj[u]
        BY <1>1, <2>3, <3>1, <3>2, Zenon DEF KindsKept, Untouched
      <3>4. Fits(u)
        BY <3>1, Zenon DEF KindsFit
      <3> QED BY <3>3, <3>4, Zenon DEF Fits
    <2> QED BY <2>1, <2>2, <2>3, Zenon
  <1>2. ASSUME NEW u \in Task, NEW o \in Obj, Waits(u, o)', OwnerOf[o] \notin zombie'
        PROVE  WaitFits(u, o)'
    <2>1. CASE Placed(u)
      BY <1>2, <2>1, Zenon DEF Placed
    <2>2. CASE Untouched(u)
      <3>1. Waits(u, o) /\ OwnerOf[o] \notin zombie /\ kpc'[u] = kpc[u] /\ kobj'[u] = kobj[u]
        BY <1>2, <2>2, Zenon DEF Untouched
      <3>2. WaitFits(u, o)
        BY <3>1, Zenon DEF KindsFit
      <3>3. kind'[o] = kind[o]
        BY <1>2, <3>2, Zenon DEF KindsKept, WaitFits
      <3> QED BY <3>1, <3>2, <3>3, Zenon DEF WaitFits
    <2> QED BY <1>2, <2>1, <2>2, Zenon
  <1> QED BY <1>1, <1>2, Zenon DEF KindsFit

-----------------------------------------------------------------------------
(* Semaphores *)

\* The threads that up has woken and whose down has not returned yet.
Woken(o) == {t \in Task : kpc[t] = "downed" /\ kobj[t] = o /\ ~Waits(t, o)}

\* A semaphore's permits are the ones its count still grants and the ones that
\* threads woken by up are about to take.
SemaphoreAt(o) ==
  /\ permits[o] >= 0
  /\ kind[o] = "semaphore" =>
       /\ Len(waiter_queue[o]) = IF count[o] < 0 THEN -count[o] ELSE 0
       /\ IsFiniteSet(Woken(o))
       /\ permits[o] = (IF count[o] < 0 THEN 0 ELSE count[o]) + Cardinality(Woken(o))

\* Every semaphore of the kernel is exact.
SemaphoreInv == \A o \in Obj : SemaphoreAt(o)

\* No thread enters or leaves Semaphore::down.
DownsKept ==
  \A u \in Task : /\ kpc'[u] = "downed" <=> kpc[u] = "downed"
                  /\ kpc[u] = "downed" => kobj'[u] = kobj[u]

\* A semaphore that a step does not work on is as it was.
LEMMA SemaphoreKept ==
  ASSUME NEW o \in Obj, SemaphoreAt(o), permits'[o] = permits[o], count'[o] = count[o],
         kind'[o] = "semaphore" => /\ kind[o] = "semaphore"
                                   /\ waiter_queue'[o] = waiter_queue[o]
                                   /\ Woken(o)' = Woken(o)
  PROVE  SemaphoreAt(o)'
  BY Zenon DEF SemaphoreAt

\* A thread that is woken on o was in down on o and waits there no longer.
LEMMA WokenKept ==
  ASSUME NEW o \in Obj, waiter_queue'[o] = waiter_queue[o], DownsKept
  PROVE  Woken(o)' = Woken(o)
  <1>1. \A u \in Task : Waits(u, o)' <=> Waits(u, o)
    BY Zenon DEF Waits
  <1> QED BY <1>1 DEF Woken, DownsKept

\* A step of something else than a semaphore.
LEMMA SemaphoresKept ==
  ASSUME SemaphoreInv, DownsKept, UNCHANGED <<count, permits>>,
         \A o \in Obj : kind'[o] = "semaphore" =>
           kind[o] = "semaphore" /\ waiter_queue'[o] = waiter_queue[o]
  PROVE  SemaphoreInv'
  <1> SUFFICES ASSUME NEW o \in Obj PROVE SemaphoreAt(o)'
    BY Zenon DEF SemaphoreInv
  <1>1. SemaphoreAt(o)
    BY Zenon DEF SemaphoreInv
  <1>2. kind'[o] = "semaphore" => Woken(o)' = Woken(o)
    BY WokenKept, Zenon
  <1> QED BY <1>1, <1>2, SemaphoreKept, Zenon

-----------------------------------------------------------------------------
(* Mutexes *)

\* A mutex has at most one owner, which is a thread of its process; a mutex
\* with an owner is locked, one that is locked has an owner, and nothing but a
\* mutex is locked.
LockInv ==
  /\ \A t \in Task : \A o \in holds[t] : OwnerOf[o] = ProcOf[t]
  /\ \A t, u \in Task, o \in Obj : Owns(t, o) /\ Owns(u, o) => t = u
  /\ \A t \in Task, o \in Obj : Owns(t, o) /\ OwnerOf[o] \notin zombie => IsMutex(o) /\ locked[o]
  /\ \A o \in Obj : ~IsMutex(o) /\ OwnerOf[o] \notin zombie => ~locked[o]
  /\ LockHasOwner
  /\ NoPanic

\* A step that locks and unlocks nothing and panics in nothing.
LEMMA LocksKept ==
  ASSUME LockInv, UNCHANGED <<holds, locked>>, power' # "panic", zombie \subseteq zombie',
         \A t \in Task, o \in Obj : Owns(t, o)' <=> Owns(t, o),
         \A o \in Obj : \/ kind'[o] = kind[o]
                        \/ OwnerOf[o] \notin zombie /\ kind[o] = "none"
                        \/ OwnerOf[o] \in zombie /\ kind'[o] = "none"
  PROVE  LockInv'
  <1>1. \A o \in Obj : kind[o] = "none" \/ kind'[o] = "none" \/ (IsMutex(o)' <=> IsMutex(o))
    BY Zenon DEF IsMutex
  <1>2. \A o \in Obj : /\ kind[o] = "none" => ~IsMutex(o)
                       /\ kind'[o] = "none" => ~IsMutex(o)'
    BY Zenon DEF IsMutex
  <1>3. \A o \in Obj : \/ IsMutex(o)' <=> IsMutex(o)
                       \/ OwnerOf[o] \notin zombie /\ ~IsMutex(o)
                       \/ OwnerOf[o] \in zombie /\ ~IsMutex(o)'
    BY <1>1, <1>2, Zenon DEF IsMutex
  <1>4. \A t \in Task, o \in Obj :
           (Owns(t, o) /\ OwnerOf[o] \notin zombie)' => (IsMutex(o) /\ locked[o])'
    BY <1>3, ZenonT(30) DEF LockInv
  <1>5. \A o \in Obj : (~IsMutex(o) /\ OwnerOf[o] \notin zombie)' => ~locked'[o]
    BY <1>3, ZenonT(30) DEF LockInv
  <1>6. LockHasOwner'
    BY <1>3, ZenonT(30) DEF LockInv, LockHasOwner
  <1> QED BY <1>4, <1>5, <1>6, ZenonT(30) DEF LockInv, NoPanic

-----------------------------------------------------------------------------
(* The steps that touch no object *)

\* What the proofs about semaphores and locks keep.
SInv == IInv /\ KindsFit /\ SemaphoreInv

\* What every step has to keep, and what it has to keep when it is a step of a
\* disciplined program.
Keeps(d) == KindsFit' /\ SemaphoreInv' /\ (d /\ LockInv => LockInv')

\* No thread is, or gets, inside a lock or a down that it was not in before.
Quiet(u) ==
  \/ kpc'[u] = kpc[u] /\ kobj'[u] = kobj[u]
  \/ /\ kpc[u] \notin {"locked", "downed"}
     /\ kpc'[u] \notin {"lock", "locked", "downed"}
     /\ \A x \in Obj : ~Waits(u, x)

\* A step that leaves the objects alone, and no thread's place at one, keeps all.
LEMMA QuietStep ==
  ASSUME SInv, UNCHANGED <<objVars, ghostVars>>, zombie \subseteq zombie',
         \A u \in Task : Quiet(u)
  PROVE  Keeps(power' # "panic")
  <1>1. /\ kind' = kind /\ locked' = locked /\ count' = count
        /\ waiter_queue' = waiter_queue /\ holds' = holds /\ permits' = permits
    BY DEF objVars, ghostVars
  <1>2. \A u \in Task, x \in Obj : Waits(u, x)' <=> Waits(u, x)
    BY <1>1, Zenon DEF Waits
  <1>3. \A u \in Task : Untouched(u) \/ Placed(u)
    BY <1>2, ZenonT(30) DEF Quiet, Untouched, Placed, Fits
  <1>4. KindsFit'
    BY <1>1, <1>3, KindsStep, Zenon DEF KindsKept, SInv
  <1>5. DownsKept
    BY ZenonT(30) DEF Quiet, DownsKept
  <1>6. SemaphoreInv'
    BY <1>1, <1>5, SemaphoresKept, Zenon DEF SInv
  <1>7. \A t \in Task, o \in Obj : Owns(t, o)' <=> Owns(t, o)
    BY <1>1, <1>2, ZenonT(30) DEF Quiet, Owns
  <1>8. LockInv /\ power' # "panic" => LockInv'
    BY <1>1, <1>7, LocksKept, Zenon
  <1> QED BY <1>4, <1>6, <1>8, Zenon DEF Keeps

\* The running thread goes from one place outside the objects to another.
LEMMA QuietGoto ==
  ASSUME SInv, NEW t \in Task, current = t, kpc[t] \notin {"locked", "downed"},
         NEW pc \in {"user", "trap_end", "tick", "dead"}, Goto(t, pc, NoObj)
  PROVE  \A u \in Task : Quiet(u)
  <1>1. /\ kpc'[t] = pc
        /\ \A u \in Task : u # t => kpc'[u] = kpc[u] /\ kobj'[u] = kobj[u]
    BY GotoEffect, Zenon DEF SInv, IInv
  <1>2. \A x \in Obj : ~Waits(t, x)
    BY CurrentNowhere, NoTaskAssumption, Zenon DEF SInv, IInv
  <1> QED BY <1>1, <1>2, ZenonT(30) DEF Quiet

\* Nothing of the kernel's continuations changes.
LEMMA QuietKeep ==
  ASSUME SInv, UNCHANGED <<contVars, objVars, ghostVars>>, zombie \subseteq zombie'
  PROVE  Keeps(power' # "panic")
  <1>1. \A u \in Task : Quiet(u)
    BY Zenon DEF contVars, Quiet
  <1> QED BY <1>1, QuietStep, Zenon

\* exit_current_and_run_next leaves the objects alone; a process becomes a zombie.
LEMMA ExitKeeps ==
  ASSUME SInv, NEW t \in Task, current = t, kpc[t] \notin {"locked", "downed"},
         NEW k \in BOOLEAN, exit_current_and_run_next(t, k)
  PROVE  Keeps(power' # "panic")
  <1>1. /\ Goto(t, "dead", NoObj) /\ UNCHANGED <<objVars, ghostVars>>
        /\ zombie \subseteq zombie'
    BY Zenon DEF exit_current_and_run_next
  <1> QED BY <1>1, QuietGoto, QuietStep, Zenon

\* A syscall of a thread in user mode that touches no object.
LEMMA PlainSyscallKeeps ==
  ASSUME SInv, NEW t \in Task, NEW x \in Nat, NEW u \in Task, NEW p \in Proc,
         \/ sys_yield(t) \/ sys_sleep(t, x) \/ sys_thread_create(t, u) \/ sys_kill(t, p)
  PROVE  Keeps(TRUE)
  <1>1. /\ InUser(t) /\ Return(t) /\ UNCHANGED <<objVars, ghostVars>>
        /\ zombie' = zombie /\ power' = power
    <2>1. CASE sys_yield(t)
      BY <2>1, Zenon DEF sys_yield, procVars, exitVars
    <2>2. CASE sys_sleep(t, x)
      BY <2>2, Zenon DEF sys_sleep, procVars, exitVars
    <2>3. CASE sys_thread_create(t, u)
      BY <2>3, Zenon DEF sys_thread_create, procVars, exitVars
    <2>4. CASE sys_kill(t, p)
      BY <2>4, Zenon DEF sys_kill, procVars, exitVars
    <2> QED BY <2>1, <2>2, <2>3, <2>4, Zenon
  <1>2. current = t /\ kpc[t] = "user" /\ power' # "panic"
    BY <1>1, Zenon DEF InUser, Running
  <1> QED BY <1>1, <1>2, QuietGoto, QuietStep, Zenon DEF Return

\* sys_exit.
LEMMA SysExitKeeps ==
  ASSUME SInv, NEW t \in Task, sys_exit(t)
  PROVE  Keeps(TRUE)
  <1>1. current = t /\ kpc[t] = "user" /\ power' # "panic"
    BY Zenon DEF sys_exit, InUser, Running, exit_current_and_run_next
  <1>2. PICK k \in BOOLEAN : exit_current_and_run_next(t, k)
    <2>1. CASE ProcOf[t] \in killed
      <3>1. exit_current_and_run_next(t, TRUE)
        BY <2>1, Zenon DEF sys_exit, exit_current_and_run_next
      <3> QED BY <3>1, Zenon
    <2>2. CASE ProcOf[t] \notin killed
      <3>1. exit_current_and_run_next(t, FALSE)
        BY <2>2, Zenon DEF sys_exit, exit_current_and_run_next
      <3> QED BY <3>1, Zenon
    <2> QED BY <2>1, <2>2, Zenon
  <1> QED BY <1>1, <1>2, ExitKeeps, Zenon

\* The interrupt, check_timer, the clock and the end of a trap.
LEMMA TrapKeeps ==
  ASSUME SInv, NEW t \in Task, TimerInterrupt(t) \/ Tick(t) \/ trap_end(t)
  PROVE  Keeps(TRUE)
  <1>1. CASE TimerInterrupt(t)
    <2>1. /\ current = t /\ kpc[t] = "user" /\ power' # "panic" /\ Goto(t, "tick", NoObj)
          /\ zombie' = zombie /\ UNCHANGED <<objVars, ghostVars>>
      BY <1>1, Zenon DEF TimerInterrupt, InUser, Running, schedVars, procVars, exitVars
    <2> QED BY <2>1, QuietGoto, QuietStep, Zenon
  <1>2. CASE Tick(t)
    <2>1. /\ current = t /\ kpc[t] = "tick" /\ power' # "panic"
          /\ zombie' = zombie /\ UNCHANGED <<objVars, ghostVars>>
          /\ UNCHANGED contVars \/ Goto(t, "trap_end", NoObj)
      BY <1>2, Zenon DEF Tick, Running, procVars, exitVars, Return
    <2> QED BY <2>1, QuietKeep, QuietGoto, QuietStep, Zenon
  <1>3. CASE trap_end(t)
    <2>1. /\ current = t /\ kpc[t] = "trap_end"
          /\ \/ exit_current_and_run_next(t, TRUE)
             \/ /\ Goto(t, "user", NoObj) /\ zombie' = zombie
                /\ UNCHANGED <<objVars, ghostVars>>
      BY <1>3, Zenon DEF trap_end, Running, procVars, exitVars
    <2>2. power' # "panic"
      BY <1>3, Zenon DEF trap_end, Running, exit_current_and_run_next, schedVars
    <2> QED BY <2>1, <2>2, ExitKeeps, QuietGoto, QuietStep, Zenon
  <1> QED BY <1>1, <1>2, <1>3, Zenon

\* The clearing of the lists of a terminated process.
LEMMA DropListsKeeps ==
  ASSUME SInv, DropLists
  PROVE  Keeps(TRUE)
  <1>1. /\ exiting \in zombie /\ zombie' = zombie /\ power' # "panic"
        /\ UNCHANGED <<contVars, locked, count, waiter_queue, holds, permits>>
        /\ \A o \in Obj : \/ kind'[o] = kind[o]
                          \/ OwnerOf[o] \in zombie /\ kind'[o] = "none"
    BY ZenonT(30) DEF DropLists, SInv, IInv, Core, schedVars, ghostVars
  <1>2. /\ \A u \in Task, x \in Obj : Waits(u, x)' <=> Waits(u, x)
        /\ kpc' = kpc /\ kobj' = kobj
    BY <1>1, Zenon DEF Waits, contVars
  <1>3. KindsFit'
    BY <1>1, <1>2, KindsStep, Zenon DEF SInv, KindsKept, Untouched
  <1>4. SemaphoreInv'
    BY <1>1, <1>2, SemaphoresKept, Zenon DEF SInv, DownsKept
  <1>5. LockInv => LockInv'
    BY <1>1, <1>2, LocksKept, Zenon DEF Owns
  <1> QED BY <1>3, <1>4, <1>5, Zenon DEF Keeps

-----------------------------------------------------------------------------
(* The steps that work on an object *)

\* A thread that runs waits nowhere, and its process is alive.
LEMMA Runner ==
  ASSUME SInv, NEW t \in Task, Running(t)
  PROVE  /\ current = t /\ current # NoTask /\ power # "panic"
         /\ ProcOf[t] \notin zombie
         /\ \A x \in Obj : ~Waits(t, x)
         /\ TypeOK /\ Core /\ BlockedOnce
  BY CurrentNowhere, NoTaskAssumption, Zenon DEF SInv, IInv, Core, Running

\* What Return writes.
LEMMA ReturnEffect ==
  ASSUME TypeOK, NEW t \in Task, Return(t)
  PROVE  /\ kpc'[t] = "trap_end"
         /\ \A u \in Task : u # t => kpc'[u] = kpc[u] /\ kobj'[u] = kobj[u]
  BY GotoEffect, Zenon DEF Return

\* The running thread returns from its syscall, and other threads only leave
\* the queues: every thread fits as before.
LEMMA ReturnKinds ==
  ASSUME SInv, NEW t \in Task, Running(t), Return(t), UNCHANGED zombie, KindsKept,
         \A u \in Task, x \in Obj : Waits(u, x)' => Waits(u, x)
  PROVE  KindsFit'
  <1>1. /\ kpc'[t] = "trap_end" /\ \A x \in Obj : ~Waits(t, x)
        /\ \A u \in Task : u # t => kpc'[u] = kpc[u] /\ kobj'[u] = kobj[u]
    BY Runner, ReturnEffect, Zenon
  <1>2. Placed(t)
    BY <1>1, ZenonT(30) DEF Placed, Fits
  <1>3. \A u \in Task : u # t => Untouched(u)
    BY <1>1, Zenon DEF Untouched
  <1> QED BY <1>2, <1>3, KindsStep, Zenon DEF SInv

\* The running thread returns from a syscall other than down.
LEMMA ReturnDowns ==
  ASSUME TypeOK, NEW t \in Task, kpc[t] # "downed", Return(t)
  PROVE  DownsKept
  BY ReturnEffect, ZenonT(30) DEF DownsKept

\* sys_mutex_create and sys_condvar_create.
LEMMA CreateKeeps ==
  ASSUME SInv, NEW t \in Task, NEW o \in Obj, NEW b \in BOOLEAN,
         sys_mutex_create(t, o, b) \/ sys_condvar_create(t, o)
  PROVE  Keeps(TRUE)
  <1>1. /\ InUser(t) /\ OwnerOf[o] = ProcOf[t] /\ kind[o] = "none" /\ Return(t)
        /\ zombie' = zombie /\ power' = power /\ locked' = locked /\ count' = count
        /\ waiter_queue' = waiter_queue /\ holds' = holds /\ permits' = permits
        /\ \A x \in Obj : x # o => kind'[x] = kind[x]
        /\ kind'[o] \in {"blocking", "spin", "condvar"}
    <2>0. kind \in [Obj -> Kinds]
      BY DEF SInv, IInv, TypeOK
    <2>1. CASE sys_mutex_create(t, o, b)
      BY <2>0, <2>1, ZenonT(30) DEF sys_mutex_create, Named, procVars, exitVars, ghostVars
    <2>2. CASE sys_condvar_create(t, o)
      BY <2>0, <2>2, ZenonT(30) DEF sys_condvar_create, Named, procVars, exitVars, ghostVars
    <2> QED BY <2>1, <2>2, Zenon
  <1>2. /\ Running(t) /\ kpc[t] = "user" /\ ProcOf[t] \notin zombie /\ power' # "panic"
        /\ TypeOK
    BY <1>1, Runner, Zenon DEF InUser
  <1>3. \A u \in Task, x \in Obj : Waits(u, x)' <=> Waits(u, x)
    BY <1>1, Zenon DEF Waits
  <1>4. KindsFit'
    BY <1>1, <1>2, <1>3, ReturnKinds, Zenon DEF KindsKept
  <1>5. SemaphoreInv'
    <2>1. DownsKept
      BY <1>1, <1>2, ReturnDowns, Zenon
    <2>2. \A x \in Obj : kind'[x] = "semaphore" => kind[x] = "semaphore"
      BY <1>1, ZenonT(30)
    <2> QED BY <1>1, <2>1, <2>2, SemaphoresKept, Zenon DEF SInv
  <1>6. LockInv => LockInv'
    <2>1. \A u \in Task, x \in Obj : Owns(u, x)' <=> Owns(u, x)
      BY <1>1, <1>2, <1>3, ReturnEffect, ZenonT(30) DEF Owns
    <2> QED BY <1>1, <1>2, <2>1, LocksKept, Zenon
  <1> QED BY <1>4, <1>5, <1>6, Zenon DEF Keeps

\* sys_semaphore_create: the semaphore has no waiter yet and nobody is in down.
LEMMA SemaphoreCreateKeeps ==
  ASSUME SInv, NEW t \in Task, NEW o \in Obj, NEW n \in Nat, sys_semaphore_create(t, o, n)
  PROVE  Keeps(TRUE)
  <1>1. /\ InUser(t) /\ OwnerOf[o] = ProcOf[t] /\ kind[o] = "none" /\ Return(t)
        /\ zombie' = zombie /\ power' = power /\ locked' = locked
        /\ waiter_queue' = waiter_queue /\ holds' = holds
        /\ \A x \in Obj : x # o => /\ kind'[x] = kind[x] /\ count'[x] = count[x]
                                   /\ permits'[x] = permits[x]
        /\ kind'[o] = "semaphore" /\ count'[o] = n /\ permits'[o] = n
    BY ZenonT(30) DEF sys_semaphore_create, Named, procVars, exitVars, SInv, IInv, TypeOK
  <1>2. /\ Running(t) /\ kpc[t] = "user" /\ ProcOf[t] \notin zombie /\ power' # "panic"
        /\ TypeOK
    BY <1>1, Runner, Zenon DEF InUser
  <1>3. \A u \in Task, x \in Obj : Waits(u, x)' <=> Waits(u, x)
    BY <1>1, Zenon DEF Waits
  <1>4. KindsFit'
    BY <1>1, <1>2, <1>3, ReturnKinds, ZenonT(30) DEF KindsKept
  <1>5. DownsKept
    BY <1>1, <1>2, ReturnDowns, Zenon
  <1>6. ASSUME NEW x \in Obj, x # o PROVE SemaphoreAt(x)'
    <2>1. Woken(x)' = Woken(x) /\ SemaphoreAt(x)
      BY <1>1, <1>5, WokenKept, ZenonT(30) DEF SInv, SemaphoreInv
    <2> QED BY <1>1, <1>6, <2>1, SemaphoreKept, ZenonT(30)
  <1>7. SemaphoreAt(o)'
    <2>1. waiter_queue[o] = <<>> /\ \A u \in Task : kpc[u] = "downed" => kobj[u] # o
      BY <1>1, <1>2, FreshObject, ZenonT(30) DEF SInv
    <2>2. Woken(o) = {} /\ Woken(o)' = Woken(o)
      BY <1>1, <1>5, <2>1, WokenKept, ZenonT(30) DEF Woken
    <2>3. IsFiniteSet(Woken(o)') /\ Cardinality(Woken(o)') = 0
      BY <2>2, FS_EmptySet, Zenon
    <2>4. Len(waiter_queue'[o]) = 0
      BY <1>1, <2>1
    <2> HIDE DEF Woken
    <2> QED BY <1>1, <2>3, <2>4 DEF SemaphoreAt
  <1>8. LockInv => LockInv'
    <2>1. \A u \in Task, x \in Obj : Owns(u, x)' <=> Owns(u, x)
      BY <1>1, <1>2, <1>3, ReturnEffect, ZenonT(30) DEF Owns
    <2> QED BY <1>1, <1>2, <2>1, LocksKept, ZenonT(30)
  <1> QED BY <1>4, <1>6, <1>7, <1>8, Zenon DEF Keeps, SemaphoreInv

\* Nobody waits in MutexBlocking::lock of an object that is not such a mutex.
LEMMA NotLockedOn ==
  ASSUME SInv, NEW o \in Obj, OwnerOf[o] \notin zombie, kind[o] # "blocking"
  PROVE  \A u \in Task : ~(kpc[u] = "locked" /\ kobj[u] = o)
  <1> SUFFICES ASSUME NEW u \in Task, kpc[u] = "locked", kobj[u] = o PROVE FALSE
    BY Zenon
  <1>1. ProcOf[u] \notin zombie
    BY Zenon DEF SInv, IInv, Continues
  <1> QED BY <1>1, ZenonT(30) DEF SInv, KindsFit, Fits

\* The running thread returns from a syscall on an object that is not a mutex.
LEMMA ReturnOwns ==
  ASSUME SInv, NEW t \in Task, Running(t), kpc[t] # "locked", Return(t), holds' = holds,
         NEW o \in Obj, OwnerOf[o] \notin zombie, kind[o] # "blocking",
         \A x \in Obj : x # o => waiter_queue'[x] = waiter_queue[x]
  PROVE  \A u \in Task, x \in Obj : Owns(u, x)' <=> Owns(u, x)
  <1>1. \A u \in Task : ~(kpc[u] = "locked" /\ kobj[u] = o)
    BY NotLockedOn, Zenon
  <1>2. /\ kpc'[t] = "trap_end"
        /\ \A u \in Task : u # t => kpc'[u] = kpc[u] /\ kobj'[u] = kobj[u]
    BY Runner, ReturnEffect, Zenon
  <1>3. \A u \in Task, x \in Obj : x # o => (Waits(u, x)' <=> Waits(u, x))
    BY Zenon DEF Waits
  <1> QED BY <1>1, <1>2, <1>3, ZenonT(30) DEF Owns

\* A panic of an undisciplined program.
LEMMA PanicKeeps ==
  ASSUME SInv, Panic
  PROVE  Keeps(FALSE)
  <1>1. UNCHANGED <<contVars, objVars, ghostVars>> /\ zombie \subseteq zombie'
    BY Zenon DEF Panic, procVars, exitVars
  <1> QED BY <1>1, QuietKeep, Zenon DEF Keeps

\* Semaphore::up that wakes its first waiter, whose down takes the new permit.
LEMMA UpWakesAt ==
  ASSUME SInv, NEW t \in Task, Running(t), NEW o \in Obj, OwnerOf[o] = ProcOf[t],
         kind[o] = "semaphore", kind'[o] = kind[o], UpWakes(o), DownsKept,
         waiter_queue' = [waiter_queue EXCEPT ![o] = Tail(@)],
         count'[o] = count[o] + 1, permits'[o] = permits[o] + 1
  PROVE  SemaphoreAt(o)'
  <1> DEFINE w == Head(waiter_queue[o])
  <1>1. /\ waiter_queue[o] # <<>> /\ count[o] + 1 <= 0
    BY Zenon DEF UpWakes
  <1>2. TypeOK /\ BlockedOnce /\ OwnerOf[o] \notin zombie
    BY Runner, Zenon
  <1>3. /\ w \in Task /\ Waits(w, o)
        /\ \A u \in Task : Waits(u, o)' <=> Waits(u, o) /\ u # w
        /\ Len(waiter_queue'[o]) = Len(waiter_queue[o]) - 1
    BY <1>1, <1>2, TailWaits, Zenon
  <1> HIDE DEF w
  <1>4. kpc[w] = "downed" /\ kobj[w] = o
    BY <1>2, <1>3, Zenon DEF SInv, KindsFit, WaitFits
  <1>5. Woken(o)' = Woken(o) \cup {w} /\ w \notin Woken(o)
    BY <1>3, <1>4 DEF Woken, DownsKept
  <1>6. /\ permits[o] >= 0 /\ IsFiniteSet(Woken(o))
        /\ Len(waiter_queue[o]) = IF count[o] < 0 THEN -count[o] ELSE 0
        /\ permits[o] = (IF count[o] < 0 THEN 0 ELSE count[o]) + Cardinality(Woken(o))
    BY Zenon DEF SInv, SemaphoreInv, SemaphoreAt
  <1>7. IsFiniteSet(Woken(o)') /\ Cardinality(Woken(o)') = Cardinality(Woken(o)) + 1
    BY <1>5, <1>6, FS_AddElement, Zenon
  <1>8. Cardinality(Woken(o)) \in Nat /\ count[o] \in Int
    BY <1>2, <1>6, FS_CardinalityType, ZenonT(30) DEF TypeOK
  <1> HIDE DEF Woken
  <1> DEFINE c == Cardinality(Woken(o))  c2 == Cardinality(Woken(o)')
  <1>9. c2 = c + 1 /\ c \in Nat
    BY <1>7, <1>8
  <1>10. permits[o] = (IF count[o] < 0 THEN 0 ELSE count[o]) + c
    BY <1>6
  <1> HIDE DEF c, c2
  <1>11. /\ permits'[o] >= 0
         /\ permits'[o] = (IF count'[o] < 0 THEN 0 ELSE count'[o]) + c2
         /\ Len(waiter_queue'[o]) = IF count'[o] < 0 THEN -count'[o] ELSE 0
    BY <1>1, <1>3, <1>6, <1>8, <1>9, <1>10, SMTT(30)
  <1> QED BY <1>7, <1>11, Zenon DEF SemaphoreAt, c2

\* Semaphore::up without a waiter: a negative count would have had one.
LEMMA UpQuietAt ==
  ASSUME SInv, NEW o \in Obj, kind[o] = "semaphore", ~UpWakes(o), DownsKept,
         waiter_queue' = waiter_queue,
         count'[o] = count[o] + 1, permits'[o] = permits[o] + 1
  PROVE  SemaphoreAt(o)'
  <1>1. Woken(o)' = Woken(o)
    BY WokenKept, Zenon
  <1>2. /\ permits[o] >= 0 /\ IsFiniteSet(Woken(o))
        /\ Len(waiter_queue[o]) = IF count[o] < 0 THEN -count[o] ELSE 0
        /\ permits[o] = (IF count[o] < 0 THEN 0 ELSE count[o]) + Cardinality(Woken(o))
    BY Zenon DEF SInv, SemaphoreInv, SemaphoreAt
  <1>3. Cardinality(Woken(o)) \in Nat /\ count[o] \in Int /\ waiter_queue[o] \in Seq(Task)
    BY <1>2, FS_CardinalityType, ZenonT(30) DEF TypeOK, SInv, IInv
  <1> HIDE DEF Woken
  <1>4. count[o] >= 0
    BY <1>2, <1>3 DEF UpWakes
  <1> DEFINE c == Cardinality(Woken(o))
  <1>5. permits[o] = count[o] + c /\ c \in Nat
    BY <1>2, <1>3, <1>4
  <1> HIDE DEF c
  <1>6. /\ permits'[o] >= 0
        /\ permits'[o] = (IF count'[o] < 0 THEN 0 ELSE count'[o]) + c
        /\ Len(waiter_queue'[o]) = IF count'[o] < 0 THEN -count'[o] ELSE 0
    BY <1>2, <1>3, <1>4, <1>5, SMTT(30)
  <1> QED BY <1>1, <1>2, <1>6, Zenon DEF SemaphoreAt, c

\* sys_semaphore_up.
LEMMA UpKeeps ==
  ASSUME SInv, NEW t \in Task, NEW o \in Obj, sys_semaphore_up(t, o)
  PROVE  Keeps(kind[o] = "semaphore")
  <1>1. CASE kind[o] # "semaphore"
    BY <1>1, PanicKeeps, Zenon DEF sys_semaphore_up, Keeps
  <1>2. CASE kind[o] = "semaphore"
    <2>1. /\ InUser(t) /\ OwnerOf[o] = ProcOf[t] /\ Return(t)
          /\ zombie' = zombie /\ power' = power /\ locked' = locked /\ kind' = kind
          /\ holds' = holds
          /\ \/ UpWakes(o) /\ waiter_queue' = [waiter_queue EXCEPT ![o] = Tail(@)]
             \/ ~UpWakes(o) /\ waiter_queue' = waiter_queue
      BY <1>2, Zenon DEF sys_semaphore_up, Named, procVars, exitVars
    <2>2. \A x \in Obj : x # o => count'[x] = count[x] /\ permits'[x] = permits[x]
      BY <1>2, Zenon DEF sys_semaphore_up, SInv, IInv, TypeOK
    <2>3. count'[o] = count[o] + 1 /\ permits'[o] = permits[o] + 1
      BY <1>2, Zenon DEF sys_semaphore_up, SInv, IInv, TypeOK
    <2>4. /\ Running(t) /\ kpc[t] = "user" /\ ProcOf[t] \notin zombie /\ power' # "panic"
          /\ TypeOK /\ BlockedOnce
      BY <2>1, Runner, Zenon DEF InUser
    <2>5. /\ \A x \in Obj : x # o => waiter_queue'[x] = waiter_queue[x]
          /\ \A u \in Task, x \in Obj : Waits(u, x)' => Waits(u, x)
      <3>1. CASE UpWakes(o)
        BY <2>1, <2>4, <3>1, TailWaits, Zenon DEF UpWakes
      <3>2. CASE ~UpWakes(o)
        BY <2>1, <3>2, Zenon DEF Waits
      <3> QED BY <3>1, <3>2, Zenon
    <2>6. KindsFit'
      BY <2>1, <2>4, <2>5, ReturnKinds, Zenon DEF KindsKept
    <2>7. DownsKept
      BY <2>1, <2>4, ReturnDowns, Zenon
    <2>8. SemaphoreAt(o)'
      BY <1>2, <2>1, <2>3, <2>4, <2>7, UpWakesAt, UpQuietAt, Zenon
    <2>9. ASSUME NEW x \in Obj, x # o PROVE SemaphoreAt(x)'
      <3>1. Woken(x)' = Woken(x) /\ SemaphoreAt(x)
        BY <2>5, <2>7, <2>9, WokenKept, Zenon DEF SInv, SemaphoreInv
      <3> QED BY <2>1, <2>2, <2>5, <2>9, <3>1, SemaphoreKept, Zenon
    <2>10. LockInv => LockInv'
      <3>1. \A u \in Task, x \in Obj : Owns(u, x)' <=> Owns(u, x)
        BY <1>2, <2>1, <2>4, <2>5, ReturnOwns, Zenon
      <3> QED BY <2>1, <2>4, <3>1, LocksKept, Zenon
    <2> QED BY <2>6, <2>8, <2>9, <2>10, ZenonT(30) DEF Keeps, SemaphoreInv
  <1> QED BY <1>1, <1>2, Zenon

\* Semaphore::down that blocks: the caller is in down, and is not woken.
LEMMA DownBlocks_Keeps ==
  ASSUME SInv, NEW t \in Task, InUser(t), NEW o \in Obj, OwnerOf[o] = ProcOf[t],
         kind[o] = "semaphore", DownBlocks(o),
         waiter_queue' = [waiter_queue EXCEPT ![o] = Append(@, t)],
         Goto(t, "downed", o), count' = [count EXCEPT ![o] = @ - 1],
         UNCHANGED <<permits, kind, locked, holds, zombie, power>>
  PROVE  Keeps(TRUE)
  <1>1. /\ Running(t) /\ kpc[t] = "user" /\ ProcOf[t] \notin zombie /\ power' # "panic"
        /\ TypeOK /\ \A x \in Obj : ~Waits(t, x)
    BY Runner, Zenon DEF InUser
  <1>2. /\ \A u \in Task, x \in Obj : Waits(u, x)' <=> Waits(u, x) \/ (x = o /\ u = t)
        /\ \A x \in Obj : x # o => waiter_queue'[x] = waiter_queue[x]
        /\ Len(waiter_queue'[o]) = Len(waiter_queue[o]) + 1
    BY <1>1, AppendWaits, Zenon
  <1>3. /\ kpc'[t] = "downed" /\ kobj'[t] = o
        /\ \A u \in Task : u # t => kpc'[u] = kpc[u] /\ kobj'[u] = kobj[u]
    BY <1>1, GotoEffect, Zenon
  <1>4. KindsFit'
    <2>1. Placed(t)
      BY <1>1, <1>2, <1>3, ZenonT(30) DEF Placed, Fits, WaitFits
    <2>2. \A u \in Task : u # t => Untouched(u)
      BY <1>2, <1>3, Zenon DEF Untouched
    <2> QED BY <2>1, <2>2, KindsStep, Zenon DEF SInv, KindsKept
  <1>5. \A x \in Obj : Woken(x)' = Woken(x)
    <2> SUFFICES ASSUME NEW x \in Obj, NEW u \in Task
                 PROVE  (/\ kpc'[u] = "downed" /\ kobj'[u] = x /\ ~Waits(u, x)')
                          <=> (kpc[u] = "downed" /\ kobj[u] = x /\ ~Waits(u, x))
      BY Zenon DEF Woken
    <2> QED BY <1>1, <1>2, <1>3, ZenonT(30)
  <1>6. /\ \A x \in Obj : x # o => count'[x] = count[x]
        /\ count'[o] = count[o] - 1 /\ count[o] \in Int
    BY <1>1, Zenon DEF TypeOK
  <1>7. ASSUME NEW x \in Obj, x # o PROVE SemaphoreAt(x)'
    <2>1. SemaphoreAt(x) /\ Woken(x)' = Woken(x)
      BY <1>5, Zenon DEF SInv, SemaphoreInv
    <2> QED BY <1>2, <1>6, <1>7, <2>1, SemaphoreKept, Zenon
  <1>8. SemaphoreAt(o)'
    <2>1. /\ permits[o] >= 0 /\ IsFiniteSet(Woken(o))
          /\ Len(waiter_queue[o]) = IF count[o] < 0 THEN -count[o] ELSE 0
          /\ permits[o] = (IF count[o] < 0 THEN 0 ELSE count[o]) + Cardinality(Woken(o))
      BY Zenon DEF SInv, SemaphoreInv, SemaphoreAt
    <2>2. Cardinality(Woken(o)) \in Nat
      BY <2>1, FS_CardinalityType, Zenon
    <2> DEFINE c == Cardinality(Woken(o))
    <2> HIDE DEF Woken
    <2>3. permits[o] = (IF count[o] < 0 THEN 0 ELSE count[o]) + c /\ c \in Nat
      BY <2>1, <2>2
    <2> HIDE DEF c
    <2>4. /\ permits[o] = (IF count'[o] < 0 THEN 0 ELSE count'[o]) + c
          /\ Len(waiter_queue'[o]) = IF count'[o] < 0 THEN -count'[o] ELSE 0
      BY <1>2, <1>6, <2>1, <2>3 DEF DownBlocks
    <2> QED BY <1>5, <2>1, <2>4, Zenon DEF SemaphoreAt, c
  <1>9. LockInv => LockInv'
    <2>1. \A u \in Task : ~(kpc[u] = "locked" /\ kobj[u] = o)
      BY <1>1, NotLockedOn, Zenon
    <2>2. \A u \in Task, x \in Obj : Owns(u, x)' <=> Owns(u, x)
      BY <1>1, <1>2, <1>3, <2>1, ZenonT(30) DEF Owns
    <2> QED BY <1>1, <2>2, LocksKept, Zenon
  <1> QED BY <1>4, <1>7, <1>8, <1>9, Zenon DEF Keeps, SemaphoreInv

\* Semaphore::down that returns at once takes a permit of the count.
LEMMA DownReturns_Keeps ==
  ASSUME SInv, NEW t \in Task, InUser(t), NEW o \in Obj, OwnerOf[o] = ProcOf[t],
         kind[o] = "semaphore", ~DownBlocks(o),
         Return(t), count' = [count EXCEPT ![o] = @ - 1],
         permits' = [permits EXCEPT ![o] = @ - 1],
         UNCHANGED <<waiter_queue, kind, locked, holds, zombie, power>>
  PROVE  Keeps(TRUE)
  <1>0. waiter_queue' = waiter_queue /\ kind' = kind
    OBVIOUS
  <1>1. /\ Running(t) /\ kpc[t] = "user" /\ ProcOf[t] \notin zombie /\ power' # "panic"
        /\ TypeOK
    BY Runner, Zenon DEF InUser
  <1>2. \A u \in Task, x \in Obj : Waits(u, x)' <=> Waits(u, x)
    BY Zenon DEF Waits
  <1>3. KindsFit'
    BY <1>1, <1>2, ReturnKinds, Zenon DEF KindsKept
  <1>4. \A x \in Obj : Woken(x)' = Woken(x)
    BY <1>1, ReturnDowns, WokenKept, Zenon
  <1>5. /\ \A x \in Obj : x # o => count'[x] = count[x] /\ permits'[x] = permits[x]
        /\ count'[o] = count[o] - 1 /\ count[o] \in Int /\ permits'[o] = permits[o] - 1
    BY <1>1, Zenon DEF TypeOK
  <1>6. ASSUME NEW x \in Obj, x # o PROVE SemaphoreAt(x)'
    <2>1. SemaphoreAt(x) /\ Woken(x)' = Woken(x)
      BY <1>4, Zenon DEF SInv, SemaphoreInv
    <2> QED BY <1>5, <1>6, <2>1, SemaphoreKept, Zenon
  <1>7. SemaphoreAt(o)'
    <2>1. /\ IsFiniteSet(Woken(o))
          /\ Len(waiter_queue[o]) = IF count[o] < 0 THEN -count[o] ELSE 0
          /\ permits[o] = (IF count[o] < 0 THEN 0 ELSE count[o]) + Cardinality(Woken(o))
      BY Zenon DEF SInv, SemaphoreInv, SemaphoreAt
    <2>2. Cardinality(Woken(o)) \in Nat
      BY <2>1, FS_CardinalityType, Zenon
    <2> DEFINE c == Cardinality(Woken(o))
    <2> HIDE DEF Woken
    <2>3. permits[o] = (IF count[o] < 0 THEN 0 ELSE count[o]) + c /\ c \in Nat
      BY <2>1, <2>2
    <2> HIDE DEF c
    <2>4. /\ permits'[o] = (IF count'[o] < 0 THEN 0 ELSE count'[o]) + c /\ permits'[o] >= 0
          /\ Len(waiter_queue'[o]) = IF count'[o] < 0 THEN -count'[o] ELSE 0
      BY <1>0, <1>5, <2>1, <2>3 DEF DownBlocks
    <2>5. IsFiniteSet(Woken(o)') /\ c = Cardinality(Woken(o)')
      BY <1>4, <2>1, Zenon DEF c
    <2> QED BY <2>4, <2>5 DEF SemaphoreAt
  <1>8. LockInv => LockInv'
    <2>1. \A u \in Task, x \in Obj : Owns(u, x)' <=> Owns(u, x)
      BY <1>1, ReturnOwns, Zenon
    <2> QED BY <1>1, <2>1, LocksKept, Zenon
  <1> QED BY <1>3, <1>6, <1>7, <1>8, Zenon DEF Keeps, SemaphoreInv

\* sys_semaphore_down.
LEMMA DownKeeps ==
  ASSUME SInv, NEW t \in Task, NEW o \in Obj, sys_semaphore_down(t, o)
  PROVE  Keeps(kind[o] = "semaphore")
  <1>1. CASE kind[o] # "semaphore"
    BY <1>1, PanicKeeps, Zenon DEF sys_semaphore_down, Keeps
  <1>2. CASE kind[o] = "semaphore"
    <2>1. /\ InUser(t) /\ OwnerOf[o] = ProcOf[t] /\ count' = [count EXCEPT ![o] = @ - 1]
          /\ UNCHANGED <<kind, locked, holds, zombie, power>>
      BY <1>2, Zenon DEF sys_semaphore_down, Named, procVars, exitVars
    <2>2. CASE DownBlocks(o)
      BY <1>2, <2>1, <2>2, DownBlocks_Keeps, Zenon DEF sys_semaphore_down, Keeps
    <2>3. CASE ~DownBlocks(o)
      BY <1>2, <2>1, <2>3, DownReturns_Keeps, Zenon DEF sys_semaphore_down, Keeps
    <2> QED BY <2>2, <2>3, Zenon
  <1> QED BY <1>1, <1>2, Zenon

\* A thread that was woken in down returns from it and takes its permit.
LEMMA ResumeDownKeeps ==
  ASSUME SInv, NEW t \in Task, ResumeDown(t)
  PROVE  Keeps(TRUE)
  <1>0. kobj[t] \in Obj
    BY Zenon DEF SInv, IInv, Continues, ResumeDown
  <1>o. PICK o \in Obj : o = kobj[t]
    BY <1>0, Zenon
  <1>1. /\ Running(t) /\ kpc[t] = "downed" /\ Return(t) /\ power' = power /\ zombie' = zombie
        /\ kind' = kind /\ locked' = locked /\ count' = count
        /\ waiter_queue' = waiter_queue /\ holds' = holds
        /\ permits' = [permits EXCEPT ![o] = @ - 1]
    BY <1>o, Zenon DEF ResumeDown, procVars, exitVars, objVars
  <1>2. /\ TypeOK /\ ProcOf[t] \notin zombie /\ power' # "panic" /\ \A x \in Obj : ~Waits(t, x)
    BY <1>1, Runner, Zenon
  <1>3. OwnerOf[o] = ProcOf[t] /\ kind[o] = "semaphore"
    BY <1>o, <1>1, <1>2, Zenon DEF SInv, IInv, Continues, KindsFit, Fits
  <1>4. \A u \in Task, x \in Obj : Waits(u, x)' <=> Waits(u, x)
    BY <1>1, Zenon DEF Waits
  <1>5. KindsFit'
    BY <1>1, <1>4, ReturnKinds, Zenon DEF KindsKept
  <1>6. /\ kpc'[t] = "trap_end"
        /\ \A u \in Task : u # t => kpc'[u] = kpc[u] /\ kobj'[u] = kobj[u]
    BY <1>1, <1>2, ReturnEffect, Zenon
  <1>7. /\ \A x \in Obj : x # o => permits'[x] = permits[x]
        /\ permits'[o] = permits[o] - 1 /\ count[o] \in Int
    BY <1>1, <1>2, <1>3, Zenon DEF TypeOK
  <1>8. t \in Woken(o) /\ Woken(o)' = Woken(o) \ {t}
    <2>1. t \in Woken(o)
      BY <1>o, <1>1, <1>2, Zenon DEF Woken
    <2>2. \A u \in Task : /\ u = t => kpc'[u] # "downed"
                          /\ u # t => /\ kpc'[u] = kpc[u] /\ kobj'[u] = kobj[u]
                                      /\ Waits(u, o)' <=> Waits(u, o)
      BY <1>4, <1>6, Zenon
    <2> QED BY <2>1, <2>2 DEF Woken
  <1>9. \A x \in Obj : x # o => Woken(x)' = Woken(x)
    BY <1>o, <1>1, <1>4, <1>6, ZenonT(30) DEF Woken
  <1>10. ASSUME NEW x \in Obj, x # o PROVE SemaphoreAt(x)'
    <2>1. SemaphoreAt(x) /\ Woken(x)' = Woken(x)
      BY <1>9, <1>10, Zenon DEF SInv, SemaphoreInv
    <2> QED BY <1>1, <1>7, <1>10, <2>1, SemaphoreKept, Zenon
  <1>11. SemaphoreAt(o)'
    <2>1. /\ IsFiniteSet(Woken(o))
          /\ Len(waiter_queue[o]) = IF count[o] < 0 THEN -count[o] ELSE 0
          /\ permits[o] = (IF count[o] < 0 THEN 0 ELSE count[o]) + Cardinality(Woken(o))
      BY <1>3, Zenon DEF SInv, SemaphoreInv, SemaphoreAt
    <2>2. IsFiniteSet(Woken(o)') /\ Cardinality(Woken(o)') = Cardinality(Woken(o)) - 1
      BY <1>8, <2>1, FS_RemoveElement, Zenon
    <2>3. Cardinality(Woken(o)) \in Nat /\ Cardinality(Woken(o)') \in Nat
      BY <2>1, <2>2, FS_CardinalityType, Zenon
    <2> DEFINE c == Cardinality(Woken(o))  c2 == Cardinality(Woken(o)')
    <2> HIDE DEF Woken
    <2>4. /\ permits[o] = (IF count[o] < 0 THEN 0 ELSE count[o]) + c
          /\ c \in Nat /\ c2 \in Nat /\ c2 = c - 1
      BY <2>1, <2>2, <2>3
    <2> HIDE DEF c, c2
    <2>5. permits'[o] = (IF count[o] < 0 THEN 0 ELSE count[o]) + c2 /\ permits'[o] >= 0
      BY <1>7, <2>4
    <2> QED BY <1>1, <2>1, <2>2, <2>5, Zenon DEF SemaphoreAt, c2
  <1>12. LockInv => LockInv'
    <2>1. \A u \in Task, x \in Obj : Owns(u, x)' <=> Owns(u, x)
      BY <1>1, <1>4, <1>6, ZenonT(30) DEF Owns
    <2> QED BY <1>1, <1>2, <2>1, LocksKept, Zenon
  <1> QED BY <1>5, <1>10, <1>11, <1>12, Zenon DEF Keeps, SemaphoreInv

\* sys_condvar_signal: its waiter is in Mutex::lock and will take the mutex.
LEMMA SignalKeeps ==
  ASSUME SInv, NEW t \in Task, NEW o \in Obj, sys_condvar_signal(t, o)
  PROVE  Keeps(kind[o] = "condvar")
  <1>1. CASE kind[o] # "condvar"
    BY <1>1, PanicKeeps, Zenon DEF sys_condvar_signal, Keeps
  <1>2. CASE kind[o] = "condvar"
    <2>1. /\ InUser(t) /\ OwnerOf[o] = ProcOf[t] /\ Return(t)
          /\ UNCHANGED <<zombie, power, locked, kind, holds, count, permits>>
          /\ \/ /\ waiter_queue[o] # <<>>
                /\ waiter_queue' = [waiter_queue EXCEPT ![o] = Tail(@)]
             \/ waiter_queue' = waiter_queue
      BY <1>2, Zenon DEF sys_condvar_signal, Named, procVars, exitVars, ghostVars
    <2>2. /\ Running(t) /\ kpc[t] = "user" /\ ProcOf[t] \notin zombie /\ power' # "panic"
          /\ TypeOK /\ BlockedOnce
      BY <2>1, Runner, Zenon DEF InUser
    <2>3. /\ \A x \in Obj : x # o => waiter_queue'[x] = waiter_queue[x]
          /\ \A u \in Task, x \in Obj : Waits(u, x)' => Waits(u, x)
      <3>1. CASE waiter_queue' = waiter_queue
        BY <3>1, Zenon DEF Waits
      <3>2. CASE /\ waiter_queue[o] # <<>>
                 /\ waiter_queue' = [waiter_queue EXCEPT ![o] = Tail(@)]
        BY <2>2, <3>2, TailWaits, Zenon
      <3> QED BY <2>1, <3>1, <3>2, Zenon
    <2>4. KindsFit'
      BY <2>1, <2>2, <2>3, ReturnKinds, Zenon DEF KindsKept
    <2>5. SemaphoreInv'
      <3>1. DownsKept
        BY <2>1, <2>2, ReturnDowns, Zenon
      <3>2. \A x \in Obj : kind'[x] = "semaphore" =>
                             kind[x] = "semaphore" /\ waiter_queue'[x] = waiter_queue[x]
        BY <1>2, <2>1, <2>3, Zenon
      <3> QED BY <2>1, <3>1, <3>2, SemaphoresKept, Zenon DEF SInv
    <2>6. LockInv => LockInv'
      <3>1. \A u \in Task, x \in Obj : Owns(u, x)' <=> Owns(u, x)
        BY <1>2, <2>1, <2>2, <2>3, ReturnOwns, Zenon
      <3> QED BY <2>1, <2>2, <3>1, LocksKept, Zenon
    <2> QED BY <2>4, <2>5, <2>6, Zenon DEF Keeps
  <1> QED BY <1>1, <1>2, Zenon

\* The one mutex that a step works on gets a new owner, or none.
LEMMA LocksMoved ==
  ASSUME LockInv, NEW o \in Obj, IsMutex(o), OwnerOf[o] \notin zombie,
         kind' = kind, zombie' = zombie, power' # "panic",
         \A u \in Task : \A x \in holds'[u] : OwnerOf[x] = ProcOf[u],
         \A x \in Obj : x # o => locked'[x] = locked[x],
         \A u \in Task, x \in Obj : x # o => (Owns(u, x)' <=> Owns(u, x)),
         \/ ~locked'[o] /\ \A u \in Task : ~Owns(u, o)'
         \/ locked'[o] /\ \E w \in Task : \A u \in Task : Owns(u, o)' <=> u = w
  PROVE  LockInv'
  <1>1. \A x \in Obj : IsMutex(x)' <=> IsMutex(x)
    BY Zenon DEF IsMutex
  <1>2. \A u, v \in Task : (Owns(u, o) /\ Owns(v, o))' => u = v
    BY ZenonT(30)
  <1>3. \A u, v \in Task, x \in Obj : x # o /\ (Owns(u, x) /\ Owns(v, x))' => u = v
    BY ZenonT(30) DEF LockInv
  <1>4. \A u \in Task : Owns(u, o)' => (IsMutex(o) /\ locked[o])'
    BY <1>1, ZenonT(30)
  <1>5. \A u \in Task, x \in Obj : x # o =>
           ((Owns(u, x) /\ OwnerOf[x] \notin zombie)' => (IsMutex(x) /\ locked[x])')
    BY <1>1, ZenonT(30) DEF LockInv
  <1>6. \A x \in Obj : (~IsMutex(x) /\ OwnerOf[x] \notin zombie)' => ~locked'[x]
    BY <1>1, ZenonT(30) DEF LockInv
  <1>7. \A x \in Obj : x # o => ((IsMutex(x) /\ locked[x])' => \E u \in Task : Owns(u, x)')
    BY <1>1, ZenonT(30) DEF LockInv, LockHasOwner
  <1>8. locked'[o] => \E u \in Task : Owns(u, o)'
    BY ZenonT(30)
  <1>9. LockHasOwner'
    BY <1>7, <1>8, ZenonT(30) DEF LockHasOwner
  <1>10. \A u, v \in Task, x \in Obj : (Owns(u, x) /\ Owns(v, x))' => u = v
    <2>1. SUFFICES ASSUME NEW u \in Task, NEW v \in Task, NEW x \in Obj,
                          (Owns(u, x) /\ Owns(v, x))'
                   PROVE  u = v
      OBVIOUS
    <2>2. CASE x = o
      BY <1>2, <2>1, <2>2, Zenon
    <2>3. CASE x # o
      BY <1>3, <2>1, <2>3, Zenon
    <2> QED BY <2>2, <2>3
  <1>11. \A u \in Task, x \in Obj :
           (Owns(u, x) /\ OwnerOf[x] \notin zombie)' => (IsMutex(x) /\ locked[x])'
    <2>1. SUFFICES ASSUME NEW u \in Task, NEW x \in Obj, (Owns(u, x) /\ OwnerOf[x] \notin zombie)'
                   PROVE  (IsMutex(x) /\ locked[x])'
      OBVIOUS
    <2>2. CASE x = o
      BY <1>4, <2>1, <2>2, Zenon
    <2>3. CASE x # o
      BY <1>5, <2>1, <2>3, Zenon
    <2> QED BY <2>2, <2>3
  <1> QED BY <1>6, <1>9, <1>10, <1>11, Zenon DEF LockInv, NoPanic

\* Mutex::lock finds the mutex free.
LEMMA LockTakes ==
  ASSUME SInv, NEW t \in Task, Running(t), kpc[t] \in {"user", "lock"}, NEW o \in Obj,
         OwnerOf[o] = ProcOf[t], IsMutex(o), ~locked[o],
         locked' = [locked EXCEPT ![o] = TRUE], Takes(t, o), Return(t),
         UNCHANGED <<waiter_queue, power, zombie, kind, count, permits>>
  PROVE  Keeps(TRUE)
  <1>0. /\ waiter_queue' = waiter_queue /\ power' = power /\ zombie' = zombie /\ kind' = kind
        /\ count' = count /\ permits' = permits
    OBVIOUS
  <1>1. TypeOK /\ power' # "panic" /\ ProcOf[t] \notin zombie
    BY <1>0, Runner, Zenon
  <1>2. \A u \in Task, x \in Obj : Waits(u, x)' <=> Waits(u, x)
    BY <1>0, Zenon DEF Waits
  <1>3. KindsFit'
    BY <1>0, <1>2, ReturnKinds, Zenon DEF KindsKept
  <1>4. SemaphoreInv'
    <2>1. DownsKept
      BY <1>1, ReturnDowns, Zenon
    <2> QED BY <1>0, <2>1, SemaphoresKept, Zenon DEF SInv
  <1>5. ASSUME LockInv PROVE LockInv'
    <2>1. /\ kpc'[t] = "trap_end"
          /\ \A u \in Task : u # t => kpc'[u] = kpc[u] /\ kobj'[u] = kobj[u]
      BY <1>1, ReturnEffect, Zenon
    <2>2. /\ holds'[t] = holds[t] \cup {o}
          /\ \A u \in Task : u # t => holds'[u] = holds[u]
          /\ locked'[o] = TRUE /\ \A x \in Obj : x # o => locked'[x] = locked[x]
      BY <1>1, Zenon DEF Takes, TypeOK
    <2>3. \A u \in Task, x \in Obj : Owns(u, x)' <=> Owns(u, x) \/ (u = t /\ x = o)
      <3>1. \A x \in Obj : Owns(t, x)' <=> x \in holds[t] \/ x = o
        BY <2>1, <2>2 DEF Owns
      <3>2. \A x \in Obj : Owns(t, x) <=> x \in holds[t]
        BY Zenon DEF Owns
      <3>3. \A u \in Task, x \in Obj : u # t => (Owns(u, x)' <=> Owns(u, x))
        BY <1>2, <2>1, <2>2, Zenon DEF Owns
      <3> QED BY <3>1, <3>2, <3>3, Zenon
    <2>4. \A u \in Task : ~Owns(u, o)
      BY <1>1, <1>5, Zenon DEF LockInv
    <2>5. \A u \in Task : \A x \in holds'[u] : OwnerOf[x] = ProcOf[u]
      BY <1>5, <2>2, ZenonT(30) DEF LockInv
    <2>6. \A u \in Task : Owns(u, o)' <=> u = t
      BY <2>3, <2>4, Zenon
    <2>7. \A u \in Task, x \in Obj : x # o => (Owns(u, x)' <=> Owns(u, x))
      BY <2>3, Zenon
    <2> QED BY <1>0, <1>1, <1>5, <2>2, <2>5, <2>6, <2>7, LocksMoved, ZenonT(30)
  <1> QED BY <1>3, <1>4, <1>5, Zenon DEF Keeps

\* MutexSpin::lock finds the mutex locked and yields.
LEMMA LockSpins ==
  ASSUME SInv, NEW t \in Task, Running(t), kpc[t] \in {"user", "lock"}, NEW o \in Obj,
         kind[o] = "spin", Goto(t, "lock", o),
         UNCHANGED <<locked, waiter_queue, holds, power, zombie, kind, count, permits>>
  PROVE  Keeps(TRUE)
  <1>0. /\ waiter_queue' = waiter_queue /\ power' = power /\ zombie' = zombie /\ kind' = kind
        /\ count' = count /\ permits' = permits /\ locked' = locked /\ holds' = holds
    OBVIOUS
  <1>1. TypeOK /\ power' # "panic" /\ \A x \in Obj : ~Waits(t, x)
    BY <1>0, Runner, Zenon
  <1>2. \A u \in Task, x \in Obj : Waits(u, x)' <=> Waits(u, x)
    BY <1>0, Zenon DEF Waits
  <1>3. /\ kpc'[t] = "lock" /\ kobj'[t] = o
        /\ \A u \in Task : u # t => kpc'[u] = kpc[u] /\ kobj'[u] = kobj[u]
    BY <1>1, GotoEffect, Zenon
  <1>4. KindsFit'
    <2>1. Placed(t)
      BY <1>0, <1>1, <1>2, <1>3, ZenonT(30) DEF Placed, Fits
    <2>2. \A u \in Task : u # t => Untouched(u)
      BY <1>2, <1>3, Zenon DEF Untouched
    <2> QED BY <1>0, <2>1, <2>2, KindsStep, Zenon DEF SInv, KindsKept
  <1>5. SemaphoreInv'
    <2>1. DownsKept
      BY <1>3, ZenonT(30) DEF DownsKept
    <2> QED BY <1>0, <2>1, SemaphoresKept, Zenon DEF SInv
  <1>6. LockInv => LockInv'
    <2>1. \A u \in Task, x \in Obj : Owns(u, x)' <=> Owns(u, x)
      BY <1>0, <1>2, <1>3, ZenonT(30) DEF Owns
    <2> QED BY <1>0, <1>1, <2>1, LocksKept, Zenon
  <1> QED BY <1>4, <1>5, <1>6, Zenon DEF Keeps

\* MutexBlocking::lock finds the mutex locked and queues its caller, which owns
\* nothing until unlock has taken it out of the queue.
LEMMA LockBlocks ==
  ASSUME SInv, NEW t \in Task, Running(t), kpc[t] \in {"user", "lock"}, NEW o \in Obj,
         kind[o] = "blocking", Goto(t, "locked", o),
         waiter_queue' = [waiter_queue EXCEPT ![o] = Append(@, t)],
         UNCHANGED <<locked, holds, power, zombie, kind, count, permits>>
  PROVE  Keeps(TRUE)
  <1>0. /\ power' = power /\ zombie' = zombie /\ kind' = kind
        /\ count' = count /\ permits' = permits /\ locked' = locked /\ holds' = holds
    OBVIOUS
  <1>1. TypeOK /\ power' # "panic" /\ \A x \in Obj : ~Waits(t, x)
    BY <1>0, Runner, Zenon
  <1>2. /\ \A u \in Task, x \in Obj : Waits(u, x)' <=> Waits(u, x) \/ (x = o /\ u = t)
        /\ \A x \in Obj : x # o => waiter_queue'[x] = waiter_queue[x]
    BY <1>1, AppendWaits, Zenon
  <1>3. /\ kpc'[t] = "locked" /\ kobj'[t] = o
        /\ \A u \in Task : u # t => kpc'[u] = kpc[u] /\ kobj'[u] = kobj[u]
    BY <1>1, GotoEffect, Zenon
  <1>4. KindsFit'
    <2>1. Placed(t)
      BY <1>0, <1>1, <1>2, <1>3, ZenonT(30) DEF Placed, Fits, WaitFits
    <2>2. \A u \in Task : u # t => Untouched(u)
      BY <1>2, <1>3, Zenon DEF Untouched
    <2> QED BY <1>0, <2>1, <2>2, KindsStep, Zenon DEF SInv, KindsKept
  <1>5. SemaphoreInv'
    <2>1. DownsKept
      BY <1>3, ZenonT(30) DEF DownsKept
    <2>2. \A x \in Obj : kind'[x] = "semaphore" =>
                           kind[x] = "semaphore" /\ waiter_queue'[x] = waiter_queue[x]
      BY <1>0, <1>2, Zenon
    <2> QED BY <1>0, <2>1, <2>2, SemaphoresKept, Zenon DEF SInv
  <1>6. LockInv => LockInv'
    <2>1. \A u \in Task, x \in Obj : Owns(u, x)' <=> Owns(u, x)
      BY <1>0, <1>2, <1>3, ZenonT(30) DEF Owns
    <2> QED BY <1>0, <1>1, <2>1, LocksKept, Zenon
  <1> QED BY <1>4, <1>5, <1>6, Zenon DEF Keeps

\* Mutex::lock, from either caller.
LEMMA LockKeeps ==
  ASSUME SInv, NEW t \in Task, Running(t), kpc[t] \in {"user", "lock"}, NEW o \in Obj,
         OwnerOf[o] = ProcOf[t], IsMutex(o), lock(t, o),
         UNCHANGED <<power, zombie, kind, count, permits>>
  PROVE  Keeps(TRUE)
  BY LockTakes, LockSpins, LockBlocks, Zenon DEF lock

\* sys_mutex_lock.
LEMMA MutexLockKeeps ==
  ASSUME SInv, NEW t \in Task, NEW o \in Obj, sys_mutex_lock(t, o)
  PROVE  Keeps(IsMutex(o))
  <1>1. CASE ~IsMutex(o)
    BY <1>1, PanicKeeps, Zenon DEF sys_mutex_lock, Keeps
  <1>2. CASE IsMutex(o)
    <2>1. /\ Running(t) /\ kpc[t] = "user" /\ OwnerOf[o] = ProcOf[t] /\ lock(t, o)
          /\ UNCHANGED <<power, zombie, kind, count, permits>>
      BY <1>2, Zenon DEF sys_mutex_lock, InUser, Named, procVars, exitVars
    <2> QED BY <1>2, <2>1, LockKeeps, Zenon DEF Keeps
  <1> QED BY <1>1, <1>2, Zenon

\* A thread inside Mutex::lock tries again, or finds that it was handed the lock.
LEMMA ResumeLockKeeps ==
  ASSUME SInv, NEW t \in Task, ResumeLock(t)
  PROVE  Keeps(TRUE)
  <1>1. /\ Running(t) /\ kpc[t] \in {"lock", "locked"}
        /\ power' = power /\ zombie' = zombie /\ kind' = kind /\ count' = count
        /\ permits' = permits
    BY Zenon DEF ResumeLock, procVars, exitVars
  <1>2. /\ TypeOK /\ ProcOf[t] \notin zombie /\ power' # "panic" /\ \A x \in Obj : ~Waits(t, x)
    BY <1>1, Runner, Zenon
  <1>3. kobj[t] \in Obj /\ OwnerOf[kobj[t]] = ProcOf[t]
    BY <1>1, Zenon DEF SInv, IInv, Continues
  <1>4. Fits(t)
    BY <1>2, Zenon DEF SInv, KindsFit
  <1>5. PICK o \in Obj : o = kobj[t] /\ OwnerOf[o] = ProcOf[t]
    BY <1>3, Zenon
  <1>6. IsMutex(o) /\ (kpc[t] = "locked" => kind[o] = "blocking")
    BY <1>1, <1>4, <1>5, Zenon DEF IsMutex, Fits
  <1>7. CASE kpc[t] = "lock"
    <2>1. lock(t, o)
      BY <1>5, <1>7, Zenon DEF ResumeLock
    <2> QED BY <1>1, <1>5, <1>6, <1>7, <2>1, LockKeeps, Zenon
  <1>8. CASE kpc[t] = "locked"
    <2>1. Takes(t, o) /\ Return(t) /\ locked' = locked /\ waiter_queue' = waiter_queue
      BY <1>5, <1>8, Zenon DEF ResumeLock
    <2>2. \A u \in Task, x \in Obj : Waits(u, x)' <=> Waits(u, x)
      BY <2>1, Zenon DEF Waits
    <2>3. KindsFit'
      BY <1>1, <2>1, <2>2, ReturnKinds, Zenon DEF KindsKept
    <2>4. SemaphoreInv'
      <3>1. DownsKept
        BY <1>2, <1>8, <2>1, ReturnDowns, Zenon
      <3> QED BY <1>1, <2>1, <3>1, SemaphoresKept, Zenon DEF SInv
    <2>5. ASSUME LockInv PROVE LockInv'
      <3>1. /\ kpc'[t] = "trap_end"
            /\ \A u \in Task : u # t => kpc'[u] = kpc[u] /\ kobj'[u] = kobj[u]
        BY <1>2, <2>1, ReturnEffect, Zenon
      <3>2. /\ holds'[t] = holds[t] \cup {o}
            /\ \A u \in Task : u # t => holds'[u] = holds[u]
        BY <1>2, <2>1, Zenon DEF Takes, TypeOK
      <3>3. \A x \in Obj : Owns(t, x)' <=> Owns(t, x)
        <4>1. \A x \in Obj : Owns(t, x)' <=> x \in holds[t] \/ x = o
          BY <3>1, <3>2 DEF Owns
        <4>2. \A x \in Obj : Owns(t, x) <=> x \in holds[t] \/ x = o
          BY <1>2, <1>5, <1>8, Zenon DEF Owns
        <4> QED BY <4>1, <4>2, Zenon
      <3>4. \A u \in Task, x \in Obj : u # t => (Owns(u, x)' <=> Owns(u, x))
        BY <2>2, <3>1, <3>2, Zenon DEF Owns
      <3>5. \A u \in Task : Owns(u, o)' <=> u = t
        <4>1. Owns(t, o)
          BY <1>2, <1>5, <1>8, Zenon DEF Owns
        <4> QED BY <2>5, <3>3, <3>4, <4>1, ZenonT(30) DEF LockInv
      <3>6. \A u \in Task, x \in Obj : x # o => (Owns(u, x)' <=> Owns(u, x))
        BY <3>3, <3>4, Zenon
      <3>7. locked'[o]
        <4>1. Owns(t, o)
          BY <1>2, <1>5, <1>8, Zenon DEF Owns
        <4> QED BY <1>2, <1>5, <2>1, <2>5, <4>1, ZenonT(30) DEF LockInv
      <3>8. \A u \in Task : \A x \in holds'[u] : OwnerOf[x] = ProcOf[u]
        BY <1>5, <2>5, <3>2, ZenonT(30) DEF LockInv
      <3>9. OwnerOf[o] \notin zombie /\ \A x \in Obj : locked'[x] = locked[x]
        BY <1>2, <1>5, <2>1, Zenon
      <3>10. locked'[o] /\ \E w \in Task : \A u \in Task : Owns(u, o)' <=> u = w
        BY <3>5, <3>7, Zenon
      <3> QED
        BY <1>1, <1>2, <1>6, <2>5, <3>6, <3>8, <3>9, <3>10, LocksMoved, ZenonT(30)
    <2> QED BY <2>3, <2>4, <2>5, Zenon DEF Keeps
  <1> QED BY <1>1, <1>7, <1>8, Zenon

\* Mutex::unlock by the owner: the first waiter of a blocking mutex owns it now,
\* and otherwise nobody does.
LEMMA UnlockMoves ==
  ASSUME SInv, LockInv, NEW t \in Task, Running(t), kpc[t] = "user",
         NEW o \in holds[t], Gives(t, o), locked' = Unlocked(o),
         kpc'[t] # "locked",
         \A u \in Task : u # t => kpc'[u] = kpc[u] /\ kobj'[u] = kobj[u],
         \A u \in Task, x \in Obj : u # t /\ kpc[u] = "locked" /\ kobj[u] = x =>
           (Waits(u, x)' <=> Waits(u, x) /\ ~(HandsOff(o) /\ x = o /\ u = Head(waiter_queue[o]))),
         UNCHANGED <<kind, zombie, power>>
  PROVE  LockInv'
  <1>0. kind' = kind /\ zombie' = zombie /\ power' = power
    OBVIOUS
  <1>1. /\ TypeOK /\ ProcOf[t] \notin zombie /\ power' # "panic" /\ \A x \in Obj : ~Waits(t, x)
        /\ BlockedOnce
    BY <1>0, Runner, Zenon
  <1>2. o \in Obj /\ OwnerOf[o] = ProcOf[t] /\ Owns(t, o)
    BY <1>1, Zenon DEF TypeOK, LockInv, Owns
  <1>3. IsMutex(o) /\ locked[o] /\ \A u \in Task : Owns(u, o) => u = t
    BY <1>1, <1>2, Zenon DEF LockInv
  <1>4. /\ holds'[t] = holds[t] \ {o}
        /\ \A u \in Task : u # t => holds'[u] = holds[u]
    BY <1>1, Zenon DEF Gives, TypeOK
  <1>5. \A x \in Obj : x # o => locked'[x] = locked[x]
    BY <1>1, <1>2, Zenon DEF Unlocked, TypeOK
  <1>6. \A u \in Task : \A x \in holds'[u] : OwnerOf[x] = ProcOf[u]
    BY <1>4, ZenonT(30) DEF LockInv
  <1>7. \A u \in Task, x \in Obj : x # o => (Owns(u, x)' <=> Owns(u, x))
    <2>1. \A x \in Obj : x # o => (Owns(t, x)' <=> Owns(t, x))
      BY <1>4, Zenon DEF Owns
    <2>2. \A u \in Task, x \in Obj : x # o /\ u # t => (Owns(u, x)' <=> Owns(u, x))
      BY <1>4, ZenonT(30) DEF Owns
    <2> QED BY <2>1, <2>2, Zenon
  <1>8. ~Owns(t, o)'
    BY <1>4, Zenon DEF Owns
  <1>9. CASE ~HandsOff(o)
    <2>1. ~locked'[o]
      BY <1>1, <1>2, <1>9, Zenon DEF Unlocked, TypeOK
    <2>2. \A u \in Task : u # t => (Owns(u, o)' <=> Owns(u, o))
      BY <1>2, <1>4, <1>9, ZenonT(30) DEF Owns
    <2>3. \A u \in Task : ~Owns(u, o)'
      BY <1>3, <1>8, <2>2, Zenon
    <2> QED BY <1>0, <1>1, <1>2, <1>3, <1>5, <1>6, <1>7, <2>1, <2>3, LocksMoved, ZenonT(30)
  <1>10. CASE HandsOff(o)
    <2>1. locked'[o] /\ waiter_queue[o] # <<>> /\ kind[o] = "blocking"
      BY <1>3, <1>10, Zenon DEF Unlocked, HandsOff
    <2>2. PICK w \in Task : w = Head(waiter_queue[o]) /\ Waits(w, o)
      BY <1>1, <1>2, <2>1, TailQueue, ZenonT(30) DEF TypeOK, Waits
    <2>3. w # t /\ kpc[w] = "locked" /\ kobj[w] = o
      BY <1>1, <1>2, <2>1, <2>2, Zenon DEF SInv, KindsFit, WaitFits
    <2>4. Owns(w, o)'
      BY <1>2, <1>10, <2>2, <2>3, Zenon DEF Owns
    <2>5. \A u \in Task : u # t /\ u # w => (Owns(u, o)' <=> Owns(u, o))
      BY <1>2, <1>4, <2>2, ZenonT(30) DEF Owns
    <2>6. \A u \in Task : Owns(u, o)' <=> u = w
      BY <1>3, <1>8, <2>3, <2>4, <2>5, Zenon
    <2> QED BY <1>0, <1>1, <1>2, <1>3, <1>5, <1>6, <1>7, <2>1, <2>6, LocksMoved, ZenonT(30)
  <1> QED BY <1>9, <1>10, Zenon

\* sys_mutex_unlock.
LEMMA UnlockKeeps ==
  ASSUME SInv, NEW t \in Task, NEW o \in Obj, sys_mutex_unlock(t, o)
  PROVE  Keeps(o \in holds[t])
  <1>0. Running(t) /\ kpc[t] = "user" /\ OwnerOf[o] = ProcOf[t]
    BY Zenon DEF sys_mutex_unlock, InUser, Named
  <1>1. TypeOK /\ BlockedOnce /\ ProcOf[t] \notin zombie /\ \A x \in Obj : ~Waits(t, x)
    BY <1>0, Runner, Zenon
  <1>2. CASE ~(IsMutex(o) /\ ~UnlockPanics(o))
    <2>1. Keeps(FALSE)
      BY <1>2, PanicKeeps, Zenon DEF sys_mutex_unlock
    <2>2. LockInv => o \notin holds[t]
      BY <1>0, <1>1, <1>2, Zenon DEF LockInv, Owns, UnlockPanics
    <2> QED BY <2>1, <2>2, Zenon DEF Keeps
  <1>3. CASE IsMutex(o) /\ ~UnlockPanics(o)
    <2>1. /\ Return(t) /\ Gives(t, o) /\ locked' = Unlocked(o)
          /\ zombie' = zombie /\ power' = power /\ kind' = kind /\ count' = count
          /\ permits' = permits
          /\ \/ HandsOff(o) /\ waiter_queue' = [waiter_queue EXCEPT ![o] = Tail(@)]
             \/ ~HandsOff(o) /\ waiter_queue' = waiter_queue
      BY <1>3, Zenon DEF sys_mutex_unlock, procVars, exitVars
    <2>2. /\ \A x \in Obj : x # o => waiter_queue'[x] = waiter_queue[x]
          /\ \A u \in Task, x \in Obj : Waits(u, x)' <=>
               Waits(u, x) /\ ~(HandsOff(o) /\ x = o /\ u = Head(waiter_queue[o]))
      <3>1. CASE HandsOff(o)
        BY <1>1, <2>1, <3>1, TailWaits, Zenon DEF HandsOff
      <3>2. CASE ~HandsOff(o)
        BY <2>1, <3>2, Zenon DEF Waits
      <3> QED BY <3>1, <3>2, Zenon
    <2>3. KindsFit'
      BY <1>0, <2>1, <2>2, ReturnKinds, Zenon DEF KindsKept
    <2>4. SemaphoreInv'
      <3>1. DownsKept
        BY <1>0, <1>1, <2>1, ReturnDowns, Zenon
      <3>2. \A x \in Obj : kind'[x] = "semaphore" =>
                             kind[x] = "semaphore" /\ waiter_queue'[x] = waiter_queue[x]
        BY <1>3, <2>1, <2>2, Zenon DEF IsMutex
      <3> QED BY <2>1, <3>1, <3>2, SemaphoresKept, Zenon DEF SInv
    <2>5. ASSUME LockInv, o \in holds[t] PROVE LockInv'
      <3>1. /\ kpc'[t] = "trap_end"
            /\ \A u \in Task : u # t => kpc'[u] = kpc[u] /\ kobj'[u] = kobj[u]
        BY <1>1, <2>1, ReturnEffect, Zenon
      <3> QED BY <1>0, <2>1, <2>2, <2>5, <3>1, UnlockMoves, ZenonT(30)
    <2> QED BY <2>3, <2>4, <2>5, Zenon DEF Keeps
  <1> QED BY <1>2, <1>3, Zenon

\* sys_condvar_wait: the unlock, and a caller that will lock again.
LEMMA WaitKeeps ==
  ASSUME SInv, NEW t \in Task, NEW c \in Obj, NEW o \in Obj, sys_condvar_wait(t, c, o)
  PROVE  Keeps(kind[c] = "condvar" /\ o \in holds[t])
  <1>0. Running(t) /\ kpc[t] = "user" /\ OwnerOf[o] = ProcOf[t] /\ OwnerOf[c] = ProcOf[t]
    BY Zenon DEF sys_condvar_wait, InUser, Named
  <1>1. TypeOK /\ BlockedOnce /\ ProcOf[t] \notin zombie /\ \A x \in Obj : ~Waits(t, x)
    BY <1>0, Runner, Zenon
  <1>2. CASE ~(kind[c] = "condvar" /\ IsMutex(o) /\ ~UnlockPanics(o))
    <2>1. Keeps(FALSE)
      BY <1>2, PanicKeeps, Zenon DEF sys_condvar_wait
    <2>2. LockInv /\ o \in holds[t] => IsMutex(o) /\ ~UnlockPanics(o)
      BY <1>0, <1>1, Zenon DEF LockInv, Owns, UnlockPanics
    <2> QED BY <1>2, <2>1, <2>2, Zenon DEF Keeps
  <1>3. CASE kind[c] = "condvar" /\ IsMutex(o) /\ ~UnlockPanics(o)
    <2>1. /\ Goto(t, "lock", o) /\ Gives(t, o) /\ locked' = Unlocked(o)
          /\ zombie' = zombie /\ power' = power /\ kind' = kind /\ count' = count
          /\ permits' = permits
          /\ waiter_queue' = [waiter_queue EXCEPT
                                ![o] = IF HandsOff(o) THEN Tail(@) ELSE @,
                                ![c] = Append(@, t)]
      BY <1>3, Zenon DEF sys_condvar_wait, procVars, exitVars
    <2>2. c # o
      BY <1>3, Zenon DEF IsMutex
    <2>3. /\ \A x \in Obj : x # o /\ x # c => waiter_queue'[x] = waiter_queue[x]
          /\ waiter_queue'[o] = IF HandsOff(o) THEN Tail(waiter_queue[o]) ELSE waiter_queue[o]
          /\ waiter_queue'[c] = Append(waiter_queue[c], t)
      BY <1>1, <2>1, <2>2, Zenon DEF TypeOK
    <2>4. \A u \in Task : Waits(u, o)' <=>
             Waits(u, o) /\ ~(HandsOff(o) /\ u = Head(waiter_queue[o]))
      <3>1. CASE ~HandsOff(o)
        BY <2>3, <3>1, Zenon DEF Waits
      <3>2. CASE HandsOff(o)
        <4>1. waiter_queue[o] # <<>> /\ waiter_queue[o] \in Seq(Task) /\ Distinct(waiter_queue[o])
          BY <1>1, <3>2, Zenon DEF HandsOff, TypeOK, BlockedOnce
        <4>2. waiter_queue'[o] = Tail(waiter_queue[o])
          BY <2>3, <3>2, Zenon
        <4> QED BY <3>2, <4>1, <4>2, TailQueue DEF Waits
      <3> QED BY <3>1, <3>2, Zenon
    <2>5. \A u \in Task : Waits(u, c)' <=> Waits(u, c) \/ u = t
      <3>1. waiter_queue[c] \in Seq(Task)
        BY <1>1, Zenon DEF TypeOK
      <3> QED BY <2>3, <3>1, AppendQueue DEF Waits
    <2>6. \A u \in Task, x \in Obj : x # o /\ x # c => (Waits(u, x)' <=> Waits(u, x))
      BY <2>3, Zenon DEF Waits
    <2>7. /\ kpc'[t] = "lock" /\ kobj'[t] = o
          /\ \A u \in Task : u # t => kpc'[u] = kpc[u] /\ kobj'[u] = kobj[u]
      BY <1>1, <2>1, GotoEffect, Zenon
    <2>8. KindsFit'
      <3>1. Fits(t)'
        BY <1>3, <2>1, <2>7, Zenon DEF Fits, IsMutex
      <3>2. \A x \in Obj : Waits(t, x)' => x = c
        BY <1>1, <2>4, <2>6, Zenon
      <3>3. WaitFits(t, c)'
        BY <1>3, <2>1, <2>7, Zenon DEF WaitFits
      <3>4. Placed(t)
        BY <3>1, <3>2, <3>3, Zenon DEF Placed
      <3>5. \A u \in Task : u # t => Untouched(u)
        BY <2>4, <2>5, <2>6, <2>7, Zenon DEF Untouched
      <3> QED BY <2>1, <3>4, <3>5, KindsStep, Zenon DEF SInv, KindsKept
    <2>9. SemaphoreInv'
      <3>1. DownsKept
        BY <1>0, <2>7, ZenonT(30) DEF DownsKept
      <3>2. \A x \in Obj : kind'[x] = "semaphore" =>
                             kind[x] = "semaphore" /\ waiter_queue'[x] = waiter_queue[x]
        BY <1>3, <2>1, <2>3, Zenon DEF IsMutex
      <3> QED BY <2>1, <3>1, <3>2, SemaphoresKept, Zenon DEF SInv
    <2>10. ASSUME LockInv, o \in holds[t] PROVE LockInv'
      <3>1. \A u \in Task : ~(kpc[u] = "locked" /\ kobj[u] = c)
        BY <1>0, <1>1, <1>3, NotLockedOn, Zenon
      <3>2. \A u \in Task, x \in Obj : u # t /\ kpc[u] = "locked" /\ kobj[u] = x =>
              (Waits(u, x)' <=>
                 Waits(u, x) /\ ~(HandsOff(o) /\ x = o /\ u = Head(waiter_queue[o])))
        BY <2>4, <2>6, <3>1, Zenon
      <3>3. kpc'[t] # "locked"
        BY <2>7, Zenon
      <3> QED BY <1>0, <2>1, <2>7, <2>10, <3>2, <3>3, UnlockMoves, ZenonT(30)
    <2> QED BY <2>8, <2>9, <2>10, Zenon DEF Keeps
  <1> QED BY <1>2, <1>3, Zenon

-----------------------------------------------------------------------------
(* The invariants of the objects, for all steps *)

\* Every step of a program keeps the kinds and the semaphores, and one of a
\* disciplined program the locks.
LEMMA ProgramKeeps ==
  ASSUME SInv, NEW t \in Task, NEW d \in BOOLEAN, UserProgram(t, d)
  PROVE  Keeps(d)
  <1> USE DEF Keeps
  <1>1. CASE \E o \in Obj, b \in BOOLEAN : sys_mutex_create(t, o, b)
    BY <1>1, CreateKeeps, Zenon
  <1>2. CASE \E o \in Obj : (d => IsMutex(o)) /\ sys_mutex_lock(t, o)
    BY <1>2, MutexLockKeeps, Zenon
  <1>3. CASE \E o \in Obj : (d => o \in holds[t]) /\ sys_mutex_unlock(t, o)
    BY <1>3, UnlockKeeps, Zenon
  <1>4. CASE \E o \in Obj, n \in 0..MaxCount : sys_semaphore_create(t, o, n)
    <2>1. PICK o \in Obj, n \in 0..MaxCount : sys_semaphore_create(t, o, n)
      BY <1>4
    <2>2. n \in Nat
      BY BoundAssumption
    <2> QED BY <2>1, <2>2, SemaphoreCreateKeeps, Zenon
  <1>5. CASE \E o \in Obj : (d => kind[o] = "semaphore") /\ sys_semaphore_up(t, o)
    BY <1>5, UpKeeps, Zenon
  <1>6. CASE \E o \in Obj : (d => kind[o] = "semaphore") /\ sys_semaphore_down(t, o)
    BY <1>6, DownKeeps, Zenon
  <1>7. CASE \E o \in Obj : sys_condvar_create(t, o)
    BY <1>7, CreateKeeps, Zenon
  <1>8. CASE \E o \in Obj : (d => kind[o] = "condvar") /\ sys_condvar_signal(t, o)
    BY <1>8, SignalKeeps, Zenon
  <1>9. CASE \E c, o \in Obj : /\ d => kind[c] = "condvar" /\ o \in holds[t]
                               /\ sys_condvar_wait(t, c, o)
    BY <1>9, WaitKeeps, Zenon
  <1>10. CASE sys_yield(t) \/ \E u \in Task : sys_thread_create(t, u)
    BY <1>10, PlainSyscallKeeps, ProcAssumption, Zenon
  <1>11. CASE \E x \in 0..MaxTime : sys_sleep(t, x)
    <2>1. PICK x \in 0..MaxTime : sys_sleep(t, x)
      BY <1>11
    <2>2. x \in Nat
      BY BoundAssumption
    <2> QED BY <2>1, <2>2, PlainSyscallKeeps, ProcAssumption, Zenon
  <1>12. CASE sys_exit(t)
    BY <1>12, SysExitKeeps, Zenon
  <1>13. CASE \E p \in Proc : sys_kill(t, p)
    BY <1>13, PlainSyscallKeeps, Zenon
  <1> QED
    BY <1>1, <1>2, <1>3, <1>4, <1>5, <1>6, <1>7, <1>8, <1>9, <1>10, <1>11, <1>12, <1>13, ZenonT(30)
    DEF UserProgram

\* Every step of the kernel keeps them all.
LEMMA KernelKeeps ==
  ASSUME SInv, Kernel
  PROVE  Keeps(TRUE)
  <1> USE DEF Keeps
  <1>1. CASE /\ power = "on" /\ exiting = NoProc /\ run_tasks
             /\ UNCHANGED <<timers, now, contVars, procVars, objVars, ghostVars>>
    <2>1. power' # "panic"
      BY <1>1, Zenon DEF run_tasks
    <2>2. zombie \subseteq zombie'
      BY <1>1, Zenon DEF procVars, exitVars
    <2> QED BY <1>1, <2>1, <2>2, QuietKeep, Zenon
  <1>2. CASE RemoveTask
    <2>1. /\ UNCHANGED <<contVars, objVars, ghostVars>> /\ power' # "panic"
          /\ zombie \subseteq zombie'
      BY <1>2, Zenon DEF RemoveTask
    <2> QED BY <2>1, QuietKeep, Zenon
  <1>3. CASE DropLists
    BY <1>3, DropListsKeeps, Zenon
  <1>4. CASE \E t \in Task : ResumeLock(t) \/ ResumeDown(t) \/ Tick(t) \/ trap_end(t)
    BY <1>4, ResumeLockKeeps, ResumeDownKeeps, TrapKeeps, Zenon
  <1> QED BY <1>1, <1>2, <1>3, <1>4, Zenon DEF Kernel

\* Every step at all.
LEMMA NextKeeps ==
  ASSUME SInv, NEW d \in BOOLEAN, NextOf(d) \/ UNCHANGED vars
  PROVE  Keeps(d)
  <1> USE DEF Keeps
  <1>1. CASE Kernel
    BY <1>1, KernelKeeps, Zenon
  <1>2. CASE Interrupt
    BY <1>2, TrapKeeps, Zenon DEF Interrupt
  <1>3. CASE AdvanceClock
    <2>1. /\ UNCHANGED <<contVars, objVars, ghostVars>> /\ power' # "panic"
          /\ zombie \subseteq zombie'
      BY <1>3, Zenon DEF AdvanceClock, procVars, exitVars
    <2> QED BY <2>1, QuietKeep, Zenon
  <1>4. CASE InitProgram(Main[InitProc])
    <2>1. Main[InitProc] \in Task
      BY ProcAssumption
    <2> QED
      BY <1>4, <2>1, SysExitKeeps, PlainSyscallKeeps, ProcAssumption, Zenon DEF InitProgram
  <1>5. CASE \E t \in Task : UserProgram(t, d)
    BY <1>5, ProgramKeeps, Zenon
  <1>6. CASE UNCHANGED vars
    <2>1. /\ UNCHANGED <<contVars, objVars, ghostVars>> /\ power' = power
          /\ zombie \subseteq zombie'
      BY <1>6, Zenon DEF vars, schedVars, procVars, exitVars
    <2>2. LockInv => power' # "panic"
      BY <2>1, Zenon DEF LockInv, NoPanic
    <2> QED BY <2>1, <2>2, QuietKeep, Zenon
  <1> QED BY <1>1, <1>2, <1>3, <1>4, <1>5, <1>6, Zenon DEF NextOf, Halted

\* Initially there is no object, and no thread is in the kernel.
LEMMA InitKeeps == Init => SInv /\ LockInv
  <1> SUFFICES ASSUME Init PROVE SInv /\ LockInv
    OBVIOUS
  <1>1. IInv
    BY InitInvariant
  <1>2. /\ \A t \in Task : kpc[t] = "user" /\ holds[t] = {}
        /\ \A o \in Obj : /\ kind[o] = "none" /\ locked[o] = FALSE /\ permits[o] = 0
                          /\ waiter_queue[o] = <<>>
        /\ power = "on"
    BY Zenon DEF Init
  <1>3. \A t \in Task, o \in Obj : ~Waits(t, o)
    BY <1>2 DEF Waits, Queued
  <1>4. KindsFit
    BY <1>2, <1>3, Zenon DEF KindsFit, Fits
  <1>5. SemaphoreInv
    BY <1>2 DEF SemaphoreInv, SemaphoreAt
  <1>6. \A t \in Task, o \in Obj : ~Owns(t, o)
    BY <1>2, Zenon DEF Owns
  <1>7. LockInv
    BY <1>2, <1>6, Zenon DEF LockInv, LockHasOwner, NoPanic
  <1> QED BY <1>1, <1>4, <1>5, <1>7, Zenon DEF SInv

\* SInv is inductive for any programs, and with LockInv for disciplined ones.
LEMMA SInvStep ==
  ASSUME SInv, NEW d \in BOOLEAN, NextOf(d) \/ UNCHANGED vars
  PROVE  SInv' /\ (d /\ LockInv => LockInv')
  <1>1. IInv'
    BY NextStep, Zenon DEF SInv
  <1> QED BY <1>1, NextKeeps, Zenon DEF SInv, Keeps

\* Whatever programs run, a semaphore with a negative count has that many
\* waiters, one with a count of zero or more has none, and no more calls of
\* Semaphore::down return than the initial count and the calls of up allow.
THEOREM SemaphoreTheorem == Spec => []SemaphoreExact
  <1>1. Init => SInv
    BY InitKeeps
  <1>2. SInv /\ [Next]_vars => SInv'
    BY SInvStep, Zenon DEF Next
  <1>3. SInv => SemaphoreExact
    BY Zenon DEF SInv, SemaphoreInv, SemaphoreAt, SemaphoreExact
  <1> QED BY <1>1, <1>2, <1>3, PTL DEF Spec

\* Programs that unlock only what they hold: mutexes exclude, also across
\* Condvar::wait, a locked mutex has an owner also while unlock hands it over,
\* and the assertion in MutexBlocking::unlock never fails.
THEOREM DisciplineTheorem == AnySpec => []DisciplinedLocks
  <1> DEFINE DInv == SInv /\ disciplined \in BOOLEAN /\ (disciplined => LockInv)
  <1>1. AnyInit => DInv
    BY InitKeeps, Zenon DEF AnyInit
  <1>2. DInv /\ [AnyNext]_<<vars, disciplined>> => DInv'
    <2> SUFFICES ASSUME DInv, [AnyNext]_<<vars, disciplined>> PROVE DInv'
      OBVIOUS
    <2>1. (NextOf(disciplined) \/ UNCHANGED vars) /\ disciplined' = disciplined
      BY Zenon DEF AnyNext
    <2> QED BY <2>1, SInvStep, Zenon
  <1>3. DInv => DisciplinedLocks
    <2> SUFFICES ASSUME DInv, disciplined PROVE MutualExclusion /\ LockHasOwner /\ NoPanic
      BY Zenon DEF DisciplinedLocks
    <2>1. LockInv /\ holds \in [Task -> SUBSET Obj]
      BY Zenon DEF SInv, IInv, TypeOK
    <2>2. ASSUME NEW t \in Task, NEW u \in Task, NEW o \in holds[t] \cap holds[u] PROVE t = u
      <3>1. o \in Obj /\ Owns(t, o) /\ Owns(u, o)
        BY <2>1, <2>2, Zenon DEF Owns
      <3> QED BY <2>1, <3>1, Zenon DEF LockInv
    <2> QED BY <2>1, <2>2, Zenon DEF MutualExclusion, LockInv
  <1> QED BY <1>1, <1>2, <1>3, PTL DEF AnySpec

-----------------------------------------------------------------------------
(* initproc and the end of the machine *)

\* The thread of initproc.
Initproc == Main[InitProc]

\* While initproc lives its main thread has the CPU or is Ready; it is in no
\* lock and in no down, nobody kills it, and it exits last.
InitprocInv ==
  /\ InitProc \notin sigkill
  /\ InitProc \in zombie => zombie = Proc
  /\ InitProc \notin zombie => /\ kpc[Initproc] \in {"user", "trap_end", "tick"}
                               /\ status[Initproc] = "Ready" \/ current = Initproc
  /\ ShutdownOnlyAtEnd

\* The main thread of initproc is a task of it.
LEMMA InitprocType == Initproc \in Task /\ ProcOf[Initproc] = InitProc /\ InitProc \in Proc
  BY ProcAssumption, Zenon DEF Initproc

\* A step after which initproc is where it was, or Ready.
Spared ==
  /\ status'[Initproc] \in {status[Initproc], "Ready"}
  /\ current = Initproc => current' = Initproc \/ status'[Initproc] = "Ready"
  /\ InitProc \notin zombie => kpc'[Initproc] \in {kpc[Initproc], "user", "trap_end", "tick"}
  /\ zombie \subseteq zombie' /\ zombie' \subseteq Proc
  /\ InitProc \in zombie' => InitProc \in zombie
  /\ InitProc \notin sigkill'
  /\ power' # "off"

\* A step that spares initproc keeps it ready or running.
LEMMA SparedStep ==
  ASSUME InitprocInv, Spared
  PROVE  InitprocInv'
  <1>1. InitProc \in zombie' => zombie' = Proc
    BY Zenon DEF InitprocInv, Spared
  <1>2. InitProc \notin zombie' => /\ kpc'[Initproc] \in {"user", "trap_end", "tick"}
                                   /\ status'[Initproc] = "Ready" \/ current' = Initproc
    BY Zenon DEF InitprocInv, Spared
  <1> QED BY <1>1, <1>2, Zenon DEF InitprocInv, Spared, ShutdownOnlyAtEnd, Initproc

\* The ways in which another thread than initproc gives the CPU up, keeps it or
\* wakes a task make no other task than the caller anything but Ready.
Moves(t) ==
  \/ KeepRunning
  \/ suspend_current_and_run_next
  \/ block_current_and_run_next
  \/ \E w \in Task : status' = [status EXCEPT ![w] = "Ready"]
  \/ \E w \in Task : status' = [status EXCEPT ![w] = "Ready", ![t] = "Blocked"]
  \/ status' = [status EXCEPT ![t] = "Blocked"]

\* A step of another thread leaves initproc as it was, or makes it Ready.
LEMMA MovesSpare ==
  ASSUME TypeOK, NEW t \in Task, current = t, t # Initproc, Moves(t)
  PROVE  status'[Initproc] \in {status[Initproc], "Ready"}
  <1>1. Initproc \in Task /\ status \in [Task -> TaskStatus \cup {"absent"}]
    BY InitprocType, Zenon DEF TypeOK, SchedTypeOK
  <1>2. CASE KeepRunning
    BY <1>2, Zenon DEF KeepRunning
  <1>3. CASE suspend_current_and_run_next \/ block_current_and_run_next
    BY <1>1, <1>3, Zenon DEF suspend_current_and_run_next, block_current_and_run_next
  <1>4. ASSUME NEW w \in Task, status' = [status EXCEPT ![w] = "Ready"]
        PROVE  status'[Initproc] \in {status[Initproc], "Ready"}
    BY <1>1, <1>4, Zenon
  <1>5. ASSUME NEW w \in Task, status' = [status EXCEPT ![w] = "Ready", ![t] = "Blocked"]
        PROVE  status'[Initproc] \in {status[Initproc], "Ready"}
    BY <1>1, <1>5, Zenon
  <1>6. CASE status' = [status EXCEPT ![t] = "Blocked"]
    BY <1>1, <1>6, Zenon
  <1> QED BY <1>2, <1>3, <1>4, <1>5, <1>6, Zenon DEF Moves

\* A step of another thread that terminates no process.
LEMMA OtherThread ==
  ASSUME IInv, InitprocInv, NEW t \in Task, Running(t), t # Initproc, Moves(t),
         \A u \in Task : u # t => kpc'[u] = kpc[u],
         zombie' = zombie, InitProc \notin sigkill', power' = power
  PROVE  InitprocInv'
  <1>1. status'[Initproc] \in {status[Initproc], "Ready"}
    BY MovesSpare, Zenon DEF IInv, Running
  <1>2. Spared
    BY <1>1, InitprocType, Zenon DEF Spared, IInv, TypeOK, Running
  <1> QED BY <1>2, SparedStep

\* A panic.
LEMMA PanicSpares ==
  ASSUME IInv, InitprocInv, Panic
  PROVE  InitprocInv'
  <1>1. Spared
    BY Zenon DEF Panic, Spared, InitprocInv, IInv, TypeOK, contVars, procVars, exitVars
  <1> QED BY <1>1, SparedStep

\* A thread that terminates alone or with its process, which is not initproc.
LEMMA ExitSpares ==
  ASSUME IInv, InitprocInv, NEW t \in Task, Running(t), ProcOf[t] # InitProc,
         NEW k \in BOOLEAN, exit_current_and_run_next(t, k), InitProc \notin sigkill'
  PROVE  InitprocInv'
  <1>1. /\ status' = status /\ power' = power /\ Goto(t, "dead", NoObj)
        /\ zombie' = zombie \/ zombie' = zombie \cup {ProcOf[t]}
    BY Zenon DEF exit_current_and_run_next
  <1>2. TypeOK /\ current = t /\ t # Initproc /\ ProcOf[t] \in Proc /\ power # "off"
    BY InitprocType, ProcAssumption, Zenon DEF IInv, Running
  <1>3. kpc'[Initproc] = kpc[Initproc]
    BY <1>1, <1>2, GotoEffect, InitprocType, Zenon
  <1>4. zombie \subseteq Proc
    BY <1>2, Zenon DEF TypeOK
  <1>5. Spared
    BY <1>1, <1>2, <1>3, <1>4, Zenon DEF Spared
  <1> QED BY <1>5, SparedStep

\* A syscall moves its caller, or wakes one task, and no other.
Calls(t) ==
  /\ Moves(t)
  /\ \E pc \in KernelPC, o \in Obj \cup {NoObj} : Goto(t, pc, o)
  /\ zombie' = zombie /\ power' = power
  /\ sigkill' \subseteq sigkill \cup (Proc \ {InitProc})

\* Mutex::lock keeps the CPU, suspends or blocks.
LEMMA LockCalls ==
  ASSUME NEW t \in Task, NEW o \in Obj, lock(t, o),
         UNCHANGED <<zombie, power, sigkill>>
  PROVE  Calls(t)
  <1>1. \E pc \in KernelPC, x \in Obj \cup {NoObj} : Goto(t, pc, x)
    BY Zenon DEF lock, Return, KernelPC
  <1> QED BY <1>1, Zenon DEF lock, Calls, Moves

\* What each syscall of a program other than initproc does to the scheduler.
LEMMA ProgramCalls ==
  ASSUME IInv, NEW t \in Task, NEW d \in BOOLEAN, UserProgram(t, d)
  PROVE  InUser(t) /\ (Panic \/ sys_exit(t) \/ Calls(t))
  <1> USE DEF procVars, exitVars
  <1>0. NoObj \in Obj \cup {NoObj} /\ "trap_end" \in KernelPC
    BY Zenon DEF KernelPC
  <1>w. \A o \in Obj : waiter_queue[o] # <<>> => Head(waiter_queue[o]) \in Task
    BY TailQueue, Zenon DEF IInv, TypeOK
  <1>1. ASSUME NEW o \in Obj, NEW b \in BOOLEAN, sys_mutex_create(t, o, b)
        PROVE  InUser(t) /\ Calls(t)
    BY <1>0, <1>1, Zenon DEF sys_mutex_create, Calls, Moves, Return
  <1>2. ASSUME NEW o \in Obj, sys_mutex_lock(t, o) PROVE InUser(t) /\ (Panic \/ Calls(t))
    BY <1>2, LockCalls, Zenon DEF sys_mutex_lock
  <1>3. ASSUME NEW o \in Obj, sys_mutex_unlock(t, o) PROVE InUser(t) /\ (Panic \/ Calls(t))
    BY <1>0, <1>w, <1>3, Zenon
    DEF sys_mutex_unlock, HandsOff, wakeup_task, Calls, Moves, Return
  <1>4. ASSUME NEW o \in Obj, NEW n \in 0..MaxCount, sys_semaphore_create(t, o, n)
        PROVE  InUser(t) /\ Calls(t)
    BY <1>0, <1>4, Zenon DEF sys_semaphore_create, Calls, Moves, Return
  <1>5. ASSUME NEW o \in Obj, sys_semaphore_up(t, o) PROVE InUser(t) /\ (Panic \/ Calls(t))
    BY <1>0, <1>w, <1>5, Zenon
    DEF sys_semaphore_up, UpWakes, wakeup_task, Calls, Moves, Return
  <1>6. ASSUME NEW o \in Obj, sys_semaphore_down(t, o) PROVE InUser(t) /\ (Panic \/ Calls(t))
    BY <1>0, <1>6, Zenon DEF sys_semaphore_down, Calls, Moves, Return, KernelPC
  <1>7. ASSUME NEW o \in Obj, sys_condvar_create(t, o) PROVE InUser(t) /\ Calls(t)
    BY <1>0, <1>7, Zenon DEF sys_condvar_create, Calls, Moves, Return
  <1>8. ASSUME NEW o \in Obj, sys_condvar_signal(t, o) PROVE InUser(t) /\ (Panic \/ Calls(t))
    BY <1>0, <1>w, <1>8, Zenon DEF sys_condvar_signal, wakeup_task, Calls, Moves, Return
  <1>9. ASSUME NEW c \in Obj, NEW o \in Obj, sys_condvar_wait(t, c, o)
        PROVE  InUser(t) /\ (Panic \/ Calls(t))
    BY <1>0, <1>w, <1>9, Zenon DEF sys_condvar_wait, HandsOff, Calls, Moves, KernelPC
  <1>10. CASE sys_yield(t)
    BY <1>0, <1>10, Zenon DEF sys_yield, Calls, Moves, Return
  <1>11. ASSUME NEW x \in 0..MaxTime, sys_sleep(t, x) PROVE InUser(t) /\ Calls(t)
    BY <1>0, <1>11, Zenon DEF sys_sleep, Calls, Moves, Return
  <1>12. ASSUME NEW u \in Task, sys_thread_create(t, u) PROVE InUser(t) /\ Calls(t)
    BY <1>0, <1>12, Zenon DEF sys_thread_create, Calls, Moves, Return
  <1>13. CASE sys_exit(t)
    BY <1>13, Zenon DEF sys_exit
  <1>14. ASSUME NEW p \in Proc, sys_kill(t, p) PROVE InUser(t) /\ Calls(t)
    BY <1>0, <1>14, Zenon DEF sys_kill, Calls, Moves, Return
  <1> QED
    BY <1>1, <1>2, <1>3, <1>4, <1>5, <1>6, <1>7, <1>8, <1>9, <1>10, <1>11, <1>12, <1>13, <1>14, ZenonT(30)
    DEF UserProgram

\* A thread that calls is not initproc's.
LEMMA CallsSpare ==
  ASSUME IInv, InitprocInv, NEW t \in Task, Running(t), t # Initproc, Calls(t)
  PROVE  InitprocInv'
  <1>1. \A u \in Task : u # t => kpc'[u] = kpc[u]
    BY GotoEffect, Zenon DEF IInv, Calls
  <1>2. InitProc \notin sigkill'
    BY Zenon DEF InitprocInv, Calls
  <1> QED BY <1>1, <1>2, OtherThread, Zenon DEF Calls

\* A step of a program.
LEMMA ProgramSpares ==
  ASSUME IInv, InitprocInv, NEW t \in Task, ProcOf[t] # InitProc, NEW d \in BOOLEAN,
         UserProgram(t, d)
  PROVE  InitprocInv'
  <1>1. Running(t) /\ t # Initproc
    BY ProgramCalls, InitprocType, Zenon DEF InUser
  <1>2. CASE Panic
    BY <1>2, PanicSpares
  <1>3. CASE Calls(t)
    BY <1>1, <1>3, CallsSpare
  <1>4. CASE sys_exit(t)
    <2>1. exit_current_and_run_next(t, TRUE) \/ exit_current_and_run_next(t, FALSE)
      BY <1>4, Zenon DEF sys_exit, exit_current_and_run_next
    <2>2. InitProc \notin sigkill'
      BY <1>4, Zenon DEF sys_exit, InitprocInv
    <2> QED BY <1>1, <2>1, <2>2, ExitSpares, Zenon
  <1> QED BY <1>2, <1>3, <1>4, ProgramCalls, Zenon

\* Threads that continue inside a lock or a down are not initproc's.
LEMMA ResumeSpares ==
  ASSUME IInv, InitprocInv, NEW t \in Task, ResumeLock(t) \/ ResumeDown(t)
  PROVE  InitprocInv'
  <1>1. Running(t) /\ kpc[t] \in {"lock", "locked", "downed"}
    BY Zenon DEF ResumeLock, ResumeDown
  <1>2. ProcOf[t] \notin zombie
    BY <1>1, NoTaskAssumption, Zenon DEF IInv, Core, DeadNeverRun, Running
  <1>3. t # Initproc
    <2>1. SUFFICES ASSUME t = Initproc PROVE FALSE
      OBVIOUS
    <2>2. kpc[t] \in {"user", "trap_end", "tick"}
      BY <1>2, <2>1, InitprocType, Zenon DEF InitprocInv
    <2> QED BY <1>1, <2>2, Zenon
  <1>4. Calls(t)
    <2>1. kobj[t] \in Obj
      BY <1>1, Zenon DEF IInv, Continues
    <2>2. CASE lock(t, kobj[t]) /\ UNCHANGED <<zombie, power, sigkill>>
      BY <2>1, <2>2, LockCalls, Zenon
    <2>3. CASE KeepRunning /\ Return(t) /\ UNCHANGED <<zombie, power, sigkill>>
      BY <2>3, Zenon DEF Calls, Moves, Return, KernelPC
    <2> QED BY <2>2, <2>3, Zenon DEF ResumeLock, ResumeDown, procVars, exitVars
  <1> QED BY <1>1, <1>3, <1>4, CallsSpare

\* check_timer and the suspend after it, the interrupt, and the end of a trap,
\* also of initproc.
LEMMA TrapSpares ==
  ASSUME IInv, InitprocInv, NEW t \in Task, TimerInterrupt(t) \/ Tick(t) \/ trap_end(t)
  PROVE  InitprocInv'
  <1>0. TypeOK /\ Initproc \in Task /\ status \in [Task -> TaskStatus \cup {"absent"}]
    BY InitprocType, Zenon DEF IInv, TypeOK, SchedTypeOK
  <1>a. zombie \subseteq Proc /\ InitProc \notin sigkill
    BY Zenon DEF IInv, TypeOK, InitprocInv
  <1>1. CASE TimerInterrupt(t)
    <2>1. /\ status' = status /\ current' = current /\ zombie' = zombie /\ sigkill' = sigkill
          /\ power' # "off" /\ Goto(t, "tick", NoObj)
      BY <1>1, Zenon DEF TimerInterrupt, InUser, Running, schedVars, procVars, exitVars
    <2>2. kpc'[Initproc] \in {kpc[Initproc], "tick"}
      BY <1>0, <2>1, GotoEffect, Zenon
    <2>3. Spared
      BY <1>a, <2>1, <2>2, Zenon DEF Spared
    <2> QED BY <2>3, SparedStep
  <1>2. CASE Tick(t)
    <2>1. /\ zombie' = zombie /\ sigkill' = sigkill /\ power' # "off" /\ current = t
          /\ \/ /\ \E x \in Expired : WakeExpired(x)
                /\ current' = current /\ kpc' = kpc
             \/ suspend_current_and_run_next /\ Goto(t, "trap_end", NoObj)
      BY <1>2, Zenon DEF Tick, Running, Return, procVars, exitVars, contVars
    <2>2. CASE /\ \E x \in Expired : WakeExpired(x)
               /\ current' = current /\ kpc' = kpc
      <3>1. PICK x \in timers : status' = [status EXCEPT ![x.task] = "Ready"]
        BY <2>2, Zenon DEF Expired, WakeExpired, wakeup_task
      <3>2. status'[Initproc] \in {status[Initproc], "Ready"}
        BY <1>0, <3>1, Zenon
      <3>3. Spared
        BY <1>a, <2>1, <2>2, <3>2, Zenon DEF Spared
      <3> QED BY <3>3, SparedStep
    <2>3. CASE suspend_current_and_run_next /\ Goto(t, "trap_end", NoObj)
      <3>1. kpc'[Initproc] \in {kpc[Initproc], "trap_end"}
        BY <1>0, <2>3, GotoEffect, Zenon
      <3>2. /\ status'[Initproc] \in {status[Initproc], "Ready"}
            /\ current = Initproc => status'[Initproc] = "Ready"
        BY <1>0, <2>1, <2>3, Zenon DEF suspend_current_and_run_next
      <3>3. Spared
        BY <1>a, <2>1, <3>1, <3>2, Zenon DEF Spared
      <3> QED BY <3>3, SparedStep
    <2> QED BY <2>1, <2>2, <2>3, Zenon
  <1>3. CASE trap_end(t) /\ ProcOf[t] \notin sigkill
    <2>1. /\ status' = status /\ current' = current /\ zombie' = zombie /\ sigkill' = sigkill
          /\ power' # "off" /\ Goto(t, "user", NoObj)
      BY <1>3, Zenon DEF trap_end, Running, schedVars, procVars, exitVars
    <2>2. kpc'[Initproc] \in {kpc[Initproc], "user"}
      BY <1>0, <2>1, GotoEffect, Zenon
    <2>3. Spared
      BY <1>a, <2>1, <2>2, Zenon DEF Spared
    <2> QED BY <2>3, SparedStep
  <1>4. CASE trap_end(t) /\ ProcOf[t] \in sigkill
    <2>1. /\ ProcOf[t] # InitProc /\ Running(t) /\ exit_current_and_run_next(t, TRUE)
          /\ InitProc \notin sigkill'
      BY <1>a, <1>4, Zenon DEF trap_end
    <2> QED BY <2>1, ExitSpares, Zenon
  <1> QED BY <1>1, <1>2, <1>3, <1>4, Zenon

\* The idle loop shuts the machine down only when initproc has exited.
LEMMA DispatchSpares ==
  ASSUME IInv, InitprocInv, power = "on", exiting = NoProc, run_tasks,
         UNCHANGED <<contVars, procVars>>
  PROVE  InitprocInv'
  <1>0. /\ Initproc \in Task /\ status \in [Task -> TaskStatus \cup {"absent"}]
        /\ ready_queue \in Seq(Task)
    BY InitprocType, Zenon DEF IInv, TypeOK, SchedTypeOK
  <1>1. /\ current = NoTask /\ kpc' = kpc /\ zombie' = zombie /\ sigkill' = sigkill
        /\ current # Initproc /\ zombie \subseteq Proc
    BY <1>0, NoTaskAssumption, Zenon
    DEF run_tasks, contVars, procVars, exitVars, IInv, TypeOK
  <1>2. CASE ready_queue = <<>>
    <2>1. status' = status /\ current' = current
      BY <1>2, Zenon DEF run_tasks
    <2>2. ~Queued(Initproc, ready_queue)
      BY <1>2 DEF Queued
    <2>3. InitProc \in zombie
      <3>1. Alive(Initproc) => status[Initproc] # "Ready"
        BY <1>0, <2>2, Zenon DEF IInv, Core, ReadyQueueExact
      <3> QED BY <1>1, <3>1, InitprocType, Zenon DEF InitprocInv, Alive
    <2> QED BY <1>1, <2>1, <2>3, Zenon DEF InitprocInv, ShutdownOnlyAtEnd
  <1>3. CASE ready_queue # <<>>
    <2>1. /\ current' = Head(ready_queue) /\ power' = power
          /\ status' = [status EXCEPT ![Head(ready_queue)] = "Running"]
      BY <1>3, Zenon DEF run_tasks
    <2>2. status'[Initproc] = status[Initproc] \/ current' = Initproc
      BY <1>0, <2>1, Zenon
    <2>3. InitProc \notin zombie' => /\ kpc'[Initproc] \in {"user", "trap_end", "tick"}
                                     /\ status'[Initproc] = "Ready" \/ current' = Initproc
      BY <1>1, <2>2, Zenon DEF InitprocInv
    <2> QED BY <1>1, <2>1, <2>3, Zenon DEF InitprocInv, ShutdownOnlyAtEnd, Initproc
  <1> QED BY <1>2, <1>3, Zenon

\* initproc yields, or exits when every other process has terminated.
LEMMA InitProgramSpares ==
  ASSUME IInv, InitprocInv, InitProgram(Initproc)
  PROVE  InitprocInv'
  <1>0. /\ Initproc \in Task /\ status \in [Task -> TaskStatus \cup {"absent"}] /\ TypeOK
        /\ zombie \subseteq Proc /\ InitProc \notin sigkill
    BY InitprocType, Zenon DEF IInv, TypeOK, SchedTypeOK, InitprocInv
  <1>1. CASE \A p \in Proc \ {InitProc} : p \in zombie
    <2>1. sys_exit(Initproc)
      BY <1>1, Zenon DEF InitProgram
    <2>2. zombie' = zombie \cup {InitProc} /\ power' # "off" /\ sigkill' = sigkill
      BY <2>1, InitprocType, Zenon
      DEF sys_exit, exit_current_and_run_next, Initproc, InUser, Running
    <2>3. zombie' = Proc
      BY <1>0, <1>1, <2>2, InitprocType, Zenon
    <2> QED BY <1>0, <2>2, <2>3, InitprocType, Zenon DEF InitprocInv, ShutdownOnlyAtEnd
  <1>2. CASE ~ \A p \in Proc \ {InitProc} : p \in zombie
    <2>1. sys_yield(Initproc)
      BY <1>2, Zenon DEF InitProgram
    <2>2. /\ zombie' = zombie /\ sigkill' = sigkill /\ power' # "off" /\ current = Initproc
          /\ suspend_current_and_run_next /\ Goto(Initproc, "trap_end", NoObj)
      BY <2>1, Zenon DEF sys_yield, Return, InUser, Running, procVars, exitVars
    <2>3. kpc'[Initproc] = "trap_end" /\ status'[Initproc] = "Ready"
      BY <1>0, <2>2, GotoEffect, Zenon DEF suspend_current_and_run_next
    <2>4. Spared
      BY <1>0, <2>2, <2>3, Zenon DEF Spared
    <2> QED BY <2>4, SparedStep
  <1> QED BY <1>1, <1>2, Zenon

\* The steps that move no thread.
LEMMA KeepSpares ==
  ASSUME IInv, InitprocInv, UNCHANGED <<status, current, kpc, zombie, sigkill, power>>
  PROVE  InitprocInv'
  <1>1. /\ status' = status /\ current' = current /\ kpc' = kpc /\ zombie' = zombie
        /\ sigkill' = sigkill /\ power' = power
    OBVIOUS
  <1> QED BY <1>1, Zenon DEF InitprocInv, ShutdownOnlyAtEnd

\* Every step.
LEMMA NextSpares ==
  ASSUME IInv, InitprocInv, NEW d \in BOOLEAN, NextOf(d) \/ UNCHANGED vars
  PROVE  InitprocInv'
  <1>1. CASE /\ power = "on" /\ exiting = NoProc /\ run_tasks
             /\ UNCHANGED <<timers, now, contVars, procVars, objVars, ghostVars>>
    BY <1>1, DispatchSpares, Zenon
  <1>2. CASE RemoveTask \/ DropLists \/ AdvanceClock \/ UNCHANGED vars
    <2>1. UNCHANGED <<status, current, kpc, zombie, sigkill, power>>
      BY <1>2, Zenon
      DEF RemoveTask, DropLists, AdvanceClock, vars, schedVars, contVars, procVars, exitVars
    <2> QED BY <2>1, KeepSpares
  <1>3. CASE \E t \in Task : ResumeLock(t) \/ ResumeDown(t) \/ Tick(t) \/ trap_end(t)
    BY <1>3, ResumeSpares, TrapSpares, Zenon
  <1>4. CASE Interrupt
    BY <1>4, TrapSpares, Zenon DEF Interrupt
  <1>5. CASE InitProgram(Main[InitProc])
    BY <1>5, InitProgramSpares, Zenon DEF Initproc
  <1>6. CASE \E t \in Task : ProcOf[t] # InitProc /\ UserProgram(t, d)
    BY <1>6, ProgramSpares, Zenon
  <1> QED BY <1>1, <1>2, <1>3, <1>4, <1>5, <1>6, Zenon DEF NextOf, Kernel, Halted

\* run_tasks shuts the machine down only when every process has terminated,
\* whatever the programs do: initproc keeps the ready queue from running dry
\* while other threads sleep or wait, and exits last.
THEOREM ShutdownTheorem == Spec => []ShutdownOnlyAtEnd
  <1>1. Init => InitprocInv
    <2>1. SUFFICES ASSUME Init PROVE InitprocInv
      OBVIOUS
    <2>2. power = "on" /\ sigkill = {} /\ zombie = {}
      BY <2>1, Zenon DEF Init
    <2>3. kpc[Initproc] = "user" /\ status[Initproc] = "Ready"
      BY <2>1, InitprocType, Zenon DEF Init, Initproc
    <2> QED BY <2>2, <2>3 DEF InitprocInv, ShutdownOnlyAtEnd
  <1>2. IInv /\ InitprocInv /\ [Next]_vars => InitprocInv'
    BY NextSpares, Zenon DEF Next
  <1>3. InitprocInv => ShutdownOnlyAtEnd
    BY Zenon DEF InitprocInv
  <1> QED BY <1>1, <1>2, <1>3, Invariance, PTL DEF Spec
=============================================================================
