------------------------------ MODULE Discipline ------------------------------
(***************************************************************************)
(* TaskSync with the programs of a run either arbitrary or disciplined     *)
(* (UserProgram of TaskSync): which of the two is chosen at the start.     *)
(***************************************************************************)
EXTENDS TaskSync

VARIABLE disciplined   \* no program breaks the discipline of locks

AnyInit == Init /\ disciplined \in BOOLEAN

AnyNext == NextOf(disciplined) /\ UNCHANGED disciplined

AnySpec == AnyInit /\ [][AnyNext]_<<vars, disciplined>>

\* Programs that unlock only what they hold: no two threads are past the lock of
\* the same mutex, also across Condvar::wait; a mutex that is locked has an
\* owner, a thread whose lock returned or the one waiter that unlock handed it
\* to; and neither the assertion in MutexBlocking::unlock nor the indexing of
\* the lists of objects fails.
DisciplinedLocks == disciplined => MutualExclusion /\ LockHasOwner /\ NoPanic
=============================================================================
