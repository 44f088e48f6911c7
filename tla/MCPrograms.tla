------------------------------ MODULE MCPrograms ------------------------------
(***************************************************************************)
(* User programs that synchronise threads: those that do it by system      *)
(* calls (SyncPrograms), and eisenberg and peterson, which do it in plain  *)
(* memory.  A behaviour is a run of one of them: part says which kind, and *)
(* the others stay as they start.                                          *)
(***************************************************************************)
EXTENDS SyncPrograms, PlainMemory, TLC

CONSTANTS i0, m0, t1, t2, t3, pr

VARIABLE part

ProcOfAll == (i0 :> InitProc) @@ [t \in {m0, t1, t2, t3} |-> pr]
MainOfAll == (InitProc :> i0) @@ (pr :> m0)
OwnerOfAll == [o \in 0..2 |-> pr]
ThreeWorkers == <<t1, t2, t3>>

MCInit ==
  /\ part \in {"calls", "eisenberg", "peterson"}
  /\ PlainInit
  /\ ProgramsInit
  /\ part # "calls" => program = "sync_sem" /\ ready_queue = <<i0, m0>>

MCNext ==
  \/ part = "calls" /\ ProgramsNext /\ UNCHANGED <<part, ring, pair>>
  \/ part = "eisenberg" /\ Ring!Next /\ UNCHANGED <<part, allVars, pair>>
  \/ part = "peterson" /\ Pair!Next /\ UNCHANGED <<part, allVars, ring>>
  \/ /\ (part = "eisenberg" /\ Ring!Finished) \/ (part = "peterson" /\ Pair!Finished)
     /\ UNCHANGED <<part, allVars, ring, pair>>

\* The fairness of each kind, for the one that runs.  Of programs with system
\* calls, that of TaskSync; and a thread that is scheduled again and again comes
\* to do its next step, since a time slice is longer than one.
MCSpec ==
  /\ MCInit /\ [][MCNext]_<<part, allVars, ring, pair>>
  /\ WF_allVars(part = "calls" /\ Kernel /\ UNCHANGED <<program, at, data>>)
  /\ SF_allVars(part = "calls" /\ AdvanceClock /\ Started /\ UNCHANGED <<program, at, data>>)
  /\ SF_allVars(part = "calls" /\ Interrupt /\ UNCHANGED <<program, at, data>>)
  /\ \A t \in {m0, t1, t2, t3} :
       SF_allVars(part = "calls" /\ Step(t) /\ at'[t] # at[t] /\ UNCHANGED program)
  /\ \A t \in Ring!Thread : WF_ring(part = "eisenberg" /\ Ring!thread_fn(t))
  /\ \A t \in Pair!Thread : WF_pair(part = "peterson" /\ Pair!thread_fn(t))

-----------------------------------------------------------------------------
(* Properties *)

\* The types of all the programs, and code is not left at its end.
AllTypesOK == ProgramsTypeOK /\ Ring!TypeOK /\ Pair!TypeOK

\* What the programs with system calls rely on: no thread goes past the barrier
\* before all have come, the consumer reads what the producers put, in order, the
\* second thread goes on after the first, no addition is lost, and no call makes
\* the kernel panic, whichever thread creates an object and whichever uses it.
CallsHold ==
  BarrierHolds /\ BufferInOrder /\ SecondAfterFirst /\ AdditionsCounted /\ NoKernelPanic

\* Every program comes to its end.  No philosopher, producer or thread at a
\* barrier waits for ever and no wakeup is lost; no thread of eisenberg.rs is kept
\* out by conflicts for ever, and the turn is never left with one that is gone;
\* the threads of peterson.rs both finish.
ProgramsEnd ==
  <>(/\ part = "calls" => Ended
     /\ part = "eisenberg" => Ring!Finished
     /\ part = "peterson" => Pair!Finished)
====
