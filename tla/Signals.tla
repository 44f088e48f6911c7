------------------------------- MODULE Signals -------------------------------
(***************************************************************************)
(* The signals of one process: sys_kill, sys_sigaction, sys_sigprocmask    *)
(* and sys_sigreturn (os/src/syscall/process.rs), the delivery of pending  *)
(* signals at the end of a trap (os/src/task/mod.rs) and the exit of a     *)
(* thread, or of its whole process, that follows (os/src/trap/mod.rs).     *)
(*                                                                         *)
(* A signal is its number.  A user context says what it is in the middle   *)
(* of (-1 for the program itself, or the signal whose handler runs) and    *)
(* how far it got, modulo Progress: an old context differs from a new one. *)
(***************************************************************************)
EXTENDS Integers, Sequences, FiniteSetsExt

CONSTANTS
  Sig,               \* the signal numbers in use, a part of 0..31
  Thread, Main,      \* threads of the process; the one with tid 0
  NoThread,
  InitAction,        \* the actions the process may start with
  Action,            \* the actions sigaction may install
  Mask,              \* the masks sigprocmask may install
  Progress           \* bound: the steps that contexts tell apart

SIGDEF == 0
SIGILL == 4
SIGKILL == 9
SIGSEGV == 11
SIGCONT == 18
SIGSTOP == 19
KernelSig == {SIGDEF, SIGKILL, SIGCONT, SIGSTOP}

\* A mutant: SIGKILL is not among them.
FatalWithoutKill == {2, SIGILL, 6, 8, SIGSEGV}

\* The signals SignalFlags::check_error names.
Fatal == {2, SIGILL, 6, 8, SIGKILL, SIGSEGV}

SignalAction == [handler : {0, 1}, mask : SUBSET Sig]

SignalsAssumption ==
  /\ Sig \subseteq 0..31
  /\ Main \in Thread /\ NoThread \notin Thread
  /\ InitAction \subseteq SignalAction /\ Action \subseteq SignalAction
  /\ Mask \subseteq SUBSET Sig
  /\ Progress \in Nat \ {0}

VARIABLES
  signals, signal_mask, handling_signal, signal_actions,
  frozen, killed, is_zombie,
  pc,                \* "user", "trap" (at handle_signals) or "dead"
  kernel,            \* the thread that runs kernel code, if one does
  trap_cx, trap_cx_backup,
  interrupted        \* ghost: the contexts that handlers interrupted

actionVars == <<signal_mask, signal_actions>>
stateVars == <<frozen, killed>>
cxVars == <<trap_cx, trap_cx_backup, interrupted>>
vars == <<signals, handling_signal, actionVars, stateVars, is_zombie, pc, kernel, cxVars>>

Context == [at : Sig \cup {-1}, step : 0..(Progress - 1)]
NoContext == [at |-> -2, step |-> 0]

TypeOK ==
  /\ signals \subseteq Sig /\ signal_mask \subseteq Sig
  /\ handling_signal \in Sig \cup {-1}
  /\ signal_actions \in [Sig -> SignalAction]
  /\ frozen \in BOOLEAN /\ killed \in BOOLEAN /\ is_zombie \in BOOLEAN
  /\ pc \in [Thread -> {"user", "trap", "dead"}]
  /\ kernel \in Thread \cup {NoThread}
  /\ trap_cx \in [Thread -> Context]
  /\ trap_cx_backup \in [Thread -> Context \cup {NoContext}]
  /\ \A t \in Thread : interrupted[t] \in Seq(Context)

Init ==
  /\ signals = {} /\ handling_signal = -1
  /\ signal_mask \in Mask \cup {{}}           \* fork copies it
  /\ \E a \in InitAction : signal_actions = [s \in Sig |-> a]
  /\ frozen = FALSE /\ killed = FALSE /\ is_zombie = FALSE
  /\ pc = [t \in Thread |-> "user"] /\ kernel = NoThread
  /\ trap_cx = [t \in Thread |-> [at |-> -1, step |-> 0]]
  /\ trap_cx_backup = [t \in Thread |-> NoContext]
  /\ interrupted = [t \in Thread |-> <<>>]

-----------------------------------------------------------------------------
(* What several steps share *)

InUser(t) == pc[t] = "user" /\ kernel = NoThread
InHandler(t) == trap_cx[t].at # -1

\* The program, or the handler, has got one step further when it traps.
Advance(t) ==
  trap_cx' = [trap_cx EXCEPT ![t].step = (@ + 1) % Progress]

\* A syscall or a fault that keeps the CPU until handle_signals.
Trap(t) ==
  /\ pc' = [pc EXCEPT ![t] = "trap"]
  /\ kernel' = t

\* exit_current_and_run_next: the whole process ends with its main thread,
\* or with any thread once it is killed.
Exit(t, isKilled) ==
  /\ LET all == t = Main \/ isKilled IN
     /\ pc' = [u \in Thread |-> IF all \/ u = t THEN "dead" ELSE pc[u]]
     /\ is_zombie' = all
  /\ kernel' = NoThread

-----------------------------------------------------------------------------
(* Syscalls, faults and interrupts *)

\* sys_kill, called by another process.
Kill(s) ==
  /\ ~is_zombie /\ kernel = NoThread /\ s \notin signals
  /\ signals' = signals \cup {s}
  /\ UNCHANGED <<handling_signal, actionVars, stateVars, is_zombie, pc, kernel, cxVars>>

\* sys_kill, called by a thread of the process itself; current_add_signal,
\* for a page fault or an illegal instruction, ends the same way.
AddSignal(t, s) ==
  /\ InUser(t)
  /\ signals' = signals \cup {s}
  /\ Advance(t) /\ Trap(t)
  /\ UNCHANGED <<handling_signal, actionVars, stateVars, is_zombie, trap_cx_backup, interrupted>>

sys_sigaction(t, s, a) ==
  /\ InUser(t)
  /\ s \notin {SIGKILL, SIGSTOP}
  /\ signal_actions' = [signal_actions EXCEPT ![s] = a]
  /\ Advance(t) /\ Trap(t)
  /\ UNCHANGED <<signals, handling_signal, signal_mask, stateVars, is_zombie, trap_cx_backup, interrupted>>

sys_sigprocmask(t, m) ==
  /\ InUser(t)
  /\ signal_mask' = m
  /\ Advance(t) /\ Trap(t)
  /\ UNCHANGED <<signals, handling_signal, signal_actions, stateVars, is_zombie, trap_cx_backup, interrupted>>

\* A handler ends with sigreturn; nothing else calls it.
sys_sigreturn(t) ==
  /\ InUser(t) /\ InHandler(t)
  /\ handling_signal' = -1
  /\ trap_cx' = [trap_cx EXCEPT ![t] = trap_cx_backup[t]]
  /\ interrupted' = [interrupted EXCEPT ![t] = IF @ = <<>> THEN @ ELSE SubSeq(@, 1, Len(@) - 1)]
  /\ Trap(t)
  /\ UNCHANGED <<signals, actionVars, stateVars, is_zombie, trap_cx_backup>>

sys_exit(t) ==
  /\ InUser(t)
  /\ Exit(t, killed)
  /\ UNCHANGED <<signals, handling_signal, actionVars, stateVars, cxVars>>

\* The timer interrupt, and every syscall that gives the CPU up.
Tick(t) ==
  /\ InUser(t)
  /\ pc' = [pc EXCEPT ![t] = "trap"]
  /\ Advance(t)
  /\ UNCHANGED <<signals, handling_signal, actionVars, stateVars, is_zombie, kernel, trap_cx_backup, interrupted>>

-----------------------------------------------------------------------------
(* handle_signals, and what trap_handler does after it *)

\* A mutant: the mask of the running handler is not minded.
DeliverableInHandler == signals \ signal_mask

\* The condition check_pending_signals tests for each signal.
Deliverable ==
  {s \in signals \ signal_mask :
     handling_signal = -1 \/ s \notin signal_actions[handling_signal].mask}

\* The loop runs upwards and returns at the first signal that is not the
\* kernel's, whether it has a handler or not.
UserSig == Deliverable \ KernelSig
Seen == {s \in Deliverable \cap KernelSig : \A u \in UserSig : s < u}
Called == UserSig # {} /\ signal_actions[Min(UserSig)].handler # 0

\* Mutants: a stopped process is let go at the next pass; SIGCONT is not minded.
FrozenOnce == SIGSTOP \in Seen
FrozenForGood == SIGSTOP \in Seen \/ frozen

\* call_kernel_signal_handler for each signal seen; SIGSTOP comes after SIGCONT.
Frozen == SIGSTOP \in Seen \/ (frozen /\ SIGCONT \notin Seen)
Killed == killed \/ SIGKILL \in Seen \/ SIGDEF \in Seen

\* What is still pending after the pass.
Left ==
  (signals \ (Seen \cap {SIGCONT, SIGSTOP})) \ (IF Called THEN {Min(UserSig)} ELSE {})

\* A mutant: the context is not saved.
CallHandlerUnsaved(t) ==
  IF Called
  THEN LET s == Min(UserSig) IN
       /\ handling_signal' = s
       /\ interrupted' = [interrupted EXCEPT ![t] = Append(@, trap_cx[t])]
       /\ trap_cx' = [trap_cx EXCEPT ![t] = [at |-> s, step |-> 0]]
       /\ UNCHANGED trap_cx_backup
  ELSE UNCHANGED <<handling_signal, cxVars>>

\* call_user_signal_handler
CallHandler(t) ==
  IF Called
  THEN LET s == Min(UserSig) IN
       /\ handling_signal' = s
       /\ trap_cx_backup' = [trap_cx_backup EXCEPT ![t] = trap_cx[t]]
       /\ interrupted' = [interrupted EXCEPT ![t] = Append(@, trap_cx[t])]
       /\ trap_cx' = [trap_cx EXCEPT ![t] = [at |-> s, step |-> 0]]
  ELSE UNCHANGED <<handling_signal, cxVars>>

check_pending_signals(t) ==
  /\ pc[t] = "trap" /\ kernel \in {t, NoThread}
  /\ signals' = Left /\ frozen' = Frozen /\ killed' = Killed
  /\ CallHandler(t)
  /\ UNCHANGED actionVars

\* The process is stopped: the thread yields and looks again.
HandleStopped(t) ==
  /\ check_pending_signals(t)
  /\ Frozen /\ ~Killed
  /\ kernel' = NoThread
  /\ UNCHANGED <<pc, is_zombie>>

\* check_signals_of_current finds a fatal signal.
HandleError(t) ==
  /\ check_pending_signals(t)
  /\ Killed \/ ~Frozen
  /\ Left \cap Fatal # {}
  /\ Exit(t, Killed)

HandleReturn(t) ==
  /\ check_pending_signals(t)
  /\ Killed \/ ~Frozen
  /\ Left \cap Fatal = {}
  /\ pc' = [pc EXCEPT ![t] = "user"]
  /\ kernel' = NoThread
  /\ UNCHANGED is_zombie

handle_signals(t) == HandleStopped(t) \/ HandleError(t) \/ HandleReturn(t)

Next ==
  \/ \E s \in Sig : Kill(s)
  \/ \E t \in Thread :
       \/ \E s \in Sig : AddSignal(t, s)
       \/ \E s \in Sig, a \in Action : sys_sigaction(t, s, a)
       \/ \E m \in Mask : sys_sigprocmask(t, m)
       \/ sys_sigreturn(t)
       \/ sys_exit(t)
       \/ Tick(t)
       \/ HandleStopped(t)
       \/ HandleError(t)
       \/ HandleReturn(t)

Spec == Init /\ [][Next]_vars

\* The ready queue is served in turn, and the timer ends every time slice.
Fairness ==
  \A t \in Thread : SF_vars(handle_signals(t)) /\ SF_vars(Tick(t))

FairSpec == Spec /\ Fairness

-----------------------------------------------------------------------------
(* Properties *)

(* sys_sigreturn resumes what the handler interrupted: inside a handler,   *)
(* trap_cx_backup is the context that call_user_signal_handler replaced.   *)
ReturnsToInterrupted ==
  \A t \in Thread :
    InHandler(t) => /\ interrupted[t] # <<>>
                    /\ trap_cx_backup[t] = interrupted[t][Len(interrupted[t])]

(* handling_signal is the process's, trap_cx_backup a thread's: at most    *)
(* one live thread is in a handler, and it is handling_signal's.           *)
OneHandlerAtATime ==
  \A t, u \in Thread :
    /\ pc[t] # "dead" /\ InHandler(t) => handling_signal = trap_cx[t].at
    /\ pc[t] # "dead" /\ pc[u] # "dead" /\ InHandler(t) /\ InHandler(u) => t = u

(* SIGKILL ends the process, stopped or not, whatever its threads do and   *)
(* whichever of them the scheduler runs first.                             *)
KillTerminates == SIGKILL \in signals ~> is_zombie

(* SIGCONT resumes a stopped process, unless it is stopped once more.      *)
ContResumes ==
  frozen /\ SIGCONT \in signals ~> ~frozen \/ is_zombie \/ SIGSTOP \in signals

(* "If the main thread exits or the process is killed, the process should  *)
(* be terminated": PCB.killed is followed by the end of the process.       *)
KilledTerminates == killed ~> is_zombie

(* A step that leaves the process stopped does not let the thread that     *)
(* took it run user code, and once every thread has seen the stop only     *)
(* SIGCONT or a kill lets one run again.                                   *)
StoppedStays ==
  [][\A t \in Thread :
       pc[t] = "trap" /\ pc'[t] = "user" /\ frozen /\ ~killed'
         => SIGCONT \in signals /\ SIGCONT \notin signals']_vars
====
