----------------------------- MODULE MCProcesses -----------------------------
(***************************************************************************)
(* Processes: the tree of processes and threads, and the signals of one    *)
(* process.  The two models share no state, so a behaviour exercises one   *)
(* of them: part says which, and the other stays as it starts.             *)
(***************************************************************************)
EXTENDS ProcessTree

\* What the waits of sys_mutex_lock, sys_read and sys_semaphore_down hold.
AllHolds == {{"queue"}, {"process"}, {"process", "queue"}}
ReadHolds == {{"process"}}

CONSTANTS Parts,     \* the parts that are explored
          Sig, Thread, Main, NoThread, InitAction, Action, Mask, Progress

VARIABLES
  part,
  signals, signal_mask, handling_signal, signal_actions, frozen, killed, is_zombie,
  pc, kernel, trap_cx, trap_cx_backup, interrupted

Signalling == INSTANCE Signals
signalVars == <<signals, signal_mask, handling_signal, signal_actions, frozen, killed,
                is_zombie, pc, kernel, trap_cx, trap_cx_backup, interrupted>>

\* Handlers that keep every other user signal out while they run.
Exclusive == {[handler |-> 1, mask |-> Sig \ {0, 9, 18, 19}]}

\* The programs install only such handlers, and start with none but such.
ExclusiveHandlers ==
  LET Excludes(a) == Sig \ Signalling!KernelSig \subseteq a.mask
  IN /\ \A a \in Action : Excludes(a)
     /\ \A a \in InitAction : a.handler = 0 \/ Excludes(a)

\* The action SignalActionTable::default gives every signal.
Default == {[handler |-> 0, mask |-> Sig \cap {3, 5}]}

UsrMask == {{10}, {}}

ASSUME SignallingAssumption == Signalling!SignalsAssumption

MCInit == part \in Parts /\ Init /\ Signalling!Init /\ (part = "tree" => signal_mask = {})

MCNext ==
  \/ part = "tree" /\ Next /\ UNCHANGED <<part, signalVars>>
  \/ part = "signals" /\ Signalling!Next /\ UNCHANGED <<part, vars>>

MCSpec == MCInit /\ [][MCNext]_<<part, vars, signalVars>>

-----------------------------------------------------------------------------
\* Types of the two parts.
ProcessesTypeOK == TypeOK /\ Signalling!TypeOK

\* sys_sigreturn resumes what the handler interrupted: inside a handler
\* trap_cx_backup is the context that call_user_signal_handler replaced.  At
\* most one live thread is in a handler, the one that handling_signal names.
HandlersReturn == Signalling!ReturnsToInterrupted /\ Signalling!OneHandlerAtATime

\* A stopped process runs no user code again before handle_signals has seen
\* SIGCONT, or a kill.
StoppedStays == Signalling!StoppedStays
====
