---------------------------- MODULE ProcessProofs ----------------------------
(***************************************************************************)
(* The signals of a process: what MCProcesses checks on a small instance,  *)
(* for any number of threads and signals.  The types of all of MCProcesses *)
(* follow, with TreeProofs.                                                *)
(***************************************************************************)
EXTENDS MCProcesses, TreeProofs

-----------------------------------------------------------------------------
(* The signals of a process *)

\* Thread t runs a handler.
InHandler(t) == trap_cx[t].at # -1

\* The types, and that a thread in a handler has a context to return to.
SignalType ==
  /\ Signalling!TypeOK
  /\ interrupted \in [Thread -> Seq(Signalling!Context)]
  /\ \A t \in Thread : InHandler(t) => trap_cx_backup[t] \in Signalling!Context

\* What a step of the process may do to the contexts of its threads: nothing
\* that matters here, ...
Steady ==
  /\ handling_signal' = handling_signal
  /\ trap_cx_backup' = trap_cx_backup /\ interrupted' = interrupted
  /\ trap_cx' \in [Thread -> Signalling!Context]
  /\ \A u \in Thread : trap_cx'[u].at = trap_cx[u].at

\* ... enter the handler of a signal, ...
EntersHandler(t, s) ==
  /\ handling_signal' = s
  /\ trap_cx_backup' = [trap_cx_backup EXCEPT ![t] = trap_cx[t]]
  /\ interrupted' = [interrupted EXCEPT ![t] = Append(@, trap_cx[t])]
  /\ trap_cx' = [trap_cx EXCEPT ![t] = [at |-> s, step |-> 0]]

\* ... or leave one.
LeavesHandler(t) ==
  /\ InHandler(t) /\ pc[t] # "dead"
  /\ handling_signal' = -1
  /\ trap_cx_backup' = trap_cx_backup
  /\ interrupted' = [interrupted EXCEPT ![t] = IF @ = <<>> THEN @ ELSE SubSeq(@, 1, Len(@) - 1)]
  /\ trap_cx' = [trap_cx EXCEPT ![t] = trap_cx_backup[t]]

\* The rest of the state keeps its type, and no thread comes to life again.
RestTyped ==
  /\ signals' \subseteq Sig /\ signal_mask' \subseteq Sig
  /\ signal_actions' \in [Sig -> Signalling!SignalAction]
  /\ frozen' \in BOOLEAN /\ killed' \in BOOLEAN /\ is_zombie' \in BOOLEAN
  /\ pc' \in [Thread -> {"user", "trap", "dead"}]
  /\ kernel' \in Thread \cup {NoThread}
  /\ \A u \in Thread : pc'[u] # "dead" => pc[u] # "dead"

\* A step of the process, seen through its effects.
Effect ==
  /\ RestTyped
  /\ \/ Steady /\ signal_actions' = signal_actions
     \/ Steady /\ \E s \in Sig, a \in Action : signal_actions' = [signal_actions EXCEPT ![s] = a]
     \/ (\E t \in Thread : LeavesHandler(t)) /\ signal_actions' = signal_actions
     \/ /\ \E t \in Thread : EntersHandler(t, Signalling!Min(Signalling!UserSig)) /\ pc[t] # "dead"
        /\ signal_actions' = signal_actions
        /\ Signalling!Called

\* A trap is Steady: the context moves on within what it is in.
LEMMA AdvanceSteady ==
  ASSUME SignalType, NEW t \in Thread, Signalling!Advance(t),
         UNCHANGED <<handling_signal, trap_cx_backup, interrupted>>
  PROVE  Steady
  <1>1. /\ handling_signal' = handling_signal /\ trap_cx_backup' = trap_cx_backup
        /\ interrupted' = interrupted
    OBVIOUS
  <1>2. Progress \in Nat \ {0} /\ trap_cx \in [Thread -> Signalling!Context]
    BY SignallingAssumption, Zenon DEF Signalling!SignalsAssumption, SignalType, Signalling!TypeOK
  <1>3. trap_cx[t] \in Signalling!Context
    BY <1>2, Zenon
  <1>4. [trap_cx[t] EXCEPT !.step = (@ + 1) % Progress] \in Signalling!Context
    BY <1>2, <1>3 DEF Signalling!Context
  <1>5. [trap_cx[t] EXCEPT !.step = (@ + 1) % Progress].at = trap_cx[t].at
    BY <1>3 DEF Signalling!Context
  <1>6. trap_cx' = [trap_cx EXCEPT ![t] = [trap_cx[t] EXCEPT !.step = (@ + 1) % Progress]]
    BY DEF Signalling!Advance
  <1> DEFINE c == [trap_cx[t] EXCEPT !.step = (@ + 1) % Progress]
  <1>7. c \in Signalling!Context /\ c.at = trap_cx[t].at /\ trap_cx' = [trap_cx EXCEPT ![t] = c]
    BY <1>4, <1>5, <1>6
  <1> HIDE DEF c
  <1> QED BY <1>1, <1>2, <1>7, Zenon DEF Steady

\* The kernel's part of a trap.
LEMMA TrapTyped ==
  ASSUME SignalType, NEW t \in Thread, pc[t] # "dead", Signalling!Trap(t)
  PROVE  /\ pc' \in [Thread -> {"user", "trap", "dead"}]
         /\ kernel' \in Thread \cup {NoThread}
         /\ \A u \in Thread : pc'[u] # "dead" => pc[u] # "dead"
  BY Zenon DEF SignalType, Signalling!TypeOK, Signalling!Trap

\* exit_current_and_run_next.
LEMMA ExitTyped ==
  ASSUME SignalType, NEW t \in Thread, NEW k \in BOOLEAN, Signalling!Exit(t, k)
  PROVE  /\ pc' \in [Thread -> {"user", "trap", "dead"}]
         /\ kernel' \in Thread \cup {NoThread} /\ is_zombie' \in BOOLEAN
         /\ \A u \in Thread : pc'[u] # "dead" => pc[u] # "dead"
  <1> DEFINE all == t = Main \/ k
  <1>1. /\ pc' = [u \in Thread |-> IF all \/ u = t THEN "dead" ELSE pc[u]]
        /\ is_zombie' = all /\ kernel' = NoThread
    BY Zenon DEF Signalling!Exit
  <1>2. pc \in [Thread -> {"user", "trap", "dead"}]
    BY Zenon DEF SignalType, Signalling!TypeOK
  <1>3. all \in BOOLEAN
    BY Zenon
  <1> HIDE DEF all
  <1> QED BY <1>1, <1>2, <1>3, Zenon

\* The signals that can be delivered are signals.
LEMMA DeliverableTyped ==
  ASSUME SignalType
  PROVE  /\ Signalling!UserSig \in SUBSET Sig /\ Sig \in SUBSET Nat
         /\ Signalling!UserSig \in SUBSET Nat
         /\ Signalling!Called => Signalling!Min(Signalling!UserSig) \in Signalling!UserSig
         /\ Signalling!Left \subseteq signals
  <1>1. Sig \in SUBSET Nat
    BY SignallingAssumption DEF Signalling!SignalsAssumption
  <1>2. Signalling!UserSig \in SUBSET Sig
    BY Zenon DEF SignalType, Signalling!TypeOK, Signalling!UserSig, Signalling!Deliverable
  <1>3. Signalling!UserSig \in SUBSET Nat
    BY <1>1, <1>2, Zenon
  <1>4. Signalling!Called => Signalling!Min(Signalling!UserSig) \in Signalling!UserSig
    BY <1>3, LeastNumber, Zenon DEF Signalling!Called, Signalling!Min
  <1>5. Signalling!Left \subseteq signals
    BY Zenon DEF Signalling!Left
  <1> QED BY <1>1, <1>2, <1>3, <1>4, <1>5, Zenon

\* The pass over the pending signals.
LEMMA PassTyped ==
  ASSUME SignalType, NEW t \in Thread, Signalling!check_pending_signals(t)
  PROVE  /\ signals' \subseteq Sig /\ signal_mask' \subseteq Sig
         /\ signal_actions' = signal_actions
         /\ signal_actions' \in [Sig -> Signalling!SignalAction]
         /\ frozen' \in BOOLEAN /\ killed' \in BOOLEAN
         /\ pc[t] # "dead"
         /\ \/ Steady
            \/ Signalling!Called /\ EntersHandler(t, Signalling!Min(Signalling!UserSig))
  <1>1. /\ signals' = Signalling!Left /\ frozen' = Signalling!Frozen /\ killed' = Signalling!Killed
        /\ pc[t] = "trap" /\ Signalling!CallHandler(t)
        /\ signal_mask' = signal_mask /\ signal_actions' = signal_actions
    BY DEF Signalling!check_pending_signals, Signalling!actionVars
  <1>2. /\ signals \subseteq Sig /\ signal_mask \subseteq Sig
        /\ signal_actions \in [Sig -> Signalling!SignalAction]
        /\ frozen \in BOOLEAN /\ killed \in BOOLEAN /\ trap_cx \in [Thread -> Signalling!Context]
    BY Zenon DEF SignalType, Signalling!TypeOK
  <1>3. Signalling!Frozen \in BOOLEAN /\ Signalling!Killed \in BOOLEAN
    BY <1>2, Zenon DEF Signalling!Frozen, Signalling!Killed
  <1>4. Steady \/ (Signalling!Called /\ EntersHandler(t, Signalling!Min(Signalling!UserSig)))
    <2>1. Signalling!Called => EntersHandler(t, Signalling!Min(Signalling!UserSig))
      BY <1>1, Zenon DEF Signalling!CallHandler, EntersHandler
    <2>2. ~Signalling!Called => Steady
      <3>1. SUFFICES ASSUME ~Signalling!Called PROVE Steady
        OBVIOUS
      <3>2. UNCHANGED <<handling_signal, Signalling!cxVars>>
        BY <1>1, <3>1, Zenon DEF Signalling!CallHandler
      <3>3. /\ handling_signal' = handling_signal /\ trap_cx_backup' = trap_cx_backup
            /\ interrupted' = interrupted /\ trap_cx' = trap_cx
        BY <3>2 DEF Signalling!cxVars
      <3> QED BY <1>2, <3>3, Zenon DEF Steady
    <2> QED BY <2>1, <2>2, Zenon
  <1> QED BY <1>1, <1>2, <1>3, <1>4, DeliverableTyped, Zenon

\* Every step of the process has one of the effects.
LEMMA StepEffect ==
  ASSUME SignalType, [Signalling!Next]_signalVars
  PROVE  Effect
  <1>0. /\ signals \subseteq Sig /\ signal_mask \subseteq Sig
        /\ signal_actions \in [Sig -> Signalling!SignalAction]
        /\ frozen \in BOOLEAN /\ killed \in BOOLEAN /\ is_zombie \in BOOLEAN
        /\ pc \in [Thread -> {"user", "trap", "dead"}]
        /\ kernel \in Thread \cup {NoThread} /\ trap_cx \in [Thread -> Signalling!Context]
    BY Zenon DEF SignalType, Signalling!TypeOK
  <1>1. ASSUME NEW s \in Sig, Signalling!Kill(s) PROVE Effect
    <2>1. /\ signals' = signals \cup {s} /\ handling_signal' = handling_signal
          /\ signal_mask' = signal_mask /\ signal_actions' = signal_actions
          /\ frozen' = frozen /\ killed' = killed /\ is_zombie' = is_zombie
          /\ pc' = pc /\ kernel' = kernel
          /\ trap_cx' = trap_cx /\ trap_cx_backup' = trap_cx_backup /\ interrupted' = interrupted
      BY <1>1 DEF Signalling!Kill, Signalling!actionVars, Signalling!stateVars, Signalling!cxVars
    <2> QED BY <1>0, <2>1, Zenon DEF Effect, RestTyped, Steady
  <1>2. ASSUME NEW t \in Thread, NEW s \in Sig, Signalling!AddSignal(t, s) PROVE Effect
    <2>1. /\ signals' = signals \cup {s}
          /\ signal_mask' = signal_mask /\ signal_actions' = signal_actions
          /\ frozen' = frozen /\ killed' = killed /\ is_zombie' = is_zombie
          /\ UNCHANGED <<handling_signal, trap_cx_backup, interrupted>>
          /\ pc[t] # "dead" /\ Signalling!Trap(t) /\ Signalling!Advance(t)
      BY <1>2 DEF Signalling!AddSignal, Signalling!InUser, Signalling!actionVars, Signalling!stateVars
    <2>2. Steady
      BY <2>1, AdvanceSteady, Zenon
    <2> QED BY <1>0, <2>1, <2>2, TrapTyped, Zenon DEF Effect, RestTyped
  <1>3. ASSUME NEW t \in Thread, NEW s \in Sig, NEW a \in Action, Signalling!sys_sigaction(t, s, a)
        PROVE Effect
    <2>1. /\ signals' = signals
          /\ signal_mask' = signal_mask /\ signal_actions' = [signal_actions EXCEPT ![s] = a]
          /\ frozen' = frozen /\ killed' = killed /\ is_zombie' = is_zombie
          /\ UNCHANGED <<handling_signal, trap_cx_backup, interrupted>>
          /\ pc[t] # "dead" /\ Signalling!Trap(t) /\ Signalling!Advance(t)
      BY <1>3 DEF Signalling!sys_sigaction, Signalling!InUser, Signalling!stateVars
    <2>2. Steady
      BY <2>1, AdvanceSteady, Zenon
    <2>3. signal_actions' \in [Sig -> Signalling!SignalAction]
      BY <1>0, <2>1, SignallingAssumption, Zenon DEF Signalling!SignalsAssumption
    <2>4. \E x \in Sig, y \in Action : signal_actions' = [signal_actions EXCEPT ![x] = y]
      BY <2>1, Zenon
    <2> QED BY <1>0, <2>1, <2>2, <2>3, <2>4, TrapTyped, Zenon DEF Effect, RestTyped
  <1>4. ASSUME NEW t \in Thread, NEW m \in Mask, Signalling!sys_sigprocmask(t, m) PROVE Effect
    <2>1. /\ signals' = signals
          /\ signal_mask' = m /\ signal_actions' = signal_actions
          /\ frozen' = frozen /\ killed' = killed /\ is_zombie' = is_zombie
          /\ UNCHANGED <<handling_signal, trap_cx_backup, interrupted>>
          /\ pc[t] # "dead" /\ Signalling!Trap(t) /\ Signalling!Advance(t)
      BY <1>4 DEF Signalling!sys_sigprocmask, Signalling!InUser, Signalling!stateVars
    <2>2. Steady
      BY <2>1, AdvanceSteady, Zenon
    <2>3. m \subseteq Sig
      BY SignallingAssumption, Zenon DEF Signalling!SignalsAssumption
    <2> QED BY <1>0, <2>1, <2>2, <2>3, TrapTyped, Zenon DEF Effect, RestTyped
  <1>5. ASSUME NEW t \in Thread, Signalling!sys_sigreturn(t) PROVE Effect
    <2>1. /\ signals' = signals
          /\ signal_mask' = signal_mask /\ signal_actions' = signal_actions
          /\ frozen' = frozen /\ killed' = killed /\ is_zombie' = is_zombie
          /\ pc[t] # "dead" /\ Signalling!Trap(t)
          /\ InHandler(t) /\ handling_signal' = -1 /\ trap_cx_backup' = trap_cx_backup
          /\ interrupted' = [interrupted EXCEPT ![t] = IF @ = <<>> THEN @ ELSE SubSeq(@, 1, Len(@) - 1)]
          /\ trap_cx' = [trap_cx EXCEPT ![t] = trap_cx_backup[t]]
      BY <1>5 DEF Signalling!sys_sigreturn, Signalling!InUser, Signalling!InHandler, InHandler,
                  Signalling!actionVars, Signalling!stateVars
    <2>2. LeavesHandler(t)
      BY <2>1, Zenon DEF LeavesHandler
    <2> QED BY <1>0, <2>1, <2>2, TrapTyped, Zenon DEF Effect, RestTyped
  <1>6. ASSUME NEW t \in Thread, Signalling!sys_exit(t) PROVE Effect
    <2>1. /\ signals' = signals /\ handling_signal' = handling_signal
          /\ signal_mask' = signal_mask /\ signal_actions' = signal_actions
          /\ frozen' = frozen /\ killed' = killed
          /\ Signalling!Exit(t, killed)
          /\ trap_cx' = trap_cx /\ trap_cx_backup' = trap_cx_backup /\ interrupted' = interrupted
      BY <1>6 DEF Signalling!sys_exit, Signalling!actionVars, Signalling!stateVars, Signalling!cxVars
    <2>2. Steady
      BY <1>0, <2>1, Zenon DEF Steady
    <2> QED BY <1>0, <2>1, <2>2, ExitTyped, Zenon DEF Effect, RestTyped
  <1>7. ASSUME NEW t \in Thread, Signalling!Tick(t) PROVE Effect
    <2>1. /\ signals' = signals
          /\ signal_mask' = signal_mask /\ signal_actions' = signal_actions
          /\ frozen' = frozen /\ killed' = killed /\ is_zombie' = is_zombie
          /\ UNCHANGED <<handling_signal, trap_cx_backup, interrupted>>
          /\ pc[t] # "dead" /\ pc' = [pc EXCEPT ![t] = "trap"] /\ kernel' = kernel
          /\ Signalling!Advance(t)
      BY <1>7 DEF Signalling!Tick, Signalling!InUser, Signalling!actionVars, Signalling!stateVars
    <2>2. Steady
      BY <2>1, AdvanceSteady, Zenon
    <2> QED BY <1>0, <2>1, <2>2, Zenon DEF Effect, RestTyped
  <1>8. ASSUME NEW t \in Thread,
               Signalling!HandleStopped(t) \/ Signalling!HandleError(t) \/ Signalling!HandleReturn(t)
        PROVE  Effect
    <2>1. /\ Signalling!check_pending_signals(t)
          /\ \/ kernel' = NoThread /\ pc' = pc /\ is_zombie' = is_zombie
             \/ Signalling!Exit(t, Signalling!Killed)
             \/ kernel' = NoThread /\ pc' = [pc EXCEPT ![t] = "user"] /\ is_zombie' = is_zombie
      BY <1>8 DEF Signalling!HandleStopped, Signalling!HandleError, Signalling!HandleReturn
    <2>2. Signalling!Killed \in BOOLEAN
      BY <1>0, Zenon DEF Signalling!Killed
    <2>3. /\ pc' \in [Thread -> {"user", "trap", "dead"}]
          /\ kernel' \in Thread \cup {NoThread} /\ is_zombie' \in BOOLEAN
          /\ \A u \in Thread : pc'[u] # "dead" => pc[u] # "dead"
      BY <1>0, <2>1, <2>2, ExitTyped, PassTyped, Zenon
    <2>4. RestTyped
      BY <2>1, <2>3, PassTyped, Zenon DEF RestTyped
    <2> QED BY <2>1, <2>4, PassTyped, Zenon DEF Effect
  <1>9. ASSUME UNCHANGED signalVars PROVE Effect
    <2>1. /\ signals' = signals /\ handling_signal' = handling_signal
          /\ signal_mask' = signal_mask /\ signal_actions' = signal_actions
          /\ frozen' = frozen /\ killed' = killed /\ is_zombie' = is_zombie
          /\ pc' = pc /\ kernel' = kernel
          /\ trap_cx' = trap_cx /\ trap_cx_backup' = trap_cx_backup /\ interrupted' = interrupted
      BY <1>9 DEF signalVars
    <2> QED BY <1>0, <2>1, Zenon DEF Effect, RestTyped, Steady
  <1> QED BY <1>1, <1>2, <1>3, <1>4, <1>5, <1>6, <1>7, <1>8, <1>9, Zenon DEF Signalling!Next

\* The initial states have the types.
LEMMA SignalTypeInit == Signalling!Init => SignalType
  <1>1. SUFFICES ASSUME Signalling!Init PROVE SignalType
    OBVIOUS
  <1>2. /\ InitAction \subseteq Signalling!SignalAction /\ Mask \subseteq SUBSET Sig
        /\ Progress \in Nat \ {0}
    BY SignallingAssumption, Zenon DEF Signalling!SignalsAssumption
  <1>3. signals = {} /\ handling_signal = -1 /\ signal_mask \in Mask \cup {{}}
    BY <1>1, Zenon DEF Signalling!Init
  <1>4. \E a \in InitAction : signal_actions = [s \in Sig |-> a]
    BY <1>1, Zenon DEF Signalling!Init
  <1>5. frozen = FALSE /\ killed = FALSE /\ is_zombie = FALSE /\ kernel = NoThread
    BY <1>1, Zenon DEF Signalling!Init
  <1>6. pc = [t \in Thread |-> "user"] /\ trap_cx_backup = [t \in Thread |-> Signalling!NoContext]
    BY <1>1, Zenon DEF Signalling!Init
  <1>7. trap_cx = [t \in Thread |-> [at |-> -1, step |-> 0]] /\ interrupted = [t \in Thread |-> <<>>]
    BY <1>1, Zenon DEF Signalling!Init
  <1>8. [at |-> -1, step |-> 0] \in Signalling!Context
    BY <1>2 DEF Signalling!Context
  <1>9. /\ trap_cx \in [Thread -> Signalling!Context]
        /\ interrupted \in [Thread -> Seq(Signalling!Context)]
    BY <1>7, <1>8
  <1>a. \A t \in Thread : ~InHandler(t)
    BY <1>7 DEF InHandler
  <1>b. trap_cx_backup \in [Thread -> Signalling!Context \cup {Signalling!NoContext}]
    BY <1>6, Zenon
  <1>c. signal_actions \in [Sig -> Signalling!SignalAction]
    BY <1>2, <1>4, Zenon
  <1>d. signals \subseteq Sig /\ signal_mask \subseteq Sig /\ pc \in [Thread -> {"user", "trap", "dead"}]
    BY <1>2, <1>3, <1>6, Zenon
  <1>e. \A t \in Thread : interrupted[t] \in Seq(Signalling!Context)
    BY <1>9, Zenon
  <1> QED BY <1>3, <1>5, <1>9, <1>a, <1>b, <1>c, <1>d, <1>e, Zenon DEF SignalType, Signalling!TypeOK

\* What entering and leaving a handler do to each thread.
LEMMA EntersEffect ==
  ASSUME SignalType, NEW t \in Thread, NEW s \in Sig, EntersHandler(t, s)
  PROVE  /\ trap_cx' \in [Thread -> Signalling!Context]
         /\ trap_cx_backup' \in [Thread -> Signalling!Context \cup {Signalling!NoContext}]
         /\ interrupted' \in [Thread -> Seq(Signalling!Context)]
         /\ trap_cx'[t].at = s /\ trap_cx_backup'[t] = trap_cx[t]
         /\ interrupted'[t] # <<>> /\ interrupted'[t][Len(interrupted'[t])] = trap_cx[t]
         /\ \A u \in Thread \ {t} : /\ trap_cx'[u] = trap_cx[u]
                                    /\ trap_cx_backup'[u] = trap_cx_backup[u]
                                    /\ interrupted'[u] = interrupted[u]
  <1>1. /\ trap_cx \in [Thread -> Signalling!Context]
        /\ trap_cx_backup \in [Thread -> Signalling!Context \cup {Signalling!NoContext}]
        /\ interrupted \in [Thread -> Seq(Signalling!Context)] /\ Progress \in Nat \ {0}
    BY SignallingAssumption, Zenon DEF SignalType, Signalling!TypeOK, Signalling!SignalsAssumption
  <1> DEFINE c == [at |-> s, step |-> 0]
  <1> DEFINE q == Append(interrupted[t], trap_cx[t])
  <1>2. c \in Signalling!Context /\ c.at = s
    BY <1>1 DEF Signalling!Context
  <1>3. interrupted[t] \in Seq(Signalling!Context) /\ trap_cx[t] \in Signalling!Context
    BY <1>1, Zenon
  <1>4. q \in Seq(Signalling!Context) /\ q # <<>> /\ q[Len(q)] = trap_cx[t]
    BY <1>3
  <1>5. /\ trap_cx_backup' = [trap_cx_backup EXCEPT ![t] = trap_cx[t]]
        /\ interrupted' = [interrupted EXCEPT ![t] = q]
        /\ trap_cx' = [trap_cx EXCEPT ![t] = c]
    BY DEF EntersHandler
  <1> HIDE DEF c, q
  <1>6. trap_cx' \in [Thread -> Signalling!Context] /\ trap_cx'[t].at = s
    BY <1>1, <1>2, <1>5, Zenon
  <1>7. /\ trap_cx_backup' \in [Thread -> Signalling!Context \cup {Signalling!NoContext}]
        /\ trap_cx_backup'[t] = trap_cx[t]
    BY <1>1, <1>3, <1>5, Zenon
  <1>8. /\ interrupted' \in [Thread -> Seq(Signalling!Context)]
        /\ interrupted'[t] # <<>> /\ interrupted'[t][Len(interrupted'[t])] = trap_cx[t]
    BY <1>1, <1>4, <1>5, Zenon
  <1>9. \A u \in Thread \ {t} : /\ trap_cx'[u] = trap_cx[u]
                                /\ trap_cx_backup'[u] = trap_cx_backup[u]
                                /\ interrupted'[u] = interrupted[u]
    BY <1>1, <1>5, Zenon
  <1> QED BY <1>6, <1>7, <1>8, <1>9, Zenon

\* sigreturn: the backup is the context again.
LEMMA LeavesEffect ==
  ASSUME SignalType, NEW t \in Thread, LeavesHandler(t)
  PROVE  /\ trap_cx' \in [Thread -> Signalling!Context]
         /\ interrupted' \in [Thread -> Seq(Signalling!Context)]
         /\ trap_cx'[t] = trap_cx_backup[t] /\ trap_cx_backup[t] \in Signalling!Context
         /\ \A u \in Thread \ {t} : trap_cx'[u] = trap_cx[u] /\ interrupted'[u] = interrupted[u]
  <1>1. /\ trap_cx \in [Thread -> Signalling!Context]
        /\ trap_cx_backup[t] \in Signalling!Context
        /\ interrupted \in [Thread -> Seq(Signalling!Context)]
    BY Zenon DEF SignalType, Signalling!TypeOK, LeavesHandler
  <1> DEFINE q == IF interrupted[t] = <<>> THEN interrupted[t] ELSE SubSeq(interrupted[t], 1, Len(interrupted[t]) - 1)
  <1>2. interrupted[t] \in Seq(Signalling!Context)
    BY <1>1, Zenon
  <1>3. q \in Seq(Signalling!Context)
    <2>1. CASE interrupted[t] = <<>>
      BY <1>2, <2>1, Zenon
    <2>2. CASE interrupted[t] # <<>>
      <3>1. Len(interrupted[t]) \in Nat \ {0}
        BY <1>2, <2>2
      <3>2. SubSeq(interrupted[t], 1, Len(interrupted[t]) - 1) \in Seq(Signalling!Context)
        BY <1>2, <3>1
      <3> QED BY <2>2, <3>2, Zenon
    <2> QED BY <2>1, <2>2, Zenon
  <1>4. /\ trap_cx' = [trap_cx EXCEPT ![t] = trap_cx_backup[t]]
        /\ interrupted' = [interrupted EXCEPT ![t] = q]
    BY DEF LeavesHandler
  <1> HIDE DEF q
  <1> QED BY <1>1, <1>3, <1>4, Zenon

\* The types are kept.
LEMMA SignalTypeStep ==
  ASSUME SignalType, Effect
  PROVE  SignalType'
  <1>1. SUFFICES /\ handling_signal' \in Sig \cup {-1}
                 /\ trap_cx' \in [Thread -> Signalling!Context]
                 /\ trap_cx_backup' \in [Thread -> Signalling!Context \cup {Signalling!NoContext}]
                 /\ interrupted' \in [Thread -> Seq(Signalling!Context)]
                 /\ \A t \in Thread : InHandler(t)' => trap_cx_backup'[t] \in Signalling!Context
    <2>1. RestTyped /\ (interrupted' \in [Thread -> Seq(Signalling!Context)]
                          => \A t \in Thread : interrupted'[t] \in Seq(Signalling!Context))
      BY Zenon DEF Effect
    <2> QED BY <2>1, Zenon DEF SignalType, Signalling!TypeOK, RestTyped
  <1>2. CASE Steady
    <2>1. \A t \in Thread : InHandler(t)' => InHandler(t)
      BY <1>2, Zenon DEF Steady, InHandler
    <2> QED BY <1>2, <2>1, Zenon DEF Steady, SignalType, Signalling!TypeOK
  <1>3. CASE \E t \in Thread : LeavesHandler(t)
    <2>1. PICK t \in Thread : LeavesHandler(t)
      BY <1>3, Zenon
    <2>2. handling_signal' = -1 /\ trap_cx_backup' = trap_cx_backup
      BY <2>1, Zenon DEF LeavesHandler
    <2>3. \A u \in Thread : u = t \/ (InHandler(u)' => InHandler(u))
      BY <2>1, LeavesEffect, Zenon DEF InHandler
    <2>4. \A u \in Thread : InHandler(u)' => trap_cx_backup'[u] \in Signalling!Context
      BY <2>1, <2>2, <2>3, LeavesEffect, Zenon DEF SignalType
    <2> QED BY <2>1, <2>2, <2>4, LeavesEffect, Zenon DEF SignalType, Signalling!TypeOK
  <1>4. CASE Signalling!Called /\ \E t \in Thread : EntersHandler(t, Signalling!Min(Signalling!UserSig))
    <2>1. PICK s \in Sig, t \in Thread : EntersHandler(t, s)
      BY <1>4, DeliverableTyped, Zenon
    <2>2. handling_signal' = s
      BY <2>1, Zenon DEF EntersHandler
    <2>3. \A u \in Thread \ {t} : /\ InHandler(u)' => InHandler(u)
                                  /\ trap_cx_backup'[u] = trap_cx_backup[u]
      BY <2>1, EntersEffect, Zenon DEF InHandler
    <2>4. trap_cx_backup'[t] \in Signalling!Context
      BY <2>1, EntersEffect, Zenon DEF SignalType, Signalling!TypeOK
    <2>5. \A u \in Thread : InHandler(u)' => trap_cx_backup'[u] \in Signalling!Context
      BY <2>3, <2>4, Zenon DEF SignalType
    <2> QED BY <2>1, <2>2, <2>5, EntersEffect, Zenon
  <1> QED BY <1>2, <1>3, <1>4, Zenon DEF Effect

\* While the handler of a runs no other user signal is delivered.
Excludes(a) == Sig \ Signalling!KernelSig \subseteq a.mask

\* An action with a handler excludes the other signals, and so does the one of
\* the signal that is being handled, even if a program has replaced it since.
ActionsExclude ==
  /\ \A s \in Sig : signal_actions[s].handler = 0 \/ Excludes(signal_actions[s])
  /\ handling_signal # -1 => Excludes(signal_actions[handling_signal])

\* HandlersReturn, with one fact more: a handler has interrupted the program
\* itself.  So sigreturn leaves no thread in a handler.
HandlerInv ==
  /\ ActionsExclude
  /\ \A t \in Thread :
       InHandler(t) => /\ interrupted[t] # <<>>
                       /\ trap_cx_backup[t] = interrupted[t][Len(interrupted[t])]
                       /\ trap_cx_backup[t].at = -1
  /\ \A t \in Thread : pc[t] # "dead" /\ InHandler(t) => handling_signal = trap_cx[t].at
  /\ \A t, u \in Thread :
       pc[t] # "dead" /\ pc[u] # "dead" /\ InHandler(t) /\ InHandler(u) => t = u

\* The invariant contains the property.
LEMMA HandlerInvImplies == HandlerInv => HandlersReturn
  BY Zenon DEF HandlerInv, HandlersReturn, Signalling!ReturnsToInterrupted,
     Signalling!OneHandlerAtATime, Signalling!InHandler, InHandler

\* No thread starts in a handler.
LEMMA HandlerInvInit == ExclusiveHandlers /\ Signalling!Init => HandlerInv
  <1>1. SUFFICES ASSUME ExclusiveHandlers, Signalling!Init PROVE HandlerInv
    OBVIOUS
  <1>2. PICK a \in InitAction : signal_actions = [s \in Sig |-> a]
    BY <1>1, Zenon DEF Signalling!Init
  <1>3. a.handler = 0 \/ Excludes(a)
    BY <1>1, Zenon DEF ExclusiveHandlers, Excludes
  <1>4. handling_signal = -1 /\ trap_cx = [t \in Thread |-> [at |-> -1, step |-> 0]]
    BY <1>1, Zenon DEF Signalling!Init
  <1>5. \A t \in Thread : ~InHandler(t)
    BY <1>4 DEF InHandler
  <1> QED BY <1>2, <1>3, <1>4, <1>5, Zenon DEF HandlerInv, ActionsExclude

\* While a handler runs, no signal but the kernel's is delivered.
LEMMA NoneWhileHandling ==
  ASSUME SignalType, ActionsExclude, Signalling!Called
  PROVE  handling_signal = -1
  <1>1. SUFFICES ASSUME handling_signal # -1 PROVE FALSE
    OBVIOUS
  <1>2. PICK s : s \in Signalling!UserSig
    BY Zenon DEF Signalling!Called
  <1>3. /\ s \in Sig \ Signalling!KernelSig
        /\ s \notin signal_actions[handling_signal].mask
    BY <1>1, <1>2, Zenon
    DEF Signalling!UserSig, Signalling!Deliverable, SignalType, Signalling!TypeOK
  <1> QED BY <1>1, <1>3, Zenon DEF ActionsExclude, Excludes

\* The actions keep excluding.
LEMMA ActionsStep ==
  ASSUME ExclusiveHandlers, SignalType, ActionsExclude, Effect
  PROVE  ActionsExclude'
  <1>0. signal_actions \in [Sig -> Signalling!SignalAction] /\ handling_signal \in Sig \cup {-1}
    BY Zenon DEF SignalType, Signalling!TypeOK
  <1>1. CASE signal_actions' = signal_actions /\ handling_signal' \in {handling_signal, -1}
    BY <1>1, Zenon DEF ActionsExclude, Excludes
  <1>2. CASE /\ handling_signal' = handling_signal
             /\ \E s \in Sig, a \in Action : signal_actions' = [signal_actions EXCEPT ![s] = a]
    <2>1. PICK s \in Sig, a \in Action : signal_actions' = [signal_actions EXCEPT ![s] = a]
      BY <1>2, Zenon
    <2>2. Excludes(a)
      BY Zenon DEF ExclusiveHandlers, Excludes
    <2>3. \A x \in Sig : signal_actions'[x] = signal_actions[x] \/ signal_actions'[x] = a
      BY <1>0, <2>1, Zenon
    <2>4. \A x \in Sig : signal_actions'[x].handler = 0 \/ Excludes(signal_actions'[x])
      BY <2>2, <2>3, Zenon DEF ActionsExclude
    <2>5. handling_signal # -1 => Excludes(signal_actions'[handling_signal])
      BY <1>0, <2>2, <2>3, Zenon DEF ActionsExclude
    <2> QED BY <1>2, <2>4, <2>5, Zenon DEF ActionsExclude, Excludes
  <1>3. CASE /\ Signalling!Called /\ signal_actions' = signal_actions
             /\ handling_signal' = Signalling!Min(Signalling!UserSig)
    <2>1. /\ Signalling!Min(Signalling!UserSig) \in Sig
          /\ signal_actions[Signalling!Min(Signalling!UserSig)].handler # 0
      BY <1>3, DeliverableTyped, Zenon DEF Signalling!Called
    <2> QED BY <1>3, <2>1, Zenon DEF ActionsExclude, Excludes
  <1> QED BY <1>1, <1>2, <1>3, Zenon DEF Effect, Steady, LeavesHandler, EntersHandler

\* Every step keeps the invariant.
LEMMA HandlerStep ==
  ASSUME ExclusiveHandlers, SignalType, HandlerInv, Effect
  PROVE  HandlerInv'
  <1>1. ActionsExclude'
    BY ActionsStep, Zenon DEF HandlerInv
  <1>2. \A u \in Thread : pc'[u] # "dead" => pc[u] # "dead"
    BY Zenon DEF Effect, RestTyped
  <1>3. CASE Steady
    <2>1. \A u \in Thread : InHandler(u)' <=> InHandler(u)
      BY <1>3, Zenon DEF Steady, InHandler
    <2> QED BY <1>1, <1>2, <1>3, <2>1, Zenon DEF Steady, HandlerInv
  <1>4. CASE \E t \in Thread : LeavesHandler(t)
    <2>1. PICK t \in Thread : LeavesHandler(t)
      BY <1>4, Zenon
    <2>2. trap_cx_backup' = trap_cx_backup /\ InHandler(t) /\ pc[t] # "dead"
      BY <2>1, Zenon DEF LeavesHandler
    <2>3. ~InHandler(t)'
      BY <2>1, <2>2, LeavesEffect, Zenon DEF HandlerInv, InHandler
    <2>4. \A u \in Thread \ {t} : /\ trap_cx'[u] = trap_cx[u] /\ interrupted'[u] = interrupted[u]
                                  /\ InHandler(u)' <=> InHandler(u)
      BY <2>1, LeavesEffect, Zenon DEF InHandler
    <2>5. \A u \in Thread \ {t} : pc[u] # "dead" => ~InHandler(u)
      BY <2>2, Zenon DEF HandlerInv
    <2>6. \A u \in Thread : pc'[u] # "dead" => ~InHandler(u)'
      BY <1>2, <2>3, <2>4, <2>5, Zenon
    <2>7. \A u \in Thread :
            InHandler(u)' => /\ interrupted'[u] # <<>>
                             /\ trap_cx_backup'[u] = interrupted'[u][Len(interrupted'[u])]
                             /\ trap_cx_backup'[u].at = -1
      BY <2>2, <2>3, <2>4, Zenon DEF HandlerInv
    <2> QED BY <1>1, <2>6, <2>7, Zenon DEF HandlerInv
  <1>5. CASE /\ Signalling!Called
             /\ \E t \in Thread : EntersHandler(t, Signalling!Min(Signalling!UserSig)) /\ pc[t] # "dead"
    <2>1. PICK s \in Sig, t \in Thread : EntersHandler(t, s) /\ pc[t] # "dead"
      BY <1>5, DeliverableTyped, Zenon
    <2>2. handling_signal = -1 /\ handling_signal' = s
      BY <1>5, <2>1, NoneWhileHandling, Zenon DEF HandlerInv, EntersHandler
    <2>3. \A u \in Thread : pc[u] # "dead" => ~InHandler(u)
      BY <2>2, Zenon DEF HandlerInv, InHandler
    <2>4. \A u \in Thread \ {t} : /\ interrupted'[u] = interrupted[u]
                                  /\ trap_cx_backup'[u] = trap_cx_backup[u]
                                  /\ InHandler(u)' <=> InHandler(u)
      BY <2>1, EntersEffect, Zenon DEF InHandler
    <2>5. \A u \in Thread \ {t} : pc'[u] # "dead" => ~InHandler(u)'
      BY <1>2, <2>3, <2>4, Zenon
    <2>6. /\ trap_cx'[t].at = s /\ trap_cx_backup'[t] = trap_cx[t] /\ interrupted'[t] # <<>>
          /\ interrupted'[t][Len(interrupted'[t])] = trap_cx[t] /\ trap_cx[t].at = -1
      BY <2>1, <2>3, EntersEffect, Zenon DEF InHandler
    <2>7. \A u \in Thread :
            InHandler(u)' => /\ interrupted'[u] # <<>>
                             /\ trap_cx_backup'[u] = interrupted'[u][Len(interrupted'[u])]
                             /\ trap_cx_backup'[u].at = -1
      BY <2>4, <2>6, Zenon DEF HandlerInv
    <2>8. \A u \in Thread : pc'[u] # "dead" /\ InHandler(u)' => handling_signal' = trap_cx'[u].at
      BY <2>2, <2>5, <2>6, Zenon
    <2>9. \A u, v \in Thread :
            pc'[u] # "dead" /\ pc'[v] # "dead" /\ InHandler(u)' /\ InHandler(v)' => u = v
      BY <2>5, Zenon
    <2> QED BY <1>1, <2>7, <2>8, <2>9, Zenon DEF HandlerInv
  <1> QED BY <1>3, <1>4, <1>5, Zenon DEF Effect

\* A step of MCProcesses, as the signals see it.
LEMMA SignalsMove == [MCNext]_<<part, vars, signalVars>> => [Signalling!Next]_signalVars
  <1>1. UNCHANGED <<part, signalVars>> => UNCHANGED signalVars
    OBVIOUS
  <1>2. UNCHANGED <<part, vars, signalVars>> => UNCHANGED signalVars
    OBVIOUS
  <1> QED BY <1>1, <1>2, Zenon DEF MCNext

\* The types of the signals of a process.
LEMMA SignalTypeTheorem == MCSpec => []SignalType
  <1>1. MCInit => SignalType
    BY SignalTypeInit, Zenon DEF MCInit
  <1>2. SignalType /\ [MCNext]_<<part, vars, signalVars>> => SignalType'
    BY SignalsMove, StepEffect, SignalTypeStep, Zenon
  <1> QED BY <1>1, <1>2, PTL DEF MCSpec

\* sys_sigreturn resumes what the handler interrupted, and at most one live
\* thread is in a handler, the one that handling_signal names: for every set of
\* signals and number of threads, when handlers keep the other signals out.
THEOREM HandlersTheorem == ExclusiveHandlers => (MCSpec => []HandlersReturn)
  <1>1. ExclusiveHandlers /\ MCInit => HandlerInv
    BY HandlerInvInit, Zenon DEF MCInit
  <1>2. ExclusiveHandlers /\ SignalType /\ HandlerInv /\ [MCNext]_<<part, vars, signalVars>>
          => HandlerInv'
    BY SignalsMove, StepEffect, HandlerStep, Zenon
  <1>3. HandlerInv => HandlersReturn
    BY HandlerInvImplies
  <1>4. ExclusiveHandlers => (MCSpec => []HandlersReturn)
    <2>1. SUFFICES ASSUME ExclusiveHandlers PROVE MCSpec => []HandlersReturn
      OBVIOUS
    <2>2. MCInit => HandlerInv
      BY <1>1, <2>1, Zenon
    <2>3. SignalType /\ HandlerInv /\ [MCNext]_<<part, vars, signalVars>> => HandlerInv'
      BY <1>2, <2>1, Zenon
    <2> QED BY <1>3, <2>2, <2>3, SignalTypeTheorem, PTL DEF MCSpec
  <1> QED BY <1>4

\* A stopped process runs no user code again before handle_signals has seen
\* SIGCONT, or a kill.
THEOREM StoppedTheorem == MCSpec => StoppedStays
  <1> DEFINE A == \A t \in Thread :
                    pc[t] = "trap" /\ pc'[t] = "user" /\ frozen /\ ~killed'
                      => Signalling!SIGCONT \in signals /\ Signalling!SIGCONT \notin signals'
  <1>1. SignalType /\ [MCNext]_<<part, vars, signalVars>> => [A]_Signalling!vars
    <2>1. SUFFICES ASSUME SignalType, [Signalling!Next]_signalVars, NEW t \in Thread,
                          pc[t] = "trap", pc'[t] = "user", frozen, ~killed'
                   PROVE  Signalling!SIGCONT \in signals /\ Signalling!SIGCONT \notin signals'
      BY SignalsMove, Zenon
    <2>2. pc \in [Thread -> {"user", "trap", "dead"}]
      BY <2>1, Zenon DEF SignalType, Signalling!TypeOK
    <2>3. Signalling!HandleReturn(t)
      <3>1. pc'[t] # pc[t]
        BY <2>1
      <3>2. ~UNCHANGED signalVars
        BY <3>1 DEF signalVars
      <3>3. \A u \in Thread : pc' # [pc EXCEPT ![u] = "trap"]
        BY <2>1, <2>2
      <3>4. \A u \in Thread : u # t => pc' # [pc EXCEPT ![u] = "user"]
        BY <2>2, <3>1, Zenon
      <3>5. \A u \in Thread, k \in BOOLEAN : ~Signalling!Exit(u, k)
        <4>1. SUFFICES ASSUME NEW u \in Thread, NEW k \in BOOLEAN, Signalling!Exit(u, k) PROVE FALSE
          BY Zenon
        <4>2. pc'[t] \in {"dead", pc[t]}
          BY <4>1, Zenon DEF Signalling!Exit
        <4> QED BY <2>1, <4>2
      <3>6. killed \in BOOLEAN /\ Signalling!Killed \in BOOLEAN
        BY <2>1, Zenon DEF SignalType, Signalling!TypeOK, Signalling!Killed
      <3>7. pc' # pc
        BY <3>1
      <3> QED BY <2>1, <3>2, <3>3, <3>4, <3>5, <3>6, <3>7, Zenon
        DEF Signalling!Next, Signalling!Kill, Signalling!AddSignal, Signalling!sys_sigaction,
            Signalling!sys_sigprocmask, Signalling!sys_sigreturn, Signalling!sys_exit,
            Signalling!Tick, Signalling!Trap, Signalling!HandleStopped, Signalling!HandleError,
            Signalling!HandleReturn
    <2>4. ~Signalling!Killed /\ ~Signalling!Frozen /\ signals' = Signalling!Left
      BY <2>1, <2>3, Zenon DEF Signalling!HandleReturn, Signalling!check_pending_signals
    <2>5. Signalling!SIGCONT \in Signalling!Seen
      BY <2>1, <2>4, Zenon DEF Signalling!Frozen
    <2>6. Signalling!SIGCONT \in signals
      BY <2>5, Zenon DEF Signalling!Seen, Signalling!Deliverable
    <2>7. Signalling!SIGCONT \notin signals'
      BY <2>4, <2>5, Zenon DEF Signalling!Left
    <2> QED BY <2>6, <2>7
  <1>2. StoppedStays <=> [][A]_Signalling!vars
    BY DEF StoppedStays, Signalling!StoppedStays
  <1> QED BY <1>1, <1>2, SignalTypeTheorem, PTL DEF MCSpec

-----------------------------------------------------------------------------
(* The types of the whole *)

\* Types: the states, tables, counts and contexts of processes, threads and
\* signals stay what their declarations in os/src/task say.
THEOREM ProcessesTypeTheorem == MCSpec => []ProcessesTypeOK
  <1>1. TreeInv => TypeOK
    <2>1. SUFFICES ASSUME TreeInv PROVE TypeOK
      OBVIOUS
    <2>2. \A p \in Pid :
            /\ pcb[p].state \in {"none", "alive", "zombie"} /\ pcb[p].killed \in BOOLEAN
            /\ pcb[p].parent \in Pid \cup {None}
            /\ pcb[p].children \in Seq(Pid) /\ pcb[p].tasks \in Seq(Task \cup {None})
            /\ pcb[p].tids \in Allocator
      BY <2>1, PcbFields, Zenon DEF TreeInv, TreeType
    <2> QED BY <2>1, <2>2, Zenon DEF TreeInv, TreeType, TypeOK, TCB
  <1>2. TreeInv /\ SignalType => ProcessesTypeOK
    BY <1>1, Zenon DEF ProcessesTypeOK, SignalType
  <1>3. MCInit => TreeInv
    BY TreeInit, Zenon DEF MCInit
  <1>4. TreeInv /\ [MCNext]_<<part, vars, signalVars>> => TreeInv'
    BY NextKeeps DEF MCNext, TreeKeeps
  <1> QED BY <1>2, <1>3, <1>4, SignalTypeTheorem, PTL DEF MCSpec
=============================================================================
