------------------------------- MODULE Eisenberg -------------------------------
(***************************************************************************)
(* user/src/bin/eisenberg.rs: threads that exclude one another by the      *)
(* algorithm of Eisenberg and McGuire, in plain memory, and test that they *)
(* do.                                                                     *)
(*                                                                         *)
(* A step is one vload!, one vstore! or one access to GUARD: the timer may *)
(* interrupt a thread between any two.  pc is where a thread is:           *)
(*   "want"    before it sets its flag to Want                             *)
(*   "turn", "scan"  looks for a thread with a higher priority             *)
(*   "check"   has set its flag to In and looks for a conflict             *)
(*   "enter", "test"  past eisenberg_enter_critical                        *)
(*   "pass", "leave"  in eisenberg_exit_critical                           *)
(*   "done", "panicked"                                                    *)
(***************************************************************************)
EXTENDS Integers

CONSTANTS THREAD_NUM,
          N,         \* rounds of a thread
          Tests      \* calls of critical_test_claim in a round

EisenbergAssumption == THREAD_NUM \in Nat \ {0} /\ N \in Nat \ {0} /\ Tests \in Nat

Thread == 0..(THREAD_NUM - 1)

VARIABLES
  TURN, FLAG, GUARD,
  pc,
  round,             \* rounds finished
  i,                 \* the variable of the loop a thread is in
  ring_id, conflict, next      \* locals, as they start where they are not in use

locals == <<ring_id, conflict, next>>
vars == <<TURN, FLAG, GUARD, pc, round, i, locals>>

Init ==
  /\ TURN = 0 /\ FLAG = [t \in Thread |-> "Out"] /\ GUARD = 0
  /\ pc = [t \in Thread |-> "want"] /\ round = [t \in Thread |-> 0]
  /\ i = [t \in Thread |-> 0] /\ ring_id = [t \in Thread |-> 0]
  /\ conflict = [t \in Thread |-> FALSE] /\ next = [t \in Thread |-> t]

Goto(t, place) == pc' = [pc EXCEPT ![t] = place]
Count(t, n) == i' = [i EXCEPT ![t] = n]

-----------------------------------------------------------------------------
(* eisenberg_enter_critical *)

\* The start of the outer loop, also after a conflict.
Announce(t) ==
  /\ pc[t] = "want" \/ (pc[t] = "check" /\ i[t] = THREAD_NUM /\ conflict[t])
  /\ FLAG' = [FLAG EXCEPT ![t] = "Want"]
  /\ Goto(t, "turn") /\ Count(t, 0)
  /\ conflict' = [conflict EXCEPT ![t] = FALSE]
  /\ UNCHANGED <<TURN, GUARD, round, ring_id, next>>

LoadTurn(t) ==
  /\ pc[t] = "turn"
  /\ Count(t, TURN)
  /\ ring_id' = [ring_id EXCEPT ![t] = IF t < TURN THEN t + THREAD_NUM ELSE t]
  /\ Goto(t, "scan")
  /\ UNCHANGED <<TURN, FLAG, GUARD, round, conflict, next>>

\* One turn of the loop over the threads with a higher priority; where there is
\* one the thread sleeps and loads TURN again.
Scan(t) ==
  /\ pc[t] = "scan" /\ i[t] < ring_id[t]
  /\ IF FLAG[i[t] % THREAD_NUM] # "Out"
       THEN Goto(t, "turn") /\ Count(t, 0) /\ ring_id' = [ring_id EXCEPT ![t] = 0]
       ELSE Count(t, i[t] + 1) /\ UNCHANGED <<pc, ring_id>>
  /\ UNCHANGED <<TURN, FLAG, GUARD, round, conflict, next>>

\* A mutant: the flag stays at Want.
ClaimWants(t) ==
  /\ pc[t] = "scan" /\ i[t] = ring_id[t]
  /\ Count(t, 0) /\ ring_id' = [ring_id EXCEPT ![t] = 0]
  /\ Goto(t, "check")
  /\ UNCHANGED <<TURN, FLAG, GUARD, round, conflict, next>>

Claim(t) ==
  /\ pc[t] = "scan" /\ i[t] = ring_id[t]
  /\ FLAG' = [FLAG EXCEPT ![t] = "In"]
  /\ Count(t, 0) /\ ring_id' = [ring_id EXCEPT ![t] = 0]
  /\ Goto(t, "check")
  /\ UNCHANGED <<TURN, GUARD, round, conflict, next>>

Check(t) ==
  /\ pc[t] = "check" /\ i[t] < THREAD_NUM
  /\ conflict' = [conflict EXCEPT ![t] = @ \/ (i[t] # t /\ FLAG[i[t]] = "In")]
  /\ Count(t, i[t] + 1)
  /\ UNCHANGED <<TURN, FLAG, GUARD, pc, round, ring_id, next>>

TakeTurn(t) ==
  /\ pc[t] = "check" /\ i[t] = THREAD_NUM /\ ~conflict[t]
  /\ TURN' = t
  /\ Goto(t, "enter") /\ Count(t, 0)
  /\ UNCHANGED <<FLAG, GUARD, round, locals>>

-----------------------------------------------------------------------------
(* The critical section: an assertion that fails ends the thread *)

critical_test_enter(t) ==
  /\ pc[t] = "enter"
  /\ GUARD' = GUARD + 1
  /\ Goto(t, IF GUARD = 0 THEN "test" ELSE "panicked")
  /\ UNCHANGED <<TURN, FLAG, round, i, locals>>

critical_test_claim(t) ==
  /\ pc[t] = "test" /\ i[t] < Tests
  /\ IF GUARD = 1 THEN Count(t, i[t] + 1) /\ UNCHANGED pc
                  ELSE Goto(t, "panicked") /\ UNCHANGED i
  /\ UNCHANGED <<TURN, FLAG, GUARD, round, locals>>

\* With the start of the loop of eisenberg_exit_critical.
critical_test_exit(t) ==
  /\ pc[t] = "test" /\ i[t] = Tests
  /\ GUARD' = GUARD - 1
  /\ Goto(t, IF GUARD = 1 THEN "pass" ELSE "panicked")
  /\ Count(t, t + 1)
  /\ UNCHANGED <<TURN, FLAG, round, locals>>

-----------------------------------------------------------------------------
(* eisenberg_exit_critical *)

\* One turn of the loop that looks for the next one who wants to enter.
FindNext(t) ==
  LET idx == i[t] % THREAD_NUM
  IN /\ pc[t] = "pass" /\ next[t] = t /\ i[t] < t + THREAD_NUM
     /\ IF FLAG[idx] = "Want" THEN next' = [next EXCEPT ![t] = idx] /\ UNCHANGED i
                              ELSE Count(t, i[t] + 1) /\ UNCHANGED next
     /\ UNCHANGED <<TURN, FLAG, GUARD, pc, round, ring_id, conflict>>

PassTurn(t) ==
  /\ pc[t] = "pass" /\ (next[t] # t \/ i[t] = t + THREAD_NUM)
  /\ TURN' = next[t]
  /\ Goto(t, "leave") /\ Count(t, 0)
  /\ next' = [next EXCEPT ![t] = t]
  /\ UNCHANGED <<FLAG, GUARD, round, ring_id, conflict>>

\* The end of a round of thread_fn.
Leave(t) ==
  /\ pc[t] = "leave"
  /\ FLAG' = [FLAG EXCEPT ![t] = "Out"]
  /\ round' = [round EXCEPT ![t] = @ + 1]
  /\ Goto(t, IF round[t] + 1 = N THEN "done" ELSE "want")
  /\ UNCHANGED <<TURN, GUARD, i, locals>>

thread_fn(t) ==
  \/ Announce(t) \/ LoadTurn(t) \/ Scan(t) \/ Claim(t) \/ Check(t) \/ TakeTurn(t)
  \/ critical_test_enter(t) \/ critical_test_claim(t) \/ critical_test_exit(t)
  \/ FindNext(t) \/ PassTurn(t) \/ Leave(t)

Next == \E t \in Thread : thread_fn(t)

Spec == Init /\ [][Next]_vars

-----------------------------------------------------------------------------
(* Properties *)

TypeOK ==
  /\ TURN \in Thread /\ GUARD \in Int
  /\ FLAG \in [Thread -> {"Out", "Want", "In"}]
  /\ pc \in [Thread -> {"want", "turn", "scan", "check", "enter", "test", "pass", "leave",
                        "done", "panicked"}]
  /\ round \in [Thread -> 0..N]
  /\ i \in [Thread -> Nat] /\ ring_id \in [Thread -> Nat]
  /\ conflict \in [Thread -> BOOLEAN] /\ next \in [Thread -> Thread]

\* The thread is past eisenberg_enter_critical and its flag is still up.
Critical(t) == pc[t] \in {"enter", "test", "pass", "leave"}

\* No two threads are in the critical section, from the end of
\* eisenberg_enter_critical to the last store of eisenberg_exit_critical.
EisenbergExclusion == \A t, u \in Thread : Critical(t) /\ Critical(u) => t = u

\* The assertions of critical_test_enter, _claim and _exit hold: the exit code
\* of every thread that main waits for is 0.
EisenbergNoPanic == \A t \in Thread : pc[t] # "panicked"

\* The threads have gone through their rounds, for good.
Finished == \A t \in Thread : pc[t] = "done"
====
