------------------------------- MODULE Peterson -------------------------------
(***************************************************************************)
(* user/src/bin/peterson.rs: two threads that exclude each other by        *)
(* Peterson's algorithm, in plain memory, and test that they do.           *)
(*                                                                         *)
(* A step is one vload!, one vstore! or one access to GUARD.  pc is where  *)
(* a thread is:                                                            *)
(*   "flag", "turn", "peer", "wait"  in peterson_enter_critical            *)
(*   "enter", "test"  past it                                              *)
(*   "leave"   in peterson_exit_critical                                   *)
(*   "done", "panicked"                                                    *)
(***************************************************************************)
EXTENDS Integers

CONSTANTS N,         \* rounds of a thread
          Tests      \* calls of critical_test_claim in a round

PetersonAssumption == N \in Nat \ {0} /\ Tests \in Nat

Thread == {0, 1}
peer_id(t) == 1 - t

VARIABLES
  TURN, FLAG, GUARD,
  pc,
  round,             \* rounds finished
  tests              \* calls of critical_test_claim in this round

vars == <<TURN, FLAG, GUARD, pc, round, tests>>

Init ==
  /\ TURN = 0 /\ FLAG = [t \in Thread |-> FALSE] /\ GUARD = 0
  /\ pc = [t \in Thread |-> "flag"] /\ round = [t \in Thread |-> 0]
  /\ tests = [t \in Thread |-> 0]

Goto(t, place) == pc' = [pc EXCEPT ![t] = place]

RaiseFlag(t) ==
  /\ pc[t] = "flag"
  /\ FLAG' = [FLAG EXCEPT ![t] = TRUE]
  /\ Goto(t, "turn")
  /\ UNCHANGED <<TURN, GUARD, round, tests>>

\* A mutant: the thread gives itself the turn.
GiveTurnToSelf(t) ==
  /\ pc[t] = "turn"
  /\ TURN' = t
  /\ Goto(t, "peer")
  /\ UNCHANGED <<FLAG, GUARD, round, tests>>

GiveTurn(t) ==
  /\ pc[t] = "turn"
  /\ TURN' = peer_id(t)
  /\ Goto(t, "peer")
  /\ UNCHANGED <<FLAG, GUARD, round, tests>>

\* The two loads of the condition of the while loop; where it holds the thread
\* sleeps and tries again.
LoadPeer(t) ==
  /\ pc[t] = "peer"
  /\ Goto(t, IF FLAG[peer_id(t)] THEN "wait" ELSE "enter")
  /\ UNCHANGED <<TURN, FLAG, GUARD, round, tests>>

LoadTurn(t) ==
  /\ pc[t] = "wait"
  /\ Goto(t, IF TURN = peer_id(t) THEN "peer" ELSE "enter")
  /\ UNCHANGED <<TURN, FLAG, GUARD, round, tests>>

critical_test_enter(t) ==
  /\ pc[t] = "enter"
  /\ GUARD' = GUARD + 1
  /\ Goto(t, IF GUARD = 0 THEN "test" ELSE "panicked")
  /\ UNCHANGED <<TURN, FLAG, round, tests>>

critical_test_claim(t) ==
  /\ pc[t] = "test" /\ tests[t] < Tests
  /\ IF GUARD = 1 THEN tests' = [tests EXCEPT ![t] = @ + 1] /\ UNCHANGED pc
                  ELSE Goto(t, "panicked") /\ UNCHANGED tests
  /\ UNCHANGED <<TURN, FLAG, GUARD, round>>

critical_test_exit(t) ==
  /\ pc[t] = "test" /\ tests[t] = Tests
  /\ GUARD' = GUARD - 1
  /\ Goto(t, IF GUARD = 1 THEN "leave" ELSE "panicked")
  /\ tests' = [tests EXCEPT ![t] = 0]
  /\ UNCHANGED <<TURN, FLAG, round>>

NextRound(t) ==
  /\ round' = [round EXCEPT ![t] = @ + 1]
  /\ Goto(t, IF round[t] + 1 = N THEN "done" ELSE "flag")

\* peterson_exit_critical, and the end of a round of thread_fn.
LowerFlag(t) ==
  /\ pc[t] = "leave"
  /\ FLAG' = [FLAG EXCEPT ![t] = FALSE]
  /\ NextRound(t)
  /\ UNCHANGED <<TURN, GUARD, tests>>

thread_fn(t) ==
  \/ RaiseFlag(t) \/ GiveTurn(t) \/ LoadPeer(t) \/ LoadTurn(t)
  \/ critical_test_enter(t) \/ critical_test_claim(t) \/ critical_test_exit(t)
  \/ LowerFlag(t)

Next == \E t \in Thread : thread_fn(t)

Spec == Init /\ [][Next]_vars

-----------------------------------------------------------------------------
(* Properties *)

TypeOK ==
  /\ TURN \in Thread /\ GUARD \in Int /\ FLAG \in [Thread -> BOOLEAN]
  /\ pc \in [Thread -> {"flag", "turn", "peer", "wait", "enter", "test", "leave", "done",
                        "panicked"}]
  /\ round \in [Thread -> 0..N] /\ tests \in [Thread -> 0..Tests]

\* The assertions of critical_test_enter, _claim and _exit hold: the exit code
\* of both threads that main waits for is 0.
PetersonNoPanic == \A t \in Thread : pc[t] # "panicked"

\* The threads have gone through their rounds, for good.
Finished == \A t \in Thread : pc[t] = "done"
====
