------------------------------ MODULE PlainMemory ------------------------------
(***************************************************************************)
(* The user programs that exclude threads from one another in plain        *)
(* memory: eisenberg, with any number of threads, and peterson, with two.  *)
(* They share nothing, and each runs whenever it likes.                    *)
(***************************************************************************)
EXTENDS Integers

CONSTANTS
  Threads,     \* THREAD_NUM of eisenberg
  Rounds,      \* N of both
  Tests        \* calls of critical_test_claim in a round

VARIABLES
  e_turn, e_flag, e_guard, e_pc, e_round, e_i, e_ring_id, e_conflict, e_next,
  p_turn, p_flag, p_guard, p_pc, p_round, p_tests

ring == <<e_turn, e_flag, e_guard, e_pc, e_round, e_i, e_ring_id, e_conflict, e_next>>
pair == <<p_turn, p_flag, p_guard, p_pc, p_round, p_tests>>

Ring == INSTANCE Eisenberg WITH
  THREAD_NUM <- Threads, N <- Rounds, TURN <- e_turn, FLAG <- e_flag, GUARD <- e_guard,
  pc <- e_pc, round <- e_round, i <- e_i, ring_id <- e_ring_id, conflict <- e_conflict,
  next <- e_next

Pair == INSTANCE Peterson WITH
  N <- Rounds, TURN <- p_turn, FLAG <- p_flag, GUARD <- p_guard, pc <- p_pc, round <- p_round,
  tests <- p_tests

ASSUME PlainMemoryAssumption == Ring!EisenbergAssumption /\ Pair!PetersonAssumption

PlainInit == Ring!Init /\ Pair!Init

PlainNext ==
  \/ Ring!Next /\ UNCHANGED pair
  \/ Pair!Next /\ UNCHANGED ring

PlainSpec == PlainInit /\ [][PlainNext]_<<ring, pair>>

-----------------------------------------------------------------------------
(* Properties *)

\* No two threads of eisenberg.rs are between the end of
\* eisenberg_enter_critical and the last store of eisenberg_exit_critical.
EisenbergExclusion == Ring!EisenbergExclusion

\* The assertions of critical_test_enter, _claim and _exit of eisenberg.rs and
\* peterson.rs hold.
GuardHolds == Ring!EisenbergNoPanic /\ Pair!PetersonNoPanic
====
