--------------------------- MODULE PlainMemoryProofs ---------------------------
(***************************************************************************)
(* Mutual exclusion in eisenberg.rs, and that the assertions of            *)
(* eisenberg.rs and peterson.rs hold, for any number of threads, rounds    *)
(* and tests.                                                              *)
(***************************************************************************)
EXTENDS PlainMemory, TLAPS

-----------------------------------------------------------------------------
(* eisenberg.rs *)

\* Where a thread is, and the types of the variables.
RingPlace == {"want", "turn", "scan", "check", "enter", "test", "pass", "leave", "done",
  "panicked"}

RingType ==
  /\ e_turn \in Ring!Thread /\ e_guard \in Int
  /\ e_flag \in [Ring!Thread -> {"Out", "Want", "In"}]
  /\ e_pc \in [Ring!Thread -> RingPlace]
  /\ e_i \in [Ring!Thread -> Nat] /\ e_ring_id \in [Ring!Thread -> Nat]
  /\ e_conflict \in [Ring!Thread -> BOOLEAN] /\ e_next \in [Ring!Thread -> Ring!Thread]

\* From its claim to its last store a thread has its flag at In.
RingFlags == \A t \in Ring!Thread : e_pc[t] = "check" \/ Ring!Critical(t) => e_flag[t] = "In"

\* t has looked at the flag of u since its claim, and found no conflict.
RingPassed(t,
  u) == Ring!Critical(t) \/ (e_pc[t] = "check" /\ e_conflict[t] = FALSE /\ u < e_i[t])

\* Of two threads the one that looks last sees the other's claim.
RingApart == \A t, u \in Ring!Thread : t # u => ~(RingPassed(t, u) /\ RingPassed(u, t))

\* GUARD counts the threads that test.
RingGuard ==
  /\ \A t \in Ring!Thread : e_pc[t] = "test" => e_guard = 1
  /\ (\A t \in Ring!Thread : e_pc[t] # "test") => e_guard = 0

\* The inductive invariant.
RingInv == RingType /\ RingFlags /\ RingApart /\ RingGuard /\ Ring!EisenbergNoPanic

\* The threads are numbers below THREAD_NUM.
LEMMA RingThreads ==
  ASSUME Ring!EisenbergAssumption
  PROVE  /\ Threads \in Nat \ {0} /\ 0 \in Ring!Thread
         /\ \A t \in Ring!Thread : t \in Nat /\ t < Threads
         /\ \A n \in Nat : n < Threads => n \in Ring!Thread
         /\ \A n \in Nat : n % Threads \in Ring!Thread
BY DEF Ring!EisenbergAssumption, Ring!Thread

\* Exclusion follows from the invariant.
LEMMA RingExcludes == RingInv => Ring!EisenbergExclusion
BY DEF RingInv, RingApart, RingPassed, Ring!EisenbergExclusion

\* The invariant holds at the start.
LEMMA RingInit ==
  ASSUME Ring!EisenbergAssumption, Ring!Init
  PROVE  RingInv
BY RingThreads DEF Ring!Init, RingInv, RingType, RingFlags, RingApart, RingPassed, RingGuard,
  Ring!EisenbergNoPanic,
               Ring!Critical, RingPlace

\* Every step of a thread keeps the invariant.
LEMMA RingStep ==
  ASSUME Ring!EisenbergAssumption, NEW t \in Ring!Thread, RingInv, Ring!thread_fn(t)
  PROVE  RingInv'
<1> USE DEF Ring!Goto, Ring!Count
<1>0. /\ Threads \in Nat \ {0} /\ 0 \in Ring!Thread
      /\ \A u \in Ring!Thread : u \in Nat /\ u < Threads
      /\ \A n \in Nat : n < Threads => n \in Ring!Thread
      /\ \A n \in Nat : n % Threads \in Ring!Thread
  BY RingThreads
<1>t. RingType
  BY DEF RingInv
<1>f. RingFlags
  BY DEF RingInv
<1>p. RingApart
  BY DEF RingInv
<1>g. RingGuard /\ Ring!EisenbergNoPanic
  BY DEF RingInv
<1>e. Ring!EisenbergExclusion
  BY RingExcludes
<1>1. CASE Ring!Announce(t)
  <2>1. RingType'
    BY <1>0, <1>t, <1>1 DEF RingType, RingPlace, Ring!Announce
  <2>2. RingFlags'
    BY <1>0, <1>t, <1>f, <1>1 DEF RingType, RingFlags, Ring!Critical, Ring!Announce
  <2>3. RingApart'
    <3>1. \A u \in Ring!Thread : ~RingPassed(t, u)'
      BY <1>0, <1>t, <1>1 DEF RingType, RingPassed, Ring!Critical, Ring!Announce
    <3>2. \A u, v \in Ring!Thread : u # t /\ RingPassed(u, v)' => RingPassed(u, v)
      BY <1>t, <1>1 DEF RingType, RingPassed, Ring!Critical, Ring!Announce
    <3> QED
      BY <3>1, <3>2, <1>p DEF RingApart
  <2>4. RingGuard' /\ Ring!EisenbergNoPanic'
    BY <1>0, <1>t, <1>g, <1>1 DEF RingType, RingGuard, Ring!EisenbergNoPanic, Ring!Announce
  <2> QED
    BY <2>1, <2>2, <2>3, <2>4 DEF RingInv
<1>2. CASE Ring!LoadTurn(t)
  <2>1. RingType'
    <3>1. e_turn \in Nat /\ t \in Nat /\ t + Threads \in Nat
      BY <1>0, <1>t DEF RingType
    <3> QED
      BY <3>1, <1>t, <1>2 DEF RingType, RingPlace, Ring!LoadTurn
  <2>2. RingFlags'
    BY <1>0, <1>t, <1>f, <1>2 DEF RingType, RingFlags, Ring!Critical, Ring!LoadTurn
  <2>3. RingApart'
    <3>1. \A u \in Ring!Thread : ~RingPassed(t, u)'
      BY <1>0, <1>t, <1>2 DEF RingType, RingPassed, Ring!Critical, Ring!LoadTurn
    <3>2. \A u, v \in Ring!Thread : u # t /\ RingPassed(u, v)' => RingPassed(u, v)
      BY <1>t, <1>2 DEF RingType, RingPassed, Ring!Critical, Ring!LoadTurn
    <3> QED
      BY <3>1, <3>2, <1>p DEF RingApart
  <2>4. RingGuard' /\ Ring!EisenbergNoPanic'
    BY <1>0, <1>t, <1>g, <1>2 DEF RingType, RingGuard, Ring!EisenbergNoPanic, Ring!LoadTurn
  <2> QED
    BY <2>1, <2>2, <2>3, <2>4 DEF RingInv
<1>3. CASE Ring!Scan(t)
  <2>1. RingType'
    <3>1. e_i[t] + 1 \in Nat
      BY <1>t DEF RingType
    <3>2. CASE e_flag[e_i[t] % Threads] # "Out"
      BY <3>2, <1>t, <1>3 DEF RingType, RingPlace, Ring!Scan
    <3>3. CASE e_flag[e_i[t] % Threads] = "Out"
      BY <3>1, <3>3, <1>t, <1>3 DEF RingType, RingPlace, Ring!Scan
    <3> QED
      BY <3>2, <3>3
  <2>2. RingFlags'
    BY <1>0, <1>t, <1>f, <1>3 DEF RingType, RingFlags, Ring!Critical, Ring!Scan
  <2>3. RingApart'
    <3>1. \A u \in Ring!Thread : ~RingPassed(t, u)'
      BY <1>0, <1>t, <1>3 DEF RingType, RingPassed, Ring!Critical, Ring!Scan
    <3>2. \A u, v \in Ring!Thread : u # t /\ RingPassed(u, v)' => RingPassed(u, v)
      BY <1>t, <1>3 DEF RingType, RingPassed, Ring!Critical, Ring!Scan
    <3> QED
      BY <3>1, <3>2, <1>p DEF RingApart
  <2>4. RingGuard' /\ Ring!EisenbergNoPanic'
    BY <1>0, <1>t, <1>g, <1>3 DEF RingType, RingGuard, Ring!EisenbergNoPanic, Ring!Scan
  <2> QED
    BY <2>1, <2>2, <2>3, <2>4 DEF RingInv
<1>4. CASE Ring!Claim(t)
  <2>1. RingType'
    BY <1>0, <1>t, <1>4 DEF RingType, RingPlace, Ring!Claim
  <2>2. RingFlags'
    BY <1>0, <1>t, <1>f, <1>4 DEF RingType, RingFlags, Ring!Critical, Ring!Claim
  <2>3. RingApart'
    <3>1. \A u \in Ring!Thread : ~RingPassed(t, u)'
      BY <1>0, <1>t, <1>4 DEF RingType, RingPassed, Ring!Critical, Ring!Claim
    <3>2. \A u, v \in Ring!Thread : u # t /\ RingPassed(u, v)' => RingPassed(u, v)
      BY <1>t, <1>4 DEF RingType, RingPassed, Ring!Critical, Ring!Claim
    <3> QED
      BY <3>1, <3>2, <1>p DEF RingApart
  <2>4. RingGuard' /\ Ring!EisenbergNoPanic'
    BY <1>0, <1>t, <1>g, <1>4 DEF RingType, RingGuard, Ring!EisenbergNoPanic, Ring!Claim
  <2> QED
    BY <2>1, <2>2, <2>3, <2>4 DEF RingInv
<1>5. CASE Ring!Check(t)
  <2>1. RingType'
    <3>1. e_i[t] + 1 \in Nat
      BY <1>t DEF RingType
    <3>2. (e_conflict[t] \/ (e_i[t] # t /\ e_flag[e_i[t]] = "In")) \in BOOLEAN
      OBVIOUS
    <3>3. e_conflict' \in [Ring!Thread -> BOOLEAN]
      BY <3>2, <1>t, <1>5, Zenon DEF RingType, Ring!Check
    <3> QED
      BY <3>1, <3>3, <1>t, <1>5 DEF RingType, RingPlace, Ring!Check
  <2>2. RingFlags'
    BY <1>0, <1>t, <1>f, <1>5 DEF RingType, RingFlags, Ring!Critical, Ring!Check
  <2>3. RingApart'
    <3>1. \A u \in Ring!Thread \ {t} : RingPassed(t, u)' => RingPassed(t, u) \/ e_flag[u] # "In"
      <4> SUFFICES ASSUME NEW u \in Ring!Thread \ {t}, RingPassed(t, u)', e_flag[u] = "In"
                   PROVE  RingPassed(t, u)
        OBVIOUS
      <4>1. e_pc[t] = "check" /\ e_pc'[t] = "check" /\ e_i'[t] = e_i[t] + 1 /\ e_i[t] \in Nat
        BY <1>t, <1>5 DEF RingType, Ring!Check
      <4>2. e_conflict'[t] = (e_conflict[t] \/ (e_i[t] # t /\ e_flag[e_i[t]] = "In"))
        BY <1>t, <1>5, Zenon DEF RingType, Ring!Check
      <4>3. e_conflict'[t] = FALSE /\ u < e_i[t] + 1
        BY <4>1 DEF RingPassed, Ring!Critical
      <4>4. e_conflict[t] \in BOOLEAN
        BY <1>t, Zenon DEF RingType
      <4>5. e_conflict[t] = FALSE /\ ~(e_i[t] # t /\ e_flag[e_i[t]] = "In")
        BY <4>2, <4>3, <4>4, Zenon
      <4>6. u # e_i[t]
        BY <4>5, Zenon
      <4>7. u < e_i[t]
        <5>1. u \in Nat
          BY <1>0
        <5>2. u < e_i[t] + 1
          BY <4>3
        <5> QED
          BY <5>1, <5>2, <4>1, <4>6
      <4> QED
        BY <4>1, <4>5, <4>7, Zenon DEF RingPassed
    <3>2. \A u, v \in Ring!Thread : u # t /\ RingPassed(u, v)' => RingPassed(u, v)
      BY <1>t, <1>5 DEF RingType, RingPassed, Ring!Critical, Ring!Check
    <3>3. \A u \in Ring!Thread : e_flag[u] # "In" => ~RingPassed(u, t)
      BY <1>f DEF RingFlags, RingPassed
    <3> QED
      BY <3>1, <3>2, <3>3, <1>p DEF RingApart
  <2>4. RingGuard' /\ Ring!EisenbergNoPanic'
    BY <1>0, <1>t, <1>g, <1>5 DEF RingType, RingGuard, Ring!EisenbergNoPanic, Ring!Check
  <2> QED
    BY <2>1, <2>2, <2>3, <2>4 DEF RingInv
<1>6. CASE Ring!TakeTurn(t)
  <2>1. RingType'
    BY <1>0, <1>t, <1>6 DEF RingType, RingPlace, Ring!TakeTurn, Ring!locals
  <2>2. RingFlags'
    BY <1>0, <1>t, <1>f, <1>6 DEF RingType, RingFlags, Ring!Critical, Ring!TakeTurn, Ring!locals
  <2>3. RingApart'
    BY <1>0, <1>t, <1>f, <1>p, <1>6, ZenonT(30) DEF RingType, RingFlags, RingApart, RingPassed,
      Ring!Critical, Ring!TakeTurn, Ring!locals
  <2>4. RingGuard' /\ Ring!EisenbergNoPanic'
    BY <1>0, <1>t, <1>g, <1>6 DEF RingType, RingGuard, Ring!EisenbergNoPanic, Ring!TakeTurn,
      Ring!locals
  <2> QED
    BY <2>1, <2>2, <2>3, <2>4 DEF RingInv
<1>7. CASE Ring!critical_test_enter(t)
  <2>1. RingType'
    BY <1>0, <1>t, <1>7 DEF RingType, RingPlace, Ring!critical_test_enter, Ring!locals
  <2>2. RingFlags'
    BY <1>0, <1>t, <1>f, <1>7 DEF RingType, RingFlags, Ring!Critical, Ring!critical_test_enter,
      Ring!locals
  <2>3. RingApart'
    BY <1>0, <1>t, <1>f, <1>p, <1>7, ZenonT(30) DEF RingType, RingFlags, RingApart, RingPassed,
      Ring!Critical, Ring!critical_test_enter, Ring!locals
  <2>4. RingGuard' /\ Ring!EisenbergNoPanic'
    BY <1>0, <1>t, <1>g, <1>e, <1>7 DEF RingType, RingGuard, Ring!EisenbergNoPanic,
      Ring!critical_test_enter, Ring!locals, Ring!EisenbergExclusion, Ring!Critical
  <2> QED
    BY <2>1, <2>2, <2>3, <2>4 DEF RingInv
<1>8. CASE Ring!critical_test_claim(t)
  <2>1. RingType'
    <3>1. e_i[t] + 1 \in Nat
      BY <1>t DEF RingType
    <3>2. CASE e_guard = 1
      BY <3>1, <3>2, <1>t, <1>8 DEF RingType, RingPlace, Ring!critical_test_claim, Ring!locals
    <3>3. CASE e_guard # 1
      BY <3>3, <1>t, <1>8 DEF RingType, RingPlace, Ring!critical_test_claim, Ring!locals
    <3> QED
      BY <3>2, <3>3
  <2>2. RingFlags'
    BY <1>0, <1>t, <1>f, <1>8 DEF RingType, RingFlags, Ring!Critical, Ring!critical_test_claim,
      Ring!locals
  <2>3. RingApart'
    BY <1>0, <1>t, <1>f, <1>p, <1>8, ZenonT(30) DEF RingType, RingFlags, RingApart, RingPassed,
      Ring!Critical, Ring!critical_test_claim, Ring!locals
  <2>4. RingGuard' /\ Ring!EisenbergNoPanic'
    BY <1>0, <1>t, <1>g, <1>8 DEF RingType, RingGuard, Ring!EisenbergNoPanic,
      Ring!critical_test_claim, Ring!locals
  <2> QED
    BY <2>1, <2>2, <2>3, <2>4 DEF RingInv
<1>9. CASE Ring!critical_test_exit(t)
  <2>1. RingType'
    <3>1. t + 1 \in Nat /\ e_guard - 1 \in Int
      BY <1>0, <1>t DEF RingType
    <3> QED
      BY <3>1, <1>t, <1>9 DEF RingType, RingPlace, Ring!critical_test_exit, Ring!locals
  <2>2. RingFlags'
    BY <1>0, <1>t, <1>f, <1>9 DEF RingType, RingFlags, Ring!Critical, Ring!critical_test_exit,
      Ring!locals
  <2>3. RingApart'
    BY <1>0, <1>t, <1>f, <1>p, <1>9, ZenonT(30) DEF RingType, RingFlags, RingApart, RingPassed,
      Ring!Critical, Ring!critical_test_exit, Ring!locals
  <2>4. RingGuard' /\ Ring!EisenbergNoPanic'
    BY <1>0, <1>t, <1>g, <1>e, <1>9 DEF RingType, RingGuard, Ring!EisenbergNoPanic,
      Ring!critical_test_exit, Ring!locals, Ring!EisenbergExclusion, Ring!Critical
  <2> QED
    BY <2>1, <2>2, <2>3, <2>4 DEF RingInv
<1>a. CASE Ring!FindNext(t)
  <2>1. RingType'
    <3>1. e_i[t] + 1 \in Nat /\ e_i[t] % Threads \in Ring!Thread
      BY <1>0, <1>t DEF RingType
    <3>2. CASE e_flag[e_i[t] % Threads] = "Want"
      BY <3>1, <3>2, <1>t, <1>a DEF RingType, RingPlace, Ring!FindNext
    <3>3. CASE e_flag[e_i[t] % Threads] # "Want"
      BY <3>1, <3>3, <1>t, <1>a DEF RingType, RingPlace, Ring!FindNext
    <3> QED
      BY <3>2, <3>3
  <2>2. RingFlags'
    BY <1>0, <1>t, <1>f, <1>a DEF RingType, RingFlags, Ring!Critical, Ring!FindNext
  <2>3. RingApart'
    BY <1>0, <1>t, <1>f, <1>p, <1>a, Zenon DEF RingType, RingFlags, RingApart, RingPassed,
      Ring!Critical, Ring!FindNext
  <2>4. RingGuard' /\ Ring!EisenbergNoPanic'
    BY <1>0, <1>t, <1>g, <1>a DEF RingType, RingGuard, Ring!EisenbergNoPanic, Ring!FindNext
  <2> QED
    BY <2>1, <2>2, <2>3, <2>4 DEF RingInv
<1>b. CASE Ring!PassTurn(t)
  <2>1. RingType'
    BY <1>0, <1>t, <1>b DEF RingType, RingPlace, Ring!PassTurn
  <2>2. RingFlags'
    BY <1>0, <1>t, <1>f, <1>b DEF RingType, RingFlags, Ring!Critical, Ring!PassTurn
  <2>3. RingApart'
    BY <1>0, <1>t, <1>f, <1>p, <1>b, ZenonT(30) DEF RingType, RingFlags, RingApart, RingPassed,
      Ring!Critical, Ring!PassTurn
  <2>4. RingGuard' /\ Ring!EisenbergNoPanic'
    BY <1>0, <1>t, <1>g, <1>b DEF RingType, RingGuard, Ring!EisenbergNoPanic, Ring!PassTurn
  <2> QED
    BY <2>1, <2>2, <2>3, <2>4 DEF RingInv
<1>c. CASE Ring!Leave(t)
  <2>1. RingType'
    BY <1>0, <1>t, <1>c DEF RingType, RingPlace, Ring!Leave, Ring!locals
  <2>2. RingFlags'
    BY <1>0, <1>t, <1>f, <1>c DEF RingType, RingFlags, Ring!Critical, Ring!Leave, Ring!locals
  <2>3. RingApart'
    BY <1>0, <1>t, <1>f, <1>p, <1>c DEF RingType, RingFlags, RingApart, RingPassed,
      Ring!Critical, Ring!Leave, Ring!locals
  <2>4. RingGuard' /\ Ring!EisenbergNoPanic'
    BY <1>0, <1>t, <1>g, <1>c DEF RingType, RingGuard, Ring!EisenbergNoPanic, Ring!Leave,
      Ring!locals
  <2> QED
    BY <2>1, <2>2, <2>3, <2>4 DEF RingInv
<1> QED
  BY <1>1, <1>2, <1>3, <1>4, <1>5, <1>6, <1>7, <1>8, <1>9, <1>a, <1>b, <1>c DEF Ring!thread_fn

-----------------------------------------------------------------------------
(* peterson.rs *)

\* Where a thread is.
PairPlace == {"flag", "turn", "peer", "wait", "enter", "test", "leave", "done", "panicked"}

\* The thread is past peterson_enter_critical and its flag is still up.
PairCritical(t) == p_pc[t] \in {"enter", "test", "leave"}

\* The types of the variables.
PairType ==
  /\ p_turn \in Pair!Thread /\ p_guard \in Int /\ p_flag \in [Pair!Thread -> BOOLEAN]
  /\ p_pc \in [Pair!Thread -> PairPlace]

\* A flag is up from its first store on, and down from its second one on.
PairFlags ==
  \A t \in Pair!Thread : p_flag[t] = TRUE <=> p_pc[t] \in PairPlace \ {"flag", "done",
    "panicked"}

\* One thread is critical, and then the other, if it is past its store to TURN,
\* has to see that it gave the turn away.
PairTurn ==
  \A t, u \in Pair!Thread : t # u /\ PairCritical(t) =>
    ~PairCritical(u) /\ (p_pc[u] \in {"peer", "wait"} => p_turn = t)

\* GUARD counts the threads that test.
PairGuard ==
  /\ \A t \in Pair!Thread : p_pc[t] = "test" => p_guard = 1
  /\ (\A t \in Pair!Thread : p_pc[t] # "test") => p_guard = 0

\* The inductive invariant.
PairInv == PairType /\ PairFlags /\ PairTurn /\ PairGuard /\ Pair!PetersonNoPanic

\* The other thread.
LEMMA PairPeer ==
  ASSUME NEW t \in Pair!Thread
  PROVE  /\ Pair!peer_id(t) \in Pair!Thread /\ Pair!peer_id(t) # t
         /\ \A u \in Pair!Thread : u # t => u = Pair!peer_id(t)
BY DEF Pair!Thread, Pair!peer_id

\* The invariant holds at the start.
LEMMA PairInit == Pair!Init => PairInv
BY DEF Pair!Init, PairInv, PairType, PairFlags, PairTurn, PairGuard, Pair!PetersonNoPanic,
  PairCritical, Pair!Thread, PairPlace

\* Every step of a thread keeps the invariant.
LEMMA PairStep ==
  ASSUME NEW t \in Pair!Thread, PairInv, Pair!thread_fn(t)
  PROVE  PairInv'
<1> USE DEF PairInv, PairType, PairFlags, PairTurn, PairGuard, Pair!PetersonNoPanic,
  PairCritical, PairPlace, Pair!Goto
<1>0. /\ Pair!peer_id(t) \in Pair!Thread /\ Pair!peer_id(t) # t
      /\ \A u \in Pair!Thread : u # t => u = Pair!peer_id(t)
  BY PairPeer
<1>1. CASE Pair!RaiseFlag(t)
  BY <1>0, <1>1 DEF Pair!RaiseFlag
<1>2. CASE Pair!GiveTurn(t)
  BY <1>0, <1>2 DEF Pair!GiveTurn
<1>3. CASE Pair!LoadPeer(t)
  BY <1>0, <1>3 DEF Pair!LoadPeer
<1>4. CASE Pair!LoadTurn(t)
  BY <1>0, <1>4 DEF Pair!LoadTurn
<1>5. CASE Pair!critical_test_enter(t)
  BY <1>0, <1>5 DEF Pair!critical_test_enter
<1>6. CASE Pair!critical_test_claim(t)
  BY <1>0, <1>6 DEF Pair!critical_test_claim
<1>7. CASE Pair!critical_test_exit(t)
  BY <1>0, <1>7 DEF Pair!critical_test_exit
<1>8. CASE Pair!LowerFlag(t)
  BY <1>0, <1>8 DEF Pair!LowerFlag, Pair!NextRound
<1> QED
  BY <1>1, <1>2, <1>3, <1>4, <1>5, <1>6, <1>7, <1>8, Zenon DEF Pair!thread_fn

-----------------------------------------------------------------------------
(* Both programs *)

\* The invariants of both programs hold in every state.
LEMMA PlainInvariance == PlainSpec => [](RingInv /\ PairInv)
<1>1. PlainInit => RingInv /\ PairInv
  BY PlainMemoryAssumption, RingInit, PairInit DEF PlainInit
<1>2. RingInv /\ PairInv /\ [PlainNext]_<<ring, pair>> => (RingInv /\ PairInv)'
  <2> SUFFICES ASSUME RingInv, PairInv, [PlainNext]_<<ring, pair>> PROVE RingInv' /\ PairInv'
    OBVIOUS
  <2>1. Ring!Next => RingInv'
    BY PlainMemoryAssumption, RingStep DEF Ring!Next
  <2>2. Pair!Next => PairInv'
    BY PairStep DEF Pair!Next
  <2>3. UNCHANGED ring => RingInv'
    BY DEF ring, RingInv, RingType, RingFlags, RingApart, RingPassed, RingGuard,
           Ring!EisenbergNoPanic, Ring!Critical
  <2>4. UNCHANGED pair => PairInv'
    BY DEF pair, PairInv, PairType, PairFlags, PairTurn, PairGuard, Pair!PetersonNoPanic,
           PairCritical
  <2> QED
    BY <2>1, <2>2, <2>3, <2>4, Zenon DEF PlainNext
<1> QED
  BY <1>1, <1>2, PTL DEF PlainSpec

\* No two threads of eisenberg.rs, however many there are, are between the end
\* of eisenberg_enter_critical and the last store of eisenberg_exit_critical.
THEOREM Excludes == PlainSpec => []EisenbergExclusion
<1>1. RingInv => EisenbergExclusion
  BY RingExcludes DEF EisenbergExclusion
<1> QED
  BY <1>1, PlainInvariance, PTL

\* The assertions of critical_test_enter, critical_test_claim and
\* critical_test_exit never fail, in eisenberg.rs nor in peterson.rs.
THEOREM NeverPanics == PlainSpec => []GuardHolds
<1>1. RingInv /\ PairInv => GuardHolds
  BY DEF RingInv, PairInv, GuardHolds
<1> QED
  BY <1>1, PlainInvariance, PTL
====
