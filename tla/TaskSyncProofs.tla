---------------------------- MODULE TaskSyncProofs ----------------------------
(* Proofs about TaskSync, for every set of tasks, processes and objects. *)
EXTENDS TaskSync, TLAPS, FiniteSetTheorems

-----------------------------------------------------------------------------
(* Queues: what Append, Tail and TaskManager::remove do to their elements *)

\* push_back adds its element and nothing else, and a queue stays free of
\* repetitions when the element was not in it.
LEMMA AppendQueue ==
  ASSUME NEW q \in Seq(Task), NEW e \in Task
  PROVE  /\ Append(q, e) \in Seq(Task)
         /\ \A t \in Task : Queued(t, Append(q, e)) <=> Queued(t, q) \/ t = e
         /\ Distinct(q) /\ ~Queued(e, q) => Distinct(Append(q, e))
         /\ Len(Append(q, e)) = Len(q) + 1
  <1> DEFINE r == Append(q, e)
  <1>1. /\ r \in Seq(Task) /\ Len(r) = Len(q) + 1 /\ Len(q) \in Nat
        /\ \A i \in 1..Len(q) : r[i] = q[i]
        /\ r[Len(q) + 1] = e
    OBVIOUS
  <1> HIDE DEF r
  <1>2. \A t \in Task : Queued(t, r) <=> Queued(t, q) \/ t = e
    BY <1>1 DEF Queued
  <1>3. Distinct(q) /\ ~Queued(e, q) => Distinct(r)
    BY <1>1 DEF Queued, Distinct
  <1> QED BY <1>1, <1>2, <1>3 DEF r

\* pop_front takes the first element, and only it.
LEMMA TailQueue ==
  ASSUME NEW q \in Seq(Task), q # <<>>
  PROVE  /\ Head(q) \in Task
         /\ Tail(q) \in Seq(Task)
         /\ Queued(Head(q), q)
         /\ Distinct(q) => Distinct(Tail(q))
         /\ Distinct(q) => \A t \in Task : Queued(t, Tail(q)) <=> Queued(t, q) /\ t # Head(q)
         /\ Len(Tail(q)) = Len(q) - 1
  <1> DEFINE r == Tail(q)  h == Head(q)
  <1>1. /\ r \in Seq(Task) /\ Len(q) \in Nat \ {0} /\ Len(r) = Len(q) - 1
        /\ h = q[1] /\ h \in Task
        /\ \A i \in 1..Len(r) : r[i] = q[i + 1]
    OBVIOUS
  <1> HIDE DEF r, h
  <1>2. Queued(h, q)
    BY <1>1 DEF Queued
  <1>3. Distinct(q) => Distinct(r)
    <2> SUFFICES ASSUME Distinct(q), NEW i \in 1..Len(r), NEW j \in 1..Len(r), r[i] = r[j]
                 PROVE  i = j
      BY DEF Distinct
    <2>1. i + 1 \in 1..Len(q) /\ j + 1 \in 1..Len(q) /\ q[i + 1] = q[j + 1]
      BY <1>1
    <2> QED BY <2>1, <1>1 DEF Distinct
  <1>4. ASSUME Distinct(q), NEW t \in Task
        PROVE  Queued(t, r) <=> Queued(t, q) /\ t # h
    <2>1. ASSUME NEW i \in 1..Len(r), r[i] = t PROVE Queued(t, q) /\ t # h
      <3>1. i + 1 \in 1..Len(q) /\ q[i + 1] = t /\ 1 \in 1..Len(q) /\ i + 1 # 1
        BY <2>1, <1>1
      <3> QED BY <3>1, <1>1, <1>4 DEF Queued, Distinct
    <2>2. ASSUME NEW i \in 1..Len(q), q[i] = t, t # h PROVE Queued(t, r)
      <3>1. i # 1 BY <2>2, <1>1
      <3>2. i - 1 \in 1..Len(r) /\ r[i - 1] = q[(i - 1) + 1] BY <3>1, <1>1
      <3> QED BY <3>2, <2>2 DEF Queued
    <2> QED BY <2>1, <2>2 DEF Queued
  <1> QED BY <1>1, <1>2, <1>3, <1>4 DEF r, h

\* TaskManager::remove takes its task out of a queue without repetitions.
LEMMA RemoveQueue ==
  ASSUME NEW q \in Seq(Task), NEW e \in Task, Distinct(q)
  PROVE  /\ remove(q, e) \in Seq(Task)
         /\ Distinct(remove(q, e))
         /\ \A t \in Task : Queued(t, remove(q, e)) <=> Queued(t, q) /\ t # e
  <1>1. CASE ~ \E k \in 1..Len(q) : q[k] = e
    BY <1>1 DEF remove, Queued
  <1>2. CASE \E k \in 1..Len(q) : q[k] = e
    <2> DEFINE P(k) == q[k] = e /\ \A j \in 1..Len(q) : j < k => q[j] # e
               f == CHOOSE k \in 1..Len(q) : P(k)
               r == [i \in 1..(Len(q) - 1) |-> IF i < f THEN q[i] ELSE q[i + 1]]
    <2>1. \E k \in 1..Len(q) : P(k)
      BY <1>2 DEF Distinct
    <2>2. f \in 1..Len(q) /\ q[f] = e
      BY <2>1
    <2>3. remove(q, e) = r
      BY <1>2 DEF remove
    <2> HIDE DEF f
    <2>4. Len(q) \in Nat \ {0} /\ \A i \in 1..Len(q) : q[i] \in Task
      BY <2>2
    <2>5. r \in Seq(Task) /\ Len(r) = Len(q) - 1
      <3>1. \A i \in 1..(Len(q) - 1) : (IF i < f THEN q[i] ELSE q[i + 1]) \in Task
        BY <2>2, <2>4
      <3>2. r \in [1..(Len(q) - 1) -> Task] /\ Len(q) - 1 \in Nat
        BY <3>1, <2>4
      <3> QED BY <3>2
    <2>6. \A i \in 1..Len(r) : r[i] = IF i < f THEN q[i] ELSE q[i + 1]
      BY <2>5, Zenon
    <2> HIDE DEF r
    <2>7. Distinct(r)
      <3> SUFFICES ASSUME NEW i \in 1..Len(r), NEW j \in 1..Len(r), r[i] = r[j]
                   PROVE  i = j
        BY DEF Distinct
      <3> DEFINE up(x) == IF x < f THEN x ELSE x + 1
      <3>1. /\ up(i) \in 1..Len(q) /\ up(j) \in 1..Len(q)
            /\ r[i] = q[up(i)] /\ r[j] = q[up(j)]
        BY <2>2, <2>4, <2>5, <2>6
      <3>2. up(i) = up(j)
        <4> HIDE DEF up
        <4> QED BY <3>1, Zenon DEF Distinct
      <3> QED BY <3>2, <2>2, <2>5
    <2>8. ASSUME NEW t \in Task PROVE Queued(t, r) <=> Queued(t, q) /\ t # e
      <3>1. ASSUME NEW i \in 1..Len(r), r[i] = t PROVE Queued(t, q) /\ t # e
        <4>1. \E k \in 1..Len(q) : k # f /\ q[k] = t
          BY <3>1, <2>2, <2>4, <2>5, <2>6
        <4> QED BY <4>1, <2>2 DEF Queued, Distinct
      <3>2. ASSUME NEW k \in 1..Len(q), q[k] = t, t # e PROVE Queued(t, r)
        <4>1. k # f BY <3>2, <2>2
        <4>2. CASE k < f
          <5>1. k \in 1..Len(r) /\ r[k] = t BY <4>2, <3>2, <2>2, <2>4, <2>5, <2>6
          <5> QED BY <5>1 DEF Queued
        <4>3. CASE k > f
          <5>1. k - 1 \in 1..Len(r) /\ ~(k - 1 < f) /\ (k - 1) + 1 = k
            BY <4>3, <2>2, <2>4, <2>5
          <5>2. r[k - 1] = t BY <5>1, <3>2, <2>6
          <5> QED BY <5>1, <5>2 DEF Queued
        <4> QED BY <4>1, <4>2, <4>3, <2>2
      <3> QED BY <3>1, <3>2 DEF Queued
    <2> QED BY <2>3, <2>5, <2>7, <2>8
  <1> QED BY <1>1, <1>2

-----------------------------------------------------------------------------
(* Where every task is: the inductive invariant behind ReadyQueueExact,     *)
(* BlockedOnce and DeadNeverRun.  The remaining conjuncts say that current   *)
(* is Running and an exited task is never queued again, that a waiter        *)
(* belongs to the process of the object, so that only threads of a live      *)
(* process can wake it, that no task of a torn down process is in TIMERS,    *)
(* and what exit_todo holds while a process is torn down.                    *)

Core ==
  /\ ReadyQueueExact
  /\ BlockedOnce
  /\ DeadNeverRun
  /\ current # NoTask => status[current] = "Running" /\ exiting = NoProc
  /\ \A t \in exited : status[t] = "Running" /\ t # current
  /\ \A t \in Task, o \in Obj : Waits(t, o) => ProcOf[t] = OwnerOf[o]
  /\ \A t \in Task : Sleeps(t) => Alive(t)
  /\ exiting = NoProc => exit_todo = {}
  /\ \A t \in exit_todo : ProcOf[t] = exiting
  /\ exiting # NoProc => exiting \in zombie

\* A thread that runs is not queued anywhere, and its process is alive.
LEMMA CurrentNowhere ==
  ASSUME TypeOK, Core, current # NoTask
  PROVE  /\ current \in Task /\ Alive(current) /\ ProcOf[current] \notin zombie
         /\ ~Queued(current, ready_queue)
         /\ ~Sleeps(current)
         /\ \A o \in Obj : ~Waits(current, o)
         /\ current \notin exited
         /\ exiting = NoProc /\ exit_todo = {}
  BY DEF TypeOK, SchedTypeOK, Core, ReadyQueueExact, BlockedOnce, DeadNeverRun, Alive

\* suspend_current_and_run_next keeps the queues exact.
LEMMA CoreSuspend ==
  ASSUME TypeOK, Core, current # NoTask, suspend_current_and_run_next,
         UNCHANGED <<timers, waiter_queue, exitVars>>
  PROVE  Core'
  <1>1. \A t \in Task : Queued(t, ready_queue)' <=> Queued(t, ready_queue) \/ t = current
    BY CurrentNowhere, AppendQueue
    DEF suspend_current_and_run_next, add_task, TypeOK, SchedTypeOK
  <1>2. Distinct(ready_queue)'
    BY CurrentNowhere, AppendQueue
    DEF suspend_current_and_run_next, add_task, TypeOK, SchedTypeOK, Core, ReadyQueueExact
  <1>3. /\ \A t \in Task : t # current => status'[t] = status[t]
        /\ status'[current] = "Ready" /\ current' = NoTask
    BY CurrentNowhere DEF suspend_current_and_run_next, TypeOK, SchedTypeOK
  <1>4. /\ \A t \in Task : Alive(t)' <=> Alive(t)
        /\ \A t \in Task : Sleeps(t)' <=> Sleeps(t)
        /\ \A t \in Task, o \in Obj : Waits(t, o)' <=> Waits(t, o)
        /\ \A o \in Obj : Distinct(waiter_queue[o])' <=> Distinct(waiter_queue[o])
    BY DEF Alive, Sleeps, Waits, exitVars
  <1>5. ReadyQueueExact'
    BY <1>1, <1>2, <1>3, <1>4, CurrentNowhere, ZenonT(30) DEF Core, ReadyQueueExact
  <1>6. BlockedOnce'
    BY <1>3, <1>4, CurrentNowhere, SMTT(30) DEF Core, BlockedOnce
  <1> QED
    BY <1>3, <1>4, <1>5, <1>6, CurrentNowhere, NoTaskAssumption, Zenon
    DEF TypeOK, Core, DeadNeverRun, exitVars

\* A thread that queues on an object and blocks waits there and nowhere else.
LEMMA CoreBlock ==
  ASSUME TypeOK, Core, current # NoTask, block_current_and_run_next,
         NEW o \in Obj, OwnerOf[o] = ProcOf[current],
         waiter_queue' = [waiter_queue EXCEPT ![o] = Append(@, current)],
         UNCHANGED <<timers, exitVars>>
  PROVE  Core'
  <1> DEFINE q == waiter_queue[o]
  <1>1. /\ q \in Seq(Task) /\ Distinct(q) /\ ~Queued(current, q)
        /\ waiter_queue'[o] = Append(q, current)
        /\ \A x \in Obj : x # o => waiter_queue'[x] = waiter_queue[x]
    BY CurrentNowhere DEF TypeOK, Core, BlockedOnce, Waits
  <1>2. \A t \in Task, x \in Obj :
          Waits(t, x)' <=> Waits(t, x) \/ (x = o /\ t = current)
    BY <1>1, AppendQueue, CurrentNowhere DEF Waits
  <1>3. \A x \in Obj : Distinct(waiter_queue[x])'
    BY <1>1, AppendQueue, CurrentNowhere DEF Core, BlockedOnce
  <1>4. /\ \A t \in Task : t # current => status'[t] = status[t]
        /\ status'[current] = "Blocked" /\ current' = NoTask
        /\ ready_queue' = ready_queue
    BY CurrentNowhere, Zenon DEF block_current_and_run_next, TypeOK, SchedTypeOK
  <1>5. /\ \A t \in Task : Alive(t)' <=> Alive(t)
        /\ \A t \in Task : Sleeps(t)' <=> Sleeps(t)
    BY DEF Alive, Sleeps, exitVars
  <1>6. ReadyQueueExact'
    BY <1>4, <1>5, CurrentNowhere, Zenon DEF Core, ReadyQueueExact
  <1>7. BlockedOnce'
    <2>1. ~Sleeps(current) /\ \A x \in Obj : ~Waits(current, x)
      BY CurrentNowhere
    <2>2. \A t \in Task, o1, o2 \in Obj : (Waits(t, o1) /\ Waits(t, o2))' => o1 = o2
      BY <1>2, <2>1 DEF Core, BlockedOnce
    <2>3. \A t \in Task, x \in Obj : ~(Sleeps(t) /\ Waits(t, x))'
      BY <1>2, <1>5, <2>1 DEF Core, BlockedOnce
    <2>4. /\ \A t \in Task : Sleeps(t)' => status'[t] = "Blocked"
          /\ \A t \in Task, x \in Obj : Waits(t, x)' => status'[t] = "Blocked"
      BY <1>2, <1>4, <1>5, <2>1, Zenon DEF Core, BlockedOnce
    <2>5. \A t \in Task : Alive(t)' /\ status'[t] = "Blocked" =>
                             Sleeps(t)' \/ \E x \in Obj : Waits(t, x)'
      BY <1>2, <1>4, <1>5 DEF Core, BlockedOnce
    <2>6. \A x, y \in timers' : x.task = y.task => x = y
      BY DEF Core, BlockedOnce
    <2> QED BY <1>3, <2>2, <2>3, <2>4, <2>5, <2>6, Zenon DEF BlockedOnce
  <1> QED
    BY <1>2, <1>4, <1>5, <1>6, <1>7, CurrentNowhere, NoTaskAssumption, ZenonT(30)
    DEF TypeOK, Core, DeadNeverRun, exitVars

\* A thread that adds its timer and blocks waits in TIMERS and nowhere else.
LEMMA CoreSleep ==
  ASSUME TypeOK, Core, current # NoTask, block_current_and_run_next,
         NEW e \in Nat, add_timer(e, current),
         UNCHANGED <<waiter_queue, exitVars>>
  PROVE  Core'
  <1> DEFINE r == [task |-> current, expire_ms |-> e]
  <1>a. timers' = timers \cup {r} /\ r.task = current
    BY DEF add_timer
  <1> HIDE DEF r
  <1>b. \A t \in Task : Sleeps(t)' <=> Sleeps(t) \/ t = current
    BY <1>a, Zenon DEF Sleeps
  <1>c. \A x, y \in timers' : x.task = y.task => x = y
    BY <1>a, CurrentNowhere DEF Sleeps, Core, BlockedOnce
  <1>1. /\ \A t \in Task : Sleeps(t)' <=> Sleeps(t) \/ t = current
        /\ \A x, y \in timers' : x.task = y.task => x = y
    BY <1>b, <1>c
  <1>2. /\ \A t \in Task : t # current => status'[t] = status[t]
        /\ status'[current] = "Blocked" /\ current' = NoTask
        /\ ready_queue' = ready_queue
    BY CurrentNowhere DEF block_current_and_run_next, TypeOK, SchedTypeOK
  <1>3. /\ \A t \in Task : Alive(t)' <=> Alive(t)
        /\ \A t \in Task, o \in Obj : Waits(t, o)' <=> Waits(t, o)
        /\ \A o \in Obj : Distinct(waiter_queue[o])' <=> Distinct(waiter_queue[o])
    BY Zenon DEF Alive, Waits, exitVars
  <1>4. ReadyQueueExact'
    BY <1>2, <1>3, CurrentNowhere, Zenon DEF Core, ReadyQueueExact
  <1>5. BlockedOnce'
    BY <1>1, <1>2, <1>3, CurrentNowhere, Zenon DEF Core, BlockedOnce
  <1> QED
    BY <1>1, <1>2, <1>3, <1>4, <1>5, CurrentNowhere, NoTaskAssumption, Zenon
    DEF TypeOK, Core, DeadNeverRun, exitVars

\* The first waiter of an object that a running thread of its process may name.
LEMMA FirstWaiter ==
  ASSUME TypeOK, Core, current # NoTask,
         NEW o \in Obj, OwnerOf[o] = ProcOf[current], waiter_queue[o] # <<>>
  PROVE  LET w == Head(waiter_queue[o]) IN
         /\ w \in Task /\ w # current /\ Waits(w, o) /\ Alive(w)
         /\ status[w] = "Blocked" /\ w \notin exited
         /\ ~Queued(w, ready_queue) /\ ~Sleeps(w)
         /\ ProcOf[w] = OwnerOf[o]
  <1> DEFINE w == Head(waiter_queue[o])
  <1>1. w \in Task /\ Waits(w, o)
    BY TailQueue, Zenon DEF TypeOK, Waits
  <1> HIDE DEF w
  <1>2. w # current /\ status[w] = "Blocked" /\ ~Sleeps(w) /\ ProcOf[w] = OwnerOf[o]
    BY <1>1, CurrentNowhere, Zenon DEF Core, BlockedOnce
  <1>3. Alive(w)
    BY <1>2, CurrentNowhere DEF Alive
  <1>4. ~Queued(w, ready_queue) /\ w \notin exited
    BY <1>1, <1>2, SMTT(30) DEF Core, ReadyQueueExact
  <1> QED BY <1>1, <1>2, <1>3, <1>4 DEF w

\* Waking the first waiter of an object moves it to the ready queue.
LEMMA CoreWake ==
  ASSUME TypeOK, Core, current # NoTask,
         NEW o \in Obj, OwnerOf[o] = ProcOf[current], waiter_queue[o] # <<>>,
         waiter_queue' = [waiter_queue EXCEPT ![o] = Tail(@)],
         wakeup_task(Head(waiter_queue[o])),
         UNCHANGED <<current, timers, exitVars>>
  PROVE  Core'
  <1> DEFINE q == waiter_queue[o]  w == Head(q)
  <1>1. /\ w \in Task /\ w # current /\ Waits(w, o) /\ Alive(w)
        /\ status[w] = "Blocked" /\ w \notin exited
        /\ ~Queued(w, ready_queue) /\ ~Sleeps(w)
    BY FirstWaiter, Zenon
  <1>2. /\ q \in Seq(Task) /\ Distinct(q)
        /\ waiter_queue'[o] = Tail(q)
        /\ \A x \in Obj : x # o => waiter_queue'[x] = waiter_queue[x]
    BY Zenon DEF TypeOK, Core, BlockedOnce
  <1>3. \A t \in Task, x \in Obj :
          Waits(t, x)' <=> Waits(t, x) /\ ~(x = o /\ t = w)
    BY <1>2, TailQueue DEF Waits
  <1>4. \A x \in Obj : Distinct(waiter_queue[x])'
    BY <1>2, TailQueue, ZenonT(30) DEF Core, BlockedOnce
  <1>5. /\ \A t \in Task : Queued(t, ready_queue)' <=> Queued(t, ready_queue) \/ t = w
        /\ Distinct(ready_queue)'
    BY <1>1, AppendQueue, ZenonT(30)
    DEF wakeup_task, add_task, TypeOK, SchedTypeOK, Core, ReadyQueueExact
  <1>6. /\ \A t \in Task : t # w => status'[t] = status[t]
        /\ status'[w] = "Ready"
    BY <1>1 DEF wakeup_task, TypeOK, SchedTypeOK
  <1>7. /\ \A t \in Task : Alive(t)' <=> Alive(t)
        /\ \A t \in Task : Sleeps(t)' <=> Sleeps(t)
    BY Zenon DEF Alive, Sleeps, exitVars
  <1> HIDE DEF w, q
  <1>8. ReadyQueueExact'
    BY <1>1, <1>5, <1>6, <1>7, ZenonT(30) DEF Core, ReadyQueueExact
  <1>9. BlockedOnce'
    BY <1>1, <1>3, <1>4, <1>6, <1>7, SMTT(30) DEF Core, BlockedOnce
  <1> QED
    BY <1>1, <1>3, <1>6, <1>7, <1>8, <1>9, CurrentNowhere, Zenon
    DEF TypeOK, Core, DeadNeverRun, exitVars

\* Condvar::wait: the first waiter of the mutex wakes and the caller blocks.
LEMMA CoreHandOff ==
  ASSUME TypeOK, Core, current # NoTask,
         NEW c \in Obj, OwnerOf[c] = ProcOf[current],
         NEW o \in Obj, OwnerOf[o] = ProcOf[current], c # o,
         waiter_queue[o] # <<>>,
         waiter_queue' = [waiter_queue EXCEPT ![o] = Tail(@), ![c] = Append(@, current)],
         status' = [status EXCEPT ![Head(waiter_queue[o])] = "Ready", ![current] = "Blocked"],
         add_task(Head(waiter_queue[o])), current' = NoTask,
         UNCHANGED <<timers, exitVars>>
  PROVE  Core'
  <1> DEFINE q == waiter_queue[o]
  <1>w. PICK w \in Task : w = Head(q)
    BY FirstWaiter, Zenon
  <1>1. /\ w \in Task /\ w # current /\ Waits(w, o) /\ Alive(w)
        /\ status[w] = "Blocked" /\ w \notin exited
        /\ ~Queued(w, ready_queue) /\ ~Sleeps(w)
    BY <1>w, FirstWaiter, Zenon
  <1>2. /\ q \in Seq(Task) /\ Distinct(q)
        /\ waiter_queue[c] \in Seq(Task) /\ Distinct(waiter_queue[c])
        /\ ~Queued(current, waiter_queue[c]) /\ current \in Task
        /\ waiter_queue'[o] = Tail(q)
        /\ waiter_queue'[c] = Append(waiter_queue[c], current)
        /\ \A x \in Obj : x # o /\ x # c => waiter_queue'[x] = waiter_queue[x]
    BY CurrentNowhere DEF TypeOK, Core, BlockedOnce, Waits
  <1>3. \A t \in Task, x \in Obj :
          Waits(t, x)' <=> \/ Waits(t, x) /\ ~(x = o /\ t = w)
                           \/ x = c /\ t = current
    <2>1. \A t \in Task : Waits(t, o)' <=> Waits(t, o) /\ t # w
      BY <1>w, <1>2, TailQueue, SMTT(30) DEF Waits
    <2>2. \A t \in Task : Waits(t, c)' <=> Waits(t, c) \/ t = current
      <3>1. \A t \in Task : Queued(t, Append(waiter_queue[c], current))
                               <=> Queued(t, waiter_queue[c]) \/ t = current
        BY <1>2, AppendQueue
      <3>2. \A t \in Task : /\ Waits(t, c) <=> Queued(t, waiter_queue[c])
                            /\ Waits(t, c)' <=> Queued(t, Append(waiter_queue[c], current))
        BY <1>2, Zenon DEF Waits
      <3> QED BY <3>1, <3>2, Zenon
    <2>3. \A t \in Task, x \in Obj : x # o /\ x # c => (Waits(t, x)' <=> Waits(t, x))
      BY <1>2, Zenon DEF Waits
    <2> QED BY <2>1, <2>2, <2>3, Zenon
  <1>4. \A x \in Obj : Distinct(waiter_queue[x])'
    <2>1. Distinct(Tail(q))
      BY <1>2, TailQueue, Zenon
    <2>2. Distinct(Append(waiter_queue[c], current))
      BY <1>2, AppendQueue, Zenon
    <2> QED BY <1>2, <2>1, <2>2, ZenonT(30) DEF Core, BlockedOnce
  <1>5. /\ \A t \in Task : Queued(t, ready_queue)' <=> Queued(t, ready_queue) \/ t = w
        /\ Distinct(ready_queue)'
    BY <1>w, <1>1, AppendQueue, ZenonT(30) DEF add_task, TypeOK, SchedTypeOK, Core, ReadyQueueExact
  <1>6. /\ \A t \in Task : t # w /\ t # current => status'[t] = status[t]
        /\ status'[w] = "Ready" /\ status'[current] = "Blocked"
    BY <1>w, <1>1, <1>2, Zenon DEF TypeOK, SchedTypeOK
  <1>7. /\ \A t \in Task : Alive(t)' <=> Alive(t)
        /\ \A t \in Task : Sleeps(t)' <=> Sleeps(t)
    BY SMTT(30) DEF Alive, Sleeps, exitVars
  <1> HIDE DEF q
  <1>8. ReadyQueueExact'
    BY <1>1, <1>5, <1>6, <1>7, CurrentNowhere, ZenonT(30) DEF Core, ReadyQueueExact
  <1>9. BlockedOnce'
    <2>1. \A t \in Task, o1, o2 \in Obj : (Waits(t, o1) /\ Waits(t, o2))' => o1 = o2
      <3>1. \A t \in Task, o1, o2 \in Obj : Waits(t, o1) /\ Waits(t, o2) => o1 = o2
        BY Zenon DEF Core, BlockedOnce
      <3>2. \A x \in Obj : ~Waits(current, x)
        BY CurrentNowhere
      <3> QED BY <1>3, <3>1, <3>2, SMTT(30)
    <2>2. \A t \in Task, x \in Obj : ~(Sleeps(t) /\ Waits(t, x))'
      BY <1>3, <1>7, CurrentNowhere DEF Core, BlockedOnce
    <2>3. \A t \in Task : Sleeps(t)' => status'[t] = "Blocked"
      <3>1. \A t \in Task : Sleeps(t)' => t # w /\ t # current /\ status[t] = "Blocked"
        BY <1>1, <1>7, CurrentNowhere DEF Core, BlockedOnce
      <3> QED BY <3>1, <1>6, ZenonT(30)
    <2>4. \A t \in Task, x \in Obj : Waits(t, x)' => status'[t] = "Blocked"
      <3>1. \A x \in Obj : ~Waits(w, x)'
        BY <1>1, <1>3, Zenon DEF Core, BlockedOnce
      <3>2. \A t \in Task, x \in Obj : Waits(t, x)' => t = current \/ status[t] = "Blocked"
        BY <1>3, Zenon DEF Core, BlockedOnce
      <3> QED BY <3>1, <3>2, <1>6, Zenon
    <2>5. \A t \in Task : Alive(t)' /\ status'[t] = "Blocked" =>
                             Sleeps(t)' \/ \E x \in Obj : Waits(t, x)'
      <3> SUFFICES ASSUME NEW t \in Task, Alive(t), status'[t] = "Blocked"
                   PROVE  Sleeps(t) \/ \E x \in Obj : Waits(t, x)'
        BY <1>7, Zenon
      <3>1. CASE t = current
        BY <3>1, <1>3, ZenonT(30)
      <3>2. CASE t # current
        <4>1. status[t] = "Blocked" /\ t # w
          BY <3>2, <1>6, Zenon
        <4> QED BY <4>1, <1>3 DEF Core, BlockedOnce
      <3> QED BY <3>1, <3>2, Zenon
    <2>6. timers' = timers
      OBVIOUS
    <2> QED BY <1>4, <2>1, <2>2, <2>3, <2>4, <2>5, <2>6, ZenonT(30) DEF Core, BlockedOnce
  <1> QED
    BY <1>1, <1>3, <1>6, <1>7, <1>8, <1>9, CurrentNowhere, NoTaskAssumption, ZenonT(30)
    DEF TypeOK, Core, DeadNeverRun, exitVars

\* Popping a timer and waking its task moves the task to the ready queue.
LEMMA CoreExpired ==
  ASSUME TypeOK, Core, NEW x \in timers, WakeExpired(x),
         UNCHANGED <<current, waiter_queue, exitVars>>
  PROVE  Core'
  <1> DEFINE w == x.task
  <1>1. /\ w \in Task /\ Sleeps(w)
        /\ Alive(w) /\ status[w] = "Blocked" /\ w \notin exited
        /\ ~Queued(w, ready_queue)
        /\ \A o \in Obj : ~Waits(w, o)
    BY SMTT(30) DEF TypeOK, SchedTypeOK, Sleeps, Core, BlockedOnce, ReadyQueueExact
  <1>2. \A t \in Task : Sleeps(t)' <=> Sleeps(t) /\ t # w
    <2>1. \A y \in timers : y.task = w => y = x
      BY DEF Core, BlockedOnce
    <2>2. timers' = timers \ {x}
      BY Zenon DEF WakeExpired
    <2> QED BY <2>1, <2>2, ZenonT(30) DEF Sleeps
  <1>3. \A y, z \in timers' : y.task = z.task => y = z
    BY ZenonT(30) DEF WakeExpired, Core, BlockedOnce
  <1>4. /\ \A t \in Task : Queued(t, ready_queue)' <=> Queued(t, ready_queue) \/ t = w
        /\ Distinct(ready_queue)'
    BY <1>1, AppendQueue
    DEF WakeExpired, wakeup_task, add_task, TypeOK, SchedTypeOK, Core, ReadyQueueExact
  <1>5. /\ \A t \in Task : t # w => status'[t] = status[t]
        /\ status'[w] = "Ready"
    BY <1>1 DEF WakeExpired, wakeup_task, TypeOK, SchedTypeOK
  <1>6. /\ \A t \in Task : Alive(t)' <=> Alive(t)
        /\ \A t \in Task, o \in Obj : Waits(t, o)' <=> Waits(t, o)
        /\ \A o \in Obj : Distinct(waiter_queue[o])' <=> Distinct(waiter_queue[o])
    BY Zenon DEF Alive, Waits, exitVars
  <1> HIDE DEF w
  <1>7. ReadyQueueExact'
    BY <1>1, <1>4, <1>5, <1>6, Zenon DEF Core, ReadyQueueExact
  <1>8. BlockedOnce'
    <2>1. /\ \A o \in Obj : Distinct(waiter_queue[o])'
          /\ \A t \in Task, o1, o2 \in Obj : (Waits(t, o1) /\ Waits(t, o2))' => o1 = o2
          /\ \A t \in Task, o \in Obj : ~(Sleeps(t) /\ Waits(t, o))'
      BY <1>2, <1>6, Zenon DEF Core, BlockedOnce
    <2>2. /\ \A t \in Task : Sleeps(t)' => status'[t] = "Blocked"
          /\ \A t \in Task, o \in Obj : Waits(t, o)' => status'[t] = "Blocked"
      <3>1. \A t \in Task : Sleeps(t)' => status[t] = "Blocked" /\ t # w
        BY <1>2, Zenon DEF Core, BlockedOnce
      <3>2. \A t \in Task, o \in Obj : Waits(t, o)' => status[t] = "Blocked" /\ t # w
        BY <1>1, <1>6, ZenonT(30) DEF Core, BlockedOnce
      <3> QED BY <1>5, <3>1, <3>2, Zenon
    <2>3. \A t \in Task : Alive(t)' /\ status'[t] = "Blocked" =>
                             Sleeps(t)' \/ \E o \in Obj : Waits(t, o)'
      BY <1>2, <1>5, <1>6 DEF Core, BlockedOnce
    <2> QED BY <1>3, <2>1, <2>2, <2>3, Zenon DEF BlockedOnce
  <1>9. w # current
    BY <1>1, CurrentNowhere, NoTaskAssumption
  <1> QED
    BY <1>1, <1>2, <1>5, <1>6, <1>7, <1>8, <1>9, ZenonT(30)
    DEF TypeOK, SchedTypeOK, Core, DeadNeverRun, exitVars

\* The idle loop moves the first ready task to the processor.
LEMMA CoreDispatch ==
  ASSUME TypeOK, Core, exiting = NoProc, run_tasks,
         UNCHANGED <<timers, waiter_queue, exitVars>>
  PROVE  Core'
  <1>0. /\ \A t \in Task : Alive(t)' <=> Alive(t)
        /\ \A t \in Task : Sleeps(t)' <=> Sleeps(t)
        /\ \A t \in Task, o \in Obj : Waits(t, o)' <=> Waits(t, o)
        /\ \A o \in Obj : Distinct(waiter_queue[o])' <=> Distinct(waiter_queue[o])
        /\ timers' = timers
    BY SMTT(30) DEF Alive, Sleeps, Waits, exitVars
  <1>1. CASE ready_queue = <<>>
    <2>1. UNCHANGED <<ready_queue, current, status>>
      BY <1>1, Zenon DEF run_tasks
    <2>2. ReadyQueueExact' /\ BlockedOnce'
      BY <1>0, <2>1, Zenon DEF Core, ReadyQueueExact, BlockedOnce
    <2> QED BY <1>0, <2>1, <2>2, Zenon DEF Core, DeadNeverRun, exitVars
  <1>2. CASE ready_queue # <<>>
    <2> DEFINE w == Head(ready_queue)
    <2>1. /\ w \in Task /\ Queued(w, ready_queue)
          /\ \A t \in Task : Queued(t, ready_queue)' <=> Queued(t, ready_queue) /\ t # w
          /\ Distinct(ready_queue)'
      <3>1. ready_queue \in Seq(Task) /\ Distinct(ready_queue) /\ ready_queue' = Tail(ready_queue)
        BY <1>2 DEF run_tasks, TypeOK, SchedTypeOK, Core, ReadyQueueExact
      <3> QED BY <1>2, <3>1, TailQueue, ZenonT(30)
    <2>2. /\ \A t \in Task : t # w => status'[t] = status[t]
          /\ status'[w] = "Running" /\ current' = w
      BY <1>2, <2>1, ZenonT(30) DEF run_tasks, TypeOK, SchedTypeOK
    <2> HIDE DEF w
    <2>3. /\ status[w] = "Ready" /\ ProcOf[w] \notin zombie /\ w \notin exited
      BY <2>1, SMTT(30) DEF Core, ReadyQueueExact, Alive
    <2>4. ReadyQueueExact'
      BY <1>0, <2>1, <2>2, ZenonT(30) DEF Core, ReadyQueueExact
    <2>5. BlockedOnce'
      BY <1>0, <2>1, <2>2, <2>3, ZenonT(30) DEF Core, BlockedOnce
    <2> QED
      BY <1>0, <2>1, <2>2, <2>3, <2>4, <2>5, Zenon DEF TypeOK, Core, DeadNeverRun, exitVars
  <1> QED BY <1>1, <1>2, Zenon

\* A new thread enters the ready queue, and was nowhere before.
LEMMA CoreCreate ==
  ASSUME TypeOK, Core, current # NoTask,
         NEW u \in Task, ProcOf[u] = ProcOf[current], status[u] = "absent",
         status' = [status EXCEPT ![u] = "Ready"], add_task(u),
         UNCHANGED <<current, timers, waiter_queue, exitVars>>
  PROVE  Core'
  <1>1. /\ Alive(u) /\ ~Queued(u, ready_queue) /\ u \notin exited /\ ~Sleeps(u)
        /\ \A o \in Obj : ~Waits(u, o)
        /\ u # current
    BY CurrentNowhere, ZenonT(30) DEF Core, ReadyQueueExact, BlockedOnce, Alive
  <1>2. /\ \A t \in Task : Queued(t, ready_queue)' <=> Queued(t, ready_queue) \/ t = u
        /\ Distinct(ready_queue)'
    BY <1>1, AppendQueue, Zenon DEF add_task, TypeOK, SchedTypeOK, Core, ReadyQueueExact
  <1>3. /\ \A t \in Task : t # u => status'[t] = status[t]
        /\ status'[u] = "Ready"
    BY SMTT(30) DEF TypeOK, SchedTypeOK
  <1>4. /\ \A t \in Task : Alive(t)' <=> Alive(t)
        /\ \A t \in Task : Sleeps(t)' <=> Sleeps(t)
        /\ \A t \in Task, o \in Obj : Waits(t, o)' <=> Waits(t, o)
        /\ \A o \in Obj : Distinct(waiter_queue[o])' <=> Distinct(waiter_queue[o])
    BY ZenonT(30) DEF Alive, Sleeps, Waits, exitVars
  <1>5. ReadyQueueExact'
    BY <1>1, <1>2, <1>3, <1>4, Zenon DEF Core, ReadyQueueExact
  <1>6. BlockedOnce'
    BY <1>1, <1>3, <1>4, ZenonT(30) DEF Core, BlockedOnce
  <1> QED
    BY <1>1, <1>3, <1>4, <1>5, <1>6, CurrentNowhere, ZenonT(30)
    DEF TypeOK, Core, DeadNeverRun, exitVars

\* A thread that exits, alone or with its process, leaves the queues exact.
LEMMA CoreExit ==
  ASSUME TypeOK, Core, current # NoTask, NEW k \in BOOLEAN,
         exit_current_and_run_next(current, k)
  PROVE  Core'
  <1>1. /\ current' = NoTask /\ exited' = exited \cup {current}
        /\ UNCHANGED <<ready_queue, status, timers, waiter_queue>>
    BY Zenon DEF exit_current_and_run_next, objVars
  <1>2. /\ \A t \in Task : Queued(t, ready_queue)' <=> Queued(t, ready_queue)
        /\ \A t \in Task : Sleeps(t)' <=> Sleeps(t)
        /\ \A t \in Task, o \in Obj : Waits(t, o)' <=> Waits(t, o)
        /\ \A o \in Obj : Distinct(waiter_queue[o])' <=> Distinct(waiter_queue[o])
        /\ Distinct(ready_queue)' <=> Distinct(ready_queue)
    BY <1>1 DEF Sleeps, Waits
  <1>3. CASE current = Main[ProcOf[current]] \/ k
    <2> DEFINE p == ProcOf[current]
    <2>1. /\ zombie' = zombie \cup {p} /\ exiting' = p
          /\ exit_todo' = {u \in Task : ProcOf[u] = p /\ status[u] # "absent"}
      BY <1>3, Zenon DEF exit_current_and_run_next
    <2>2. p \in Proc /\ p # NoProc /\ p \notin zombie
      BY CurrentNowhere, ProcAssumption, SMTT(30)
    <2>3. \A t \in Task : status[t] # "absent" => (Alive(t)' <=> Alive(t))
      BY <2>1, <2>2, CurrentNowhere, ZenonT(30) DEF Alive
    <2>4. ReadyQueueExact'
      BY <1>1, <1>2, <2>3, Zenon DEF Core, ReadyQueueExact
    <2>5. BlockedOnce'
      BY <1>1, <1>2, <2>3, ZenonT(30) DEF Core, BlockedOnce
    <2>6. \A t \in Task : Sleeps(t)' => Alive(t)'
      BY <1>2, <2>3, SMTT(30) DEF Core, BlockedOnce
    <2> HIDE DEF p
    <2> QED
      BY <1>1, <1>2, <2>1, <2>2, <2>4, <2>5, <2>6, CurrentNowhere, NoTaskAssumption, ZenonT(30)
      DEF TypeOK, Core, DeadNeverRun
  <1>4. CASE ~(current = Main[ProcOf[current]] \/ k)
    <2>1. UNCHANGED <<zombie, exiting, exit_todo>>
      BY <1>4, Zenon DEF exit_current_and_run_next
    <2>2. \A t \in Task : Alive(t)' <=> Alive(t)
      BY <2>1, Zenon DEF Alive
    <2>3. ReadyQueueExact'
      BY <1>1, <1>2, <2>2, Zenon DEF Core, ReadyQueueExact
    <2>4. BlockedOnce'
      BY <1>1, <1>2, <2>2, Zenon DEF Core, BlockedOnce
    <2> QED
      BY <1>1, <1>2, <2>1, <2>2, <2>3, <2>4, CurrentNowhere, NoTaskAssumption, ZenonT(30)
      DEF TypeOK, Core, DeadNeverRun
  <1> QED BY <1>3, <1>4

\* remove_inactive_task takes a task of a dying process out of reach.
LEMMA CoreRemove ==
  ASSUME TypeOK, Core, RemoveTask
  PROVE  Core'
  <1>1. PICK u \in exit_todo : remove_inactive_task(u) /\ exit_todo' = exit_todo \ {u}
    BY ZenonT(30) DEF RemoveTask
  <1>2. /\ u \in Task /\ exiting # NoProc /\ ProcOf[u] = exiting /\ exiting \in zombie
        /\ current = NoTask
    BY DEF TypeOK, Core
  <1>3. UNCHANGED <<current, status, exited, zombie, exiting, waiter_queue>>
    BY DEF RemoveTask, objVars
  <1>4. /\ \A t \in Task : Queued(t, ready_queue)' <=> Queued(t, ready_queue) /\ t # u
        /\ Distinct(ready_queue)'
    <2>1. ready_queue \in Seq(Task) /\ Distinct(ready_queue) /\ ready_queue' = remove(ready_queue, u)
      BY <1>1, Zenon DEF remove_inactive_task, TypeOK, SchedTypeOK, Core, ReadyQueueExact
    <2> QED BY <1>2, <2>1, RemoveQueue, Zenon
  <1>5. timers' = {x \in timers : x.task # u}
    BY <1>1 DEF remove_inactive_task, remove_timer
  <1>6. \A t \in Task : Sleeps(t)' <=> Sleeps(t) /\ t # u
    BY <1>5 DEF Sleeps
  <1>7. /\ \A t \in Task : Alive(t)' <=> Alive(t) /\ t # u
        /\ \A t \in Task, o \in Obj : Waits(t, o)' <=> Waits(t, o)
        /\ \A o \in Obj : Distinct(waiter_queue[o])' <=> Distinct(waiter_queue[o])
    BY <1>1, <1>2, <1>3, SMTT(30) DEF Alive, Waits
  <1>8. ReadyQueueExact'
    BY <1>3, <1>4, <1>7, Zenon DEF Core, ReadyQueueExact
  <1>9. BlockedOnce'
    BY <1>3, <1>5, <1>6, <1>7, Zenon DEF Core, BlockedOnce
  <1> QED
    BY <1>1, <1>2, <1>3, <1>6, <1>7, <1>8, <1>9, ZenonT(30) DEF TypeOK, Core, DeadNeverRun

\* Clearing the lists of a process moves no task.
LEMMA CoreDrop ==
  ASSUME TypeOK, Core, DropLists
  PROVE  Core'
  <1>1. /\ UNCHANGED <<ready_queue, current, status, timers, exited, zombie, exit_todo, waiter_queue>>
        /\ exiting' = NoProc /\ exit_todo = {} /\ exiting # NoProc
    BY Zenon DEF DropLists, schedVars
  <1>2. /\ \A t \in Task : Alive(t)' <=> Alive(t)
        /\ \A t \in Task : Sleeps(t)' <=> Sleeps(t)
        /\ \A t \in Task, o \in Obj : Waits(t, o)' <=> Waits(t, o)
    BY <1>1, Zenon DEF Alive, Sleeps, Waits
  <1>3. ReadyQueueExact' /\ BlockedOnce'
    BY <1>1, <1>2, ZenonT(30) DEF Core, ReadyQueueExact, BlockedOnce
  <1> QED BY <1>1, <1>2, <1>3, Zenon DEF Core, DeadNeverRun

\* A step that moves no task from one place to another.
LEMMA CoreKeeps ==
  ASSUME Core, UNCHANGED <<ready_queue, current, status, timers, waiter_queue, exitVars>>
  PROVE  Core'
  <1>1. /\ \A t \in Task : Alive(t)' <=> Alive(t)
        /\ \A t \in Task : Sleeps(t)' <=> Sleeps(t)
        /\ \A t \in Task, o \in Obj : Waits(t, o)' <=> Waits(t, o)
    BY Zenon DEF Alive, Sleeps, Waits, exitVars
  <1>2. ReadyQueueExact' /\ BlockedOnce'
    BY <1>1, ZenonT(30) DEF Core, ReadyQueueExact, BlockedOnce
  <1> QED BY <1>1, <1>2 DEF Core, DeadNeverRun, exitVars

-----------------------------------------------------------------------------
(* The invariant as a whole, action by action *)

\* A thread inside a lock or a down has an object of its own process.
Continues ==
  \A t \in Task : kpc[t] \in {"lock", "locked", "downed"} =>
    kobj[t] \in Obj /\ OwnerOf[kobj[t]] = ProcOf[t]

\* The inductive invariant.
IInv == TypeOK /\ Core /\ Continues

\* Init: the queue holds each main thread once, and nobody waits.
LEMMA InitInvariant == Init => IInv
  <1> SUFFICES ASSUME Init PROVE IInv
    OBVIOUS
  <1> USE DEF Init
  <1>1. Cardinality(Proc) \in Nat
    BY ProcAssumption, FS_CardinalityType, Zenon
  <1>2. /\ ready_queue \in [1..Cardinality(Proc) -> {Main[p] : p \in Proc}]
        /\ DOMAIN ready_queue = 1..Cardinality(Proc)
        /\ \A i, j \in 1..Cardinality(Proc) : ready_queue[i] = ready_queue[j] => i = j
        /\ \A p \in Proc : \E i \in 1..Cardinality(Proc) : ready_queue[i] = Main[p]
    BY Zenon
  <1>3. ready_queue \in Seq(Task) /\ Len(ready_queue) = Cardinality(Proc)
    <2>1. {Main[p] : p \in Proc} \subseteq Task
      BY ProcAssumption
    <2>2. ready_queue \in [1..Cardinality(Proc) -> Task]
      BY <1>2, <2>1, Zenon
    <2> QED BY <1>1, <2>2, SMTT(30)
  <1>4. TypeOK
    BY <1>3, ProcAssumption, SMTT(30) DEF TypeOK, SchedTypeOK, TaskStatus, KernelPC, Kinds
  <1>5. Distinct(ready_queue)
    BY <1>2, <1>3, Zenon DEF Distinct
  <1>6. ASSUME NEW t \in Task
        PROVE  Queued(t, ready_queue) <=> Alive(t) /\ status[t] = "Ready"
    <2>1. status[t] = "Ready" <=> t = Main[ProcOf[t]]
      BY Zenon
    <2>2. Queued(t, ready_queue) <=> t = Main[ProcOf[t]]
      <3>1. ASSUME NEW i \in 1..Len(ready_queue), ready_queue[i] = t
            PROVE  t = Main[ProcOf[t]]
        <4>0. ready_queue[i] \in {Main[p] : p \in Proc}
          BY <1>2, <1>3, ZenonT(30)
        <4>1. PICK p \in Proc : t = Main[p]
          BY <3>1, <4>0
        <4> QED BY <4>1, ProcAssumption, Zenon
      <3>2. ASSUME t = Main[ProcOf[t]] PROVE Queued(t, ready_queue)
        <4>1. ProcOf[t] \in Proc
          BY ProcAssumption, Zenon
        <4> QED BY <3>2, <4>1, <1>2, <1>3, ZenonT(30) DEF Queued
      <3> QED BY <3>1, <3>2, Zenon DEF Queued
    <2> QED BY <2>1, <2>2, Zenon DEF Alive
  <1>7. /\ \A t \in Task, o \in Obj : ~Waits(t, o)
        /\ \A o \in Obj : Distinct(waiter_queue[o])
        /\ \A t \in Task : ~Sleeps(t)
        /\ \A t \in Task : status[t] # "Blocked"
    BY SMTT(30) DEF Waits, Sleeps, Queued, Distinct
  <1>8. Core
    BY <1>5, <1>6, <1>7, ZenonT(30) DEF Core, ReadyQueueExact, BlockedOnce, DeadNeverRun
  <1> QED BY <1>4, <1>8 DEF IInv, Continues

\* What a thread is doing in the kernel when the CPU leaves it or it goes on.
LEMMA GotoStep ==
  ASSUME TypeOK, Continues, NEW t \in Task, NEW pc \in KernelPC,
         NEW o \in Obj \cup {NoObj}, Goto(t, pc, o),
         pc \in {"lock", "locked", "downed"} => o \in Obj /\ OwnerOf[o] = ProcOf[t]
  PROVE  /\ kpc' \in [Task -> KernelPC] /\ kobj' \in [Task -> Obj \cup {NoObj}]
         /\ Continues'
  BY SMTT(30) DEF TypeOK, Continues, Goto

\* A thread that leaves its syscall continues at the end of the trap.
LEMMA ReturnStep ==
  ASSUME TypeOK, Continues, NEW t \in Task, Return(t)
  PROVE  /\ kpc' \in [Task -> KernelPC] /\ kobj' \in [Task -> Obj \cup {NoObj}]
         /\ Continues'
  BY GotoStep, Zenon DEF Return, KernelPC

\* The ways the scheduler moves the current thread, and what they keep typed.
LEMMA SuspendType ==
  ASSUME TypeOK, current # NoTask, suspend_current_and_run_next,
         UNCHANGED <<now, power>>, timers' \subseteq timers
  PROVE  SchedTypeOK'
  <1>1. current \in Task /\ ready_queue' \in Seq(Task)
    BY AppendQueue, Zenon DEF TypeOK, SchedTypeOK, suspend_current_and_run_next, add_task
  <1> QED BY <1>1, Zenon DEF TypeOK, SchedTypeOK, suspend_current_and_run_next, TaskStatus

\* block_current_and_run_next keeps the scheduler typed.
LEMMA BlockType ==
  ASSUME TypeOK, current # NoTask, block_current_and_run_next,
         UNCHANGED <<now, power>>, timers' \subseteq [task: Task, expire_ms: Nat]
  PROVE  SchedTypeOK'
  BY Zenon DEF TypeOK, SchedTypeOK, block_current_and_run_next, TaskStatus

\* wakeup_task keeps the scheduler typed.
LEMMA WakeType ==
  ASSUME TypeOK, NEW w \in Task, wakeup_task(w),
         UNCHANGED <<current, now, power>>, timers' \subseteq timers
  PROVE  SchedTypeOK'
  <1>1. ready_queue' \in Seq(Task)
    BY AppendQueue DEF TypeOK, SchedTypeOK, wakeup_task, add_task
  <1> QED BY <1>1, Zenon DEF TypeOK, SchedTypeOK, wakeup_task, TaskStatus

\* Pushing on and popping from the waiter queue of one object.
LEMMA WaiterType ==
  ASSUME TypeOK, NEW o \in Obj
  PROVE  /\ \A t \in Task : [waiter_queue EXCEPT ![o] = Append(@, t)] \in [Obj -> Seq(Task)]
         /\ waiter_queue[o] # <<>> =>
              [waiter_queue EXCEPT ![o] = Tail(@)] \in [Obj -> Seq(Task)]
  <1>1. waiter_queue[o] \in Seq(Task) /\ waiter_queue \in [Obj -> Seq(Task)]
    BY DEF TypeOK
  <1>2. \A t \in Task : Append(waiter_queue[o], t) \in Seq(Task)
    BY <1>1, AppendQueue
  <1>3. waiter_queue[o] # <<>> => Tail(waiter_queue[o]) \in Seq(Task)
    BY <1>1, TailQueue, Zenon
  <1> QED BY <1>1, <1>2, <1>3, Zenon

\* Mutex::lock, from either caller, takes the mutex, spins or blocks.
LEMMA LockStep ==
  ASSUME IInv, NEW t \in Task, current = t, NEW o \in Obj, OwnerOf[o] = ProcOf[t],
         lock(t, o), UNCHANGED <<timers, now, power, procVars, kind, count, permits>>
  PROVE  IInv'
  <1> USE DEF IInv
  <1>0. current # NoTask /\ current \in Task
    BY NoTaskAssumption, SMTT(30)
  <1>1. CASE /\ locked' = [locked EXCEPT ![o] = TRUE] /\ Takes(t, o)
             /\ KeepRunning /\ Return(t) /\ UNCHANGED waiter_queue
    <2>1. Core'
      BY <1>1, CoreKeeps, ZenonT(30) DEF KeepRunning, procVars
    <2> QED
      BY <1>1, <2>1, ReturnStep, ZenonT(30)
      DEF TypeOK, SchedTypeOK, KeepRunning, Takes, procVars, exitVars
  <1>2. CASE /\ suspend_current_and_run_next /\ Goto(t, "lock", o)
             /\ UNCHANGED <<locked, waiter_queue, holds>>
    <2>1. Core'
      BY <1>0, <1>2, CoreSuspend, ZenonT(30) DEF procVars
    <2>2. SchedTypeOK'
      BY <1>0, <1>2, SuspendType, ZenonT(30)
    <2> QED
      BY <1>2, <2>1, <2>2, GotoStep, ZenonT(30) DEF TypeOK, KernelPC, procVars, exitVars
  <1>3. CASE /\ waiter_queue' = [waiter_queue EXCEPT ![o] = Append(@, t)]
             /\ block_current_and_run_next /\ Goto(t, "locked", o)
             /\ UNCHANGED <<locked, holds>>
    <2>1. Core'
      BY <1>0, <1>3, CoreBlock, ZenonT(30) DEF procVars
    <2>2. SchedTypeOK'
      BY <1>0, <1>3, BlockType, Zenon DEF TypeOK, SchedTypeOK
    <2>3. waiter_queue' \in [Obj -> Seq(Task)]
      BY <1>3, WaiterType, SMTT(30)
    <2> QED
      BY <1>3, <2>1, <2>2, <2>3, GotoStep, ZenonT(30) DEF TypeOK, KernelPC, procVars, exitVars
  <1> QED BY <1>1, <1>2, <1>3, Zenon DEF lock

\* A panic changes the power state only.
LEMMA PanicStep ==
  ASSUME IInv, Panic
  PROVE  IInv'
  <1>1. Core'
    BY CoreKeeps, Zenon DEF IInv, Panic, procVars, objVars
  <1> QED
    BY <1>1, Zenon
    DEF IInv, Panic, TypeOK, SchedTypeOK, Continues, contVars, procVars, exitVars,
                objVars, ghostVars

\* Waking the first waiter of an object, or nobody.
LEMMA WakeOrKeep ==
  ASSUME TypeOK, Core, current # NoTask,
         NEW o \in Obj, OwnerOf[o] = ProcOf[current], NEW wakes \in BOOLEAN,
         wakes => waiter_queue[o] # <<>>,
         IF wakes
           THEN /\ waiter_queue' = [waiter_queue EXCEPT ![o] = Tail(@)]
                /\ wakeup_task(Head(waiter_queue[o]))
                /\ UNCHANGED current
           ELSE KeepRunning /\ UNCHANGED waiter_queue,
         UNCHANGED <<timers, now, power, exitVars>>
  PROVE  Core' /\ SchedTypeOK' /\ waiter_queue' \in [Obj -> Seq(Task)]
  <1>1. CASE wakes
    <2>1. Core'
      BY <1>1, CoreWake, Zenon
    <2>2. SchedTypeOK'
      <3>1. Head(waiter_queue[o]) \in Task
        BY <1>1, FirstWaiter, ZenonT(30)
      <3> QED BY <1>1, <3>1, WakeType, Zenon
    <2> QED BY <1>1, <2>1, <2>2, WaiterType, ZenonT(30)
  <1>2. CASE ~wakes
    BY <1>2, CoreKeeps DEF KeepRunning, TypeOK, SchedTypeOK
  <1> QED BY <1>1, <1>2, SMTT(30)

\* A thread in user mode is the current thread.
LEMMA UserIsCurrent ==
  ASSUME NEW t \in Task, InUser(t)
  PROVE  current = t /\ current # NoTask /\ current \in Task
  BY NoTaskAssumption, Zenon DEF InUser, Running

\* The syscalls that create an object.
LEMMA CreateStep ==
  ASSUME IInv, NEW t \in Task, NEW o \in Obj, NEW b \in BOOLEAN, NEW n \in Nat,
         sys_mutex_create(t, o, b) \/ sys_semaphore_create(t, o, n)
           \/ sys_condvar_create(t, o)
  PROVE  IInv'
  <1> USE DEF IInv
  <1>1. /\ KeepRunning /\ Return(t)
        /\ UNCHANGED <<timers, now, power, procVars, locked, waiter_queue, holds>>
        /\ kind' \in [Obj -> Kinds] /\ count' \in [Obj -> Int] /\ permits' \in [Obj -> Int]
    <2> USE DEF TypeOK, Kinds
    <2>1. CASE sys_mutex_create(t, o, b)
      BY <2>1, Zenon DEF sys_mutex_create, ghostVars
    <2>2. CASE sys_semaphore_create(t, o, n)
      BY <2>2, SMTT(30) DEF sys_semaphore_create
    <2>3. CASE sys_condvar_create(t, o)
      BY <2>3 DEF sys_condvar_create, ghostVars
    <2> QED BY <2>1, <2>2, <2>3, Zenon
  <1>2. Core'
    BY <1>1, CoreKeeps, SMTT(30) DEF KeepRunning, procVars
  <1> QED
    BY <1>1, <1>2, ReturnStep, ZenonT(30) DEF TypeOK, SchedTypeOK, KeepRunning, procVars, exitVars

\* sys_mutex_lock: Mutex::lock or a panic.
LEMMA MutexLockStep ==
  ASSUME IInv, NEW t \in Task, NEW o \in Obj, sys_mutex_lock(t, o)
  PROVE  IInv'
  BY UserIsCurrent, LockStep, PanicStep, Zenon DEF sys_mutex_lock, Named

\* sys_mutex_unlock wakes at most the first waiter.
LEMMA MutexUnlockStep ==
  ASSUME IInv, NEW t \in Task, NEW o \in Obj, sys_mutex_unlock(t, o)
  PROVE  IInv'
  <1> USE DEF IInv
  <1>1. CASE Panic
    BY <1>1, PanicStep, Zenon
  <1>2. CASE ~Panic
    <2>1. current = t /\ current # NoTask /\ OwnerOf[o] = ProcOf[current]
      BY UserIsCurrent DEF sys_mutex_unlock, Named
    <2>2. /\ IF HandsOff(o)
               THEN /\ waiter_queue' = [waiter_queue EXCEPT ![o] = Tail(@)]
                    /\ wakeup_task(Head(waiter_queue[o]))
                    /\ UNCHANGED current
               ELSE KeepRunning /\ UNCHANGED waiter_queue
          /\ locked' = Unlocked(o) /\ Gives(t, o) /\ Return(t)
          /\ UNCHANGED <<timers, now, power, procVars, kind, count, permits>>
      BY <1>2, Zenon DEF sys_mutex_unlock
    <2>3. Core' /\ SchedTypeOK' /\ waiter_queue' \in [Obj -> Seq(Task)]
      <3>1. HandsOff(o) \in BOOLEAN /\ (HandsOff(o) => waiter_queue[o] # <<>>)
        BY Zenon DEF HandsOff
      <3> QED BY <2>1, <2>2, <3>1, WakeOrKeep, Zenon DEF procVars
    <2>4. locked' \in [Obj -> BOOLEAN] /\ holds' \in [Task -> SUBSET Obj]
      BY <2>2, Zenon DEF Unlocked, Gives, TypeOK
    <2> QED BY <2>2, <2>3, <2>4, ReturnStep, Zenon DEF TypeOK, procVars, exitVars
  <1> QED BY <1>1, <1>2

\* A thread inside Mutex::lock goes on.
LEMMA ResumeLockStep ==
  ASSUME IInv, NEW t \in Task, ResumeLock(t)
  PROVE  IInv'
  <1> USE DEF IInv
  <1>1. current = t /\ kobj[t] \in Obj /\ OwnerOf[kobj[t]] = ProcOf[t]
    BY ZenonT(30) DEF ResumeLock, Running, Continues
  <1>2. CASE lock(t, kobj[t])
    BY <1>1, <1>2, LockStep, SMTT(30) DEF ResumeLock
  <1>3. CASE Takes(t, kobj[t]) /\ KeepRunning /\ Return(t) /\ UNCHANGED <<locked, waiter_queue>>
    <2>1. UNCHANGED <<timers, now, power, procVars, kind, count, permits>>
      BY Zenon DEF ResumeLock
    <2>2. Core'
      BY <1>3, <2>1, CoreKeeps, Zenon DEF KeepRunning, procVars
    <2> QED
      BY <1>1, <1>3, <2>1, <2>2, ReturnStep, ZenonT(30)
      DEF TypeOK, SchedTypeOK, KeepRunning, Takes, procVars, exitVars
  <1> QED BY <1>2, <1>3, Zenon DEF ResumeLock

\* sys_semaphore_up wakes at most the first waiter.
LEMMA SemaphoreUpStep ==
  ASSUME IInv, NEW t \in Task, NEW o \in Obj, sys_semaphore_up(t, o)
  PROVE  IInv'
  <1> USE DEF IInv
  <1>1. CASE Panic
    BY <1>1, PanicStep
  <1>2. CASE ~Panic
    <2> DEFINE wakes == UpWakes(o)
    <2>1. current = t /\ current # NoTask /\ OwnerOf[o] = ProcOf[current]
      BY UserIsCurrent, Zenon DEF sys_semaphore_up, Named
    <2>2. /\ IF wakes
               THEN /\ waiter_queue' = [waiter_queue EXCEPT ![o] = Tail(@)]
                    /\ wakeup_task(Head(waiter_queue[o]))
                    /\ UNCHANGED current
               ELSE KeepRunning /\ UNCHANGED waiter_queue
          /\ count' = [count EXCEPT ![o] = @ + 1]
          /\ permits' = [permits EXCEPT ![o] = @ + 1]
          /\ Return(t)
          /\ UNCHANGED <<timers, now, power, procVars, kind, locked, holds>>
      BY <1>2, Zenon DEF sys_semaphore_up
    <2>3. Core' /\ SchedTypeOK' /\ waiter_queue' \in [Obj -> Seq(Task)]
      <3>1. wakes \in BOOLEAN /\ (wakes => waiter_queue[o] # <<>>)
        BY Zenon DEF UpWakes
      <3> HIDE DEF wakes
      <3> QED BY <2>1, <2>2, <3>1, WakeOrKeep, Zenon DEF procVars
    <2>4. count' \in [Obj -> Int] /\ permits' \in [Obj -> Int]
      BY <2>2, SMTT(30) DEF TypeOK
    <2> QED BY <2>2, <2>3, <2>4, ReturnStep, Zenon DEF TypeOK, procVars, exitVars
  <1> QED BY <1>1, <1>2

\* sys_semaphore_down returns or queues its caller.
LEMMA SemaphoreDownStep ==
  ASSUME IInv, NEW t \in Task, NEW o \in Obj, sys_semaphore_down(t, o)
  PROVE  IInv'
  <1> USE DEF IInv
  <1>1. CASE Panic
    BY <1>1, PanicStep
  <1>2. CASE ~Panic
    <2>1. current = t /\ current # NoTask /\ OwnerOf[o] = ProcOf[current]
      BY UserIsCurrent, Zenon DEF sys_semaphore_down, Named
    <2>2. /\ count' = [count EXCEPT ![o] = @ - 1]
          /\ UNCHANGED <<timers, now, power, procVars, kind, locked, holds>>
      BY <1>2, Zenon DEF sys_semaphore_down
    <2>3. count' \in [Obj -> Int]
      BY <2>2, SMTT(30) DEF TypeOK
    <2>4. CASE /\ waiter_queue' = [waiter_queue EXCEPT ![o] = Append(@, t)]
               /\ block_current_and_run_next
               /\ Goto(t, "downed", o)
               /\ UNCHANGED permits
      <3>1. Core'
        BY <2>1, <2>2, <2>4, CoreBlock, ZenonT(30) DEF procVars
      <3>2. SchedTypeOK'
        BY <2>1, <2>2, <2>4, BlockType, Zenon DEF TypeOK, SchedTypeOK
      <3>3. waiter_queue' \in [Obj -> Seq(Task)]
        BY <2>4, WaiterType, Zenon
      <3> QED
        BY <2>1, <2>2, <2>3, <2>4, <3>1, <3>2, <3>3, GotoStep, ZenonT(30)
        DEF TypeOK, KernelPC, procVars, exitVars
    <2>5. CASE /\ permits' = [permits EXCEPT ![o] = @ - 1]
               /\ KeepRunning /\ Return(t) /\ UNCHANGED waiter_queue
      <3>1. Core'
        BY <2>2, <2>5, CoreKeeps, Zenon DEF KeepRunning, procVars
      <3>2. permits' \in [Obj -> Int]
        BY <2>5, SMTT(30) DEF TypeOK
      <3> QED
        BY <2>2, <2>3, <2>5, <3>1, <3>2, ReturnStep, ZenonT(30)
        DEF TypeOK, SchedTypeOK, KeepRunning, procVars, exitVars
    <2> QED BY <1>2, <2>4, <2>5, Zenon DEF sys_semaphore_down
  <1> QED BY <1>1, <1>2

\* A thread that waited in Semaphore::down returns from it.
LEMMA ResumeDownStep ==
  ASSUME IInv, NEW t \in Task, ResumeDown(t)
  PROVE  IInv'
  <1> USE DEF IInv
  <1>1. /\ KeepRunning /\ Return(t)
        /\ UNCHANGED <<timers, now, power, procVars, objVars, holds>>
        /\ kpc[t] = "downed"
        /\ permits' = [permits EXCEPT ![kobj[t]] = @ - 1]
    BY Zenon DEF ResumeDown
  <1>2. kobj[t] \in Obj
    BY <1>1, Zenon DEF Continues
  <1>3. permits' \in [Obj -> Int]
    BY <1>1, <1>2 DEF TypeOK
  <1>4. Core'
    BY <1>1, CoreKeeps, Zenon DEF KeepRunning, procVars, objVars
  <1> QED
    BY <1>1, <1>3, <1>4, ReturnStep, Zenon
    DEF TypeOK, SchedTypeOK, KeepRunning, procVars, exitVars, objVars

\* sys_condvar_signal wakes at most the first waiter.
LEMMA CondvarSignalStep ==
  ASSUME IInv, NEW t \in Task, NEW o \in Obj, sys_condvar_signal(t, o)
  PROVE  IInv'
  <1> USE DEF IInv
  <1>1. CASE Panic
    BY <1>1, PanicStep
  <1>2. CASE ~Panic
    <2> DEFINE wakes == waiter_queue[o] # <<>>
    <2>1. current = t /\ current # NoTask /\ OwnerOf[o] = ProcOf[current]
      BY UserIsCurrent, Zenon DEF sys_condvar_signal, Named
    <2>2. /\ IF wakes
               THEN /\ waiter_queue' = [waiter_queue EXCEPT ![o] = Tail(@)]
                    /\ wakeup_task(Head(waiter_queue[o]))
                    /\ UNCHANGED current
               ELSE KeepRunning /\ UNCHANGED waiter_queue
          /\ Return(t)
          /\ UNCHANGED <<timers, now, power, procVars, kind, locked, count, ghostVars>>
      BY <1>2, Zenon DEF sys_condvar_signal
    <2>3. Core' /\ SchedTypeOK' /\ waiter_queue' \in [Obj -> Seq(Task)]
      <3>1. wakes \in BOOLEAN /\ (wakes => waiter_queue[o] # <<>>)
        OBVIOUS
      <3> HIDE DEF wakes
      <3> QED BY <2>1, <2>2, <3>1, WakeOrKeep, ZenonT(30) DEF procVars
    <2> QED BY <2>2, <2>3, ReturnStep DEF TypeOK, procVars, exitVars, ghostVars
  <1> QED BY <1>1, <1>2

\* sys_condvar_wait unlocks, perhaps handing off, queues and blocks.
LEMMA CondvarWaitStep ==
  ASSUME IInv, NEW t \in Task, NEW c \in Obj, NEW o \in Obj, sys_condvar_wait(t, c, o)
  PROVE  IInv'
  <1> USE DEF IInv
  <1>1. CASE Panic
    BY <1>1, PanicStep, SMTT(30)
  <1>2. CASE ~Panic
    <2>1. /\ current = t /\ current # NoTask /\ current \in Task
          /\ OwnerOf[c] = ProcOf[current] /\ OwnerOf[o] = ProcOf[current]
      BY UserIsCurrent, ZenonT(30) DEF sys_condvar_wait, Named
    <2>2. /\ waiter_queue' = [waiter_queue EXCEPT
                                ![o] = IF HandsOff(o) THEN Tail(@) ELSE @,
                                ![c] = Append(@, t)]
          /\ IF HandsOff(o)
               THEN /\ status' = [status EXCEPT ![Head(waiter_queue[o])] = "Ready",
                                                ![t] = "Blocked"]
                    /\ add_task(Head(waiter_queue[o]))
               ELSE /\ status' = [status EXCEPT ![t] = "Blocked"]
                    /\ UNCHANGED ready_queue
          /\ current' = NoTask
          /\ locked' = Unlocked(o) /\ Gives(t, o) /\ Goto(t, "lock", o)
          /\ UNCHANGED <<timers, now, power, procVars, kind, count, permits>>
          /\ kind[c] = "condvar" /\ IsMutex(o)
      BY <1>2, Zenon DEF sys_condvar_wait
    <2>3. c # o
      BY <2>2, Zenon DEF IsMutex
    <2>4. locked' \in [Obj -> BOOLEAN] /\ holds' \in [Task -> SUBSET Obj]
      BY <2>2 DEF Unlocked, Gives, TypeOK
    <2>5. Core' /\ SchedTypeOK' /\ waiter_queue' \in [Obj -> Seq(Task)]
      <3>1. CASE HandsOff(o)
        <4>1. /\ waiter_queue[o] # <<>>
              /\ waiter_queue' = [waiter_queue EXCEPT ![o] = Tail(@), ![c] = Append(@, current)]
              /\ status' = [status EXCEPT ![Head(waiter_queue[o])] = "Ready", ![current] = "Blocked"]
              /\ add_task(Head(waiter_queue[o])) /\ current' = NoTask
              /\ UNCHANGED <<timers, now, power, exitVars>>
          BY <3>1, <2>1, <2>2, Zenon DEF HandsOff, procVars
        <4>2. Core'
          BY <4>1, <2>1, <2>3, CoreHandOff, ZenonT(30)
        <4>3. Head(waiter_queue[o]) \in Task
          BY <4>1, <2>1, FirstWaiter, Zenon
        <4>4. ready_queue' \in Seq(Task)
          BY <4>1, <4>3, AppendQueue, ZenonT(30) DEF add_task, TypeOK, SchedTypeOK
        <4>5. SchedTypeOK'
          BY <4>1, <4>3, <4>4, <2>1, ZenonT(30) DEF TypeOK, SchedTypeOK, TaskStatus
        <4>6. waiter_queue[o] \in Seq(Task) /\ waiter_queue[c] \in Seq(Task)
          BY SMTT(30) DEF TypeOK
        <4>7. Tail(waiter_queue[o]) \in Seq(Task) /\ Append(waiter_queue[c], current) \in Seq(Task)
          BY <4>1, <4>6, <2>1, AppendQueue, TailQueue, ZenonT(30)
        <4> QED BY <4>1, <4>2, <4>5, <4>7, <2>3, ZenonT(30) DEF TypeOK
      <3>2. CASE ~HandsOff(o)
        <4>1. /\ waiter_queue' = [waiter_queue EXCEPT ![c] = Append(@, current)]
              /\ block_current_and_run_next
              /\ UNCHANGED <<timers, now, power, exitVars>>
          BY <3>2, <2>1, <2>2, ZenonT(30) DEF procVars, block_current_and_run_next, TypeOK
        <4>2. Core'
          BY <4>1, <2>1, CoreBlock, ZenonT(30)
        <4>3. SchedTypeOK'
          BY <4>1, <2>1, BlockType, ZenonT(30) DEF TypeOK, SchedTypeOK
        <4> QED BY <4>1, <4>2, <4>3, <2>1, WaiterType, Zenon
      <3> QED BY <3>1, <3>2, SMTT(30)
    <2> QED
      BY <2>1, <2>2, <2>4, <2>5, GotoStep, ZenonT(30) DEF TypeOK, KernelPC, procVars, exitVars
  <1> QED BY <1>1, <1>2

\* sys_yield suspends its caller.
LEMMA YieldStep ==
  ASSUME IInv, NEW t \in Task, sys_yield(t)
  PROVE  IInv'
  <1> USE DEF IInv
  <1>1. Core'
    BY UserIsCurrent, CoreSuspend DEF sys_yield, procVars, objVars
  <1>2. SchedTypeOK'
    BY UserIsCurrent, SuspendType, Zenon DEF sys_yield
  <1> QED
    BY <1>1, <1>2, ReturnStep, Zenon
    DEF sys_yield, TypeOK, procVars, exitVars, objVars, ghostVars

\* sys_sleep adds a timer and blocks its caller.
LEMMA SleepStep ==
  ASSUME IInv, NEW t \in Task, NEW d \in Nat, sys_sleep(t, d)
  PROVE  IInv'
  <1> USE DEF IInv
  <1>1. current = t /\ current # NoTask /\ now + d \in Nat
    BY UserIsCurrent DEF sys_sleep, TypeOK, SchedTypeOK
  <1>2. Core'
    BY <1>1, CoreSleep, Zenon DEF sys_sleep, procVars, objVars
  <1>3. timers' \subseteq [task: Task, expire_ms: Nat]
    BY <1>1 DEF sys_sleep, add_timer, TypeOK, SchedTypeOK
  <1>4. SchedTypeOK'
    BY <1>1, <1>3, BlockType, SMTT(30) DEF sys_sleep
  <1> QED
    BY <1>2, <1>4, ReturnStep, Zenon
    DEF sys_sleep, TypeOK, procVars, exitVars, objVars, ghostVars

\* A timer interrupt enters the kernel.
LEMMA TimerInterruptStep ==
  ASSUME IInv, NEW t \in Task, TimerInterrupt(t)
  PROVE  IInv'
  <1> USE DEF IInv
  <1>1. Core'
    BY CoreKeeps, Zenon DEF TimerInterrupt, schedVars, procVars, objVars
  <1> QED
    BY <1>1, GotoStep, Zenon
    DEF TimerInterrupt, TypeOK, SchedTypeOK, KernelPC, schedVars, procVars, exitVars, objVars,
        ghostVars

\* check_timer wakes one expired sleeper, or the thread is suspended.
LEMMA TickStep ==
  ASSUME IInv, NEW t \in Task, Tick(t)
  PROVE  IInv'
  <1> USE DEF IInv
  <1>0. /\ current = t /\ current # NoTask
        /\ UNCHANGED <<now, power, procVars, objVars, ghostVars>>
    BY NoTaskAssumption, Zenon DEF Tick, Running
  <1>1. CASE \E x \in Expired : WakeExpired(x) /\ UNCHANGED <<current, contVars>>
    <2>1. PICK x \in timers : WakeExpired(x) /\ UNCHANGED <<current, contVars>>
      BY <1>1, Zenon DEF Expired
    <2>2. Core'
      BY <1>0, <2>1, CoreExpired, ZenonT(30) DEF procVars, objVars
    <2>3. x.task \in Task /\ timers' \subseteq timers /\ wakeup_task(x.task)
      BY <2>1 DEF WakeExpired, TypeOK, SchedTypeOK
    <2>4. SchedTypeOK'
      BY <1>0, <2>1, <2>3, WakeType, Zenon
    <2> QED
      BY <1>0, <2>1, <2>2, <2>4, Zenon
      DEF TypeOK, Continues, contVars, procVars, exitVars, objVars, ghostVars
  <1>2. CASE suspend_current_and_run_next /\ Return(t) /\ UNCHANGED timers
    <2>1. Core'
      BY <1>0, <1>2, CoreSuspend DEF procVars, objVars
    <2>2. SchedTypeOK'
      BY <1>0, <1>2, SuspendType, Zenon
    <2> QED
      BY <1>0, <1>2, <2>1, <2>2, ReturnStep, ZenonT(30)
      DEF TypeOK, procVars, exitVars, objVars, ghostVars
  <1> QED BY <1>1, <1>2, Zenon DEF Tick

\* The clock moves no task.
LEMMA AdvanceClockStep ==
  ASSUME IInv, AdvanceClock
  PROVE  IInv'
  <1> USE DEF IInv
  <1>1. Core'
    BY CoreKeeps, Zenon DEF AdvanceClock, procVars, objVars
  <1>2. SchedTypeOK'
    BY SMTT(30) DEF AdvanceClock, TypeOK, SchedTypeOK
  <1>3. UNCHANGED <<contVars, procVars, objVars, ghostVars>>
    BY Zenon DEF AdvanceClock
  <1>4. TypeOK'
    BY <1>2, <1>3, Zenon DEF TypeOK, contVars, procVars, exitVars, objVars, ghostVars
  <1> QED
    BY <1>1, <1>3, <1>4, Zenon DEF Continues, contVars

\* sys_thread_create queues a thread that did not exist.
LEMMA ThreadCreateStep ==
  ASSUME IInv, NEW t \in Task, NEW u \in Task, sys_thread_create(t, u)
  PROVE  IInv'
  <1> USE DEF IInv
  <1>1. current = t /\ current # NoTask
    BY UserIsCurrent DEF sys_thread_create
  <1>2. Core'
    BY <1>1, CoreCreate, ZenonT(30) DEF sys_thread_create, procVars, objVars
  <1>3. ready_queue' \in Seq(Task)
    BY AppendQueue, ZenonT(30) DEF sys_thread_create, add_task, TypeOK, SchedTypeOK
  <1>4. SchedTypeOK'
    BY <1>3 DEF sys_thread_create, TypeOK, SchedTypeOK, TaskStatus
  <1> QED
    BY <1>2, <1>4, ReturnStep, ZenonT(30)
    DEF sys_thread_create, TypeOK, procVars, exitVars, objVars, ghostVars

\* exit_current_and_run_next up to its loop over the tasks.
LEMMA ExitStep ==
  ASSUME IInv, NEW t \in Task, current = t, NEW k \in BOOLEAN,
         exit_current_and_run_next(t, k),
         sigkill' \subseteq Proc, killed' \subseteq Proc
  PROVE  IInv'
  <1> USE DEF IInv
  <1>1. Core'
    BY CoreExit, NoTaskAssumption, Zenon
  <1>2. /\ exited' \subseteq Task /\ zombie' \subseteq Proc /\ exiting' \in Proc \cup {NoProc}
        /\ exit_todo' \subseteq Task
    <2>1. ProcOf[t] \in Proc
      BY ProcAssumption
    <2>2. exited' = exited \cup {t}
      BY Zenon DEF exit_current_and_run_next
    <2>3. CASE t = Main[ProcOf[t]] \/ k
      <3>1. /\ zombie' = zombie \cup {ProcOf[t]} /\ exiting' = ProcOf[t]
            /\ exit_todo' = {u \in Task : ProcOf[u] = ProcOf[t] /\ status[u] # "absent"}
        BY <2>3, Zenon DEF exit_current_and_run_next
      <3> QED BY <2>1, <2>2, <3>1, Zenon DEF TypeOK
    <2>4. CASE ~(t = Main[ProcOf[t]] \/ k)
      <3>1. UNCHANGED <<zombie, exiting, exit_todo>>
        BY <2>4, Zenon DEF exit_current_and_run_next
      <3> QED BY <2>2, <3>1, Zenon DEF TypeOK
    <2> QED BY <2>3, <2>4, Zenon
  <1>3. /\ kpc' \in [Task -> KernelPC] /\ kobj' \in [Task -> Obj \cup {NoObj}]
        /\ Continues'
    BY GotoStep DEF exit_current_and_run_next, KernelPC
  <1> QED
    BY <1>1, <1>2, <1>3, Zenon
    DEF exit_current_and_run_next, TypeOK, SchedTypeOK, objVars, ghostVars

\* sys_exit, of a process that is killed or not.
LEMMA SysExitStep ==
  ASSUME IInv, NEW t \in Task, sys_exit(t)
  PROVE  IInv'
  <1>1. PICK k \in BOOLEAN : exit_current_and_run_next(t, k)
    <2>1. CASE ProcOf[t] \in killed
      <3>1. exit_current_and_run_next(t, TRUE)
        BY <2>1, Zenon DEF sys_exit, exit_current_and_run_next
      <3> QED BY <3>1, Zenon
    <2>2. CASE ProcOf[t] \notin killed
      <3>1. exit_current_and_run_next(t, FALSE)
        BY <2>2, Zenon DEF sys_exit, exit_current_and_run_next
      <3> QED BY <3>1, ZenonT(30)
    <2> QED BY <2>1, <2>2
  <1>3. current = t /\ sigkill' \subseteq Proc /\ killed' \subseteq Proc
    BY UserIsCurrent, Zenon DEF sys_exit, IInv, TypeOK
  <1> QED BY <1>1, <1>3, ExitStep

\* sys_kill marks a process and moves no task.
LEMMA KillStep ==
  ASSUME IInv, NEW t \in Task, NEW p \in Proc, sys_kill(t, p)
  PROVE  IInv'
  <1> USE DEF IInv
  <1>1. Core'
    BY CoreKeeps DEF sys_kill, KeepRunning, objVars
  <1> QED
    BY <1>1, ReturnStep, ZenonT(30)
    DEF sys_kill, TypeOK, SchedTypeOK, KeepRunning, exitVars, objVars, ghostVars

\* The end of a trap: the thread returns to user mode or exits.
LEMMA TrapEndStep ==
  ASSUME IInv, NEW t \in Task, trap_end(t)
  PROVE  IInv'
  <1>1. CASE ProcOf[t] \in sigkill
    BY <1>1, ExitStep, ProcAssumption, ZenonT(30) DEF trap_end, Running, IInv, TypeOK
  <1>2. CASE ProcOf[t] \notin sigkill
    <2> USE DEF IInv
    <2>1. Goto(t, "user", NoObj) /\ UNCHANGED <<schedVars, procVars, objVars, ghostVars>>
      BY <1>2, Zenon DEF trap_end
    <2>2. Core'
      BY <2>1, CoreKeeps, SMTT(30) DEF schedVars, procVars, objVars
    <2> QED
      BY <2>1, <2>2, GotoStep, Zenon
      DEF TypeOK, SchedTypeOK, KernelPC, schedVars, procVars, exitVars, objVars, ghostVars
  <1> QED BY <1>1, <1>2, SMTT(30)

\* One turn of the loop over the tasks of a dying process.
LEMMA RemoveTaskStep ==
  ASSUME IInv, RemoveTask
  PROVE  IInv'
  <1> USE DEF IInv
  <1>1. Core'
    BY CoreRemove, Zenon
  <1>2. PICK u \in exit_todo : remove_inactive_task(u) /\ exit_todo' = exit_todo \ {u}
    BY SMTT(30) DEF RemoveTask
  <1>3. ready_queue' \in Seq(Task)
    BY <1>2, RemoveQueue, Zenon
    DEF remove_inactive_task, TypeOK, SchedTypeOK, Core, ReadyQueueExact
  <1>4. timers' \subseteq timers
    BY <1>2, SMTT(30) DEF remove_inactive_task, remove_timer
  <1> QED
    BY <1>1, <1>2, <1>3, <1>4, Zenon
    DEF RemoveTask, TypeOK, SchedTypeOK, Continues, contVars, objVars, ghostVars

\* The lists of a dead process are cleared.
LEMMA DropListsStep ==
  ASSUME IInv, DropLists
  PROVE  IInv'
  <1> USE DEF IInv
  <1>1. Core'
    BY CoreDrop
  <1>2. kind' \in [Obj -> Kinds]
    BY SMTT(30) DEF DropLists, TypeOK, Kinds
  <1> QED
    BY <1>1, <1>2, ZenonT(30)
    DEF DropLists, TypeOK, SchedTypeOK, Continues, schedVars, contVars, ghostVars

\* The first disjunct of Kernel: the idle loop fetches a task.
LEMMA DispatchStep ==
  ASSUME IInv, exiting = NoProc, run_tasks,
         UNCHANGED <<timers, now, contVars, procVars, objVars, ghostVars>>
  PROVE  IInv'
  <1> USE DEF IInv
  <1>1. Core'
    BY CoreDispatch, ZenonT(30) DEF procVars, objVars
  <1>2. ready_queue # <<>> => Head(ready_queue) \in Task /\ Tail(ready_queue) \in Seq(Task)
    BY TailQueue, SMTT(30) DEF TypeOK, SchedTypeOK
  <1>3. SchedTypeOK'
    BY <1>2, Zenon DEF run_tasks, TypeOK, SchedTypeOK, TaskStatus
  <1> QED
    BY <1>1, <1>3, Zenon DEF TypeOK, Continues, contVars, procVars, exitVars, objVars, ghostVars

\* A step that changes nothing.
LEMMA StutterStep ==
  ASSUME IInv, UNCHANGED vars
  PROVE  IInv'
  <1> USE DEF IInv
  <1> USE DEF vars, schedVars, contVars, procVars, exitVars, objVars, ghostVars
  <1>1. Core'
    BY CoreKeeps, SMTT(30)
  <1> QED BY <1>1, Zenon DEF TypeOK, SchedTypeOK, Continues

\* Every step of a program, disciplined or not, keeps the invariant.
LEMMA UserProgramStep ==
  ASSUME IInv, NEW t \in Task, NEW d \in BOOLEAN, UserProgram(t, d)
  PROVE  IInv'
  <1>1. CASE \E o \in Obj, b \in BOOLEAN : sys_mutex_create(t, o, b)
    BY <1>1, CreateStep
  <1>2. CASE \E o \in Obj : sys_mutex_lock(t, o)
    BY <1>2, MutexLockStep, Zenon
  <1>3. CASE \E o \in Obj : sys_mutex_unlock(t, o)
    BY <1>3, MutexUnlockStep, Zenon
  <1>4. CASE \E o \in Obj, n \in 0..MaxCount : sys_semaphore_create(t, o, n)
    BY <1>4, CreateStep, BoundAssumption, SMTT(30)
  <1>5. CASE \E o \in Obj : sys_semaphore_up(t, o)
    BY <1>5, SemaphoreUpStep
  <1>6. CASE \E o \in Obj : sys_semaphore_down(t, o)
    BY <1>6, SemaphoreDownStep
  <1>7. CASE \E o \in Obj : sys_condvar_create(t, o)
    BY <1>7, CreateStep, ZenonT(30)
  <1>8. CASE \E o \in Obj : sys_condvar_signal(t, o)
    BY <1>8, CondvarSignalStep
  <1>9. CASE \E c, o \in Obj : sys_condvar_wait(t, c, o)
    BY <1>9, CondvarWaitStep
  <1>10. CASE sys_yield(t)
    BY <1>10, YieldStep, Zenon
  <1>11. CASE \E x \in 0..MaxTime : sys_sleep(t, x)
    BY <1>11, SleepStep, BoundAssumption
  <1>12. CASE \E u \in Task : sys_thread_create(t, u)
    BY <1>12, ThreadCreateStep, Zenon
  <1>13. CASE sys_exit(t)
    BY <1>13, SysExitStep
  <1>14. CASE \E p \in Proc : sys_kill(t, p)
    BY <1>14, KillStep
  <1> QED
    BY <1>1, <1>2, <1>3, <1>4, <1>5, <1>6, <1>7, <1>8, <1>9, <1>10, <1>11, <1>12, <1>13, <1>14, ZenonT(30)
    DEF UserProgram

\* Every step of the kernel keeps the invariant.
LEMMA KernelStep ==
  ASSUME IInv, Kernel
  PROVE  IInv'
  BY DispatchStep, RemoveTaskStep, DropListsStep, ResumeLockStep, ResumeDownStep, TickStep,
     TrapEndStep, ZenonT(30)
  DEF Kernel

\* Every step keeps the invariant, for programs with and without discipline.
LEMMA NextStep ==
  ASSUME IInv, NEW d \in BOOLEAN, NextOf(d) \/ UNCHANGED vars
  PROVE  IInv'
  <1>1. CASE Kernel
    BY <1>1, KernelStep
  <1>2. CASE Interrupt
    BY <1>2, TimerInterruptStep, Zenon DEF Interrupt
  <1>3. CASE AdvanceClock
    BY <1>3, AdvanceClockStep
  <1>4. CASE InitProgram(Main[InitProc])
    <2>1. Main[InitProc] \in Task
      BY ProcAssumption
    <2> QED BY <1>4, <2>1, SysExitStep, YieldStep, Zenon DEF InitProgram
  <1>5. CASE \E t \in Task : UserProgram(t, d)
    BY <1>5, UserProgramStep
  <1>6. CASE UNCHANGED vars
    BY <1>6, StutterStep
  <1> QED BY <1>1, <1>2, <1>3, <1>4, <1>5, <1>6, ZenonT(30) DEF NextOf, Halted

\* Whatever programs run, the variables keep their types and the tasks their
\* places: IInv is inductive.
THEOREM Invariance == Spec => []IInv
  <1>1. IInv /\ [Next]_vars => IInv'
    BY NextStep, ZenonT(30) DEF Next
  <1> QED BY <1>1, InitInvariant, PTL DEF Spec

\* TypeOK for every set of tasks, processes and objects.
THEOREM TypeCorrect == Spec => []TypeOK
  BY Invariance, PTL DEF IInv

\* suspend, wakeup_task, fetch and remove_task keep in the ready queue exactly
\* the tasks that are alive and Ready, each of them once.
THEOREM ReadyQueueTheorem == Spec => []ReadyQueueExact
  <1>1. IInv => ReadyQueueExact
    BY Zenon DEF IInv, Core
  <1> QED BY <1>1, Invariance, PTL

\* A Blocked task of a live process waits in exactly one queue or timer.
THEOREM BlockedTheorem == Spec => []BlockedOnce
  <1>1. IInv => BlockedOnce
    BY ZenonT(30) DEF IInv, Core
  <1> QED BY <1>1, Invariance, PTL

\* No thread of a terminated process, and no thread that exited, is ever run.
THEOREM DeadTheorem == Spec => []DeadNeverRun
  <1>1. IInv => DeadNeverRun
    BY DEF IInv, Core
  <1> QED BY <1>1, Invariance, PTL
=============================================================================
