------------------------------- MODULE TreeProofs -------------------------------
(***************************************************************************)
(* The tree of processes: what MCProcesses checks on a small instance, for *)
(* any number of processes, threads and kernel stacks.                     *)
(***************************************************************************)
EXTENDS ProcessTree, FiniteSetTheorems, WellFoundedInduction, TLAPS

\* A set of numbers that is not empty has a least one.
LEMMA LeastNumber ==
  ASSUME NEW S \in SUBSET Nat, S # {}
  PROVE  \E m \in S : \A k \in S : m <= k
  <1> DEFINE R == {ss \in Nat \X Nat : ss[1] < ss[2]}
  <1>1. R = OpToRel(<, Nat)
    BY DEF OpToRel
  <1>2. IsWellFoundedOn(R, Nat)
    BY <1>1, NatLessThanWellFounded, Zenon
  <1>3. \E m \in S : \A k \in S : ~(<<k, m>> \in R)
    <2> HIDE DEF R
    <2> QED BY <1>2, WFMin, Zenon
  <1>4. \A k, m \in Nat : ~(<<k, m>> \in R) => m <= k
    OBVIOUS
  <1> HIDE DEF R
  <1> QED BY <1>3, <1>4, Zenon

-----------------------------------------------------------------------------
(* The tree of processes *)

\* The types of control blocks.
PCB ==
  [state : {"none", "alive", "zombie"}, killed : BOOLEAN, parent : Pid \cup {None},
   children : Seq(Pid), tasks : Seq(Task \cup {None}), tids : Allocator]

TCB ==
  [state : {"none", "live", "exited", "leaked"}, process : Pid \cup {None},
   tid : Tid \cup {None}, holds : SUBSET {"process", "queue"}]

\* The types; a process that still runs has leaked nothing.
TreeType ==
  /\ pid_allocator \in Allocator /\ kernel_stack_allocator \in Allocator
  /\ pcb \in [Pid -> PCB] /\ tcb \in [Task -> TCB]
  /\ pid2pcb \subseteq Pid /\ leaked \in [Pid -> 0..MaxTask] /\ current \in Task
  /\ panic \in {"no", "thread_count", "index", "strong_count", "borrow"}
  /\ \A p \in Pid : pcb[p].state # "zombie" => leaked[p] = 0

\* An allocator gives out exactly the identifiers in S.
Exact(a, S) == a \in Allocator /\ ~a.failed /\ WellFormed(a) /\ InUse(a) = S

\* The slots of a process in the table f of TCBs: in one that runs, tids are
\* slots; a zombie has one slot, with a thread that has exited.
SlotsOf(p, q, f) ==
  /\ q.state = "alive" => Exact(q.tids, {i - 1 : i \in Filled(q.tasks)})
  /\ q.state # "none" =>
       \A i \in Filled(q.tasks) : /\ f[q.tasks[i]].process = p
                                  /\ f[q.tasks[i]].state \in {"live", "exited"}
  /\ q.state = "alive" => \A i \in Filled(q.tasks) : f[q.tasks[i]].tid = i - 1
  /\ q.state = "zombie" => \A i \in Filled(q.tasks) : i = 1 /\ f[q.tasks[i]].state = "exited"

\* A thread that runs is in its slot; one that has exited holds nothing.
InSlot(k, h, f) ==
  /\ h.state = "live" => /\ h.process \in Pid /\ f[h.process].state = "alive"
                         /\ h.tid + 1 \in Filled(f[h.process].tasks)
                         /\ f[h.process].tasks[h.tid + 1] = k
  /\ h.state = "exited" => h.holds = {}

\* Allocators and tables agree: IdsExact, with where each thread is.
IdsInv ==
  /\ Exact(pid_allocator, Exists)
  /\ Exact(kernel_stack_allocator, {k \in Task : tcb[k].state # "none"})
  /\ pid2pcb = Alive
  /\ \A p \in Pid : SlotsOf(p, pcb[p], tcb)
  /\ \A k \in Task : InSlot(k, tcb[k], pcb)
  /\ tcb[current].state # "none"

\* The processes of a table f but initproc.
Others(f) == {c \in Pid : f[c].state # "none"} \ {INITPROC}

\* The children of p in f are the processes with that parent, each once.
ChildrenOf(f, p) ==
  /\ \A i \in 1..Len(f[p].children) :
       f[p].children[i] \in Others(f) /\ f[f[p].children[i]].parent = p
  /\ \A i, j \in 1..Len(f[p].children) : f[p].children[i] = f[p].children[j] => i = j

\* A process has a parent that runs and lists it.
HasParent(f, c) ==
  /\ f[c].parent \in Pid /\ f[f[c].parent].state = "alive"
  /\ \E i \in 1..Len(f[f[c].parent].children) : f[f[c].parent].children[i] = c

\* No processes are each other's ancestors only: the tree has its root at initproc.
Rooted(f) == \A S \in SUBSET Others(f) : S # {} => \E c \in S : f[c].parent \notin S

\* The processes in table f are a tree whose root is initproc.
Family(f) ==
  /\ \A p \in Pid : ChildrenOf(f, p)
  /\ \A c \in Others(f) : HasParent(f, c)
  /\ Rooted(f)

-----------------------------------------------------------------------------
(* The allocator of identifiers *)

\* Exact, field by field.
LEMMA ExactFields ==
  ASSUME NEW a, NEW S
  PROVE  Exact(a, S) <=>
           /\ a \in Allocator /\ ~a.failed
           /\ \A i \in 1..Len(a.recycled) : a.recycled[i] \in 0..(a.current - 1)
           /\ \A i, j \in 1..Len(a.recycled) : a.recycled[i] = a.recycled[j] => i = j
           /\ \A x : x \in S <=> /\ x \in 0..(a.current - 1)
                                 /\ \A i \in 1..Len(a.recycled) : a.recycled[i] # x
  <1>1. WellFormed(a) <=>
           /\ \A i \in 1..Len(a.recycled) : a.recycled[i] \in 0..(a.current - 1)
           /\ \A i, j \in 1..Len(a.recycled) : a.recycled[i] = a.recycled[j] => i = j
    BY Zenon DEF WellFormed, Elements
  <1>2. InUse(a) = S <=> \A x : x \in S <=> /\ x \in 0..(a.current - 1)
                                            /\ \A i \in 1..Len(a.recycled) : a.recycled[i] # x
    BY Zenon DEF InUse, Elements
  <1> QED BY <1>1, <1>2, Zenon DEF Exact

\* alloc gives out an identifier that was not in use.
LEMMA AllocExact ==
  ASSUME NEW a, NEW S, Exact(a, S)
  PROVE  NextId(a) \in Nat /\ NextId(a) \notin S /\ Exact(alloc(a), S \cup {NextId(a)})
  <1>1. /\ a \in Allocator /\ ~a.failed
        /\ \A i \in 1..Len(a.recycled) : a.recycled[i] \in 0..(a.current - 1)
        /\ \A i, j \in 1..Len(a.recycled) : a.recycled[i] = a.recycled[j] => i = j
        /\ \A x : x \in S <=> /\ x \in 0..(a.current - 1)
                              /\ \A i \in 1..Len(a.recycled) : a.recycled[i] # x
    BY ExactFields, Zenon
  <1> DEFINE b == alloc(a)
  <1>2. CASE a.recycled = <<>>
    <2>1. b = [a EXCEPT !.current = a.current + 1] /\ NextId(a) = a.current
      BY <1>2 DEF alloc, NextId
    <2>2. b \in Allocator /\ b.current = a.current + 1 /\ b.recycled = <<>> /\ ~b.failed /\ a.current \in Nat
      BY <1>1, <1>2, <2>1 DEF Allocator
    <2>3. \A x : x \in S <=> x \in 0..(a.current - 1)
      BY <1>1, <1>2
    <2>4. \A x : x \in S \cup {a.current} <=> x \in 0..(b.current - 1)
      BY <2>2, <2>3
    <2> HIDE DEF b
    <2>5. Exact(b, S \cup {a.current})
      BY <2>2, <2>4, ExactFields
    <2> QED BY <2>1, <2>2, <2>3, <2>5 DEF b
  <1>3. CASE a.recycled # <<>>
    <2> DEFINE n == Len(a.recycled)
    <2>0. a.recycled \in Seq(Nat) /\ n \in Nat \ {0} /\ a.current \in Nat
      BY <1>1, <1>3 DEF Allocator
    <2>1. b = [a EXCEPT !.recycled = SubSeq(a.recycled, 1, n - 1)] /\ NextId(a) = a.recycled[n]
      BY <1>3 DEF alloc, NextId
    <2>2. /\ SubSeq(a.recycled, 1, n - 1) \in Seq(Nat) /\ Len(SubSeq(a.recycled, 1, n - 1)) = n - 1
          /\ \A i \in 1..(n - 1) : SubSeq(a.recycled, 1, n - 1)[i] = a.recycled[i]
      BY <2>0
    <2>3. b \in Allocator /\ b.current = a.current /\ ~b.failed /\ b.recycled = SubSeq(a.recycled, 1, n - 1)
      BY <1>1, <2>1, <2>2, Zenon DEF Allocator
    <2>4. Len(b.recycled) = n - 1 /\ \A i \in 1..(n - 1) : b.recycled[i] = a.recycled[i]
      BY <2>2, <2>3
    <2>5. a.recycled[n] \in 0..(a.current - 1) /\ a.recycled[n] \notin S /\ n \in 1..n
      BY <1>1, <2>0
    <2>6. \A i \in 1..n : i = n \/ i \in 1..(n - 1)
      BY <2>0
    <2>7. \A i \in 1..(n - 1) : i \in 1..n /\ i # n
      BY <2>0
    <2> HIDE DEF b
    <2>8. /\ \A i \in 1..(n - 1) : b.recycled[i] \in 0..(b.current - 1)
          /\ \A i, j \in 1..(n - 1) : b.recycled[i] = b.recycled[j] => i = j
      BY <1>1, <2>3, <2>4, <2>7, Zenon
    <2>9. \A x : x \in S \cup {a.recycled[n]} <=>
                   x \in 0..(a.current - 1) /\ \A i \in 1..(n - 1) : b.recycled[i] # x
      BY <1>1, <2>4, <2>5, <2>6, <2>7, Zenon
    <2>10. Exact(b, S \cup {a.recycled[n]})
      BY <2>3, <2>4, <2>8, <2>9, ExactFields, Zenon
    <2> QED BY <2>1, <2>5, <2>10 DEF b
  <1> QED BY <1>2, <1>3

\* What dealloc_each pushes was in use and is not any more.
LEMMA DeallocEachExact ==
  ASSUME NEW a, NEW S, Exact(a, S), NEW q \in Seq(S),
         \A i, j \in 1..Len(q) : q[i] = q[j] => i = j
  PROVE  Exact(dealloc_each(a, q), S \ Elements(q))
  <1>1. /\ a \in Allocator /\ ~a.failed
        /\ \A i \in 1..Len(a.recycled) : a.recycled[i] \in 0..(a.current - 1)
        /\ \A i, j \in 1..Len(a.recycled) : a.recycled[i] = a.recycled[j] => i = j
        /\ \A x : x \in S <=> /\ x \in 0..(a.current - 1)
                              /\ \A i \in 1..Len(a.recycled) : a.recycled[i] # x
    BY ExactFields, Zenon
  <1> DEFINE n == Len(a.recycled)
             m == Len(q)
             r == a.recycled \o q
             b == dealloc_each(a, q)
  <1>2. /\ n \in Nat /\ m \in Nat /\ a.recycled \in Seq(Nat) /\ a.current \in Nat
        /\ \A i \in 1..m : q[i] \in S
    BY <1>1 DEF Allocator
  <1>3. \A i \in 1..m : q[i] \in Nat
    BY <1>1, <1>2
  <1>4. q \in Seq(Nat)
    BY <1>3
  <1>5. r \in Seq(Nat) /\ Len(r) = n + m
    BY <1>2, <1>4
  <1>6. /\ \A i \in 1..n : r[i] = a.recycled[i]
        /\ \A i \in 1..m : r[n + i] = q[i]
    BY <1>2, <1>4
  <1>7. \A i \in 1..(n + m) : i \in 1..n \/ \E k \in 1..m : i = n + k
    <2>1. \A i \in 1..(n + m) : i \in 1..n \/ (i - n \in 1..m /\ i = n + (i - n))
      BY <1>2
    <2> QED BY <2>1, Zenon
  <1>8. \A i \in 1..n : i \in 1..(n + m)
    BY <1>2
  <1>9. \A i \in 1..m : n + i \in 1..(n + m)
    BY <1>2
  <1>10. Elements(q) \subseteq InUse(a)
    BY <1>2, Zenon DEF Elements, Exact
  <1>11. b = [a EXCEPT !.recycled = r]
    BY <1>10 DEF dealloc_each
  <1>12. b \in Allocator /\ b.recycled = r /\ b.current = a.current /\ ~b.failed
    BY <1>1, <1>5, <1>11, Zenon DEF Allocator
  <1> HIDE DEF b, r
  <1>13. \A i \in 1..(n + m) : r[i] \in 0..(a.current - 1)
    <2>1. SUFFICES ASSUME NEW i \in 1..(n + m) PROVE r[i] \in 0..(a.current - 1)
      OBVIOUS
    <2>2. CASE i \in 1..n
      BY <1>1, <1>6, <2>2, Zenon
    <2>3. CASE \E k \in 1..m : i = n + k
      <3>1. PICK k \in 1..m : i = n + k
        BY <2>3, Zenon
      <3>2. r[i] = q[k] /\ q[k] \in S
        BY <1>2, <1>6, <3>1
      <3> QED BY <1>1, <3>2, Zenon
    <2> QED BY <1>7, <2>2, <2>3, Zenon
  <1>14. \A i \in 1..n, j \in 1..m : r[i] # r[n + j]
    BY <1>1, <1>2, <1>6, Zenon
  <1>15. \A i, j \in 1..(n + m) : r[i] = r[j] => i = j
    <2>1. SUFFICES ASSUME NEW i \in 1..(n + m), NEW j \in 1..(n + m), r[i] = r[j] PROVE i = j
      BY Zenon
    <2>2. CASE i \in 1..n /\ j \in 1..n
      BY <1>1, <1>6, <2>1, <2>2, Zenon
    <2>3. CASE i \in 1..n /\ \E k \in 1..m : j = n + k
      BY <1>14, <2>1, <2>3, Zenon
    <2>4. CASE j \in 1..n /\ \E k \in 1..m : i = n + k
      BY <1>14, <2>1, <2>4, Zenon
    <2>5. CASE (\E k \in 1..m : i = n + k) /\ \E k \in 1..m : j = n + k
      <3>1. PICK k \in 1..m : i = n + k
        BY <2>5, Zenon
      <3>2. PICK l \in 1..m : j = n + l
        BY <2>5, Zenon
      <3>3. q[k] = q[l]
        BY <1>6, <2>1, <3>1, <3>2
      <3>4. k = l
        BY <3>3, Zenon
      <3> QED BY <3>1, <3>2, <3>4
    <2> QED BY <1>7, <2>2, <2>3, <2>4, <2>5, Zenon
  <1>16. \A x : x \in S \ Elements(q) <=>
                  x \in 0..(a.current - 1) /\ \A i \in 1..(n + m) : r[i] # x
    <2>1. \A x : x \in Elements(q) <=> \E i \in 1..m : q[i] = x
      BY Zenon DEF Elements
    <2>2. \A x : (\A i \in 1..(n + m) : r[i] # x)
                   <=> (\A i \in 1..n : a.recycled[i] # x) /\ (\A i \in 1..m : q[i] # x)
      <3>1. SUFFICES ASSUME NEW x
                     PROVE  (\A i \in 1..(n + m) : r[i] # x)
                              <=> (\A i \in 1..n : a.recycled[i] # x) /\ (\A i \in 1..m : q[i] # x)
        BY Zenon
      <3>2. ASSUME \A i \in 1..(n + m) : r[i] # x
            PROVE  (\A i \in 1..n : a.recycled[i] # x) /\ (\A i \in 1..m : q[i] # x)
        <4>1. \A i \in 1..n : a.recycled[i] # x
          BY <1>6, <1>8, <3>2, Zenon
        <4>2. \A i \in 1..m : r[n + i] # x
          BY <1>9, <3>2
        <4> QED BY <1>6, <4>1, <4>2, Zenon
      <3>3. ASSUME \A i \in 1..n : a.recycled[i] # x, \A i \in 1..m : q[i] # x, NEW i \in 1..(n + m)
            PROVE  r[i] # x
        <4>1. CASE i \in 1..n
          BY <1>6, <3>3, <4>1, Zenon
        <4>2. CASE \E k \in 1..m : i = n + k
          BY <1>6, <3>3, <4>2
        <4> QED BY <1>7, <4>1, <4>2, Zenon
      <3> QED BY <3>2, <3>3, Zenon
    <2> QED BY <1>1, <2>1, <2>2, Zenon
  <1> QED BY <1>5, <1>12, <1>13, <1>15, <1>16, ExactFields, Zenon DEF b

\* So does dealloc.
LEMMA DeallocExact ==
  ASSUME NEW a, NEW S, Exact(a, S), NEW x \in S
  PROVE  Exact(dealloc(a, x), S \ {x})
  <1> DEFINE q == <<x>>
  <1>1. q \in Seq(S) /\ Len(q) = 1 /\ q[1] = x
    OBVIOUS
  <1>2. \A i, j \in 1..Len(q) : q[i] = q[j] => i = j
    BY <1>1
  <1>3. Elements(q) = {x}
    BY <1>1 DEF Elements
  <1>4. Exact(dealloc_each(a, q), S \ {x})
    <2> HIDE DEF q
    <2>1. Exact(dealloc_each(a, q), S \ Elements(q))
      BY <1>1, <1>2, DeallocEachExact, Zenon
    <2> QED BY <1>3, <2>1
  <1>5. /\ a \in Allocator /\ x \in 0..(a.current - 1) /\ x \notin Elements(a.recycled)
        /\ InUse(a) = S
    BY Zenon DEF Exact, InUse
  <1>6. x < a.current
    BY <1>5 DEF Allocator
  <1>7. dealloc(a, x) = [a EXCEPT !.recycled = Append(a.recycled, x)]
    BY <1>5, <1>6 DEF dealloc
  <1>8. dealloc_each(a, q) = [a EXCEPT !.recycled = a.recycled \o q]
    BY <1>2, <1>3, <1>5 DEF dealloc_each
  <1>9. a.recycled \o q = Append(a.recycled, x)
    <2>1. a.recycled \in Seq(Nat) /\ x \in Nat
      BY <1>5 DEF Allocator
    <2> QED BY <2>1
  <1> QED BY <1>4, <1>7, <1>8, <1>9, Zenon

-----------------------------------------------------------------------------
(* Steps of the tree: what they share *)

\* The inductive invariant of ProcessTree.
TreeInv == TreeType /\ IdsInv /\ Family(pcb) /\ panic # "borrow"

\* What is shown of every step.
TreeKeeps == TreeInv' /\ [Tree!Next]_Tree!vars

\* The bounds leave room for initproc, and None is no identifier.
LEMMA Names ==
  /\ INITPROC \in Pid /\ 0 \in Task /\ 0 \in Tid
  /\ None \notin Pid /\ None \notin Task /\ None \notin Tid
  /\ Pid \subseteq Nat /\ Task \subseteq Nat /\ Tid \subseteq Nat
  BY ProcessTreeAssumption DEF Pid, Task, Tid, None, INITPROC

\* Records.
LEMMA PcbFields ==
  ASSUME NEW q \in PCB
  PROVE  /\ q.state \in {"none", "alive", "zombie"} /\ q.killed \in BOOLEAN
         /\ q.parent \in Pid \cup {None} /\ q.children \in Seq(Pid)
         /\ q.tasks \in Seq(Task \cup {None}) /\ q.tids \in Allocator
  BY DEF PCB

\* The fields of a TCB have their types.
LEMMA TcbFields ==
  ASSUME NEW h \in TCB
  PROVE  /\ h.state \in {"none", "live", "exited", "leaked"} /\ h.process \in Pid \cup {None}
         /\ h.tid \in Tid \cup {None} /\ h.holds \in SUBSET {"process", "queue"}
  BY DEF TCB

\* A slot that is filled names a thread.
LEMMA FilledTask ==
  ASSUME NEW q \in PCB, NEW i \in Filled(q.tasks)
  PROVE  q.tasks[i] \in Task /\ i \in Nat \ {0} /\ i \in 1..Len(q.tasks)
  BY PcbFields DEF Filled

\* The thread that enters the kernel is in the slot of its tid, of a process
\* that runs.
LEMMA RunsFacts ==
  ASSUME TreeInv, NEW k \in Task, tcb[k].state = "live"
  PROVE  /\ Process(k) \in Pid /\ pcb[Process(k)].state = "alive" /\ pcb[Process(k)] \in PCB
         /\ tcb[k] \in TCB /\ tcb[k].tid \in Tid
         /\ tcb[k].tid + 1 \in Filled(pcb[Process(k)].tasks)
         /\ pcb[Process(k)].tasks[tcb[k].tid + 1] = k
  <1>1. InSlot(k, tcb[k], pcb) /\ tcb[k] \in TCB /\ pcb \in [Pid -> PCB]
    BY Zenon DEF TreeInv, IdsInv, TreeType
  <1>2. /\ Process(k) \in Pid /\ pcb[Process(k)].state = "alive"
        /\ tcb[k].tid + 1 \in Filled(pcb[Process(k)].tasks)
        /\ pcb[Process(k)].tasks[tcb[k].tid + 1] = k
    BY <1>1, Zenon DEF InSlot, Process
  <1>3. tcb[k].tid \in Tid
    <2>1. tcb[k].tid + 1 \in Nat \ {0} /\ tcb[k].tid \in Tid \cup {None}
      BY <1>1, <1>2, FilledTask, TcbFields, Zenon
    <2>2. tcb[k].tid # None
      BY <2>1 DEF None
    <2> QED BY <2>1, <2>2, Zenon
  <1> QED BY <1>1, <1>2, <1>3, Zenon

\* The slots of a process depend on the threads in them only.
LEMMA SlotsSame ==
  ASSUME NEW p, NEW q, NEW r, NEW f, NEW g, SlotsOf(p, q, f),
         r.state = q.state, r.tasks = q.tasks, r.tids = q.tids,
         \A i \in Filled(q.tasks) : /\ g[q.tasks[i]].process = f[q.tasks[i]].process
                                    /\ g[q.tasks[i]].state = f[q.tasks[i]].state
                                    /\ g[q.tasks[i]].tid = f[q.tasks[i]].tid
  PROVE  SlotsOf(p, r, g)
  BY ZenonT(30) DEF SlotsOf

\* Where a thread is depends on the state and the tasks of its process only.
LEMMA InSlotSame ==
  ASSUME NEW k, NEW h, NEW f, NEW g, InSlot(k, h, f),
         h.state = "live" => /\ g[h.process].state = f[h.process].state
                             /\ g[h.process].tasks = f[h.process].tasks
  PROVE  InSlot(k, h, g)
  BY Zenon DEF InSlot

\* The family depends on states, parents and children only.
LEMMA FamilySame ==
  ASSUME NEW f, NEW g, Family(f),
         \A p \in Pid : /\ g[p].state = f[p].state /\ g[p].parent = f[p].parent
                        /\ g[p].children = f[p].children
  PROVE  Family(g)
  <1>1. Others(g) = Others(f)
    BY Zenon DEF Others
  <1>2. \A p \in Pid : ChildrenOf(g, p)
    <2>1. SUFFICES ASSUME NEW p \in Pid PROVE ChildrenOf(g, p)
      OBVIOUS
    <2>2. ChildrenOf(f, p) /\ g[p].children = f[p].children
      BY Zenon DEF Family
    <2>3. \A i \in 1..Len(f[p].children) : g[f[p].children[i]].parent = f[f[p].children[i]].parent
      BY <2>2, Zenon DEF ChildrenOf, Others
    <2> QED BY <1>1, <2>2, <2>3, Zenon DEF ChildrenOf
  <1>3. \A c \in Others(g) : HasParent(g, c)
    <2>1. SUFFICES ASSUME NEW c \in Others(g) PROVE HasParent(g, c)
      OBVIOUS
    <2>2. HasParent(f, c) /\ c \in Pid
      BY <1>1, Zenon DEF Family, Others
    <2>3. PICK p \in Pid : p = f[c].parent
      BY <2>2, Zenon DEF HasParent
    <2>4. /\ g[c].parent = p /\ g[p].state = "alive" /\ g[p].children = f[p].children
          /\ \E i \in 1..Len(f[p].children) : f[p].children[i] = c
      BY <2>2, <2>3, Zenon DEF HasParent
    <2> QED BY <2>4, Zenon DEF HasParent
  <1>4. Rooted(g)
    BY <1>1, Zenon DEF Family, Rooted, Others
  <1> QED BY <1>2, <1>3, <1>4, Zenon DEF Family

\* The parent that the children name is the field parent.
Mapped(f) ==
  [c \in Pid |-> IF c \in Others(f) THEN f[c].parent ELSE None]

\* The process in table f that has c among its children.
ParentIn(f, c) ==
  LET P == {p \in Pid : c \in Elements(f[p].children)}
  IN IF P = {} THEN None ELSE CHOOSE p \in P : TRUE

\* In a tree that process is the parent the child names.
LEMMA ParentMapped ==
  ASSUME NEW f \in [Pid -> PCB], Family(f), NEW c \in Pid
  PROVE  ParentIn(f, c) = IF c \in Others(f) THEN f[c].parent ELSE None
  <1>1. \A p \in Pid : c \in Elements(f[p].children) <=> \E i \in 1..Len(f[p].children) : f[p].children[i] = c
    BY Zenon DEF Elements
  <1>2. \A p \in Pid : c \in Elements(f[p].children) => c \in Others(f) /\ p = f[c].parent
    <2>1. SUFFICES ASSUME NEW p \in Pid, c \in Elements(f[p].children)
                   PROVE  c \in Others(f) /\ p = f[c].parent
      OBVIOUS
    <2>2. PICK i \in 1..Len(f[p].children) : f[p].children[i] = c
      BY <1>1, <2>1, Zenon
    <2>3. ChildrenOf(f, p)
      BY Zenon DEF Family
    <2> QED BY <2>2, <2>3 DEF ChildrenOf
  <1>3. c \in Others(f) => f[c].parent \in Pid /\ c \in Elements(f[f[c].parent].children)
    BY <1>1, Zenon DEF Family, HasParent
  <1> DEFINE P == {p \in Pid : c \in Elements(f[p].children)}
  <1>4. c \in Others(f) => P = {f[c].parent}
    BY <1>2, <1>3, Zenon
  <1>5. c \notin Others(f) => P = {}
    BY <1>2, Zenon
  <1>6. ParentIn(f, c) = IF P = {} THEN None ELSE CHOOSE p \in P : TRUE
    BY DEF ParentIn
  <1> HIDE DEF P
  <1> QED BY <1>4, <1>5, <1>6

\* So the parents FamilyTree is shown are those the children name,
LEMMA ViewMapped ==
  ASSUME NEW f \in [Pid -> PCB], Family(f)
  PROVE  [c \in Pid |-> ParentIn(f, c)] = Mapped(f)
  BY ParentMapped, Zenon DEF Mapped

\* before a step
LEMMA ViewNow ==
  ASSUME TreeInv
  PROVE  [c \in Pid |-> ParentOf(c)] = Mapped(pcb)
  <1>1. \A c \in Pid : ParentOf(c) = ParentIn(pcb, c)
    BY DEF ParentOf, ParentIn
  <1>2. [c \in Pid |-> ParentIn(pcb, c)] = Mapped(pcb)
    BY ViewMapped, Zenon DEF TreeInv, TreeType
  <1> QED BY <1>1, <1>2, Zenon

\* and after it.
LEMMA ViewNext ==
  ASSUME TreeInv'
  PROVE  [c \in Pid |-> ParentOf(c)]' = Mapped(pcb')
  <1>1. \A c \in Pid : ParentOf(c)' = ParentIn(pcb', c)
    BY DEF ParentOf, ParentIn
  <1>2. [c \in Pid |-> ParentIn(pcb', c)] = Mapped(pcb')
    BY ViewMapped, Zenon DEF TreeInv, TreeType
  <1> QED BY <1>1, <1>2, Zenon

\* The tree that FamilyTree describes depends on states and parents only.
LEMMA TreeStutters ==
  ASSUME TreeInv, TreeInv',
         \A p \in Pid : pcb'[p].state = pcb[p].state /\ pcb'[p].parent = pcb[p].parent
  PROVE  UNCHANGED Tree!vars
  <1>1. Others(pcb') = Others(pcb) /\ Alive' = Alive /\ Exists' = Exists
    BY Zenon DEF Others, Alive, Exists
  <1>2. Mapped(pcb') = Mapped(pcb)
    BY <1>1, Zenon DEF Mapped, Others
  <1>3. [c \in Pid |-> ParentOf(c)]' = [c \in Pid |-> ParentOf(c)]
    BY <1>2, ViewNow, ViewNext, Zenon
  <1> QED BY <1>1, <1>3 DEF Tree!vars

-----------------------------------------------------------------------------
(* Steps that change one thread, or the mark of a process *)

\* A step of thread k that moves no identifier: k may wait, go on or exit, and
\* its process may be marked.
LEMMA LightStep ==
  ASSUME TreeInv, NEW k \in Task, tcb[k].state = "live", current' = k,
         UNCHANGED <<pid_allocator, kernel_stack_allocator, pid2pcb, leaked>>,
         panic' \in {"no", "thread_count", "index", "strong_count"},
         pcb' \in [Pid -> PCB],
         \A p \in Pid : /\ pcb'[p].state = pcb[p].state /\ pcb'[p].parent = pcb[p].parent
                        /\ pcb'[p].children = pcb[p].children /\ pcb'[p].tasks = pcb[p].tasks
                        /\ pcb'[p].tids = pcb[p].tids,
         tcb' \in [Task -> TCB],
         \A t \in Task \ {k} : tcb'[t] = tcb[t],
         tcb'[k].process = tcb[k].process, tcb'[k].tid = tcb[k].tid,
         tcb'[k].state = "live" \/ (tcb'[k].state = "exited" /\ tcb'[k].holds = {})
  PROVE  TreeKeeps
  <1>0. /\ pid_allocator' = pid_allocator /\ kernel_stack_allocator' = kernel_stack_allocator
        /\ pid2pcb' = pid2pcb /\ leaked' = leaked
    OBVIOUS
  <1>1. TreeType'
    BY <1>0, Zenon DEF TreeInv, TreeType
  <1>2. Exists' = Exists /\ Alive' = Alive
    BY Zenon DEF Exists, Alive
  <1>3. \A t \in Task : tcb'[t].state # "none" <=> tcb[t].state # "none"
    BY Zenon
  <1>4. \A p \in Pid : SlotsOf(p, pcb'[p], tcb')
    <2>1. SUFFICES ASSUME NEW p \in Pid PROVE SlotsOf(p, pcb'[p], tcb')
      OBVIOUS
    <2>2. SlotsOf(p, pcb[p], tcb) /\ pcb[p] \in PCB
      BY Zenon DEF TreeInv, IdsInv, TreeType
    <2>3. \A i \in Filled(pcb[p].tasks) : pcb[p].tasks[i] \in Task
      BY <2>2, FilledTask, Zenon
    <2>4. CASE \A i \in Filled(pcb[p].tasks) : pcb[p].tasks[i] # k
      <3>1. \A i \in Filled(pcb[p].tasks) : tcb'[pcb[p].tasks[i]] = tcb[pcb[p].tasks[i]]
        BY <2>3, <2>4, Zenon
      <3>2. \A i \in Filled(pcb[p].tasks) :
              /\ tcb'[pcb[p].tasks[i]].process = tcb[pcb[p].tasks[i]].process
              /\ tcb'[pcb[p].tasks[i]].state = tcb[pcb[p].tasks[i]].state
              /\ tcb'[pcb[p].tasks[i]].tid = tcb[pcb[p].tasks[i]].tid
        BY <3>1, Zenon
      <3>3. /\ pcb'[p].state = pcb[p].state /\ pcb'[p].tasks = pcb[p].tasks
            /\ pcb'[p].tids = pcb[p].tids
        OBVIOUS
      <3> QED BY <2>2, <3>2, <3>3, SlotsSame, Zenon
    <2>5. CASE pcb[p].state = "none"
      BY <2>5, Zenon DEF SlotsOf
    <2>6. CASE pcb[p].state # "none" /\ \E i \in Filled(pcb[p].tasks) : pcb[p].tasks[i] = k
      <3>1. p = tcb[k].process
        BY <2>2, <2>6, Zenon DEF SlotsOf
      <3>2. pcb[p].state = "alive"
        BY <3>1, RunsFacts, Zenon DEF Process
      <3>3. \A t \in Task : tcb[t].state \in {"live", "exited"} => tcb'[t].state \in {"live", "exited"}
        BY Zenon
      <3>4. \A t \in Task : tcb'[t].process = tcb[t].process /\ tcb'[t].tid = tcb[t].tid
        BY Zenon
      <3>5. \A i \in Filled(pcb[p].tasks) :
              /\ tcb'[pcb[p].tasks[i]].process = p
              /\ tcb'[pcb[p].tasks[i]].state \in {"live", "exited"}
              /\ tcb'[pcb[p].tasks[i]].tid = i - 1
        BY <2>2, <2>3, <3>2, <3>3, <3>4, ZenonT(30) DEF SlotsOf
      <3>6. /\ pcb'[p].state = "alive" /\ pcb'[p].tasks = pcb[p].tasks
            /\ pcb'[p].tids = pcb[p].tids
            /\ Exact(pcb[p].tids, {i - 1 : i \in Filled(pcb[p].tasks)})
        BY <2>2, <3>2, Zenon DEF SlotsOf
      <3>7. pcb'[p].state # "zombie" /\ pcb'[p].state # "none"
        BY <3>6
      <3> QED BY <3>5, <3>6, <3>7, Zenon DEF SlotsOf
    <2> QED BY <2>4, <2>5, <2>6, Zenon
  <1>5. \A t \in Task : InSlot(t, tcb'[t], pcb')
    <2>1. SUFFICES ASSUME NEW t \in Task PROVE InSlot(t, tcb'[t], pcb')
      OBVIOUS
    <2>2. InSlot(t, tcb[t], pcb)
      BY Zenon DEF TreeInv, IdsInv
    <2>3. InSlot(t, tcb[t], pcb')
      BY <2>2, InSlotSame, Zenon DEF InSlot
    <2>4. CASE t # k
      BY <2>3, <2>4, Zenon
    <2>5. CASE t = k
      BY <2>3, <2>5 DEF InSlot
    <2> QED BY <2>4, <2>5
  <1>6. {t \in Task : tcb'[t].state # "none"} = {t \in Task : tcb[t].state # "none"}
    BY <1>3, Zenon
  <1>7. tcb'[current'].state # "none"
    OBVIOUS
  <1>8. IdsInv'
    BY <1>0, <1>2, <1>4, <1>5, <1>6, <1>7, Zenon DEF TreeInv, IdsInv
  <1>9. Family(pcb)'
    BY FamilySame, Zenon DEF TreeInv
  <1>10. TreeInv' 
    BY <1>1, <1>8, <1>9 DEF TreeInv
  <1> QED BY <1>10, TreeStutters, Zenon DEF TreeKeeps

\* System calls that return at once, and assertions that fail.
LEMMA IdleKeeps ==
  ASSUME TreeInv, NEW k \in Task, tcb[k].state = "live", current' = k,
         UNCHANGED <<allocators, pcb, tcb, pid2pcb, leaked>>,
         panic' \in {"no", "thread_count", "index", "strong_count"}
  PROVE  TreeKeeps
  <1>1. /\ UNCHANGED <<pid_allocator, kernel_stack_allocator, pid2pcb, leaked>>
        /\ pcb' = pcb /\ tcb' = tcb
    BY DEF allocators
  <1>2. pcb' \in [Pid -> PCB] /\ tcb' \in [Task -> TCB]
    BY <1>1, Zenon DEF TreeInv, TreeType
  <1> QED BY <1>1, <1>2, LightStep, Zenon

\* A thread that takes or drops references on its kernel stack keeps all.
LEMMA HoldsKeeps ==
  ASSUME TreeInv, NEW k \in Task, NEW h \in SUBSET {"process", "queue"},
         tcb[k].state = "live", current' = k, tcb' = [tcb EXCEPT ![k].holds = h],
         UNCHANGED <<allocators, pcb, pid2pcb, leaked, panic>>, panic = "no"
  PROVE  TreeKeeps
  <1>1. /\ UNCHANGED <<pid_allocator, kernel_stack_allocator, pid2pcb, leaked>>
        /\ pcb' = pcb /\ panic' = "no"
    BY DEF allocators
  <1>2. pcb' \in [Pid -> PCB] /\ tcb \in [Task -> TCB]
    BY <1>1, Zenon DEF TreeInv, TreeType
  <1>3. /\ tcb' \in [Task -> TCB] /\ \A t \in Task \ {k} : tcb'[t] = tcb[t]
        /\ tcb'[k].process = tcb[k].process /\ tcb'[k].tid = tcb[k].tid /\ tcb'[k].state = "live"
    BY <1>2 DEF TCB
  <1> QED BY <1>1, <1>2, <1>3, LightStep, Zenon

\* A system call that waits keeps the invariant and is invisible.
LEMMA WaitKeeps ==
  ASSUME TreeInv, NEW k \in Task, NEW h \in Holds, Wait(k, h)
  PROVE  TreeKeeps
  <1>1. h \in SUBSET {"process", "queue"}
    BY ProcessTreeAssumption, Zenon
  <1> QED BY <1>1, HoldsKeeps, Zenon DEF Wait, Runs

\* So does one that goes on,
LEMMA ResumeKeeps ==
  ASSUME TreeInv, NEW k \in Task, Resume(k)
  PROVE  TreeKeeps
  <1>1. {} \in SUBSET {"process", "queue"}
    OBVIOUS
  <1> QED BY <1>1, HoldsKeeps, Zenon DEF Resume

\* the exit of a thread whose process goes on,
LEMMA ExitThreadKeeps ==
  ASSUME TreeInv, NEW k \in Task, ExitThread(k)
  PROVE  TreeKeeps
  <1>1. /\ UNCHANGED <<pid_allocator, kernel_stack_allocator, pid2pcb, leaked>>
        /\ pcb' = pcb /\ panic' = "no" /\ current' = k
        /\ tcb[k].state = "live" /\ tcb[k].holds = {}
        /\ tcb' = [tcb EXCEPT ![k].state = "exited"]
    BY DEF ExitThread, Runs, allocators
  <1>2. pcb' \in [Pid -> PCB] /\ tcb \in [Task -> TCB]
    BY <1>1, Zenon DEF TreeInv, TreeType
  <1>3. /\ tcb' \in [Task -> TCB] /\ \A t \in Task \ {k} : tcb'[t] = tcb[t]
        /\ tcb'[k].process = tcb[k].process /\ tcb'[k].tid = tcb[k].tid
        /\ tcb'[k].state = "exited" /\ tcb'[k].holds = {}
    BY <1>1, <1>2 DEF TCB
  <1> QED BY <1>1, <1>2, <1>3, LightStep, Zenon

\* and the mark of a killed process.
LEMMA SetKilledKeeps ==
  ASSUME TreeInv, NEW k \in Task, SetKilled(k)
  PROVE  TreeKeeps
  <1>1. /\ UNCHANGED <<pid_allocator, kernel_stack_allocator, pid2pcb, leaked>>
        /\ tcb' = tcb /\ panic' = "no" /\ current' = k
        /\ tcb[k].state = "live"
        /\ pcb' = [pcb EXCEPT ![Process(k)].killed = TRUE]
    BY DEF SetKilled, Runs, allocators
  <1>2. pcb \in [Pid -> PCB] /\ tcb' \in [Task -> TCB]
    BY <1>1, Zenon DEF TreeInv, TreeType
  <1>3. /\ pcb' \in [Pid -> PCB]
        /\ \A p \in Pid : /\ pcb'[p].state = pcb[p].state /\ pcb'[p].parent = pcb[p].parent
                          /\ pcb'[p].children = pcb[p].children /\ pcb'[p].tasks = pcb[p].tasks
                          /\ pcb'[p].tids = pcb[p].tids
    BY <1>1, <1>2, ZenonT(30) DEF PCB
  <1> QED BY <1>1, <1>2, <1>3, LightStep, Zenon

\* Nothing happens at all.
LEMMA StutterKeeps ==
  ASSUME TreeInv, UNCHANGED vars
  PROVE  TreeKeeps
  <1>1. /\ pid_allocator' = pid_allocator /\ kernel_stack_allocator' = kernel_stack_allocator
        /\ pcb' = pcb /\ tcb' = tcb /\ pid2pcb' = pid2pcb /\ leaked' = leaked
        /\ current' = current /\ panic' = panic
    BY DEF vars, allocators
  <1>2. TreeInv'
    BY <1>1, Zenon DEF TreeInv, TreeType, IdsInv, Exists, Alive
  <1> QED BY <1>1, <1>2, TreeStutters, Zenon DEF TreeKeeps

-----------------------------------------------------------------------------
(* thread_create *)

\* The slots after thread_create.
LEMMA PlacedSlots ==
  ASSUME NEW s \in Seq(Task \cup {None}), NEW tid \in Tid, NEW n \in Task
  PROVE  /\ Placed(s, tid, n) \in Seq(Task \cup {None})
         /\ Filled(Placed(s, tid, n)) = Filled(s) \cup {tid + 1}
         /\ Placed(s, tid, n)[tid + 1] = n
         /\ \A i \in Filled(s) : i # tid + 1 => Placed(s, tid, n)[i] = s[i]
  <1> DEFINE m == IF tid < Len(s) THEN Len(s) ELSE tid + 1
             r == Placed(s, tid, n)
  <1>0. tid \in Nat /\ n # None /\ Len(s) \in Nat
    BY Names
  <1>1. m \in Nat /\ tid + 1 \in 1..m /\ \A i \in 1..Len(s) : i \in 1..m
    BY <1>0
  <1>2. r = [i \in 1..m |-> IF i = tid + 1 THEN n ELSE IF i <= Len(s) THEN s[i] ELSE None]
    BY DEF Placed
  <1> HIDE DEF m
  <1>3. \A i \in 1..m : r[i] \in Task \cup {None}
    BY <1>0, <1>2
  <1>4. r \in Seq(Task \cup {None}) /\ Len(r) = m
    BY <1>1, <1>2, <1>3
  <1>5. r[tid + 1] = n
    BY <1>1, <1>2
  <1>6. \A i \in 1..Len(s) : i # tid + 1 => r[i] = s[i]
    BY <1>0, <1>1, <1>2
  <1>7. \A i \in 1..m : i \notin 1..Len(s) /\ i # tid + 1 => r[i] = None
    BY <1>0, <1>1, <1>2
  <1> HIDE DEF r
  <1>8. Filled(r) = Filled(s) \cup {tid + 1}
    BY <1>0, <1>1, <1>4, <1>5, <1>6, <1>7, Zenon DEF Filled
  <1> QED BY <1>4, <1>5, <1>6, <1>8, Zenon DEF r, Filled

\* The control block of a new thread.
LEMMA NewTaskIs ==
  ASSUME NEW p \in Pid, NEW tid \in Tid
  PROVE  /\ NewTask(p, tid) \in TCB /\ NewTask(p, tid).state = "live"
         /\ NewTask(p, tid).process = p /\ NewTask(p, tid).tid = tid
         /\ NewTask(p, tid).holds = {}
  BY Zenon DEF TCB, NewTask, NoTcb

\* thread_create keeps the invariant: tid and kernel stack are new.
LEMMA ThreadCreateKeeps ==
  ASSUME TreeInv, NEW k \in Task, sys_thread_create(k)
  PROVE  TreeKeeps
  <1>p. PICK p \in Pid : p = Process(k)
    BY RunsFacts, Zenon DEF sys_thread_create, Runs
  <1>0. PICK tid, n : p = Process(k) /\ tid = NextId(pcb[p].tids)
                      /\ n = NextId(kernel_stack_allocator)
    BY <1>p, Zenon
  <1>1. /\ tcb[k].state = "live" /\ current' = k /\ panic' = "no"
        /\ tid \in Tid /\ n \in Task
        /\ kernel_stack_allocator' = alloc(kernel_stack_allocator)
        /\ tcb' = [tcb EXCEPT ![n] = NewTask(p, tid)]
        /\ pcb' = [pcb EXCEPT ![p].tids = alloc(@), ![p].tasks = Placed(@, tid, n)]
        /\ pid_allocator' = pid_allocator /\ pid2pcb' = pid2pcb /\ leaked' = leaked
    BY <1>0 DEF sys_thread_create, Runs
  <1>2. /\ pcb \in [Pid -> PCB] /\ tcb \in [Task -> TCB] /\ SlotsOf(p, pcb[p], tcb)
        /\ pcb[p].state = "alive"
        /\ Exact(kernel_stack_allocator, {t \in Task : tcb[t].state # "none"})
    BY <1>0, <1>1, RunsFacts, Zenon DEF TreeInv, TreeType, IdsInv
  <1>3. Exact(pcb[p].tids, {i - 1 : i \in Filled(pcb[p].tasks)})
    BY <1>2, Zenon DEF SlotsOf
  <1>4. /\ tcb[n].state = "none"
        /\ Exact(kernel_stack_allocator', {t \in Task : tcb[t].state # "none"} \cup {n})
    <2> DEFINE S == {t \in Task : tcb[t].state # "none"}
    <2>1. S = {t \in Task : tcb[t].state # "none"}
      OBVIOUS
    <2> HIDE DEF S
    <2>2. n \notin S /\ Exact(kernel_stack_allocator', S \cup {n})
      BY <1>0, <1>1, <1>2, <2>1, AllocExact, Zenon
    <2> QED BY <1>1, <2>1, <2>2, Zenon
  <1>5. /\ tid \notin {i - 1 : i \in Filled(pcb[p].tasks)}
        /\ Exact(alloc(pcb[p].tids), {i - 1 : i \in Filled(pcb[p].tasks)} \cup {tid})
    BY <1>0, <1>3, AllocExact, Zenon
  <1>6. tid + 1 \notin Filled(pcb[p].tasks)
    <2>1. (tid + 1) - 1 = tid
      BY <1>1, Names
    <2> QED BY <1>5, <2>1
  <1> DEFINE q == [pcb[p] EXCEPT !.tids = alloc(pcb[p].tids), !.tasks = Placed(pcb[p].tasks, tid, n)]
             h == NewTask(p, tid)
  <1>7. h \in TCB /\ h.state = "live" /\ h.process = p /\ h.tid = tid /\ h.holds = {}
    BY <1>1, NewTaskIs, ZenonT(30)
  <1>8. pcb[p] \in PCB /\ pcb[p].tasks \in Seq(Task \cup {None})
    BY <1>2, PcbFields, Zenon
  <1>9. /\ Placed(pcb[p].tasks, tid, n) \in Seq(Task \cup {None})
        /\ Filled(Placed(pcb[p].tasks, tid, n)) = Filled(pcb[p].tasks) \cup {tid + 1}
        /\ Placed(pcb[p].tasks, tid, n)[tid + 1] = n
        /\ \A i \in Filled(pcb[p].tasks) : Placed(pcb[p].tasks, tid, n)[i] = pcb[p].tasks[i]
    <2>0. PICK s, e : s = pcb[p].tasks /\ e = tid + 1
      BY Zenon
    <2>1. s \in Seq(Task \cup {None}) /\ tid \in Tid /\ n \in Task /\ e \notin Filled(s)
      BY <1>1, <1>6, <1>8, <2>0, Zenon
    <2>2. /\ Placed(s, tid, n) \in Seq(Task \cup {None})
          /\ Filled(Placed(s, tid, n)) = Filled(s) \cup {e} /\ Placed(s, tid, n)[e] = n
          /\ \A i \in Filled(s) : i # e => Placed(s, tid, n)[i] = s[i]
      BY <2>0, <2>1, PlacedSlots
    <2>3. \A i \in Filled(s) : Placed(s, tid, n)[i] = s[i]
      BY <2>1, <2>2, Zenon
    <2> QED BY <2>0, <2>2, <2>3, Zenon
  <1>10. alloc(pcb[p].tids) \in Allocator
    BY <1>5, Zenon DEF Exact
  <1>11. /\ q \in PCB /\ q.state = "alive" /\ q.parent = pcb[p].parent /\ q.children = pcb[p].children
         /\ q.tids = alloc(pcb[p].tids) /\ q.tasks = Placed(pcb[p].tasks, tid, n)
    BY <1>2, <1>8, <1>9, <1>10, Zenon DEF PCB
  <1>12. pcb' = [pcb EXCEPT ![p] = q]
    BY <1>1, <1>2, Zenon DEF PCB
  <1> HIDE DEF q, h
  <1>13. pcb' \in [Pid -> PCB] /\ pcb'[p] = q /\ \A x \in Pid \ {p} : pcb'[x] = pcb[x]
    BY <1>2, <1>11, <1>12, Zenon
  <1>14. tcb' \in [Task -> TCB] /\ tcb'[n] = h /\ \A t \in Task \ {n} : tcb'[t] = tcb[t]
    BY <1>1, <1>2, <1>7, Zenon DEF h
  <1>15. \A x \in Pid : /\ pcb'[x].state = pcb[x].state /\ pcb'[x].parent = pcb[x].parent
                        /\ pcb'[x].children = pcb[x].children
    BY <1>2, <1>11, <1>13, Zenon
  <1>16. TreeType'
    <2>1. alloc(kernel_stack_allocator) \in Allocator /\ panic' # "borrow"
      BY <1>1, <1>4, Zenon DEF Exact
    <2> QED BY <1>1, <1>13, <1>14, <1>15, <2>1, Zenon DEF TreeInv, TreeType
  <1>17. \A x \in Pid : SlotsOf(x, pcb'[x], tcb')
    <2>1. SUFFICES ASSUME NEW x \in Pid PROVE SlotsOf(x, pcb'[x], tcb')
      OBVIOUS
    <2>2. SlotsOf(x, pcb[x], tcb) /\ pcb[x] \in PCB
      BY Zenon DEF TreeInv, TreeType, IdsInv
    <2>3. CASE pcb[x].state = "none"
      BY <1>15, <2>3, Zenon DEF SlotsOf
    <2>4. ASSUME pcb[x].state # "none", NEW i \in Filled(pcb[x].tasks)
          PROVE  tcb'[pcb[x].tasks[i]] = tcb[pcb[x].tasks[i]]
      <3>1. pcb[x].tasks[i] \in Task /\ tcb[pcb[x].tasks[i]].state \in {"live", "exited"}
        BY <2>2, <2>4, FilledTask, ZenonT(30) DEF SlotsOf
      <3>2. pcb[x].tasks[i] # n
        BY <1>4, <3>1
      <3> QED BY <1>14, <3>1, <3>2, Zenon
    <2>5. CASE pcb[x].state # "none" /\ x # p
      <3>1. pcb'[x] = pcb[x]
        BY <1>13, <2>5, Zenon
      <3> QED BY <2>2, <2>4, <2>5, <3>1, SlotsSame, Zenon
    <2>6. CASE x = p
      <3>1. \A i \in Filled(pcb[p].tasks) : /\ tcb'[pcb[p].tasks[i]].process = p
                                            /\ tcb'[pcb[p].tasks[i]].state \in {"live", "exited"}
                                            /\ tcb'[pcb[p].tasks[i]].tid = i - 1
        BY <1>2, <2>4, <2>6 DEF SlotsOf
      <3>2. tid = (tid + 1) - 1
        BY <1>1, Names, SMTT(30)
      <3>3. \A i \in Filled(q.tasks) : /\ tcb'[q.tasks[i]].process = p
                                       /\ tcb'[q.tasks[i]].state \in {"live", "exited"}
                                       /\ tcb'[q.tasks[i]].tid = i - 1
        <4>1. SUFFICES ASSUME NEW i \in Filled(q.tasks)
                       PROVE  /\ tcb'[q.tasks[i]].process = p
                              /\ tcb'[q.tasks[i]].state \in {"live", "exited"}
                              /\ tcb'[q.tasks[i]].tid = i - 1
          OBVIOUS
        <4>2. CASE i \in Filled(pcb[p].tasks)
          BY <1>9, <1>11, <3>1, <4>2, Zenon
        <4>3. CASE i = tid + 1
          BY <1>7, <1>9, <1>11, <1>14, <3>2, <4>3, ZenonT(30)
        <4> QED BY <1>9, <1>11, <4>2, <4>3, ZenonT(30)
      <3>4. {i - 1 : i \in Filled(q.tasks)} = {i - 1 : i \in Filled(pcb[p].tasks)} \cup {tid}
        BY <1>9, <1>11, <3>2, ZenonT(30)
      <3>5. Exact(q.tids, {i - 1 : i \in Filled(q.tasks)})
        BY <1>5, <1>11, <3>4, Zenon
      <3>6. q.state # "none" /\ q.state # "zombie"
        BY <1>11
      <3>7. SlotsOf(p, q, tcb')
        BY <3>3, <3>5, <3>6, Zenon DEF SlotsOf
      <3> QED BY <1>13, <2>6, <3>7, SMTT(30)
    <2> QED BY <2>3, <2>5, <2>6, Zenon
  <1>18. \A t \in Task : InSlot(t, tcb'[t], pcb')
    <2>1. SUFFICES ASSUME NEW t \in Task PROVE InSlot(t, tcb'[t], pcb')
      OBVIOUS
    <2>2. CASE t = n
      <3>1. tid + 1 \in Filled(q.tasks) /\ q.tasks[tid + 1] = n
        BY <1>9, <1>11, Zenon
      <3>2. h.state # "exited"
        BY <1>7
      <3>3. InSlot(n, h, pcb')
        BY <1>7, <1>11, <1>13, <3>1, <3>2, Zenon DEF InSlot
      <3> QED BY <1>14, <2>2, <3>3
    <2>3. CASE t # n
      <3>1. InSlot(t, tcb[t], pcb) /\ tcb'[t] = tcb[t]
        BY <1>14, <2>3, Zenon DEF TreeInv, IdsInv
      <3>2. CASE tcb[t].state = "live"
        <4>1. PICK x \in Pid : x = tcb[t].process
          BY <3>1, <3>2, Zenon DEF InSlot
        <4>2. /\ tcb[t].tid + 1 \in Filled(pcb[x].tasks) /\ pcb[x].tasks[tcb[t].tid + 1] = t
              /\ pcb[x].state = "alive"
          BY <3>1, <3>2, <4>1, Zenon DEF InSlot
        <4>3. /\ tcb[t].tid + 1 \in Filled(pcb'[x].tasks) /\ pcb'[x].tasks[tcb[t].tid + 1] = t
              /\ pcb'[x].state = "alive"
          BY <1>9, <1>11, <1>13, <4>2, ZenonT(30)
        <4>4. tcb[t].state # "exited"
          BY <3>2
        <4> QED BY <3>1, <3>2, <4>1, <4>3, <4>4, Zenon DEF InSlot
      <3>3. CASE tcb[t].state # "live"
        BY <3>1, <3>3, Zenon DEF InSlot
      <3> QED BY <3>2, <3>3
    <2> QED BY <2>2, <2>3
  <1>19. {t \in Task : tcb'[t].state # "none"} = {t \in Task : tcb[t].state # "none"} \cup {n}
    <2>1. h.state # "none"
      BY <1>7
    <2> QED BY <1>1, <1>14, <2>1, Zenon
  <1>20. Exists' = Exists /\ Alive' = Alive
    BY <1>15, Zenon DEF Exists, Alive
  <1>21. tcb'[current'].state # "none"
    <2>1. k # n
      BY <1>1, <1>4
    <2>2. tcb'[k].state = "live"
      BY <1>1, <1>14, <2>1, Zenon
    <2> QED BY <1>1, <2>2
  <1>22. IdsInv'
    BY <1>1, <1>4, <1>17, <1>18, <1>19, <1>20, <1>21, ZenonT(30) DEF TreeInv, IdsInv
  <1>23. Family(pcb)' /\ panic' # "borrow"
    <2>1. Family(pcb)'
      BY <1>15, FamilySame, Zenon DEF TreeInv
    <2> QED BY <1>1, <2>1
  <1>24. TreeInv'
    BY <1>16, <1>22, <1>23, Zenon DEF TreeInv
  <1> QED BY <1>15, <1>24, TreeStutters, Zenon DEF TreeKeeps

-----------------------------------------------------------------------------
(* The family after fork, exit and waitpid *)

\* fork: c is a child of p.
Forked(f, g, p, c) ==
  /\ f[p].state = "alive" /\ f[c].state = "none" /\ c # INITPROC
  /\ g[c].state = "alive" /\ g[c].parent = p /\ g[c].children = <<>>
  /\ g[p].state = f[p].state /\ g[p].parent = f[p].parent
  /\ g[p].children = Append(f[p].children, c)
  /\ \A x \in Pid \ {p, c} : g[x] = f[x]

\* A fork adds a leaf to the tree.
LEMMA FamilyFork ==
  ASSUME NEW f \in [Pid -> PCB], NEW g \in [Pid -> PCB], Family(f),
         NEW p \in Pid, NEW c \in Pid, Forked(f, g, p, c)
  PROVE  /\ Family(g) /\ Others(g) = Others(f) \cup {c}
         /\ Mapped(g) = [Mapped(f) EXCEPT ![c] = p]
  <1> USE DEF Forked
  <1>0. p # c /\ c \notin Others(f) /\ g[c].state # "none" /\ g[p].state = "alive"
    BY Zenon DEF Others
  <1>1. Others(g) = Others(f) \cup {c}
    BY <1>0, ZenonT(30) DEF Others
  <1>2. \A x \in Others(f) : g[x].parent = f[x].parent /\ x # c
    BY <1>0, Zenon DEF Others
  <1> DEFINE n == Len(f[p].children)
  <1>3. f[p].children \in Seq(Pid)
    BY PcbFields, Zenon
  <1>4. /\ n \in Nat /\ Len(g[p].children) = n + 1 /\ g[p].children[n + 1] = c
        /\ \A i \in 1..n : g[p].children[i] = f[p].children[i]
    BY <1>3
  <1>5. \A i \in 1..(n + 1) : i = n + 1 \/ i \in 1..n
    BY <1>4
  <1>6. \A i \in 1..n : i \in 1..(n + 1)
    BY <1>4
  <1>7. \A i \in 1..n : f[p].children[i] \in Others(f) /\ f[f[p].children[i]].parent = p
    BY Zenon DEF Family, ChildrenOf
  <1>8. ChildrenOf(g, p)
    <2>1. \A i \in 1..(n + 1) : g[p].children[i] \in Others(g) /\ g[g[p].children[i]].parent = p
      BY <1>1, <1>2, <1>4, <1>5, <1>7
    <2>2. \A i, j \in 1..n : f[p].children[i] = f[p].children[j] => i = j
      BY Zenon DEF Family, ChildrenOf
    <2>3. \A i, j \in 1..(n + 1) : g[p].children[i] = g[p].children[j] => i = j
      BY <1>0, <1>4, <1>5, <1>7, <2>2
    <2> QED BY <1>4, <2>1, <2>3 DEF ChildrenOf
  <1>9. \A x \in Pid : ChildrenOf(g, x)
    <2>1. SUFFICES ASSUME NEW x \in Pid PROVE ChildrenOf(g, x)
      OBVIOUS
    <2>2. CASE x = c
      <3>1. Len(g[c].children) = 0
        OBVIOUS
      <3>2. \A i \in 1..0 : FALSE
        OBVIOUS
      <3> QED BY <2>2, <3>1, <3>2, Zenon DEF ChildrenOf
    <2>3. CASE x # c /\ x # p
      <3>1. ChildrenOf(f, x) /\ g[x].children = f[x].children
        BY <2>3, Zenon DEF Family
      <3> QED BY <1>1, <1>2, <3>1 DEF ChildrenOf
    <2> QED BY <1>8, <2>2, <2>3, Zenon
  <1>10. \A x \in Others(g) : HasParent(g, x)
    <2>1. HasParent(g, c)
      <3>1. n + 1 \in 1..(n + 1)
        BY <1>4
      <3> QED BY <1>0, <1>4, <3>1, Zenon DEF HasParent
    <2>2. ASSUME NEW x \in Others(f) PROVE HasParent(g, x)
      <3>1. HasParent(f, x) /\ g[x].parent = f[x].parent
        BY <1>2, Zenon DEF Family
      <3>2. PICK y \in Pid : y = f[x].parent
        BY <3>1, Zenon DEF HasParent
      <3>3. f[y].state = "alive" /\ \E i \in 1..Len(f[y].children) : f[y].children[i] = x
        BY <3>1, <3>2, Zenon DEF HasParent
      <3>4. y # c
        BY <3>3
      <3>5. g[y].state = "alive" /\ \E i \in 1..Len(g[y].children) : g[y].children[i] = x
        <4>1. CASE y = p
          BY <1>0, <1>4, <1>6, <3>3, <4>1, Zenon
        <4>2. CASE y # p
          BY <3>3, <3>4, <4>2, Zenon
        <4> QED BY <4>1, <4>2
      <3> QED BY <3>1, <3>2, <3>5, Zenon DEF HasParent
    <2> QED BY <1>1, <2>1, <2>2, Zenon
  <1>11. Rooted(g)
    <2>1. SUFFICES ASSUME NEW S \in SUBSET Others(g), S # {}
                   PROVE  \E x \in S : g[x].parent \notin S
      BY Zenon DEF Rooted
    <2>2. \A x \in Others(f) : f[x].parent # c
      BY Zenon DEF Family, HasParent
    <2>3. CASE S \subseteq {c}
      BY <1>0, <2>1, <2>3, Zenon
    <2>4. CASE ~(S \subseteq {c})
      <3>1. S \ {c} \in SUBSET Others(f) /\ S \ {c} # {}
        BY <1>1, <2>4, Zenon
      <3>2. PICK x \in S \ {c} : f[x].parent \notin S \ {c}
        BY <3>1, Zenon DEF Family, Rooted
      <3>3. x \in Others(f)
        BY <3>1, Zenon
      <3> QED BY <1>2, <2>2, <3>2, <3>3, Zenon
    <2> QED BY <2>3, <2>4
  <1>12. Mapped(g) = [Mapped(f) EXCEPT ![c] = p]
    BY <1>0, <1>1, <1>2, Zenon DEF Mapped
  <1> QED BY <1>1, <1>9, <1>10, <1>11, <1>12, Zenon DEF Family

\* Vec::remove.
LEMMA RemoveIs ==
  ASSUME NEW T, NEW s \in Seq(T), NEW i \in 1..Len(s)
  PROVE  /\ remove(s, i) \in Seq(T) /\ Len(remove(s, i)) = Len(s) - 1
         /\ \A j \in 1..(Len(s) - 1) : remove(s, i)[j] = IF j < i THEN s[j] ELSE s[j + 1]
  <1> DEFINE n == Len(s) - 1
             r == remove(s, i)
  <1>1. n \in Nat /\ r = [j \in 1..n |-> IF j < i THEN s[j] ELSE s[j + 1]]
    BY DEF remove
  <1>2. \A j \in 1..n : (IF j < i THEN s[j] ELSE s[j + 1]) \in T
    OBVIOUS
  <1> HIDE DEF r, n
  <1>3. \A j \in 1..n : r[j] \in T
    BY <1>1, <1>2
  <1>4. r \in Seq(T) /\ Len(r) = n
    BY <1>1, <1>3
  <1> QED BY <1>1, <1>4 DEF r, n

\* Vec::remove takes out the element at i, and no other.
LEMMA RemoveMembers ==
  ASSUME NEW T, NEW s \in Seq(T), NEW i \in 1..Len(s),
         \A j, l \in 1..Len(s) : s[j] = s[l] => j = l
  PROVE  /\ \A j \in 1..Len(remove(s, i)) :
              remove(s, i)[j] # s[i] /\ \E l \in 1..Len(s) : remove(s, i)[j] = s[l]
         /\ \A l \in 1..Len(s) : l # i => \E j \in 1..Len(remove(s, i)) : remove(s, i)[j] = s[l]
         /\ \A j, l \in 1..Len(remove(s, i)) : remove(s, i)[j] = remove(s, i)[l] => j = l
  <1> DEFINE r == remove(s, i)
             n == Len(s)
             P(j) == IF j < i THEN j ELSE j + 1
  <1>0. n \in Nat /\ i \in Nat /\ 1 <= i /\ i <= n
    OBVIOUS
  <1>1. /\ n \in Nat /\ i \in Nat /\ 1 <= i /\ i <= n /\ Len(r) = n - 1
        /\ \A j \in 1..(n - 1) : r[j] = IF j < i THEN s[j] ELSE s[j + 1]
    BY <1>0, RemoveIs, Zenon
  <1> HIDE DEF r
  <1>2. \A j \in 1..(n - 1) : r[j] = s[P(j)] /\ P(j) \in 1..n /\ P(j) # i
    BY <1>1
  <1>3. \A j, l \in 1..(n - 1) : P(j) = P(l) => j = l
    BY <1>1
  <1>4. \A l \in 1..n : l # i => \E j \in 1..(n - 1) : P(j) = l
    <2>1. \A l \in 1..n : l < i => l \in 1..(n - 1) /\ P(l) = l
      BY <1>1
    <2>2. \A l \in 1..n : l > i => l - 1 \in 1..(n - 1) /\ P(l - 1) = l
      BY <1>1
    <2>3. \A l \in 1..n : l # i => l < i \/ l > i
      BY <1>1
    <2> QED BY <2>1, <2>2, <2>3, Zenon
  <1> HIDE DEF P
  <1>5. \A j \in 1..(n - 1) : r[j] # s[i] /\ \E l \in 1..n : r[j] = s[l]
    BY <1>2, Zenon
  <1>6. \A j, l \in 1..(n - 1) : r[j] = r[l] => j = l
    <2>1. \A j, l \in 1..(n - 1) : r[j] = r[l] => P(j) = P(l)
      BY <1>2
    <2> QED BY <1>3, <2>1, Zenon
  <1>7. \A l \in 1..n : l # i => \E j \in 1..(n - 1) : r[j] = s[l]
    BY <1>2, <1>4
  <1> QED BY <1>1, <1>5, <1>6, <1>7 DEF r

\* waitpid: the zombie c, the i-th child of p, is taken out.
Reaped(f, g, p, c, i) ==
  /\ f[p].children[i] = c /\ f[p].state = "alive" /\ f[c].state = "zombie"
  /\ g[c].state = "none" /\ g[c].children = <<>>
  /\ g[p].state = f[p].state /\ g[p].parent = f[p].parent
  /\ g[p].children = remove(f[p].children, i)
  /\ \A x \in Pid \ {p, c} : g[x] = f[x]

\* A reaping takes a leaf out of the tree: a zombie has no children.
LEMMA FamilyReap ==
  ASSUME NEW f \in [Pid -> PCB], NEW g \in [Pid -> PCB], Family(f),
         NEW p \in Pid, NEW c \in Pid, NEW i \in 1..Len(f[p].children),
         Reaped(f, g, p, c, i)
  PROVE  /\ Family(g) /\ Others(g) = Others(f) \ {c} /\ c \in Others(f) /\ f[c].parent = p
         /\ Mapped(g) = [Mapped(f) EXCEPT ![c] = None]
  <1> USE DEF Reaped
  <1>0. p # c /\ g[p].state = "alive"
    BY Zenon
  <1>1. c \in Others(f) /\ f[c].parent = p /\ ChildrenOf(f, p)
    BY Zenon DEF Family, ChildrenOf
  <1>2. Others(g) = Others(f) \ {c}
    BY <1>0, Zenon DEF Others
  <1>3. \A x \in Others(g) : g[x].parent = f[x].parent /\ x # c /\ x \in Pid
    BY <1>2, Zenon DEF Others
  <1>4. \A x \in Others(f) : f[x].parent # c
    BY Zenon DEF Family, HasParent
  <1>5. f[p].children \in Seq(Pid)
    BY PcbFields, Zenon
  <1>6. /\ \A j \in 1..Len(g[p].children) :
             g[p].children[j] # c /\ \E l \in 1..Len(f[p].children) : g[p].children[j] = f[p].children[l]
        /\ \A l \in 1..Len(f[p].children) :
             l # i => \E j \in 1..Len(g[p].children) : g[p].children[j] = f[p].children[l]
        /\ \A j, l \in 1..Len(g[p].children) : g[p].children[j] = g[p].children[l] => j = l
    <2>1. \A j, l \in 1..Len(f[p].children) : f[p].children[j] = f[p].children[l] => j = l
      BY <1>1, Zenon DEF ChildrenOf
    <2> HIDE DEF Family
    <2>2. PICK s \in Seq(Pid) : s = f[p].children
      BY <1>5, Zenon
    <2>0. i \in 1..Len(s) /\ \A j, l \in 1..Len(s) : s[j] = s[l] => j = l
      BY <2>1, <2>2
    <2>3. /\ \A j \in 1..Len(remove(s, i)) :
              remove(s, i)[j] # s[i] /\ \E l \in 1..Len(s) : remove(s, i)[j] = s[l]
          /\ \A l \in 1..Len(s) : l # i => \E j \in 1..Len(remove(s, i)) : remove(s, i)[j] = s[l]
          /\ \A j, l \in 1..Len(remove(s, i)) : remove(s, i)[j] = remove(s, i)[l] => j = l
      BY <2>0, RemoveMembers, ZenonT(30)
    <2>4. g[p].children = remove(s, i) /\ s[i] = c
      BY <2>2
    <2>5. /\ \A j \in 1..Len(g[p].children) :
               g[p].children[j] # c /\ \E l \in 1..Len(s) : g[p].children[j] = s[l]
          /\ \A l \in 1..Len(s) : l # i => \E j \in 1..Len(g[p].children) : g[p].children[j] = s[l]
          /\ \A j, l \in 1..Len(g[p].children) : g[p].children[j] = g[p].children[l] => j = l
      BY <2>3, <2>4
    <2> QED BY <2>2, <2>5
  <1>7. ChildrenOf(g, p)
    <2>1. ASSUME NEW j \in 1..Len(g[p].children)
          PROVE  g[p].children[j] \in Others(g) /\ g[g[p].children[j]].parent = p
      <3>1. PICK l \in 1..Len(f[p].children) : g[p].children[j] = f[p].children[l]
        BY <1>6, Zenon
      <3>2. PICK y : y = g[p].children[j]
        OBVIOUS
      <3>3. y \in Others(f) /\ f[y].parent = p /\ y # c
        <4>1. y = f[p].children[l] /\ y # c
          BY <1>6, <3>1, <3>2, Zenon
        <4>2. f[p].children[l] \in Others(f) /\ f[f[p].children[l]].parent = p
          BY <1>1, Zenon DEF ChildrenOf
        <4> QED BY <4>1, <4>2
      <3> QED BY <1>2, <1>3, <3>2, <3>3, Zenon
    <2> QED BY <1>6, <2>1, Zenon DEF ChildrenOf
  <1>8. \A x \in Pid : ChildrenOf(g, x)
    <2>1. SUFFICES ASSUME NEW x \in Pid PROVE ChildrenOf(g, x)
      OBVIOUS
    <2>2. CASE x = c
      <3>1. Len(g[c].children) = 0
        OBVIOUS
      <3>2. \A j \in 1..0 : FALSE
        OBVIOUS
      <3> QED BY <2>2, <3>1, <3>2, Zenon DEF ChildrenOf
    <2>3. CASE x # c /\ x # p
      <3>1. ChildrenOf(f, x) /\ g[x].children = f[x].children
        BY <2>3, Zenon DEF Family
      <3>2. \A j \in 1..Len(f[x].children) : f[x].children[j] \in Others(g)
        BY <1>1, <1>2, <2>3, <3>1 DEF ChildrenOf
      <3> QED BY <1>3, <3>1, <3>2 DEF ChildrenOf
    <2> QED BY <1>7, <2>2, <2>3, Zenon
  <1>9. \A x \in Others(g) : HasParent(g, x)
    <2>1. SUFFICES ASSUME NEW x \in Others(g) PROVE HasParent(g, x)
      OBVIOUS
    <2>2. HasParent(f, x) /\ g[x].parent = f[x].parent /\ x # c
      BY <1>2, <1>3, Zenon DEF Family
    <2>3. PICK y \in Pid : y = f[x].parent
      BY <2>2, Zenon DEF HasParent
    <2>4. PICK l \in 1..Len(f[y].children) : f[y].children[l] = x
      BY <2>2, <2>3, Zenon DEF HasParent
    <2>5. f[y].state = "alive" /\ y # c
      BY <2>2, <2>3 DEF HasParent
    <2>6. g[y].state = "alive" /\ \E j \in 1..Len(g[y].children) : g[y].children[j] = x
      <3>1. CASE y = p
        <4>1. l # i
          BY <2>2, <2>4, <3>1, Zenon
        <4> QED BY <1>0, <1>6, <2>4, <3>1, <4>1, Zenon
      <3>2. CASE y # p
        BY <2>4, <2>5, <3>2, Zenon
      <3> QED BY <3>1, <3>2
    <2> QED BY <2>2, <2>3, <2>6, Zenon DEF HasParent
  <1>10. Rooted(g)
    <2>1. SUFFICES ASSUME NEW S \in SUBSET Others(g), S # {}
                   PROVE  \E x \in S : g[x].parent \notin S
      BY Zenon DEF Rooted
    <2>2. S \in SUBSET Others(f)
      BY <1>2, Zenon
    <2>3. PICK x \in S : f[x].parent \notin S
      BY <2>1, <2>2, Zenon DEF Family, Rooted
    <2> QED BY <1>3, <2>1, <2>3, Zenon
  <1>11. Mapped(g) = [Mapped(f) EXCEPT ![c] = None]
    BY <1>2, <1>3, Zenon DEF Mapped
  <1> QED BY <1>1, <1>2, <1>8, <1>9, <1>10, <1>11, Zenon DEF Family

\* Vec::extend, and the indices it splits into.
LEMMA ConcatIs ==
  ASSUME NEW T, NEW s \in Seq(T), NEW t \in Seq(T)
  PROVE  /\ s \o t \in Seq(T)
         /\ \A i \in 1..Len(s) : i \in 1..Len(s \o t) /\ (s \o t)[i] = s[i]
         /\ \A j \in 1..Len(t) : Len(s) + j \in 1..Len(s \o t) /\ (s \o t)[Len(s) + j] = t[j]
         /\ \A i \in 1..Len(s \o t) : i \in 1..Len(s) \/ \E j \in 1..Len(t) : i = Len(s) + j
  <1> DEFINE n == Len(s)
             m == Len(t)
  <1>1. n \in Nat /\ m \in Nat /\ s \o t \in Seq(T) /\ Len(s \o t) = n + m
    <2>1. s \o t \in Seq(T)
      OBVIOUS
    <2>2. n \in Nat /\ m \in Nat /\ Len(s \o t) = n + m
      OBVIOUS
    <2> QED BY <2>1, <2>2
  <1>2. \A i \in 1..n : i \in 1..(n + m) /\ (s \o t)[i] = s[i]
    OBVIOUS
  <1>3. \A j \in 1..m : n + j \in 1..(n + m) /\ (s \o t)[n + j] = t[j]
    OBVIOUS
  <1>4. \A i \in 1..(n + m) : i \in 1..n \/ \E j \in 1..m : i = n + j
    <2>1. \A i \in 1..(n + m) : i \in 1..n \/ (i - n \in 1..m /\ i = n + (i - n))
      BY <1>1
    <2> QED BY <2>1, Zenon
  <1> QED BY <1>1, <1>2, <1>3, <1>4, Zenon

\* Two lists without repetition and without a common element make one.
LEMMA ConcatOnce ==
  ASSUME NEW T, NEW s \in Seq(T), NEW t \in Seq(T),
         \A i, j \in 1..Len(s) : s[i] = s[j] => i = j,
         \A i, j \in 1..Len(t) : t[i] = t[j] => i = j,
         \A i \in 1..Len(s), j \in 1..Len(t) : s[i] # t[j]
  PROVE  \A i, j \in 1..Len(s \o t) : (s \o t)[i] = (s \o t)[j] => i = j
  <1> DEFINE r == s \o t
             n == Len(s)
             m == Len(t)
  <1>1. /\ \A i \in 1..n : r[i] = s[i]
        /\ \A j \in 1..m : r[n + j] = t[j]
        /\ \A i \in 1..Len(r) : i \in 1..n \/ \E j \in 1..m : i = n + j
    BY ConcatIs
  <1> HIDE DEF r
  <1>2. SUFFICES ASSUME NEW i \in 1..Len(r), NEW j \in 1..Len(r), r[i] = r[j]
                 PROVE  i = j
    BY DEF r
  <1>3. CASE i \in 1..n /\ j \in 1..n
    BY <1>1, <1>2, <1>3, Zenon
  <1>4. CASE i \in 1..n /\ \E l \in 1..m : j = n + l
    <2>1. PICK l \in 1..m : j = n + l
      BY <1>4, Zenon
    <2>2. s[i] = t[l]
      BY <1>1, <1>2, <1>4, <2>1
    <2> QED BY <1>4, <2>2, Zenon
  <1>5. CASE j \in 1..n /\ \E l \in 1..m : i = n + l
    <2>1. PICK l \in 1..m : i = n + l
      BY <1>5, Zenon
    <2>2. s[j] = t[l]
      BY <1>1, <1>2, <1>5, <2>1
    <2> QED BY <1>5, <2>2, Zenon
  <1>6. CASE (\E l \in 1..m : i = n + l) /\ \E l \in 1..m : j = n + l
    <2>1. PICK k \in 1..m : i = n + k
      BY <1>6, Zenon
    <2>2. PICK l \in 1..m : j = n + l
      BY <1>6, Zenon
    <2>3. t[k] = t[l]
      BY <1>1, <1>2, <2>1, <2>2
    <2>4. k = l
      BY <2>3, Zenon
    <2> QED BY <2>1, <2>2, <2>4
  <1> QED BY <1>1, <1>3, <1>4, <1>5, <1>6, Zenon

\* exit: the children of p go to initproc.
Died(f, g, p) ==
  /\ p # INITPROC /\ f[p].state = "alive" /\ f[INITPROC].state = "alive"
  /\ \A x \in Pid : g[x].state = IF x = p THEN "zombie" ELSE f[x].state
  /\ \A x \in Others(f) : g[x].parent = IF f[x].parent = p THEN INITPROC ELSE f[x].parent
  /\ \A x \in Pid \ {p, INITPROC} : g[x].children = f[x].children
  /\ g[p].children = <<>>
  /\ g[INITPROC].children = f[INITPROC].children \o f[p].children

\* An exit moves the children to initproc, which is not among their descendants.
LEMMA FamilyDie ==
  ASSUME NEW f \in [Pid -> PCB], NEW g \in [Pid -> PCB], Family(f),
         NEW p \in Pid, Died(f, g, p)
  PROVE  /\ Family(g) /\ Others(g) = Others(f)
         /\ Mapped(g) = [c \in Pid |-> IF Mapped(f)[c] = p THEN INITPROC ELSE Mapped(f)[c]]
  <1> USE DEF Died
  <1>0. INITPROC \in Pid /\ None \notin Pid
    BY Names
  <1>1. Others(g) = Others(f)
    <2>1. \A x \in Pid : g[x].state # "none" <=> f[x].state # "none"
      OBVIOUS
    <2> QED BY <2>1, Zenon DEF Others
  <1> DEFINE s == f[INITPROC].children
             t == f[p].children
  <1>2. s \in Seq(Pid) /\ t \in Seq(Pid)
    BY <1>0, PcbFields, Zenon
  <1>3. ChildrenOf(f, INITPROC) /\ ChildrenOf(f, p)
    BY <1>0, Zenon DEF Family
  <1>4. /\ \A i \in 1..Len(s) : s[i] \in Others(f) /\ f[s[i]].parent = INITPROC
        /\ \A i, j \in 1..Len(s) : s[i] = s[j] => i = j
        /\ \A i \in 1..Len(t) : t[i] \in Others(f) /\ f[t[i]].parent = p
        /\ \A i, j \in 1..Len(t) : t[i] = t[j] => i = j
    BY <1>3, Zenon DEF ChildrenOf
  <1>5. g[INITPROC].children = s \o t
    OBVIOUS
  <1> HIDE DEF s, t
  <1>6. \A i \in 1..Len(s), j \in 1..Len(t) : s[i] # t[j]
    BY <1>4
  <1>7. /\ \A i \in 1..Len(s) : i \in 1..Len(s \o t) /\ (s \o t)[i] = s[i]
        /\ \A j \in 1..Len(t) : Len(s) + j \in 1..Len(s \o t) /\ (s \o t)[Len(s) + j] = t[j]
        /\ \A i \in 1..Len(s \o t) : i \in 1..Len(s) \/ \E j \in 1..Len(t) : i = Len(s) + j
    BY <1>2, ConcatIs
  <1>8. \A i, j \in 1..Len(s \o t) : (s \o t)[i] = (s \o t)[j] => i = j
    BY <1>2, <1>4, <1>6, ConcatOnce
  <1> DEFINE r == s \o t
  <1>9. r = g[INITPROC].children
    BY <1>5, SMTT(30)
  <1> HIDE DEF r
  <1>10. ChildrenOf(g, INITPROC)
    <2>1. \A i \in 1..Len(r) : r[i] \in Others(f) /\ f[r[i]].parent \in {INITPROC, p}
      <3>1. \A i \in 1..Len(s) : r[i] = s[i]
        BY <1>7, Zenon DEF r
      <3>2. \A j \in 1..Len(t) : r[Len(s) + j] = t[j]
        BY <1>7, Zenon DEF r
      <3>3. \A i \in 1..Len(r) : (\E j \in 1..Len(s) : r[i] = s[j]) \/ (\E j \in 1..Len(t) : r[i] = t[j])
        BY <1>7, <3>1, <3>2, ZenonT(30) DEF r
      <3> QED BY <1>4, <3>3
    <2>2. \A i \in 1..Len(r) : r[i] \in Others(g) /\ g[r[i]].parent = INITPROC
      BY <1>1, <2>1
    <2>3. \A i, j \in 1..Len(r) : r[i] = r[j] => i = j
      BY <1>8 DEF r
    <2> QED BY <1>9, <2>2, <2>3, Zenon DEF ChildrenOf
  <1>11. \A x \in Pid : ChildrenOf(g, x)
    <2>1. SUFFICES ASSUME NEW x \in Pid PROVE ChildrenOf(g, x)
      OBVIOUS
    <2>2. CASE x = p
      <3>1. Len(g[p].children) = 0
        OBVIOUS
      <3>2. \A i \in 1..0 : FALSE
        OBVIOUS
      <3> QED BY <2>2, <3>1, <3>2, Zenon DEF ChildrenOf
    <2>3. CASE x # p /\ x # INITPROC
      <3>1. ChildrenOf(f, x) /\ g[x].children = f[x].children
        BY <2>3, Zenon DEF Family
      <3> QED BY <1>1, <2>3, <3>1 DEF ChildrenOf
    <2> QED BY <1>10, <2>2, <2>3, Zenon
  <1>12. \A x \in Others(g) : HasParent(g, x)
    <2>1. SUFFICES ASSUME NEW x \in Others(f) PROVE HasParent(g, x)
      BY <1>1, Zenon
    <2>2. HasParent(f, x)
      BY Zenon DEF Family
    <2>3. PICK y \in Pid : y = f[x].parent
      BY <2>2, Zenon DEF HasParent
    <2>4. PICK i \in 1..Len(f[y].children) : f[y].children[i] = x
      BY <2>2, <2>3, Zenon DEF HasParent
    <2>5. f[y].state = "alive"
      BY <2>2, <2>3 DEF HasParent
    <2>6. g[INITPROC].state = "alive"
      BY <1>0
    <2>7. CASE y = p
      <3>1. g[x].parent = INITPROC
        BY <2>3, <2>7, Zenon
      <3>2. i \in 1..Len(t) /\ t[i] = x
        BY <2>4, <2>7 DEF t
      <3>3. Len(s) + i \in 1..Len(r) /\ r[Len(s) + i] = x
        BY <1>7, <3>2 DEF r
      <3>4. \E j \in 1..Len(g[INITPROC].children) : g[INITPROC].children[j] = x
        BY <1>9, <3>3, Zenon
      <3> QED BY <1>0, <2>6, <3>1, <3>4, Zenon DEF HasParent
    <2>8. CASE y = INITPROC
      <3>1. g[x].parent = INITPROC
        BY <2>3, <2>8, Zenon
      <3>2. i \in 1..Len(s) /\ s[i] = x
        BY <2>4, <2>8 DEF s
      <3>3. i \in 1..Len(r) /\ r[i] = x
        BY <1>7, <3>2 DEF r
      <3>4. \E j \in 1..Len(g[INITPROC].children) : g[INITPROC].children[j] = x
        BY <1>9, <3>3, Zenon
      <3> QED BY <1>0, <2>6, <3>1, <3>4, Zenon DEF HasParent
    <2>9. CASE y # p /\ y # INITPROC
      <3>1. g[x].parent = y /\ g[y].state = "alive" /\ g[y].children = f[y].children
        BY <2>3, <2>5, <2>9
      <3> QED BY <2>4, <3>1, Zenon DEF HasParent
    <2> QED BY <2>7, <2>8, <2>9, Zenon
  <1>13. Rooted(g)
    <2>1. SUFFICES ASSUME NEW S \in SUBSET Others(g), S # {}
                   PROVE  \E x \in S : g[x].parent \notin S
      BY Zenon DEF Rooted
    <2>2. PICK x \in S : f[x].parent \notin S
      BY <1>1, <2>1, Zenon DEF Family, Rooted
    <2>3. INITPROC \notin S /\ x \in Others(f)
      BY <1>1, <2>1, Zenon DEF Others
    <2>4. g[x].parent \in {INITPROC, f[x].parent}
      BY <2>3
    <2> QED BY <2>2, <2>3, <2>4, Zenon
  <1>14. Mapped(g) = [c \in Pid |-> IF Mapped(f)[c] = p THEN INITPROC ELSE Mapped(f)[c]]
    <2>1. \A c \in Pid : /\ Mapped(g)[c] = IF c \in Others(f) THEN g[c].parent ELSE None
                         /\ Mapped(f)[c] = IF c \in Others(f) THEN f[c].parent ELSE None
      BY <1>1, Zenon DEF Mapped
    <2>2. \A c \in Pid : Mapped(g)[c] = IF Mapped(f)[c] = p THEN INITPROC ELSE Mapped(f)[c]
      BY <1>0, <2>1
    <2>3. Mapped(g) = [c \in Pid |-> Mapped(g)[c]]
      BY DEF Mapped
    <2> QED BY <2>2, <2>3
  <1> QED BY <1>1, <1>11, <1>12, <1>13, <1>14, Zenon DEF Family

\* initproc exits without children: there is no other process.
LEMMA FamilyAlone ==
  ASSUME NEW f, Family(f), f[INITPROC].children = <<>>
  PROVE  Others(f) = {}
  <1>1. SUFFICES ASSUME Others(f) # {} PROVE FALSE
    OBVIOUS
  <1>2. PICK c \in Others(f) : f[c].parent \notin Others(f)
    BY <1>1, Zenon DEF Family, Rooted
  <1>3. HasParent(f, c)
    BY <1>2, Zenon DEF Family
  <1>4. f[c].parent \in Pid /\ f[f[c].parent].state = "alive"
    BY <1>3, Zenon DEF HasParent
  <1>5. f[c].parent = INITPROC
    <2>1. f[f[c].parent].state # "none"
      BY <1>4
    <2> QED BY <1>2, <1>4, <2>1, Zenon DEF Others
  <1>6. \E i \in 1..Len(f[INITPROC].children) : TRUE
    BY <1>3, <1>5, Zenon DEF HasParent
  <1>7. Len(f[INITPROC].children) = 0
    OBVIOUS
  <1> QED BY <1>6, <1>7

\* When initproc exits it is the last process.
LEMMA FamilyHalt ==
  ASSUME NEW f \in [Pid -> PCB], NEW g \in [Pid -> PCB], Others(f) = {}, Family(f),
         \A x \in Pid \ {INITPROC} : g[x].state = f[x].state /\ g[x].children = f[x].children,
         g[INITPROC].children = <<>>
  PROVE  Family(g) /\ Others(g) = {} /\ Mapped(g) = Mapped(f)
  <1>1. Others(g) = {}
    BY Zenon DEF Others
  <1>2. \A x \in Pid : ChildrenOf(g, x)
    <2>1. SUFFICES ASSUME NEW x \in Pid PROVE ChildrenOf(g, x)
      OBVIOUS
    <2>2. CASE x = INITPROC
      <3>1. Len(g[INITPROC].children) = 0
        OBVIOUS
      <3>2. \A i \in 1..0 : FALSE
        OBVIOUS
      <3> QED BY <2>2, <3>1, <3>2, Zenon DEF ChildrenOf
    <2>3. CASE x # INITPROC
      <3>1. ChildrenOf(f, x) /\ g[x].children = f[x].children
        BY <2>3, Zenon DEF Family
      <3> QED BY <3>1, Zenon DEF ChildrenOf
    <2> QED BY <2>2, <2>3
  <1>3. Mapped(g) = Mapped(f)
    BY <1>1, Zenon DEF Mapped
  <1>4. Rooted(g) /\ \A c \in Others(g) : HasParent(g, c)
    BY <1>1, Zenon DEF Rooted
  <1> QED BY <1>1, <1>2, <1>3, <1>4, Zenon DEF Family

-----------------------------------------------------------------------------
(* fork *)

\* A new allocator has given out nothing, and then its first identifier.
LEMMA NewExact == Exact(new, {}) /\ Exact(alloc(new), {0})
  <1>1. new.current = 0 /\ new.recycled = <<>> /\ ~new.failed /\ new \in Allocator
    BY DEF new, Allocator
  <1>2. Len(new.recycled) = 0 /\ NextId(new) = 0
    BY <1>1 DEF NextId
  <1>3. \A i \in 1..0 : FALSE
    OBVIOUS
  <1>4. \A x : x \in {} <=> x \in 0..(0 - 1)
    OBVIOUS
  <1>5. Exact(new, {})
    BY <1>1, <1>2, <1>3, <1>4, ExactFields
  <1>6. Exact(alloc(new), {} \cup {NextId(new)})
    BY <1>5, AllocExact, Zenon
  <1> QED BY <1>2, <1>5, <1>6

\* In the table f, thread n is the first of the process c; q is what c starts with.
Starts(p, n, c, f, q) ==
  /\ p \in Pid \cup {None} /\ n \in Task /\ c \in Pid /\ q = NewProcess(p, n)
  /\ f[n].process = c /\ f[n].state = "live" /\ f[n].tid = 0

\* A process starts with one thread, in slot 0.
LEMMA NewProcessIs ==
  ASSUME NEW p, NEW n, NEW c, NEW f, NEW q, Starts(p, n, c, f, q)
  PROVE  /\ q \in PCB /\ q.state = "alive" /\ q.parent = p /\ q.children = <<>>
         /\ q.tasks = <<n>> /\ Filled(q.tasks) = {1}
         /\ SlotsOf(c, q, f)
  <1> SUFFICES ASSUME p \in Pid \cup {None}, n \in Task, c \in Pid, q = NewProcess(p, n),
                      f[n].process = c, f[n].state = "live", f[n].tid = 0
               PROVE  /\ q \in PCB /\ q.state = "alive" /\ q.parent = p /\ q.children = <<>>
                      /\ q.tasks = <<n>> /\ Filled(q.tasks) = {1}
                      /\ SlotsOf(c, q, f)
    BY Zenon DEF Starts
  <1>0. <<>> \in Seq(Pid) /\ <<n>> \in Seq(Task \cup {None})
    OBVIOUS
  <1>1. alloc(new) \in Allocator
    BY NewExact, Zenon DEF Exact
  <1>2. q \in PCB /\ q.state = "alive" /\ q.parent = p /\ q.children = <<>> /\ q.tids = alloc(new)
    BY <1>0, <1>1, Zenon DEF NewProcess, NoPcb, PCB
  <1>3. q.tasks = <<n>>
    BY DEF NewProcess, NoPcb
  <1>4. Filled(q.tasks) = {1}
    BY <1>3, Names DEF Filled
  <1>5. {i - 1 : i \in Filled(q.tasks)} = {0}
    BY <1>4
  <1>6. Exact(q.tids, {i - 1 : i \in Filled(q.tasks)})
    BY <1>2, <1>5, NewExact, Zenon
  <1>7. q.tasks[1] = n /\ 0 = 1 - 1 /\ q.state # "none" /\ q.state # "zombie"
    BY <1>2, <1>3
  <1>8. \A i \in Filled(q.tasks) : /\ f[q.tasks[i]].process = c
                                   /\ f[q.tasks[i]].state \in {"live", "exited"}
                                   /\ f[q.tasks[i]].tid = i - 1
    BY <1>4, <1>7
  <1>9. SlotsOf(c, q, f)
    BY <1>6, <1>7, <1>8, Zenon DEF SlotsOf
  <1> QED BY <1>2, <1>3, <1>4, <1>9, Zenon

\* fork keeps the invariant and is a birth.
LEMMA ForkKeeps ==
  ASSUME TreeInv, NEW k \in Task, sys_fork(k)
  PROVE  TreeKeeps
  <1>p. PICK p \in Pid : p = Process(k)
    BY RunsFacts, Zenon DEF sys_fork, Runs
  <1>0. PICK c, n : p = Process(k) /\ c = NextId(pid_allocator)
                                /\ n = NextId(kernel_stack_allocator)
    BY <1>p, Zenon
  <1>1. /\ tcb[k].state = "live" /\ current' = k /\ panic' = "no"
        /\ pcb[INITPROC].state = "alive"
        /\ c \in Pid /\ n \in Task
        /\ pid_allocator' = alloc(pid_allocator)
        /\ kernel_stack_allocator' = alloc(kernel_stack_allocator)
        /\ pcb' = [pcb EXCEPT ![c] = NewProcess(p, n), ![p].children = Append(@, c)]
        /\ tcb' = [tcb EXCEPT ![n] = NewTask(c, 0)]
        /\ pid2pcb' = pid2pcb \cup {c} /\ leaked' = leaked
    BY <1>0 DEF sys_fork, Runs
  <1>2. /\ pcb \in [Pid -> PCB] /\ tcb \in [Task -> TCB] /\ pcb[p].state = "alive"
        /\ Exact(kernel_stack_allocator, {t \in Task : tcb[t].state # "none"})
        /\ Exact(pid_allocator, Exists) /\ Family(pcb) /\ pid2pcb = Alive
    BY <1>0, <1>1, RunsFacts, Zenon DEF TreeInv, TreeType, IdsInv
  <1>3. /\ tcb[n].state = "none"
        /\ Exact(kernel_stack_allocator', {t \in Task : tcb[t].state # "none"} \cup {n})
    <2> DEFINE S == {t \in Task : tcb[t].state # "none"}
    <2>1. S = {t \in Task : tcb[t].state # "none"}
      OBVIOUS
    <2> HIDE DEF S
    <2>2. n \notin S /\ Exact(kernel_stack_allocator', S \cup {n})
      BY <1>0, <1>1, <1>2, <2>1, AllocExact, Zenon
    <2> QED BY <1>1, <2>1, <2>2, Zenon
  <1>4. pcb[c].state = "none" /\ Exact(pid_allocator', Exists \cup {c})
    <2>1. c \notin Exists /\ Exact(pid_allocator', Exists \cup {c})
      BY <1>0, <1>1, <1>2, AllocExact, Zenon
    <2> QED BY <1>1, <2>1, Zenon DEF Exists
  <1>5. c # p /\ c # INITPROC /\ n # k /\ p \in Pid /\ c \in Pid /\ n \in Task
    BY <1>1, <1>2, <1>3, <1>4
  <1> DEFINE q == NewProcess(p, n)
             d == [pcb[p] EXCEPT !.children = Append(pcb[p].children, c)]
             h == NewTask(c, 0)
  <1>6. h \in TCB /\ h.state = "live" /\ h.process = c /\ h.tid = 0 /\ h.holds = {}
    BY <1>1, Names, Zenon DEF TCB, NewTask, NoTcb
  <1>7. pcb[p] \in PCB /\ pcb[p].children \in Seq(Pid)
    BY <1>2, PcbFields, Zenon
  <1>8. /\ d \in PCB /\ d.state = "alive" /\ d.parent = pcb[p].parent
        /\ d.children = Append(pcb[p].children, c) /\ d.tasks = pcb[p].tasks /\ d.tids = pcb[p].tids
    <2>1. Append(pcb[p].children, c) \in Seq(Pid)
      BY <1>1, <1>7
    <2> QED BY <1>2, <1>7, <2>1, Zenon DEF PCB
  <1>9. tcb' \in [Task -> TCB] /\ tcb'[n] = h /\ \A t \in Task \ {n} : tcb'[t] = tcb[t]
    BY <1>1, <1>2, <1>6, Zenon
  <1>10. /\ q \in PCB /\ q.state = "alive" /\ q.parent = p /\ q.children = <<>>
         /\ q.tasks = <<n>> /\ Filled(q.tasks) = {1}
         /\ SlotsOf(c, q, tcb')
    <2>1. p \in Pid \cup {None} /\ tcb'[n].process = c /\ tcb'[n].state = "live" /\ tcb'[n].tid = 0
      BY <1>6, <1>9
    <2>2. q = NewProcess(p, n)
      OBVIOUS
    <2> HIDE DEF q
    <2>3. Starts(p, n, c, tcb', q)
      BY <1>5, <2>1, <2>2, Zenon DEF Starts
    <2> QED BY <2>3, NewProcessIs, Zenon
  <1>11. pcb' = [pcb EXCEPT ![c] = q, ![p] = d]
    BY <1>1, <1>2, <1>5, Zenon
  <1> HIDE DEF q, d, h
  <1>12. pcb' \in [Pid -> PCB] /\ pcb'[c] = q /\ pcb'[p] = d /\ \A x \in Pid \ {c, p} : pcb'[x] = pcb[x]
    BY <1>1, <1>2, <1>5, <1>8, <1>10, <1>11
  <1>13. /\ Family(pcb') /\ Others(pcb') = Others(pcb) \cup {c}
         /\ Mapped(pcb') = [Mapped(pcb) EXCEPT ![c] = p]
    <2>1. /\ pcb'[c].state = "alive" /\ pcb'[c].parent = p /\ pcb'[c].children = <<>>
          /\ pcb'[p].state = pcb[p].state /\ pcb'[p].parent = pcb[p].parent
          /\ pcb'[p].children = Append(pcb[p].children, c)
          /\ \A x \in Pid \ {p, c} : pcb'[x] = pcb[x]
      BY <1>2, <1>8, <1>10, <1>12
    <2>2. Forked(pcb, pcb', p, c)
      BY <1>2, <1>4, <1>5, <2>1, Zenon DEF Forked
    <2>3. /\ pcb \in [Pid -> PCB] /\ pcb' \in [Pid -> PCB] /\ Family(pcb)
          /\ p \in Pid /\ c \in Pid
      BY <1>2, <1>5, <1>12, Zenon
    <2> QED BY <2>2, <2>3, FamilyFork
  <1>14. Exists' = Exists \cup {c} /\ Alive' = Alive \cup {c}
    <2>1. q.state # "none" /\ d.state # "none" /\ pcb[p].state # "none"
      BY <1>2, <1>8, <1>10
    <2>2. \A x \in Pid : /\ pcb'[x].state # "none" <=> pcb[x].state # "none" \/ x = c
                         /\ pcb'[x].state = "alive" <=> pcb[x].state = "alive" \/ x = c
      BY <1>2, <1>8, <1>10, <1>12, <2>1
    <2> QED BY <1>1, <2>2, Zenon DEF Exists, Alive
  <1>15. TreeType'
    <2>1. /\ alloc(kernel_stack_allocator) \in Allocator /\ alloc(pid_allocator) \in Allocator
          /\ panic' # "borrow"
      BY <1>1, <1>3, <1>4, Zenon DEF Exact
    <2>2. \A x \in Pid : pcb'[x].state # "zombie" => leaked[x] = 0
      <3>1. pcb[c].state # "zombie" /\ pcb[p].state # "zombie"
        BY <1>2, <1>4
      <3> QED BY <1>1, <1>12, <3>1, Zenon DEF TreeInv, TreeType
    <2> QED BY <1>1, <1>9, <1>12, <2>1, <2>2, Zenon DEF TreeInv, TreeType
  <1>16. \A x \in Pid : SlotsOf(x, pcb'[x], tcb')
    <2>1. SUFFICES ASSUME NEW x \in Pid PROVE SlotsOf(x, pcb'[x], tcb')
      OBVIOUS
    <2>2. SlotsOf(x, pcb[x], tcb) /\ pcb[x] \in PCB
      BY Zenon DEF TreeInv, TreeType, IdsInv
    <2>3. CASE x = c
      BY <1>10, <1>12, <2>3, Zenon
    <2>4. CASE x # c
      <3>1. /\ pcb'[x].state = pcb[x].state /\ pcb'[x].tasks = pcb[x].tasks
            /\ pcb'[x].tids = pcb[x].tids
        BY <1>2, <1>8, <1>12, <2>4
      <3>2. CASE pcb[x].state = "none"
        BY <3>1, <3>2, Zenon DEF SlotsOf
      <3>3. CASE pcb[x].state # "none"
        <4>1. ASSUME NEW i \in Filled(pcb[x].tasks)
              PROVE  tcb'[pcb[x].tasks[i]] = tcb[pcb[x].tasks[i]]
          <5>1. pcb[x].tasks[i] \in Task /\ tcb[pcb[x].tasks[i]].state \in {"live", "exited"}
            BY <2>2, <3>3, FilledTask, ZenonT(30) DEF SlotsOf
          <5>2. pcb[x].tasks[i] # n
            BY <1>3, <5>1
          <5> QED BY <1>9, <5>1, <5>2, Zenon
        <4> QED BY <2>2, <3>1, <4>1, SlotsSame, Zenon
      <3> QED BY <3>2, <3>3
    <2> QED BY <2>3, <2>4
  <1>17. \A t \in Task : InSlot(t, tcb'[t], pcb')
    <2>1. SUFFICES ASSUME NEW t \in Task PROVE InSlot(t, tcb'[t], pcb')
      OBVIOUS
    <2>2. CASE t = n
      <3>1. 0 + 1 \in Filled(q.tasks) /\ q.tasks[0 + 1] = n /\ h.state # "exited"
        BY <1>6, <1>10
      <3>2. InSlot(n, h, pcb')
        BY <1>1, <1>6, <1>10, <1>12, <3>1, Zenon DEF InSlot
      <3> QED BY <1>9, <2>2, <3>2
    <2>3. CASE t # n
      <3>1. InSlot(t, tcb[t], pcb) /\ tcb'[t] = tcb[t]
        BY <1>9, <2>3, Zenon DEF TreeInv, IdsInv
      <3>2. tcb[t].state = "live" => /\ pcb'[tcb[t].process].state = pcb[tcb[t].process].state
                                     /\ pcb'[tcb[t].process].tasks = pcb[tcb[t].process].tasks
        <4>1. SUFFICES ASSUME tcb[t].state = "live"
                       PROVE  /\ pcb'[tcb[t].process].state = pcb[tcb[t].process].state
                              /\ pcb'[tcb[t].process].tasks = pcb[tcb[t].process].tasks
          OBVIOUS
        <4>2. PICK x \in Pid : x = tcb[t].process
          BY <3>1, <4>1, Zenon DEF InSlot
        <4>3. pcb[x].state = "alive"
          BY <3>1, <4>1, <4>2, Zenon DEF InSlot
        <4>4. x # c
          BY <1>4, <4>3
        <4> QED BY <1>2, <1>8, <1>12, <4>2, <4>4, Zenon
      <3> QED BY <3>1, <3>2, InSlotSame, Zenon
    <2> QED BY <2>2, <2>3
  <1>18. {t \in Task : tcb'[t].state # "none"} = {t \in Task : tcb[t].state # "none"} \cup {n}
    <2>1. h.state # "none"
      BY <1>6
    <2> QED BY <1>1, <1>9, <2>1, Zenon
  <1>19. tcb'[current'].state # "none"
    <2>1. tcb'[k].state = "live"
      BY <1>1, <1>5, <1>9, Zenon
    <2> QED BY <1>1, <2>1
  <1>20. IdsInv'
    BY <1>1, <1>2, <1>3, <1>4, <1>14, <1>16, <1>17, <1>18, <1>19, Zenon DEF IdsInv
  <1>21. TreeInv'
    <2>1. panic' # "borrow"
      BY <1>1
    <2> QED BY <1>13, <1>15, <1>20, <2>1, Zenon DEF TreeInv
  <1>22. Tree!Fork(p, c)
    <2>1. p \in Alive /\ c \notin Alive \cup (Exists \ Alive)
      BY <1>2, <1>4 DEF Alive, Exists
    <2>2. (Exists \ Alive)' = Exists \ Alive
      BY <1>4, <1>14 DEF Exists
    <2>3. [x \in Pid |-> ParentOf(x)]' = [[x \in Pid |-> ParentOf(x)] EXCEPT ![c] = p]
      BY <1>13, <1>21, ViewNow, ViewNext, Zenon
    <2> QED BY <1>14, <2>1, <2>2, <2>3 DEF Tree!Fork
  <1>23. Tree!Next
    BY <1>1, <1>22, Zenon DEF Tree!Next
  <1> QED BY <1>21, <1>23, Zenon DEF TreeKeeps

-----------------------------------------------------------------------------
(* Dropping TCBs *)

\* The kernel stacks of the freed TCBs are given back, each once.
LEMMA DropExact ==
  ASSUME NEW tasks, NEW slots, IsFiniteSet(slots), slots \subseteq Nat, NEW tcbs,
         NEW S, Exact(kernel_stack_allocator, S),
         \A i \in slots : tasks[i] \in S,
         \A i, j \in slots : tasks[i] = tasks[j] => i = j,
         DropTasks(tasks, slots, tcbs)
  PROVE  Exact(kernel_stack_allocator', S \ {tasks[i] : i \in Unqueued(tasks, slots)})
  <1> DEFINE freed == Unqueued(tasks, slots)
             n == Cardinality(freed)
  <1>1. freed \subseteq slots
    BY Zenon DEF Unqueued
  <1>2. IsFiniteSet(freed) /\ n \in Nat
    BY <1>1, FS_Subset, FS_CardinalityType, Zenon
  <1>3. PICK order \in [1..n -> freed] :
          /\ \A i, j \in DOMAIN order : i < j => order[i] < order[j]
          /\ kernel_stack_allocator' =
               dealloc_each(kernel_stack_allocator, [i \in DOMAIN order |-> tasks[order[i]]])
    BY Zenon DEF DropTasks
  <1> HIDE DEF freed, n
  <1>4. DOMAIN order = 1..n /\ \A i \in 1..n : order[i] \in freed /\ order[i] \in Nat
    BY <1>1, <1>3, Zenon
  <1>5. \A i, j \in 1..n : order[i] = order[j] => i = j
    <2>1. \A i, j \in 1..n : i < j => order[i] < order[j]
      BY <1>3, <1>4
    <2>2. \A i, j \in 1..n : i < j \/ j < i \/ i = j
      BY <1>2
    <2>3. \A i, j \in 1..n : order[i] < order[j] => order[i] # order[j]
      BY <1>4
    <2> QED BY <2>1, <2>2, <2>3
  <1>6. order \in Surjection(1..n, freed)
    <2>1. order \in Injection(1..n, freed)
      BY <1>3, <1>5, Zenon DEF Injection, IsInjective
    <2>2. Cardinality(1..n) = n
      <3>1. \A m \in Nat : Cardinality(1..m) = IF 1 > m THEN 0 ELSE m - 1 + 1
        <4>1. 1 \in Int /\ \A m \in Nat : m \in Int
          OBVIOUS
        <4> QED BY <4>1, FS_Interval, Zenon
      <3>2. \A m \in Nat : (IF 1 > m THEN 0 ELSE m - 1 + 1) = m
        OBVIOUS
      <3> QED BY <1>2, <3>1, <3>2, Zenon
    <2> QED BY <1>2, <2>1, <2>2, FS_Injection, Zenon DEF n
  <1>7. \A x \in freed : \E i \in 1..n : order[i] = x
    BY <1>6, Zenon DEF Surjection
  <1> DEFINE q == [i \in 1..n |-> tasks[order[i]]]
  <1>8. kernel_stack_allocator' = dealloc_each(kernel_stack_allocator, q)
    BY <1>3, <1>4
  <1>9. \A i \in 1..n : q[i] = tasks[order[i]] /\ q[i] \in S
    BY <1>1, <1>4
  <1>10. q \in Seq(S) /\ Len(q) = n
    BY <1>2, <1>9
  <1> HIDE DEF q
  <1>11. \A i, j \in 1..Len(q) : q[i] = q[j] => i = j
    <2>1. SUFFICES ASSUME NEW i \in 1..n, NEW j \in 1..n, q[i] = q[j] PROVE i = j
      BY <1>10
    <2>2. tasks[order[i]] = tasks[order[j]] /\ order[i] \in slots /\ order[j] \in slots
      BY <1>1, <1>4, <1>9, <2>1
    <2>3. order[i] = order[j]
      BY <2>2, Zenon
    <2> QED BY <1>5, <2>3, Zenon
  <1>12. Elements(q) = {tasks[i] : i \in freed}
    <2>1. \A x \in Elements(q) : x \in {tasks[i] : i \in freed}
      BY <1>4, <1>9, <1>10 DEF Elements
    <2>2. ASSUME NEW x \in {tasks[i] : i \in freed} PROVE x \in Elements(q)
      <3>1. PICK j \in freed : x = tasks[j]
        BY <2>2, Zenon
      <3>2. PICK i \in 1..n : order[i] = j
        BY <1>7, Zenon
      <3>3. q[i] = x
        BY <1>9, <3>1, <3>2
      <3> QED BY <1>10, <3>3, Zenon DEF Elements
    <2> QED BY <2>1, <2>2, Zenon
  <1>13. Exact(dealloc_each(kernel_stack_allocator, q), S \ Elements(q))
    BY <1>10, <1>11, DeallocEachExact, Zenon
  <1> QED BY <1>8, <1>12, <1>13 DEF freed

\* The threads in the slots of a process that exists.
LEMMA SlotTasks ==
  ASSUME TreeInv, NEW p \in Pid, pcb[p].state # "none"
  PROVE  /\ pcb[p] \in PCB /\ Filled(pcb[p].tasks) \subseteq Nat \ {0}
         /\ IsFiniteSet(Filled(pcb[p].tasks))
         /\ \A i \in Filled(pcb[p].tasks) :
              /\ pcb[p].tasks[i] \in Task /\ tcb[pcb[p].tasks[i]].process = p
              /\ tcb[pcb[p].tasks[i]].state \in {"live", "exited"}
         /\ \A i, j \in Filled(pcb[p].tasks) : pcb[p].tasks[i] = pcb[p].tasks[j] => i = j
  <1>1. pcb[p] \in PCB /\ SlotsOf(p, pcb[p], tcb)
    BY Zenon DEF TreeInv, TreeType, IdsInv
  <1>2. pcb[p].state \in {"alive", "zombie"} /\ Len(pcb[p].tasks) \in Nat
    BY <1>1, PcbFields
  <1>3. \A i \in Filled(pcb[p].tasks) : pcb[p].tasks[i] \in Task /\ i \in Nat \ {0}
    BY <1>1, FilledTask, Zenon
  <1>4. IsFiniteSet(Filled(pcb[p].tasks))
    <2>1. IsFiniteSet(1..Len(pcb[p].tasks))
      <3>1. 1 \in Int /\ Len(pcb[p].tasks) \in Int
        BY <1>2
      <3> QED BY <3>1, FS_Interval, Zenon
    <2>2. Filled(pcb[p].tasks) \subseteq 1..Len(pcb[p].tasks)
      BY Zenon DEF Filled
    <2> QED BY <2>1, <2>2, FS_Subset, Zenon
  <1>5. \A i, j \in Filled(pcb[p].tasks) : pcb[p].tasks[i] = pcb[p].tasks[j] => i = j
    <2>1. CASE pcb[p].state = "alive"
      <3>1. \A i \in Filled(pcb[p].tasks) : tcb[pcb[p].tasks[i]].tid = i - 1
        BY <1>1, <2>1, Zenon DEF SlotsOf
      <3>2. \A i, j \in Filled(pcb[p].tasks) : i - 1 = j - 1 => i = j
        BY <1>3
      <3> QED BY <3>1, <3>2
    <2>2. CASE pcb[p].state = "zombie"
      BY <1>1, <2>2, Zenon DEF SlotsOf
    <2> QED BY <1>2, <2>1, <2>2, Zenon
  <1>6. \A i \in Filled(pcb[p].tasks) : /\ tcb[pcb[p].tasks[i]].process = p
                                        /\ tcb[pcb[p].tasks[i]].state \in {"live", "exited"}
    BY <1>1, Zenon DEF SlotsOf
  <1> QED BY <1>1, <1>3, <1>4, <1>5, <1>6, Zenon

\* What DropTasks does to the TCBs and their stacks.
Dropped(p, slots, t) == \E i \in slots : pcb[p].tasks[i] = t

\* Dropping TCBs frees kernel stacks that are in use, each once.
LEMMA DropEffect ==
  ASSUME TreeInv, NEW p \in Pid, pcb[p].state # "none",
         NEW slots \in SUBSET Filled(pcb[p].tasks), NEW tcbs \in [Task -> TCB],
         \A t \in Task : tcbs[t].state # "none" <=> tcb[t].state # "none",
         DropTasks(pcb[p].tasks, slots, tcbs)
  PROVE  /\ tcb' \in [Task -> TCB]
         /\ \A t \in Task : ~Dropped(p, slots, t) => tcb'[t] = tcbs[t]
         /\ \A t \in Task : Dropped(p, slots, t) => tcb'[t].state \in {"none", "leaked"}
         /\ Exact(kernel_stack_allocator', {t \in Task : tcb'[t].state # "none"})
  <1> DEFINE tasks == pcb[p].tasks
             freed == Unqueued(tasks, slots)
             S == {t \in Task : tcb[t].state # "none"}
  <1>1. /\ slots \subseteq Nat /\ IsFiniteSet(slots)
        /\ \A i \in slots : tasks[i] \in S
        /\ \A i, j \in slots : tasks[i] = tasks[j] => i = j
    <2>1. IsFiniteSet(slots) /\ \A i, j \in slots : tasks[i] = tasks[j] => i = j
      BY SlotTasks, FS_Subset, Zenon
    <2>2. slots \subseteq Nat /\ \A i \in slots : tasks[i] \in Task /\ tcb[tasks[i]].state \in {"live", "exited"}
      BY SlotTasks, Zenon
    <2>3. \A i \in slots : tasks[i] \in S
      BY <2>2
    <2> QED BY <2>1, <2>2, <2>3, Zenon
  <1>2. Exact(kernel_stack_allocator, S) /\ tcb \in [Task -> TCB]
    BY Zenon DEF TreeInv, TreeType, IdsInv
  <1>3. tcb' = [t \in Task |->
                  IF \E i \in freed : tasks[i] = t THEN NoTcb
                  ELSE IF \E i \in slots : tasks[i] = t THEN [tcb[t] EXCEPT !.state = "leaked"]
                  ELSE tcbs[t]]
    BY DEF DropTasks
  <1>4. Exact(kernel_stack_allocator', S \ {tasks[i] : i \in freed})
    <2> HIDE DEF S
    <2> QED BY <1>1, <1>2, DropExact, Zenon
  <1>5. \A t : (\E i \in freed : tasks[i] = t) <=> Dropped(p, slots, t) /\ "queue" \notin tcb[t].holds
    BY Zenon DEF Unqueued, Dropped
  <1> HIDE DEF freed
  <1>6. ASSUME NEW t \in Task
        PROVE  tcb'[t] = IF Dropped(p, slots, t)
                           THEN IF "queue" \notin tcb[t].holds THEN NoTcb
                                ELSE [tcb[t] EXCEPT !.state = "leaked"]
                           ELSE tcbs[t]
    BY <1>3, <1>5 DEF Dropped
  <1>7. NoTcb \in TCB /\ NoTcb.state = "none"
    BY DEF NoTcb, TCB
  <1>8. \A t \in Task : [tcb[t] EXCEPT !.state = "leaked"] \in TCB
                        /\ [tcb[t] EXCEPT !.state = "leaked"].state = "leaked"
    BY <1>2 DEF TCB
  <1>9. \A t \in Task : /\ tcb'[t] \in TCB
                        /\ ~Dropped(p, slots, t) => tcb'[t] = tcbs[t]
                        /\ Dropped(p, slots, t) =>
                             tcb'[t].state = (IF "queue" \in tcb[t].holds THEN "leaked" ELSE "none")
    <2>1. SUFFICES ASSUME NEW t \in Task
                   PROVE  /\ tcb'[t] \in TCB
                          /\ ~Dropped(p, slots, t) => tcb'[t] = tcbs[t]
                          /\ Dropped(p, slots, t) =>
                               tcb'[t].state = (IF "queue" \in tcb[t].holds THEN "leaked" ELSE "none")
      OBVIOUS
    <2>2. tcbs[t] \in TCB
      OBVIOUS
    <2> QED BY <1>6, <1>7, <1>8, <2>2, Zenon
  <1>10. tcb' \in [Task -> TCB]
    <2>1. tcb' = [t \in Task |-> tcb'[t]]
      BY <1>3
    <2> QED BY <1>9, <2>1
  <1>11. {t \in Task : tcb'[t].state # "none"} = S \ {tasks[i] : i \in freed}
    <2>1. \A t \in Task : tcb'[t].state # "none" <=> tcb[t].state # "none" /\ ~(\E i \in freed : tasks[i] = t)
      <3>1. SUFFICES ASSUME NEW t \in Task
                     PROVE  tcb'[t].state # "none" <=>
                              tcb[t].state # "none" /\ ~(\E i \in freed : tasks[i] = t)
        OBVIOUS
      <3>2. CASE ~Dropped(p, slots, t)
        BY <1>5, <1>9, <3>2, Zenon
      <3>3. CASE Dropped(p, slots, t)
        <4>1. tcb[t].state # "none"
          BY <1>1, <3>3, Zenon DEF Dropped
        <4>2. tcb'[t].state = (IF "queue" \in tcb[t].holds THEN "leaked" ELSE "none")
          BY <1>9, <3>3, Zenon
        <4>3. tcb'[t].state # "none" <=> "queue" \in tcb[t].holds
          BY <4>2
        <4> QED BY <1>5, <3>3, <4>1, <4>3, Zenon
      <3> QED BY <3>2, <3>3
    <2>2. \A t : t \in {tasks[i] : i \in freed} <=> \E i \in freed : tasks[i] = t
      BY Zenon
    <2> QED BY <2>1, <2>2, Zenon
  <1>12. \A t \in Task : Dropped(p, slots, t) => tcb'[t].state \in {"none", "leaked"}
    BY <1>9
  <1> QED BY <1>4, <1>9, <1>10, <1>11, <1>12, Zenon

\* Another process keeps its slots when threads of p are dropped.
LEMMA OthersKeepSlots ==
  ASSUME TreeInv, NEW p \in Pid, NEW x \in Pid \ {p},
         pcb'[x].state = pcb[x].state, pcb'[x].tasks = pcb[x].tasks, pcb'[x].tids = pcb[x].tids,
         \A t \in Task : tcb[t].process # p => tcb'[t] = tcb[t]
  PROVE  SlotsOf(x, pcb'[x], tcb')
  <1>1. SlotsOf(x, pcb[x], tcb)
    BY Zenon DEF TreeInv, IdsInv
  <1>2. CASE pcb[x].state = "none"
    BY <1>2, Zenon DEF SlotsOf
  <1>3. CASE pcb[x].state # "none"
    <2>1. \A i \in Filled(pcb[x].tasks) : pcb[x].tasks[i] \in Task /\ tcb[pcb[x].tasks[i]].process = x
      BY <1>3, SlotTasks, Zenon
    <2>2. \A i \in Filled(pcb[x].tasks) : tcb'[pcb[x].tasks[i]] = tcb[pcb[x].tasks[i]]
      BY <2>1, Zenon
    <2> QED BY <1>1, <2>2, SlotsSame, Zenon
  <1> QED BY <1>2, <1>3

\* The thread in a slot of p is one of p.
LEMMA DroppedOf ==
  ASSUME TreeInv, NEW p \in Pid, pcb[p].state # "none",
         NEW slots \in SUBSET Filled(pcb[p].tasks), NEW t, Dropped(p, slots, t)
  PROVE  t \in Task /\ tcb[t].process = p
  <1>1. \A i \in Filled(pcb[p].tasks) : pcb[p].tasks[i] \in Task /\ tcb[pcb[p].tasks[i]].process = p
    BY SlotTasks, Zenon
  <1>2. PICK i \in slots : pcb[p].tasks[i] = t
    BY Zenon DEF Dropped
  <1> QED BY <1>1, <1>2

\* waittid of an exited thread frees its tid and its kernel stack.
LEMMA WaitTidExitedKeeps ==
  ASSUME TreeInv, NEW k \in Task, NEW tid \in Nat, WaitTidExited(k, tid)
  PROVE  TreeKeeps
  <1>p. PICK p \in Pid : p = Process(k)
    BY RunsFacts, Zenon DEF WaitTidExited, Runs
  <1>0. PICK tasks, j : p = Process(k) /\ tasks = pcb[p].tasks /\ j = tid + 1
    BY <1>p, Zenon
  <1>1. /\ tcb[k].state = "live" /\ current' = k /\ panic' = "no"
        /\ tid < Len(tasks) /\ tasks[j] # None /\ tcb[tasks[j]].state = "exited"
        /\ pcb' = [pcb EXCEPT ![p].tasks[j] = None, ![p].tids = dealloc(@, tid)]
        /\ DropTasks(pcb[p].tasks, {j}, tcb)
        /\ pid_allocator' = pid_allocator /\ pid2pcb' = pid2pcb /\ leaked' = leaked
    BY <1>0 DEF WaitTidExited, Runs
  <1>2. /\ pcb \in [Pid -> PCB] /\ tcb \in [Task -> TCB] /\ SlotsOf(p, pcb[p], tcb)
        /\ pcb[p].state = "alive" /\ pcb[p] \in PCB
    BY <1>0, <1>1, RunsFacts, Zenon DEF TreeInv, TreeType, IdsInv
  <1>3. tasks \in Seq(Task \cup {None}) /\ j \in Nat \ {0} /\ tid = j - 1 /\ j \in Filled(tasks)
    <2>1. tasks \in Seq(Task \cup {None})
      BY <1>0, <1>2, PcbFields, Zenon
    <2>2. j \in 1..Len(tasks) /\ j \in Nat \ {0} /\ tid = j - 1
      BY <1>0, <1>1, <2>1
    <2> QED BY <1>1, <2>1, <2>2, Zenon DEF Filled
  <1>4. pcb[p].state # "none" /\ {j} \in SUBSET Filled(pcb[p].tasks)
    BY <1>0, <1>2, <1>3
  <1>5. /\ tcb' \in [Task -> TCB]
        /\ \A t \in Task : ~Dropped(p, {j}, t) => tcb'[t] = tcb[t]
        /\ \A t \in Task : Dropped(p, {j}, t) => tcb'[t].state \in {"none", "leaked"}
        /\ Exact(kernel_stack_allocator', {t \in Task : tcb'[t].state # "none"})
    <2>1. DropTasks(pcb[p].tasks, {j}, tcb)
      BY <1>1, Zenon
    <2> DEFINE slots == {j}
    <2> HIDE DEF slots
    <2>2. slots = {j}
      BY DEF slots
    <2> QED BY <1>2, <1>4, <2>1, <2>2, DropEffect, Zenon
  <1>6. \A t : Dropped(p, {j}, t) <=> tasks[j] = t
    BY <1>0, Zenon DEF Dropped
  <1> DEFINE r == [tasks EXCEPT ![j] = None]
             q == [pcb[p] EXCEPT !.tasks = r, !.tids = dealloc(pcb[p].tids, tid)]
  <1>7. /\ r \in Seq(Task \cup {None}) /\ Len(r) = Len(tasks) /\ r[j] = None
        /\ \A i \in 1..Len(tasks) : i # j => r[i] = tasks[i]
    BY <1>3 DEF Filled
  <1> HIDE DEF r
  <1>8. Filled(r) = Filled(tasks) \ {j} /\ \A i \in Filled(r) : r[i] = tasks[i]
    BY <1>7, Zenon DEF Filled
  <1>9. Exact(dealloc(pcb[p].tids, tid), {i - 1 : i \in Filled(r)})
    <2> DEFINE T == {i - 1 : i \in Filled(tasks)}
    <2>1. Exact(pcb[p].tids, T)
      BY <1>0, <1>2, Zenon DEF SlotsOf
    <2>2. tid \in T
      BY <1>3, Zenon
    <2>3. T \ {tid} = {i - 1 : i \in Filled(r)}
      <3>1. \A i \in Filled(tasks) : i \in Nat /\ (i - 1 = tid <=> i = j)
        BY <1>3 DEF Filled
      <3> QED BY <1>8, <3>1, Zenon
    <2> HIDE DEF T
    <2>4. Exact(dealloc(pcb[p].tids, tid), T \ {tid})
      BY <2>1, <2>2, DeallocExact, Zenon
    <2> QED BY <2>3, <2>4
  <1>10. dealloc(pcb[p].tids, tid) \in Allocator
    BY <1>9, Zenon DEF Exact
  <1>11. /\ q \in PCB /\ q.state = "alive" /\ q.parent = pcb[p].parent /\ q.children = pcb[p].children
         /\ q.tids = dealloc(pcb[p].tids, tid) /\ q.tasks = r
    BY <1>2, <1>7, <1>10, Zenon DEF PCB
  <1>12. pcb' = [pcb EXCEPT ![p] = q]
    BY <1>0, <1>1, <1>2, Zenon DEF PCB, r
  <1> HIDE DEF q
  <1>13. pcb' \in [Pid -> PCB] /\ pcb'[p] = q /\ \A x \in Pid \ {p} : pcb'[x] = pcb[x]
    BY <1>0, <1>2, <1>11, <1>12, Zenon
  <1>14. \A x \in Pid : /\ pcb'[x].state = pcb[x].state /\ pcb'[x].parent = pcb[x].parent
                        /\ pcb'[x].children = pcb[x].children
    BY <1>2, <1>11, <1>13, Zenon
  <1>15. TreeType'
    <2>1. kernel_stack_allocator' \in Allocator
      BY <1>5, Zenon DEF Exact
    <2> QED BY <1>1, <1>5, <1>13, <1>14, <2>1, ZenonT(30) DEF TreeInv, TreeType
  <1>16. \A x \in Pid : SlotsOf(x, pcb'[x], tcb')
    <2>1. SUFFICES ASSUME NEW x \in Pid PROVE SlotsOf(x, pcb'[x], tcb')
      OBVIOUS
    <2>2. CASE x # p
      <3>1. \A t \in Task : tcb[t].process # p => tcb'[t] = tcb[t]
        BY <1>4, <1>5, DroppedOf, Zenon
      <3> QED BY <1>13, <2>2, <3>1, OthersKeepSlots, Zenon
    <2>3. CASE x = p
      <3>1. /\ \A i \in Filled(tasks) : /\ tasks[i] \in Task /\ tcb[tasks[i]].process = p
                                        /\ tcb[tasks[i]].state \in {"live", "exited"}
                                        /\ tcb[tasks[i]].tid = i - 1
            /\ \A i \in Filled(tasks) : tasks[i] = tasks[j] => i = j
        BY <1>0, <1>2, <1>3, <1>4, SlotTasks, ZenonT(30) DEF SlotsOf
      <3>2. \A i \in Filled(r) : tcb'[r[i]] = tcb[r[i]] /\ r[i] = tasks[i] /\ i \in Filled(tasks)
        BY <1>5, <1>6, <1>8, <3>1, Zenon
      <3>3. \A i \in Filled(q.tasks) : /\ tcb'[q.tasks[i]].process = p
                                       /\ tcb'[q.tasks[i]].state \in {"live", "exited"}
                                       /\ tcb'[q.tasks[i]].tid = i - 1
        BY <1>11, <3>1, <3>2
      <3>4. q.state # "none" /\ q.state # "zombie"
        BY <1>11
      <3>5. SlotsOf(p, q, tcb')
        BY <1>9, <1>11, <3>3, <3>4, Zenon DEF SlotsOf
      <3> QED BY <1>13, <2>3, <3>5
    <2> QED BY <2>2, <2>3
  <1>17. \A t \in Task : InSlot(t, tcb'[t], pcb')
    <2>1. SUFFICES ASSUME NEW t \in Task PROVE InSlot(t, tcb'[t], pcb')
      OBVIOUS
    <2>2. CASE Dropped(p, {j}, t)
      <3>1. tcb'[t].state # "live" /\ tcb'[t].state # "exited"
        BY <1>5, <2>2
      <3> QED BY <3>1, Zenon DEF InSlot
    <2>3. CASE ~Dropped(p, {j}, t)
      <3>1. InSlot(t, tcb[t], pcb) /\ tcb'[t] = tcb[t]
        BY <1>5, <2>3, Zenon DEF TreeInv, IdsInv
      <3>2. CASE tcb[t].state = "live"
        <4>1. PICK x \in Pid : x = tcb[t].process
          BY <3>1, <3>2, Zenon DEF InSlot
        <4>2. /\ tcb[t].tid + 1 \in Filled(pcb[x].tasks) /\ pcb[x].tasks[tcb[t].tid + 1] = t
              /\ pcb[x].state = "alive"
          BY <3>1, <3>2, <4>1, Zenon DEF InSlot
        <4>3. /\ tcb[t].tid + 1 \in Filled(pcb'[x].tasks) /\ pcb'[x].tasks[tcb[t].tid + 1] = t
              /\ pcb'[x].state = "alive"
          <5>1. CASE x # p
            BY <1>13, <4>2, <5>1, Zenon
          <5>2. CASE x = p
            <6>1. tcb[t].tid + 1 # j
              BY <1>0, <1>6, <2>3, <4>2, <5>2, Zenon
            <6>2. tcb[t].tid + 1 \in Filled(r) /\ r[tcb[t].tid + 1] = t
              BY <1>0, <1>8, <4>2, <5>2, <6>1, Zenon
            <6> QED BY <1>11, <1>13, <5>2, <6>2, Zenon
          <5> QED BY <5>1, <5>2
        <4>4. tcb[t].state # "exited"
          BY <3>2
        <4> QED BY <3>1, <3>2, <4>1, <4>3, <4>4, Zenon DEF InSlot
      <3>3. CASE tcb[t].state # "live"
        BY <3>1, <3>3, Zenon DEF InSlot
      <3> QED BY <3>2, <3>3
    <2> QED BY <2>2, <2>3
  <1>18. Exists' = Exists /\ Alive' = Alive
    BY <1>14, Zenon DEF Exists, Alive
  <1>19. tcb'[current'].state # "none"
    <2>1. ~Dropped(p, {j}, k)
      BY <1>1, <1>6, Zenon
    <2>2. tcb'[k].state = "live"
      BY <1>1, <1>5, <2>1, Zenon
    <2> QED BY <1>1, <2>2
  <1>20. IdsInv'
    BY <1>1, <1>5, <1>16, <1>17, <1>18, <1>19, Zenon DEF TreeInv, IdsInv
  <1>21. TreeInv'
    <2>1. Family(pcb)' /\ panic' # "borrow"
      <3>1. Family(pcb)'
        BY <1>14, FamilySame, Zenon DEF TreeInv
      <3> QED BY <1>1, <3>1
    <2> QED BY <1>15, <1>20, <2>1, Zenon DEF TreeInv
  <1> QED BY <1>14, <1>21, TreeStutters, Zenon DEF TreeKeeps

-----------------------------------------------------------------------------
(* waitpid *)

\* The zombie that waitpid finds is a child.
LEMMA FoundIs ==
  ASSUME TreeInv, NEW p \in Pid, NEW w, Zombie(p, w) # {}
  PROVE  /\ Min(Zombie(p, w)) \in 1..Len(pcb[p].children)
         /\ Found(p, w) \in Pid /\ Found(p, w) = pcb[p].children[Min(Zombie(p, w))]
         /\ pcb[Found(p, w)].state = "zombie"
  <1>1. pcb[p] \in PCB
    BY Zenon DEF TreeInv, TreeType
  <1>2. pcb[p].children \in Seq(Pid)
    BY <1>1, PcbFields, Zenon
  <1>3. Zombie(p, w) \in SUBSET Nat
    BY <1>2 DEF Zombie
  <1>4. Min(Zombie(p, w)) \in Zombie(p, w)
    BY <1>3, LeastNumber, Zenon DEF Min
  <1>5. /\ Min(Zombie(p, w)) \in 1..Len(pcb[p].children)
        /\ pcb[pcb[p].children[Min(Zombie(p, w))]].state = "zombie"
    BY <1>4, Zenon DEF Zombie
  <1>6. pcb[p].children[Min(Zombie(p, w))] \in Pid
    BY <1>2, <1>5
  <1> QED BY <1>5, <1>6, Zenon DEF Found

\* waitpid of a zombie keeps the invariant and is its reaping.
LEMMA WaitPidReapKeeps ==
  ASSUME TreeInv, NEW k \in Task, NEW w, WaitPidReap(k, w)
  PROVE  TreeKeeps
  <1>p. PICK p \in Pid : p = Process(k)
    BY RunsFacts, Zenon DEF WaitPidReap, Runs
  <1>0. PICK c, m : p = Process(k) /\ c = Found(p, w) /\ m = Min(Zombie(p, w))
    BY <1>p, Zenon
  <1>1. /\ tcb[k].state = "live" /\ current' = k /\ panic' = "no"
        /\ Zombie(p, w) # {} /\ strong_count(c) = 1
        /\ pid_allocator' = dealloc(pid_allocator, c)
        /\ pcb' = [pcb EXCEPT ![p].children = remove(@, m), ![c] = NoPcb]
        /\ DropTasks(pcb[c].tasks, Filled(pcb[c].tasks), tcb)
        /\ pid2pcb' = pid2pcb /\ leaked' = leaked
    BY <1>0 DEF WaitPidReap, Runs
  <1>2. /\ pcb \in [Pid -> PCB] /\ tcb \in [Task -> TCB] /\ pcb[p].state = "alive"
        /\ Exact(pid_allocator, Exists) /\ Family(pcb) /\ pid2pcb = Alive
        /\ leaked \in [Pid -> 0..MaxTask]
    BY <1>0, <1>1, RunsFacts, Zenon DEF TreeInv, TreeType, IdsInv
  <1>3. /\ m \in 1..Len(pcb[p].children) /\ c \in Pid /\ c = pcb[p].children[m]
        /\ pcb[c].state = "zombie" /\ p \in Pid
    BY <1>0, <1>1, FoundIs, Zenon
  <1>4. c # p /\ pcb[c].state # "none" /\ pcb[c].state # "alive"
    BY <1>2, <1>3
  <1>5. leaked[c] = 0
    <2>1. strong_count(c) = 1 + leaked[c]
      BY <1>2, <1>3, <1>4 DEF strong_count, Alive
    <2>2. leaked[c] \in Nat
      BY <1>2, <1>3, ProcessTreeAssumption
    <2> QED BY <1>1, <2>1, <2>2
  <1> DEFINE slots == Filled(pcb[c].tasks)
  <1>6. /\ tcb' \in [Task -> TCB]
        /\ \A t \in Task : ~Dropped(c, slots, t) => tcb'[t] = tcb[t]
        /\ \A t \in Task : Dropped(c, slots, t) => tcb'[t].state \in {"none", "leaked"}
        /\ Exact(kernel_stack_allocator', {t \in Task : tcb'[t].state # "none"})
    <2>1. DropTasks(pcb[c].tasks, slots, tcb) /\ slots \in SUBSET Filled(pcb[c].tasks)
      BY <1>1
    <2> HIDE DEF slots
    <2> QED BY <1>2, <1>3, <1>4, <2>1, DropEffect, Zenon
  <1> DEFINE d == [pcb[p] EXCEPT !.children = remove(pcb[p].children, m)]
  <1>7. pcb[p] \in PCB /\ pcb[p].children \in Seq(Pid)
    BY <1>2, <1>3, PcbFields, Zenon
  <1>8. remove(pcb[p].children, m) \in Seq(Pid)
    BY <1>3, <1>7, RemoveIs, Zenon
  <1>9. /\ d \in PCB /\ d.state = "alive" /\ d.parent = pcb[p].parent
        /\ d.children = remove(pcb[p].children, m) /\ d.tasks = pcb[p].tasks /\ d.tids = pcb[p].tids
    BY <1>2, <1>7, <1>8, Zenon DEF PCB
  <1>10. NoPcb \in PCB /\ NoPcb.state = "none" /\ NoPcb.children = <<>>
    <2>1. <<>> \in Seq(Pid) /\ <<>> \in Seq(Task \cup {None}) /\ new \in Allocator
      <3>1. new \in Allocator
        BY NewExact, Zenon DEF Exact
      <3> QED BY <3>1
    <2> QED BY <2>1 DEF NoPcb, PCB
  <1>11. pcb' = [pcb EXCEPT ![p] = d, ![c] = NoPcb]
    BY <1>1, <1>2, <1>4
  <1> HIDE DEF d
  <1>12. pcb' \in [Pid -> PCB] /\ pcb'[c] = NoPcb /\ pcb'[p] = d /\ \A x \in Pid \ {p, c} : pcb'[x] = pcb[x]
    BY <1>2, <1>3, <1>4, <1>9, <1>10, <1>11
  <1>13. /\ Family(pcb') /\ Others(pcb') = Others(pcb) \ {c} /\ c \in Others(pcb)
         /\ pcb[c].parent = p /\ Mapped(pcb') = [Mapped(pcb) EXCEPT ![c] = None]
    <2>1. Reaped(pcb, pcb', p, c, m)
      BY <1>2, <1>3, <1>9, <1>10, <1>12 DEF Reaped
    <2>2. /\ pcb \in [Pid -> PCB] /\ pcb' \in [Pid -> PCB] /\ Family(pcb)
          /\ p \in Pid /\ c \in Pid /\ m \in 1..Len(pcb[p].children)
      BY <1>2, <1>3, <1>12, Zenon
    <2> QED BY <2>1, <2>2, FamilyReap
  <1>14. Exists' = Exists \ {c} /\ Alive' = Alive
    <2>1. \A x \in Pid : /\ pcb'[x].state # "none" <=> pcb[x].state # "none" /\ x # c
                         /\ pcb'[x].state = "alive" <=> pcb[x].state = "alive"
      BY <1>2, <1>3, <1>9, <1>10, <1>12
    <2> QED BY <2>1, Zenon DEF Exists, Alive
  <1>15. Exact(pid_allocator', Exists')
    <2>1. c \in Exists
      BY <1>3, <1>4, Zenon DEF Exists
    <2> QED BY <1>1, <1>2, <1>14, <2>1, DeallocExact, Zenon
  <1>16. TreeType'
    <2>1. kernel_stack_allocator' \in Allocator /\ pid_allocator' \in Allocator
      BY <1>6, <1>15, Zenon DEF Exact
    <2>2. \A x \in Pid : pcb'[x].state # "zombie" => leaked'[x] = 0
      <3>1. pcb[p].state # "zombie"
        BY <1>2
      <3> QED BY <1>1, <1>5, <1>12, <3>1, Zenon DEF TreeInv, TreeType
    <2> QED BY <1>1, <1>6, <1>12, <2>1, <2>2, Zenon DEF TreeInv, TreeType
  <1>17. \A x \in Pid : SlotsOf(x, pcb'[x], tcb')
    <2>1. SUFFICES ASSUME NEW x \in Pid PROVE SlotsOf(x, pcb'[x], tcb')
      OBVIOUS
    <2>2. CASE x # c
      <3>1. \A t \in Task : tcb[t].process # c => tcb'[t] = tcb[t]
        <4>1. \A t \in Task : Dropped(c, slots, t) => tcb[t].process = c
          BY <1>3, <1>4, DroppedOf, Zenon
        <4> QED BY <1>6, <4>1, Zenon
      <3>2. /\ pcb'[x].state = pcb[x].state /\ pcb'[x].tasks = pcb[x].tasks
            /\ pcb'[x].tids = pcb[x].tids
        BY <1>2, <1>9, <1>12, <2>2
      <3> QED BY <1>3, <2>2, <3>1, <3>2, OthersKeepSlots, Zenon
    <2>3. CASE x = c
      <3>1. pcb'[c].state # "alive" /\ pcb'[c].state # "zombie" /\ pcb'[c].state = "none"
        BY <1>10, <1>12
      <3> QED BY <2>3, <3>1, Zenon DEF SlotsOf
    <2> QED BY <2>2, <2>3
  <1>18. \A t \in Task : InSlot(t, tcb'[t], pcb')
    <2>1. SUFFICES ASSUME NEW t \in Task PROVE InSlot(t, tcb'[t], pcb')
      OBVIOUS
    <2>2. CASE Dropped(c, slots, t)
      <3>1. tcb'[t].state # "live" /\ tcb'[t].state # "exited"
        BY <1>6, <2>2
      <3> QED BY <3>1, Zenon DEF InSlot
    <2>3. CASE ~Dropped(c, slots, t)
      <3>1. InSlot(t, tcb[t], pcb) /\ tcb'[t] = tcb[t]
        BY <1>6, <2>3, Zenon DEF TreeInv, IdsInv
      <3>2. tcb[t].state = "live" => /\ pcb'[tcb[t].process].state = pcb[tcb[t].process].state
                                     /\ pcb'[tcb[t].process].tasks = pcb[tcb[t].process].tasks
        <4>1. SUFFICES ASSUME tcb[t].state = "live"
                       PROVE  /\ pcb'[tcb[t].process].state = pcb[tcb[t].process].state
                              /\ pcb'[tcb[t].process].tasks = pcb[tcb[t].process].tasks
          OBVIOUS
        <4>2. PICK x \in Pid : x = tcb[t].process
          BY <3>1, <4>1, Zenon DEF InSlot
        <4>3. pcb[x].state = "alive"
          BY <3>1, <4>1, <4>2, Zenon DEF InSlot
        <4>4. x # c
          BY <1>4, <4>3
        <4> QED BY <1>2, <1>9, <1>12, <4>2, <4>4, Zenon
      <3> QED BY <3>1, <3>2, InSlotSame, Zenon
    <2> QED BY <2>2, <2>3
  <1>19. tcb'[current'].state # "none"
    <2>1. tcb[k].process = p
      BY <1>0, Zenon DEF Process
    <2>2. ~Dropped(c, slots, k)
      BY <1>3, <1>4, <2>1, DroppedOf, ZenonT(30)
    <2>3. tcb'[k].state = "live"
      BY <1>1, <1>6, <2>2, Zenon
    <2> QED BY <1>1, <2>3
  <1>20. IdsInv'
    BY <1>1, <1>2, <1>6, <1>14, <1>15, <1>17, <1>18, <1>19, Zenon DEF IdsInv
  <1>21. TreeInv'
    <2>1. panic' # "borrow"
      BY <1>1
    <2> QED BY <1>13, <1>16, <1>20, <2>1, Zenon DEF TreeInv
  <1>22. Tree!Reap(p, c)
    <2>1. p \in Alive /\ c \in Exists \ Alive
      BY <1>2, <1>3, <1>4 DEF Alive, Exists
    <2>2. (Exists \ Alive)' = (Exists \ Alive) \ {c}
      BY <1>14
    <2>3. [x \in Pid |-> ParentOf(x)]' = [[x \in Pid |-> ParentOf(x)] EXCEPT ![c] = None]
      BY <1>13, <1>21, ViewNow, ViewNext, Zenon
    <2>4. [x \in Pid |-> ParentOf(x)][c] = p
      <3>1. Mapped(pcb)[c] = p
        BY <1>3, <1>13, Zenon DEF Mapped
      <3> QED BY <3>1, ViewNow, Zenon
    <2> QED BY <1>14, <2>1, <2>2, <2>3, <2>4 DEF Tree!Reap
  <1>23. Tree!Next
    BY <1>3, <1>22, Zenon DEF Tree!Next
  <1> QED BY <1>21, <1>23, Zenon DEF TreeKeeps

-----------------------------------------------------------------------------
(* exit *)

\* The table of PCBs after the exit of thread k of p, process by process.
AfterExit(p, k) ==
  [Adopted(p) EXCEPT ![p].state = "zombie", ![p].children = <<>>, ![p].tasks = <<k>>]

\* The table of processes after an exit.
LEMMA TerminateTable ==
  ASSUME TreeInv, NEW k \in Task, NEW p \in Pid, pcb[p].state = "alive",
         pcb[INITPROC].state = "alive",
         p = INITPROC => pcb[INITPROC].children = <<>>,
         NEW g, g = AfterExit(p, k)
  PROVE  /\ g \in [Pid -> PCB]
         /\ g[p].state = "zombie" /\ g[p].tasks = <<k>>
         /\ \A x \in Pid \ {p} : /\ g[x].state = pcb[x].state /\ g[x].tasks = pcb[x].tasks
                                 /\ g[x].tids = pcb[x].tids
         /\ p # INITPROC => Died(pcb, g, p)
         /\ p = INITPROC =>
              /\ \A x \in Pid \ {INITPROC} : g[x].children = pcb[x].children
              /\ g[INITPROC].children = <<>>
  <1> DEFINE C == Elements(pcb[p].children)
             a == Adopted(p)
  <1>1. pcb \in [Pid -> PCB] /\ Family(pcb) /\ INITPROC \in Pid
    BY Names, Zenon DEF TreeInv, TreeType
  <1>2. \A x \in Pid : x \in C <=> x \in Others(pcb) /\ pcb[x].parent = p
    <2>1. ChildrenOf(pcb, p)
      BY <1>1, Zenon DEF Family
    <2>2. ASSUME NEW x \in C PROVE x \in Others(pcb) /\ pcb[x].parent = p
      <3>1. PICK i \in 1..Len(pcb[p].children) : pcb[p].children[i] = x
        BY <2>2, Zenon DEF Elements
      <3> QED BY <2>1, <3>1 DEF ChildrenOf
    <2>3. ASSUME NEW x \in Others(pcb), pcb[x].parent = p PROVE x \in C
      <3>1. HasParent(pcb, x)
        BY <1>1, Zenon DEF Family
      <3>2. \E i \in 1..Len(pcb[p].children) : pcb[p].children[i] = x
        BY <2>3, <3>1, Zenon DEF HasParent
      <3> QED BY <3>2, Zenon DEF Elements
    <2> QED BY <2>2, <2>3, Zenon
  <1>3. INITPROC \notin C /\ p \notin C
    <2>1. INITPROC \notin C
      BY <1>1, <1>2, Zenon DEF Others
    <2>2. ASSUME p \in C PROVE FALSE
      <3>1. {p} \in SUBSET Others(pcb) /\ {p} # {} /\ pcb[p].parent = p
        BY <1>2, <2>2, Zenon
      <3> QED BY <1>1, <3>1, Zenon DEF Family, Rooted
    <2> QED BY <2>1, <2>2, Zenon
  <1>4. \A x \in Pid : pcb[x] \in PCB /\ pcb[x].children \in Seq(Pid)
    BY <1>1, PcbFields, Zenon
  <1>5. a = [q \in Pid |->
               IF q \in C THEN [pcb[q] EXCEPT !.parent = INITPROC]
               ELSE IF q = INITPROC THEN [pcb[q] EXCEPT !.children = @ \o pcb[p].children]
               ELSE pcb[q]]
    BY DEF Adopted
  <1> DEFINE z == [pcb[INITPROC] EXCEPT !.children = pcb[INITPROC].children \o pcb[p].children]
  <1>6. /\ \A x \in C : x \in Pid => a[x] = [pcb[x] EXCEPT !.parent = INITPROC]
        /\ a[INITPROC] = z
        /\ \A x \in Pid \ (C \cup {INITPROC}) : a[x] = pcb[x]
    BY <1>1, <1>3, <1>5, Zenon
  <1>7. /\ z \in PCB /\ z.state = pcb[INITPROC].state /\ z.tasks = pcb[INITPROC].tasks
        /\ z.tids = pcb[INITPROC].tids /\ z.parent = pcb[INITPROC].parent
        /\ z.children = pcb[INITPROC].children \o pcb[p].children
    <2>1. pcb[INITPROC].children \o pcb[p].children \in Seq(Pid)
      BY <1>1, <1>4, ConcatIs
    <2> QED BY <1>1, <1>4, <2>1, Zenon DEF PCB
  <1>8. \A x \in C \cap Pid : /\ a[x] \in PCB /\ a[x].state = pcb[x].state /\ a[x].tasks = pcb[x].tasks
                              /\ a[x].tids = pcb[x].tids /\ a[x].parent = INITPROC
                              /\ a[x].children = pcb[x].children
    <2>1. SUFFICES ASSUME NEW x \in C \cap Pid
                   PROVE  /\ a[x] \in PCB /\ a[x].state = pcb[x].state /\ a[x].tasks = pcb[x].tasks
                          /\ a[x].tids = pcb[x].tids /\ a[x].parent = INITPROC
                          /\ a[x].children = pcb[x].children
      BY Zenon
    <2>2. a[x] = [pcb[x] EXCEPT !.parent = INITPROC] /\ pcb[x] \in PCB
      BY <1>4, <1>6, Zenon
    <2> QED BY <1>1, <2>2, Zenon DEF PCB
  <1>9. DOMAIN a = Pid
    BY <1>5
  <1> HIDE DEF a, z, C
  <1>10. a[p] \in PCB /\ a[p].parent = pcb[p].parent
    <2>1. CASE p = INITPROC
      BY <1>6, <1>7, <2>1
    <2>2. CASE p # INITPROC
      BY <1>3, <1>4, <1>6, <2>2
    <2> QED BY <2>1, <2>2
  <1> DEFINE d == [a[p] EXCEPT !.state = "zombie", !.children = <<>>, !.tasks = <<k>>]
  <1>11. /\ d \in PCB /\ d.state = "zombie" /\ d.children = <<>> /\ d.tasks = <<k>>
         /\ d.parent = pcb[p].parent
    <2>1. <<>> \in Seq(Pid) /\ <<k>> \in Seq(Task \cup {None})
      OBVIOUS
    <2> QED BY <1>10, <2>1, Zenon DEF PCB
  <1>12. g = [a EXCEPT ![p] = d]
    BY <1>9, Zenon DEF a, AfterExit
  <1> HIDE DEF d
  <1>13. DOMAIN g = Pid /\ g = [x \in Pid |-> g[x]] /\ g[p] = d /\ \A x \in Pid \ {p} : g[x] = a[x]
    BY <1>9, <1>12, Zenon
  <1>14. \A x \in Pid \ {p} : /\ g[x] \in PCB /\ g[x].state = pcb[x].state /\ g[x].tasks = pcb[x].tasks
                              /\ g[x].tids = pcb[x].tids
    <2>1. SUFFICES ASSUME NEW x \in Pid \ {p}
                   PROVE  /\ g[x] \in PCB /\ g[x].state = pcb[x].state /\ g[x].tasks = pcb[x].tasks
                          /\ g[x].tids = pcb[x].tids
      OBVIOUS
    <2>2. g[x] = a[x]
      BY <1>13, Zenon
    <2>3. CASE x \in C
      BY <1>8, <2>2, <2>3, Zenon
    <2>4. CASE x = INITPROC
      BY <1>6, <1>7, <2>2, <2>4
    <2>5. CASE x \notin C /\ x # INITPROC
      BY <1>4, <1>6, <2>2, <2>5
    <2> QED BY <2>3, <2>4, <2>5, Zenon
  <1>15. g \in [Pid -> PCB]
    <2>1. \A x \in Pid : g[x] \in PCB
      BY <1>11, <1>13, <1>14, Zenon
    <2> QED BY <1>13, <2>1
  <1>16. ASSUME p # INITPROC PROVE Died(pcb, g, p)
    <2>1. \A x \in Pid : g[x].state = IF x = p THEN "zombie" ELSE pcb[x].state
      BY <1>11, <1>13, <1>14, Zenon
    <2>2. ASSUME NEW x \in Others(pcb)
          PROVE  g[x].parent = IF pcb[x].parent = p THEN INITPROC ELSE pcb[x].parent
      <3>1. x \in Pid /\ x # INITPROC
        BY Zenon DEF Others
      <3>2. CASE x = p
        <4>1. pcb[p].parent # p
          BY <1>2, <1>3, <3>2, Zenon
        <4> QED BY <1>11, <1>13, <3>2, <4>1, Zenon
      <3>3. CASE x # p /\ x \in C
        <4>1. pcb[x].parent = p
          BY <1>2, <3>1, <3>3, Zenon
        <4>2. x \in C \cap Pid /\ x \in Pid \ {p}
          BY <3>1, <3>3, Zenon
        <4>3. g[x] = a[x] /\ a[x].parent = INITPROC
          BY <1>8, <1>13, <4>2, Zenon
        <4> QED BY <4>1, <4>3
      <3>4. CASE x # p /\ x \notin C
        <4>1. pcb[x].parent # p
          BY <1>2, <3>1, <3>4, Zenon
        <4> QED BY <1>6, <1>13, <3>1, <3>4, <4>1
      <3> QED BY <3>2, <3>3, <3>4
    <2>3. \A x \in Pid \ {p, INITPROC} : g[x].children = pcb[x].children
      <3>1. SUFFICES ASSUME NEW x \in Pid \ {p, INITPROC} PROVE g[x].children = pcb[x].children
        OBVIOUS
      <3>2. CASE x \in C
        BY <1>8, <1>13, <3>2
      <3>3. CASE x \notin C
        BY <1>6, <1>13, <3>3
      <3> QED BY <3>2, <3>3
    <2>4. /\ g[p].children = <<>>
          /\ g[INITPROC].children = pcb[INITPROC].children \o pcb[p].children
      BY <1>1, <1>6, <1>7, <1>11, <1>13, <1>16, Zenon
    <2> QED BY <1>16, <2>1, <2>2, <2>3, <2>4, Zenon DEF Died
  <1>17. ASSUME p = INITPROC
         PROVE  /\ \A x \in Pid \ {INITPROC} : g[x].children = pcb[x].children
                /\ g[INITPROC].children = <<>>
    <2>1. g[INITPROC].children = <<>>
      BY <1>11, <1>13, <1>17
    <2>2. \A x \in Pid \ {INITPROC} : g[x].children = pcb[x].children
      <3>1. SUFFICES ASSUME NEW x \in Pid \ {INITPROC} PROVE g[x].children = pcb[x].children
        OBVIOUS
      <3>2. CASE x \in C
        BY <1>8, <1>13, <1>17, <3>2
      <3>3. CASE x \notin C
        BY <1>6, <1>13, <1>17, <3>3
      <3> QED BY <3>2, <3>3
    <2> QED BY <2>1, <2>2
  <1> QED BY <1>11, <1>13, <1>14, <1>15, <1>16, <1>17, Zenon

\* The exit of a process keeps the invariant and is a death.
LEMMA TerminateKeeps ==
  ASSUME TreeInv, NEW k \in Task, Terminate(k),
         Process(k) = INITPROC => pcb[INITPROC].children = <<>>
  PROVE  TreeKeeps
  <1>p. PICK p \in Pid : p = Process(k)
    BY RunsFacts, Zenon DEF Terminate, Runs
  <1>0. PICK slots, stuck :
          /\ p = Process(k)
          /\ slots = {i \in Filled(pcb[p].tasks) : pcb[p].tasks[i] # k}
          /\ stuck = {pcb[p].tasks[i] : i \in {j \in slots : "process" \in tcb[pcb[p].tasks[j]].holds}}
    BY <1>p, Zenon
  <1> DEFINE tcbs == [tcb EXCEPT ![k].state = "exited"]
  <1>1. /\ tcb[k].state = "live" /\ tcb[k].holds = {} /\ current' = k /\ panic = "no"
        /\ pcb[INITPROC].state = "alive"
        /\ pid2pcb' = pid2pcb \ {p}
        /\ pcb' = [Adopted(p) EXCEPT ![p].state = "zombie", ![p].children = <<>>, ![p].tasks = <<k>>]
        /\ DropTasks(pcb[p].tasks, slots, tcbs)
        /\ leaked' = [leaked EXCEPT ![p] = @ + Cardinality(stuck)]
        /\ panic' = IF p = INITPROC /\ pcb[p].children # <<>> THEN "borrow" ELSE panic
        /\ pid_allocator' = pid_allocator
    BY <1>0 DEF Terminate, Runs, Kept, remove_from_pid2process
  <1>2. /\ pcb \in [Pid -> PCB] /\ tcb \in [Task -> TCB] /\ pcb[p].state = "alive"
        /\ Exact(pid_allocator, Exists) /\ Family(pcb) /\ pid2pcb = Alive
        /\ leaked \in [Pid -> 0..MaxTask] /\ p \in Pid /\ tcb[k].process = p
        /\ pid_allocator \in Allocator
    BY <1>0, <1>1, RunsFacts, Zenon DEF TreeInv, TreeType, IdsInv, Process
  <1>3. panic' = "no" /\ (p = INITPROC => pcb[INITPROC].children = <<>>)
    <2>1. p = INITPROC => pcb[INITPROC].children = <<>>
      BY <1>0, Zenon
    <2> QED BY <1>1, <2>1, Zenon
  <1>4. /\ pcb' \in [Pid -> PCB]
        /\ pcb'[p].state = "zombie" /\ pcb'[p].tasks = <<k>>
        /\ \A x \in Pid \ {p} : /\ pcb'[x].state = pcb[x].state /\ pcb'[x].tasks = pcb[x].tasks
                                /\ pcb'[x].tids = pcb[x].tids
        /\ p # INITPROC => Died(pcb, pcb', p)
        /\ p = INITPROC =>
             /\ \A x \in Pid \ {INITPROC} : pcb'[x].children = pcb[x].children
             /\ pcb'[INITPROC].children = <<>>
    <2>1. pcb' = AfterExit(p, k)
      BY <1>1, Zenon DEF AfterExit
    <2>2. pcb[INITPROC].state = "alive" /\ pcb[p].state = "alive" /\ p \in Pid
      BY <1>1, <1>2, Zenon
    <2>3. PICK g : g = pcb'
      OBVIOUS
    <2>4. /\ g \in [Pid -> PCB]
          /\ g[p].state = "zombie" /\ g[p].tasks = <<k>>
          /\ \A x \in Pid \ {p} : /\ g[x].state = pcb[x].state /\ g[x].tasks = pcb[x].tasks
                                  /\ g[x].tids = pcb[x].tids
          /\ p # INITPROC => Died(pcb, g, p)
          /\ p = INITPROC =>
               /\ \A x \in Pid \ {INITPROC} : g[x].children = pcb[x].children
               /\ g[INITPROC].children = <<>>
      BY <1>3, <2>1, <2>2, <2>3, TerminateTable
    <2> QED BY <2>3, <2>4, Zenon
  <1>5. /\ tcbs \in [Task -> TCB] /\ tcbs[k].state = "exited" /\ tcbs[k].holds = {}
        /\ tcbs[k].process = p /\ \A t \in Task \ {k} : tcbs[t] = tcb[t]
    BY <1>1, <1>2, ZenonT(30) DEF TCB
  <1>6. \A t \in Task : tcbs[t].state # "none" <=> tcb[t].state # "none"
    BY <1>1, <1>5
  <1>7. /\ tcb' \in [Task -> TCB]
        /\ \A t \in Task : ~Dropped(p, slots, t) => tcb'[t] = tcbs[t]
        /\ \A t \in Task : Dropped(p, slots, t) => tcb'[t].state \in {"none", "leaked"}
        /\ Exact(kernel_stack_allocator', {t \in Task : tcb'[t].state # "none"})
    <2>1. /\ DropTasks(pcb[p].tasks, slots, tcbs) /\ slots \in SUBSET Filled(pcb[p].tasks)
          /\ pcb[p].state # "none" /\ p \in Pid /\ tcbs \in [Task -> TCB]
      BY <1>0, <1>1, <1>2, <1>5
    <2> HIDE DEF tcbs
    <2> QED BY <1>6, <2>1, DropEffect, Zenon
  <1> HIDE DEF tcbs
  <1>8. \A t \in Task : Dropped(p, slots, t) <=>
                          t # k /\ \E i \in Filled(pcb[p].tasks) : pcb[p].tasks[i] = t
    BY <1>0, Zenon DEF Dropped
  <1>9. tcb'[k].state = "exited" /\ tcb'[k].holds = {} /\ tcb'[k].process = p
    BY <1>5, <1>7, <1>8, Zenon
  <1>10. \A t \in Task : tcb[t].process # p => tcb'[t] = tcb[t]
    <2>1. \A t \in Task : Dropped(p, slots, t) => tcb[t].process = p
      <3>1. slots \in SUBSET Filled(pcb[p].tasks) /\ pcb[p].state # "none" /\ p \in Pid
        BY <1>0, <1>2
      <3> QED BY <3>1, DroppedOf, Zenon
    <2> QED BY <1>2, <1>5, <1>7, <2>1, Zenon
  <1>11. Exists' = Exists /\ Alive' = Alive \ {p} /\ p \in Alive
    <2>1. \A x \in Pid : /\ pcb'[x].state # "none" <=> pcb[x].state # "none"
                         /\ pcb'[x].state = "alive" <=> pcb[x].state = "alive" /\ x # p
      BY <1>2, <1>4
    <2> QED BY <1>2, <2>1, Zenon DEF Exists, Alive
  <1>12. leaked' \in [Pid -> 0..MaxTask] /\ \A x \in Pid \ {p} : leaked'[x] = leaked[x]
    <2>1. IsFiniteSet(Task) /\ Cardinality(Task) = MaxTask
      <3>1. \A n \in Nat \ {0} : /\ IsFiniteSet(0..(n - 1))
                                 /\ Cardinality(0..(n - 1)) = IF 0 > n - 1 THEN 0 ELSE (n - 1) - 0 + 1
        <4>1. 0 \in Int /\ \A n \in Nat \ {0} : n - 1 \in Int
          OBVIOUS
        <4> QED BY <4>1, FS_Interval, Zenon
      <3>2. \A n \in Nat \ {0} : (IF 0 > n - 1 THEN 0 ELSE (n - 1) - 0 + 1) = n
        OBVIOUS
      <3>3. MaxTask \in Nat \ {0}
        BY ProcessTreeAssumption, Zenon
      <3> QED BY <3>1, <3>2, <3>3, Zenon DEF Task
    <2>2. stuck \subseteq Task
      <3>1. \A i \in slots : pcb[p].tasks[i] \in Task
        <4>1. pcb[p].state # "none" /\ p \in Pid
          BY <1>2
        <4> QED BY <1>0, <4>1, SlotTasks, Zenon
      <3> QED BY <1>0, <3>1, Zenon
    <2>3. Cardinality(stuck) \in Nat /\ Cardinality(stuck) <= MaxTask
      BY <2>1, <2>2, FS_Subset, FS_CardinalityType, Zenon
    <2>4. leaked[p] = 0
      <3>1. pcb[p].state # "zombie"
        BY <1>2
      <3> QED BY <1>2, <3>1, Zenon DEF TreeInv, TreeType
    <2>5. leaked[p] + Cardinality(stuck) \in 0..MaxTask
      BY <2>3, <2>4, ProcessTreeAssumption
    <2> QED BY <1>1, <1>2, <2>5, Zenon
  <1>13. TreeType'
    <2>1. kernel_stack_allocator' \in Allocator
      BY <1>7, Zenon DEF Exact
    <2>2. \A x \in Pid : pcb'[x].state # "zombie" => leaked'[x] = 0
      BY <1>4, <1>12, Zenon DEF TreeInv, TreeType
    <2>3. pid2pcb' \subseteq Pid
      BY <1>1, <1>2, Zenon DEF Alive
    <2> QED BY <1>1, <1>2, <1>3, <1>4, <1>7, <1>12, <2>1, <2>2, <2>3, Zenon DEF TreeType
  <1>14. \A x \in Pid : SlotsOf(x, pcb'[x], tcb')
    <2>1. SUFFICES ASSUME NEW x \in Pid PROVE SlotsOf(x, pcb'[x], tcb')
      OBVIOUS
    <2>2. CASE x # p
      BY <1>2, <1>4, <1>10, <2>2, OthersKeepSlots, ZenonT(30)
    <2>3. CASE x = p
      <3>1. Filled(pcb'[p].tasks) = {1} /\ pcb'[p].tasks[1] = k
        BY <1>4, Names DEF Filled
      <3>2. pcb'[p].state # "alive"
        BY <1>4
      <3>3. \A i \in Filled(pcb'[p].tasks) : i = 1 /\ tcb'[pcb'[p].tasks[i]].process = p
                                             /\ tcb'[pcb'[p].tasks[i]].state = "exited"
        BY <1>9, <3>1, Zenon
      <3> QED BY <2>3, <3>2, <3>3, Zenon DEF SlotsOf
    <2> QED BY <2>2, <2>3
  <1>15. \A t \in Task : InSlot(t, tcb'[t], pcb')
    <2>1. SUFFICES ASSUME NEW t \in Task PROVE InSlot(t, tcb'[t], pcb')
      OBVIOUS
    <2>2. CASE Dropped(p, slots, t)
      <3>1. tcb'[t].state # "live" /\ tcb'[t].state # "exited"
        BY <1>7, <2>2
      <3> QED BY <3>1, Zenon DEF InSlot
    <2>3. CASE t = k
      <3>1. tcb'[k].state # "live"
        BY <1>9
      <3> QED BY <1>9, <2>3, <3>1, Zenon DEF InSlot
    <2>4. CASE t # k /\ ~Dropped(p, slots, t)
      <3>1. InSlot(t, tcb[t], pcb) /\ tcb'[t] = tcb[t]
        BY <1>5, <1>7, <2>4, Zenon DEF TreeInv, IdsInv
      <3>2. tcb[t].state = "live" => /\ pcb'[tcb[t].process].state = pcb[tcb[t].process].state
                                     /\ pcb'[tcb[t].process].tasks = pcb[tcb[t].process].tasks
        <4>1. SUFFICES ASSUME tcb[t].state = "live"
                       PROVE  /\ pcb'[tcb[t].process].state = pcb[tcb[t].process].state
                              /\ pcb'[tcb[t].process].tasks = pcb[tcb[t].process].tasks
          OBVIOUS
        <4>2. PICK x \in Pid : x = tcb[t].process
          BY <3>1, <4>1, Zenon DEF InSlot
        <4>3. tcb[t].tid + 1 \in Filled(pcb[x].tasks) /\ pcb[x].tasks[tcb[t].tid + 1] = t
          BY <3>1, <4>1, <4>2, Zenon DEF InSlot
        <4>4. x # p
          BY <1>8, <2>4, <4>3, Zenon
        <4> QED BY <1>4, <4>2, <4>4, Zenon
      <3> QED BY <3>1, <3>2, InSlotSame, Zenon
    <2> QED BY <2>2, <2>3, <2>4, Zenon
  <1>16. tcb'[current'].state # "none"
    BY <1>1, <1>9
  <1>17. IdsInv'
    BY <1>1, <1>2, <1>7, <1>11, <1>14, <1>15, <1>16, Zenon DEF IdsInv
  <1>18. ASSUME Family(pcb') PROVE TreeInv'
    <2>1. panic' # "borrow"
      BY <1>3
    <2> QED BY <1>13, <1>17, <1>18, <2>1, Zenon DEF TreeInv
  <1>19. CASE p # INITPROC
    <2>1. /\ Family(pcb')
          /\ Mapped(pcb') = [c \in Pid |-> IF Mapped(pcb)[c] = p THEN INITPROC ELSE Mapped(pcb)[c]]
      BY <1>2, <1>4, <1>19, FamilyDie, Zenon
    <2>2. TreeInv'
      BY <1>18, <2>1, Zenon
    <2>3. [c \in Pid |-> ParentOf(c)] = Mapped(pcb) /\ [c \in Pid |-> ParentOf(c)]' = Mapped(pcb')
      BY <2>2, ViewNow, ViewNext, Zenon
    <2>4. (Exists \ Alive)' = (Exists \ Alive) \cup {p}
      BY <1>2, <1>11 DEF Exists, Alive
    <2>5. Tree!Die(p)
      BY <1>11, <1>19, <2>1, <2>3, <2>4, Zenon DEF Tree!Die
    <2>6. Tree!Next
      BY <1>2, <2>5, Zenon DEF Tree!Next
    <2> QED BY <2>2, <2>6, Zenon DEF TreeKeeps
  <1>20. CASE p = INITPROC
    <2>1. Others(pcb) = {}
      BY <1>2, <1>3, <1>20, FamilyAlone, ZenonT(30)
    <2>2. Family(pcb') /\ Mapped(pcb') = Mapped(pcb)
      <3>1. \A x \in Pid \ {INITPROC} : pcb'[x].state = pcb[x].state /\ pcb'[x].children = pcb[x].children
        BY <1>4, <1>20, Zenon
      <3>2. pcb'[INITPROC].children = <<>> /\ pcb \in [Pid -> PCB] /\ pcb' \in [Pid -> PCB] /\ Family(pcb)
        BY <1>2, <1>4, <1>20, Zenon
      <3> QED BY <2>1, <3>1, <3>2, FamilyHalt
    <2>3. TreeInv'
      BY <1>18, <2>2, Zenon
    <2>4. [c \in Pid |-> ParentOf(c)] = Mapped(pcb) /\ [c \in Pid |-> ParentOf(c)]' = Mapped(pcb')
      BY <2>3, ViewNow, ViewNext, Zenon
    <2>5. Exists = {INITPROC} /\ Alive = {INITPROC}
      <3>1. \A x \in Pid : x # INITPROC => pcb[x].state = "none"
        BY <2>1, Zenon DEF Others
      <3>2. \A x \in Pid : pcb[x].state = "alive" => pcb[x].state # "none"
        OBVIOUS
      <3> QED BY <1>2, <1>20, <3>1, <3>2, Zenon DEF Exists, Alive
    <2>6. /\ INITPROC \in Alive /\ Alive \cup (Exists \ Alive) = {INITPROC}
          /\ Alive' = {} /\ (Exists \ Alive)' = {INITPROC}
      BY <1>11, <1>20, <2>5
    <2>7. Tree!Halt
      BY <2>2, <2>4, <2>6, Zenon DEF Tree!Halt
    <2>8. Tree!Next
      BY <2>7, Zenon DEF Tree!Next
    <2> QED BY <2>3, <2>8, Zenon DEF TreeKeeps
  <1> QED BY <1>19, <1>20

-----------------------------------------------------------------------------
(* The programs, and the theorems about the tree *)

\* All of sys_waitpid,
LEMMA WaitPidKeeps ==
  ASSUME TreeInv, NEW k \in Task, NEW w, sys_waitpid(k, w)
  PROVE  TreeKeeps
  <1>1. CASE WaitPidReap(k, w)
    BY <1>1, WaitPidReapKeeps, Zenon
  <1>2. CASE WaitPidAsserts(k, w)
    <2>1. /\ tcb[k].state = "live" /\ current' = k /\ panic' = "strong_count"
          /\ UNCHANGED <<allocators, pcb, tcb, pid2pcb, leaked>>
      BY <1>2, Zenon DEF WaitPidAsserts, Runs, Panics
    <2> QED BY <2>1, IdleKeeps, Zenon
  <1>3. CASE WaitPidIdle(k, w)
    <2>1. /\ tcb[k].state = "live" /\ current' = k /\ panic' = "no"
          /\ UNCHANGED <<allocators, pcb, tcb, pid2pcb, leaked>>
      BY <1>3 DEF WaitPidIdle, Runs
    <2> QED BY <2>1, IdleKeeps, Zenon
  <1> QED BY <1>1, <1>2, <1>3, Zenon DEF sys_waitpid

\* and all of sys_waittid.
LEMMA WaitTidKeeps ==
  ASSUME TreeInv, NEW k \in Task, NEW tid \in Nat, sys_waittid(k, tid)
  PROVE  TreeKeeps
  <1>1. CASE WaitTidExited(k, tid)
    BY <1>1, WaitTidExitedKeeps, Zenon
  <1>2. CASE WaitTidIndex(k, tid)
    <2>1. /\ tcb[k].state = "live" /\ current' = k /\ panic' = "index"
          /\ UNCHANGED <<allocators, pcb, tcb, pid2pcb, leaked>>
      BY <1>2, Zenon DEF WaitTidIndex, Runs, Panics
    <2> QED BY <2>1, IdleKeeps, Zenon
  <1>3. CASE WaitTidIdle(k, tid)
    <2>1. /\ tcb[k].state = "live" /\ current' = k /\ panic' = "no"
          /\ UNCHANGED <<allocators, pcb, tcb, pid2pcb, leaked>>
      BY <1>3 DEF WaitTidIdle, Runs
    <2> QED BY <2>1, IdleKeeps, ZenonT(30)
  <1> QED BY <1>1, <1>2, <1>3, Zenon DEF sys_waittid

\* initproc exits only when it has no child; any other program may exit.
LEMMA StepKeeps ==
  ASSUME TreeInv, NEW k \in Task, Step(k)
  PROVE  TreeKeeps
  <1>1. ASSUME exit_current_and_run_next(k), Process(k) = INITPROC => pcb[INITPROC].children = <<>>
        PROVE  TreeKeeps
    <2>1. CASE ExitThread(k)
      BY <2>1, ExitThreadKeeps, Zenon
    <2>2. CASE Terminate(k)
      BY <1>1, <2>2, TerminateKeeps, Zenon
    <2> QED BY <1>1, <2>1, <2>2, Zenon DEF exit_current_and_run_next
  <1>2. CASE Process(k) = INITPROC /\ InitProgram(k)
    <2>1. CASE sys_fork(k)
      BY <2>1, ForkKeeps, Zenon
    <2>2. CASE sys_waitpid(k, -1)
      BY <2>2, WaitPidKeeps, Zenon
    <2>3. CASE pcb[INITPROC].children = <<>> /\ exit_current_and_run_next(k)
      BY <1>1, <2>3, Zenon
    <2> QED BY <1>2, <2>1, <2>2, <2>3, Zenon DEF InitProgram
  <1>3. CASE Process(k) # INITPROC /\ UserProgram(k)
    <2>1. CASE sys_fork(k)
      BY <2>1, ForkKeeps, Zenon
    <2>2. CASE ForkOrExecAsserts(k)
      <3>1. /\ tcb[k].state = "live" /\ current' = k /\ panic' = "thread_count"
            /\ UNCHANGED <<allocators, pcb, tcb, pid2pcb, leaked>>
        BY <2>2, Zenon DEF ForkOrExecAsserts, Runs, Panics
      <3> QED BY <3>1, IdleKeeps, Zenon
    <2>3. CASE sys_thread_create(k)
      BY <2>3, ThreadCreateKeeps, Zenon
    <2>4. ASSUME NEW tid \in 0..MaxTid, sys_waittid(k, tid) PROVE TreeKeeps
      <3>1. tid \in Nat
        BY ProcessTreeAssumption
      <3> QED BY <2>4, <3>1, WaitTidKeeps, Zenon
    <2>5. ASSUME NEW w \in Pid \cup {-1}, sys_waitpid(k, w) PROVE TreeKeeps
      BY <2>5, WaitPidKeeps, Zenon
    <2>6. ASSUME NEW h \in Holds, Wait(k, h) PROVE TreeKeeps
      BY <2>6, WaitKeeps, Zenon
    <2>7. CASE SetKilled(k)
      BY <2>7, SetKilledKeeps, Zenon
    <2>8. CASE exit_current_and_run_next(k)
      BY <1>1, <1>3, <2>8, Zenon
    <2> QED BY <1>3, <2>1, <2>2, <2>3, <2>4, <2>5, <2>6, <2>7, <2>8, Zenon DEF UserProgram
  <1> QED BY <1>2, <1>3, Zenon DEF Step

\* Every step keeps the invariant and is a step of FamilyTree or invisible.
LEMMA NextKeeps ==
  ASSUME TreeInv, [Next]_vars
  PROVE  TreeKeeps
  <1>1. CASE Next
    BY <1>1, StepKeeps, ResumeKeeps, Zenon DEF Next
  <1>2. CASE UNCHANGED vars
    BY <1>2, StutterKeeps, Zenon
  <1> QED BY <1>1, <1>2

\* The kernel starts with initproc alone.
LEMMA TreeInit ==
  ASSUME Init
  PROVE  TreeInv /\ Tree!Init
  <1>1. /\ pid_allocator = alloc(new) /\ kernel_stack_allocator = alloc(new)
        /\ pcb = [p \in Pid |-> IF p = INITPROC THEN NewProcess(None, 0) ELSE NoPcb]
        /\ tcb = [k \in Task |-> IF k = 0 THEN NewTask(INITPROC, 0) ELSE NoTcb]
        /\ pid2pcb = {INITPROC} /\ leaked = [p \in Pid |-> 0] /\ current = 0 /\ panic = "no"
    BY DEF Init
  <1>2. INITPROC \in Pid /\ 0 \in Task /\ 0 \in Tid /\ 0 \in 0..MaxTask /\ INITPROC = 0
    BY Names, ProcessTreeAssumption DEF INITPROC
  <1> DEFINE h == NewTask(INITPROC, 0)
             q == NewProcess(None, 0)
  <1>3. h \in TCB /\ h.state = "live" /\ h.process = INITPROC /\ h.tid = 0 /\ h.holds = {}
    BY <1>2, Zenon DEF TCB, NewTask, NoTcb
  <1>4. NoTcb \in TCB /\ NoTcb.state = "none"
    BY DEF NoTcb, TCB
  <1>5. tcb \in [Task -> TCB] /\ tcb[0] = h /\ \A k \in Task \ {0} : tcb[k] = NoTcb
    BY <1>1, <1>2, <1>3, <1>4, Zenon
  <1>6. /\ q \in PCB /\ q.state = "alive" /\ q.parent = None /\ q.children = <<>>
        /\ q.tasks = <<0>> /\ Filled(q.tasks) = {1} /\ SlotsOf(INITPROC, q, tcb)
    <2>1. PICK n \in Task, v \in Pid \cup {None} : n = 0 /\ v = None
      BY <1>2, Zenon
    <2>2. /\ tcb[n].process = INITPROC /\ tcb[n].state = "live"
          /\ tcb[n].tid = 0 /\ q = NewProcess(v, n)
      BY <1>3, <1>5, <2>1
    <2>3. INITPROC \in Pid
      BY <1>2
    <2> HIDE DEF q
    <2>4. /\ q \in PCB /\ q.state = "alive" /\ q.parent = v /\ q.children = <<>>
          /\ q.tasks = <<n>> /\ Filled(q.tasks) = {1} /\ SlotsOf(INITPROC, q, tcb)
      <3>1. Starts(v, n, INITPROC, tcb, q)
        BY <2>2, <2>3, Zenon DEF Starts
      <3> QED BY <3>1, NewProcessIs, Zenon
    <2> QED BY <2>1, <2>4, Zenon
  <1>7. NoPcb \in PCB /\ NoPcb.state = "none" /\ NoPcb.children = <<>>
    <2>1. <<>> \in Seq(Pid) /\ <<>> \in Seq(Task \cup {None}) /\ new \in Allocator
      <3>1. new \in Allocator
        BY NewExact, Zenon DEF Exact
      <3> QED BY <3>1
    <2> QED BY <2>1 DEF NoPcb, PCB
  <1> HIDE DEF h, q
  <1>8. pcb \in [Pid -> PCB] /\ pcb[INITPROC] = q /\ \A p \in Pid \ {INITPROC} : pcb[p] = NoPcb
    BY <1>1, <1>2, <1>6, <1>7, Zenon DEF q
  <1>9. Exists = {0} /\ Alive = {0} /\ Others(pcb) = {}
    <2>1. \A p \in Pid : /\ pcb[p].state # "none" <=> p = INITPROC
                         /\ pcb[p].state = "alive" <=> p = INITPROC
      BY <1>6, <1>7, <1>8
    <2> QED BY <1>2, <2>1, Zenon DEF Exists, Alive, Others
  <1>10. {k \in Task : tcb[k].state # "none"} = {0}
    <2>1. \A k \in Task : tcb[k].state # "none" <=> k = 0
      BY <1>3, <1>4, <1>5
    <2> QED BY <1>2, <2>1, Zenon
  <1>11. TreeType
    <2>1. alloc(new) \in Allocator /\ leaked \in [Pid -> 0..MaxTask] /\ \A p \in Pid : leaked[p] = 0
      <3>1. alloc(new) \in Allocator
        BY NewExact, Zenon DEF Exact
      <3> QED BY <1>1, <1>2, <3>1, Zenon
    <2> QED BY <1>1, <1>2, <1>5, <1>8, <2>1, Zenon DEF TreeType
  <1>12. \A p \in Pid : SlotsOf(p, pcb[p], tcb)
    <2>1. SUFFICES ASSUME NEW p \in Pid PROVE SlotsOf(p, pcb[p], tcb)
      OBVIOUS
    <2>2. CASE p = INITPROC
      BY <1>6, <1>8, <2>2, Zenon
    <2>3. CASE p # INITPROC
      <3>1. pcb[p].state = "none" /\ pcb[p].state # "alive" /\ pcb[p].state # "zombie"
        BY <1>7, <1>8, <2>3
      <3> QED BY <3>1, Zenon DEF SlotsOf
    <2> QED BY <2>2, <2>3
  <1>13. \A k \in Task : InSlot(k, tcb[k], pcb)
    <2>1. SUFFICES ASSUME NEW k \in Task PROVE InSlot(k, tcb[k], pcb)
      OBVIOUS
    <2>2. CASE k = 0
      <3>1. 0 + 1 \in Filled(q.tasks) /\ q.tasks[0 + 1] = 0 /\ h.state # "exited"
        BY <1>3, <1>6
      <3>2. InSlot(0, h, pcb)
        BY <1>2, <1>3, <1>6, <1>8, <3>1, Zenon DEF InSlot
      <3> QED BY <1>5, <2>2, <3>2
    <2>3. CASE k # 0
      <3>1. tcb[k].state # "live" /\ tcb[k].state # "exited"
        BY <1>4, <1>5, <2>3
      <3> QED BY <3>1, Zenon DEF InSlot
    <2> QED BY <2>2, <2>3
  <1>14. IdsInv
    <2>1. Exact(pid_allocator, {0}) /\ Exact(kernel_stack_allocator, {0})
      BY <1>1, NewExact, Zenon
    <2>2. tcb[current].state # "none"
      BY <1>1, <1>3, <1>5
    <2> QED BY <1>1, <1>2, <1>9, <1>10, <1>12, <1>13, <2>1, <2>2, Zenon DEF IdsInv
  <1>15. Family(pcb)
    <2>1. \A p \in Pid : ChildrenOf(pcb, p)
      <3>1. \A p \in Pid : Len(pcb[p].children) = 0
        BY <1>6, <1>7, <1>8
      <3>2. \A i \in 1..0 : FALSE
        OBVIOUS
      <3> QED BY <3>1, <3>2, Zenon DEF ChildrenOf
    <2>2. Rooted(pcb)
      BY <1>9, Zenon DEF Rooted
    <2> QED BY <1>9, <2>1, <2>2, Zenon DEF Family
  <1>16. TreeInv
    <2>1. panic # "borrow"
      BY <1>1
    <2> QED BY <1>11, <1>14, <1>15, <2>1 DEF TreeInv
  <1>17. [c \in Pid |-> ParentOf(c)] = [c \in Pid |-> None]
    <2>1. Mapped(pcb) = [c \in Pid |-> None]
      BY <1>9, Zenon DEF Mapped
    <2> QED BY <1>16, <2>1, ViewNow, Zenon
  <1>18. Alive = {INITPROC} /\ Exists \ Alive = {}
    BY <1>2, <1>9
  <1> QED BY <1>16, <1>17, <1>18, Zenon DEF Tree!Init

\* The inductive invariant of the tree of processes holds.
LEMMA TreeInvTheorem == Spec => []TreeInv
  <1>1. Init => TreeInv
    BY TreeInit, Zenon
  <1>2. TreeInv /\ [Next]_vars => TreeInv'
    BY NextKeeps, Zenon DEF TreeKeeps
  <1> QED BY <1>1, <1>2, PTL DEF Spec

\* Identifiers: pids, kernel stacks and tids are in use exactly while the PCB,
\* the TCB or the slot they name exists, PID2PCB maps the processes that run,
\* and the kernel stack in use is never freed under the thread that runs on it.
THEOREM IdsTheorem == Spec => []IdsExact
  <1>1. TreeInv => IdsExact
    <2>1. SUFFICES ASSUME TreeInv PROVE IdsExact
      OBVIOUS
    <2>2. /\ Exact(pid_allocator, Exists)
          /\ Exact(kernel_stack_allocator, {k \in Task : tcb[k].state # "none"})
          /\ pid2pcb = Alive /\ tcb[current].state # "none"
      BY <2>1, Zenon DEF TreeInv, IdsInv
    <2>3. ASSUME NEW p \in Alive
          PROVE  LET tasks == pcb[p].tasks
                 IN /\ ~pcb[p].tids.failed
                    /\ InUse(pcb[p].tids) = {i - 1 : i \in {j \in 1..Len(tasks) : tasks[j] # None}}
                    /\ \A i \in 1..Len(tasks) : tasks[i] # None =>
                         tcb[tasks[i]].tid = i - 1 /\ tcb[tasks[i]].process = p
      <3>1. SlotsOf(p, pcb[p], tcb) /\ pcb[p].state = "alive"
        BY <2>1, Zenon DEF TreeInv, IdsInv, Alive
      <3>2. pcb[p].state # "none"
        BY <3>1
      <3>3. Exact(pcb[p].tids, {i - 1 : i \in Filled(pcb[p].tasks)})
        BY <3>1, Zenon DEF SlotsOf
      <3>4. \A i \in Filled(pcb[p].tasks) : /\ tcb[pcb[p].tasks[i]].tid = i - 1
                                            /\ tcb[pcb[p].tasks[i]].process = p
        BY <3>1, <3>2, Zenon DEF SlotsOf
      <3> QED BY <3>3, <3>4, Zenon DEF Exact, Filled
    <2>4. \A k \in Task : tcb[k].state = "live" => pcb[Process(k)].state = "alive"
      BY <2>1, Zenon DEF TreeInv, IdsInv, InSlot, Process
    <2> QED BY <2>2, <2>3, <2>4, Zenon DEF IdsExact, Exact
  <1> QED BY <1>1, TreeInvTheorem, PTL

\* One parent: each process but initproc is the child of exactly one process,
\* once, and that process runs; the loop over the children of a process that
\* exits never borrows initproc twice.
THEOREM OneParentTheorem == Spec => []OneParent
  <1>1. TreeInv => OneParent
    <2>1. SUFFICES ASSUME TreeInv, NEW c \in Exists \ {INITPROC}
                   PROVE  /\ pcb[c].parent \in Alive
                          /\ \A p \in Pid :
                               Cardinality({i \in 1..Len(pcb[p].children) : pcb[p].children[i] = c})
                                 = IF p = pcb[c].parent THEN 1 ELSE 0
      BY Zenon DEF OneParent, TreeInv
    <2>2. c \in Others(pcb) /\ Family(pcb)
      BY <2>1, Zenon DEF Others, Exists, TreeInv
    <2>3. HasParent(pcb, c)
      BY <2>2, Zenon DEF Family
    <2>4. pcb[c].parent \in Alive
      BY <2>3, Zenon DEF HasParent, Alive
    <2>5. ASSUME NEW p \in Pid
          PROVE  Cardinality({i \in 1..Len(pcb[p].children) : pcb[p].children[i] = c})
                   = IF p = pcb[c].parent THEN 1 ELSE 0
      <3> DEFINE S == {i \in 1..Len(pcb[p].children) : pcb[p].children[i] = c}
      <3>1. ChildrenOf(pcb, p)
        BY <2>2, Zenon DEF Family
      <3>2. CASE p = pcb[c].parent
        <4>1. PICK i \in 1..Len(pcb[p].children) : pcb[p].children[i] = c
          BY <2>3, <3>2, Zenon DEF HasParent
        <4>2. S = {i}
          BY <3>1, <4>1, Zenon DEF ChildrenOf
        <4>3. Cardinality({i}) = 1
          BY FS_Singleton, Zenon
        <4> QED BY <3>2, <4>2, <4>3
      <3>3. CASE p # pcb[c].parent
        <4>1. S = {}
          BY <3>1, <3>3 DEF ChildrenOf
        <4>2. Cardinality({}) = 0
          BY FS_EmptySet, Zenon
        <4> QED BY <3>3, <4>1, <4>2
      <3> QED BY <3>2, <3>3
    <2> QED BY <2>4, <2>5, Zenon
  <1> QED BY <1>1, TreeInvTheorem, PTL

\* Refinement: fork, exit and waitpid are the steps of FamilyTree, and every
\* other step leaves the tree alone.
THEOREM TreeTheorem == Spec => TreeSpec
  <1>1. Init => Tree!Init
    BY TreeInit, Zenon
  <1>2. TreeInv /\ [Next]_vars => [Tree!Next]_Tree!vars
    BY NextKeeps, Zenon DEF TreeKeeps
  <1> QED BY <1>1, <1>2, TreeInvTheorem, PTL DEF Spec, TreeSpec, Tree!Spec
=============================================================================
