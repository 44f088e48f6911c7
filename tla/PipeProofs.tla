----------------------------- MODULE PipeProofs -----------------------------
(***************************************************************************)
(* Pipe implements BoundedFifo, for every size of the ring buffer, every   *)
(* set of threads and processes and all lengths of buffers.                *)
(***************************************************************************)
EXTENDS Pipe, Integers, TLAPS

\* The size of the ring.
N == RING_BUFFER_SIZE

\* What the code relies on: head and tail meet exactly when the buffer is empty
\* or full, and a for loop has no more turns left than the buffer can serve.
Served ==
  /\ status = "Normal" <=> head # tail
  /\ turns > 0 => cpu \in Thread /\ pc[cpu] \in End
  /\ turns > 0 /\ pc[cpu] = "read" => turns <= available_read
  /\ turns > 0 /\ pc[cpu] = "write" => turns <= available_write

\* The inductive invariant.
IInv == TypeOK /\ Served

-----------------------------------------------------------------------------
(* Arithmetic of the ring *)

\* One step along the ring.
LEMMA AdvanceRing ==
  ASSUME NEW i \in 0..(N - 1)
  PROVE  /\ Advance(i) \in 0..(N - 1)
         /\ Advance(i) = IF i + 1 = N THEN 0 ELSE i + 1
  <1>1. N \in Nat \ {0}
    BY PipeAssumption DEF N
  <1>2. CASE i + 1 = N
    BY <1>1, <1>2 DEF Advance, N
  <1>3. CASE i + 1 < N
    BY <1>1, <1>3 DEF Advance, N
  <1> QED BY <1>1, <1>2, <1>3

\* The slot of a byte, without the remainder.
Wrap(j) == IF j < N THEN j ELSE j - N

\* Indices wrap at the end of the array.
LEMMA Slot ==
  ASSUME NEW j \in 0..(2 * N - 1)
  PROVE  j % N = Wrap(j) /\ Wrap(j) \in 0..(N - 1)
  <1>1. N \in Nat \ {0}
    BY PipeAssumption DEF N
  <1>2. CASE j < N
    BY <1>1, <1>2 DEF Wrap
  <1>3. CASE j >= N
    BY <1>1, <1>3 DEF Wrap
  <1> QED BY <1>1, <1>2, <1>3

\* The n bytes of a from the slot h on.
Slots(a, h, n) == [i \in 1..n |-> a[(h + i - 1) % RING_BUFFER_SIZE]]

\* They form a sequence.
LEMMA SlotsType ==
  ASSUME NEW a \in [0..(N - 1) -> Byte], NEW h \in 0..(N - 1), NEW n \in 0..N
  PROVE  /\ Slots(a, h, n) \in Seq(Byte) /\ Len(Slots(a, h, n)) = n
         /\ \A i \in 1..n : Slots(a, h, n)[i] = a[Wrap(h + i - 1)]
  <1>1. N \in Nat \ {0}
    BY PipeAssumption DEF N
  <1>2. \A i \in 1..n : (h + i - 1) % N = Wrap(h + i - 1) /\ Wrap(h + i - 1) \in 0..(N - 1)
    <2> SUFFICES ASSUME NEW i \in 1..n
                 PROVE  (h + i - 1) % N = Wrap(h + i - 1) /\ Wrap(h + i - 1) \in 0..(N - 1)
      BY Zenon
    <2>1. PICK j \in 0..(2 * N - 1) : j = h + i - 1
      BY <1>1
    <2> QED BY <2>1, Slot
  <1>3. \A i \in 1..n : Slots(a, h, n)[i] = a[Wrap(h + i - 1)] /\ a[Wrap(h + i - 1)] \in Byte
    BY <1>2, Zenon DEF Slots, N
  <1>4. Slots(a, h, n) \in [1..n -> Byte]
    BY <1>3, Zenon DEF Slots
  <1>5. n \in Nat
    BY <1>1
  <1> QED BY <1>3, <1>4, <1>5

\* Moving the first slot along drops the oldest byte.
LEMMA SlotsTail ==
  ASSUME NEW a \in [0..(N - 1) -> Byte], NEW h \in 0..(N - 1), NEW n \in 1..N,
         NEW g, g = Wrap(h + 1)
  PROVE  /\ Slots(a, h, n) # <<>> /\ Head(Slots(a, h, n)) = a[h]
         /\ Slots(a, g, n - 1) = Tail(Slots(a, h, n))
  <1>1. /\ N \in Nat \ {0} /\ g \in 0..(N - 1) /\ n - 1 \in 0..N /\ n \in 0..N
        /\ Wrap(h + 1 - 1) = h
    BY PipeAssumption DEF N, Wrap
  <1> DEFINE s == Slots(a, h, n)
             r == Slots(a, g, n - 1)
  <1>2. s \in Seq(Byte) /\ Len(s) = n /\ \A i \in 1..n : s[i] = a[Wrap(h + i - 1)]
    BY <1>1, SlotsType, Zenon
  <1>3. r \in Seq(Byte) /\ Len(r) = n - 1 /\ \A i \in 1..(n - 1) : r[i] = a[Wrap(g + i - 1)]
    BY <1>1, SlotsType, Zenon
  <1>4. \A i \in 1..(n - 1) : Wrap(g + i - 1) = Wrap(h + (i + 1) - 1)
    BY <1>1 DEF Wrap
  <1> HIDE DEF s, r
  <1>5. \A i \in 1..(n - 1) : r[i] = s[i + 1]
    <2> SUFFICES ASSUME NEW i \in 1..(n - 1) PROVE r[i] = s[i + 1]
      OBVIOUS
    <2>1. i + 1 \in 1..n
      BY <1>1
    <2> QED BY <1>2, <1>3, <1>4, <2>1, Zenon
  <1>6. s # <<>> /\ Head(s) = a[h]
    <2>1. s[1] = a[h]
      BY <1>1, <1>2
    <2> QED BY <1>1, <1>2, <2>1
  <1>7. r = Tail(s)
    BY <1>1, <1>2, <1>3, <1>5
  <1> QED BY <1>6, <1>7 DEF s, r

\* The array with b in the slot k.
Fill(a, k, b) == [a EXCEPT ![k] = b]

\* Filling the next slot adds the youngest byte.
LEMMA SlotsAppend ==
  ASSUME NEW a \in [0..(N - 1) -> Byte], NEW h \in 0..(N - 1), NEW n \in 0..(N - 1),
         NEW b \in Byte
  PROVE  Slots(Fill(a, Wrap(h + n), b), h, n + 1) = Append(Slots(a, h, n), b)
  <1>1. /\ N \in Nat \ {0} /\ n + 1 \in 0..N /\ n \in 0..N /\ Wrap(h + n) \in 0..(N - 1)
        /\ h + (n + 1) - 1 = h + n /\ n + 1 \in 1..(n + 1)
    BY PipeAssumption DEF N, Wrap
  <1> DEFINE c == Fill(a, Wrap(h + n), b)
  <1>2. /\ c \in [0..(N - 1) -> Byte] /\ c[Wrap(h + n)] = b
        /\ \A j \in 0..(N - 1) : j # Wrap(h + n) => c[j] = a[j]
    BY <1>1, Zenon DEF Fill
  <1> HIDE DEF c
  <1> DEFINE s == Slots(a, h, n)
             r == Slots(c, h, n + 1)
  <1>3. s \in Seq(Byte) /\ Len(s) = n /\ \A i \in 1..n : s[i] = a[Wrap(h + i - 1)]
    BY <1>1, SlotsType, Zenon
  <1>4. r \in Seq(Byte) /\ Len(r) = n + 1 /\ \A i \in 1..(n + 1) : r[i] = c[Wrap(h + i - 1)]
    BY <1>1, <1>2, SlotsType, Zenon
  <1> HIDE DEF s, r
  <1>5. r[n + 1] = b
    BY <1>1, <1>2, <1>4, Zenon
  <1>6. \A i \in 1..n : Wrap(h + i - 1) \in 0..(N - 1) /\ Wrap(h + i - 1) # Wrap(h + n)
    BY <1>1 DEF Wrap
  <1>7. \A i \in 1..n : i \in 1..(n + 1)
    BY <1>1
  <1>8. \A i \in 1..n : r[i] = s[i]
    BY <1>2, <1>3, <1>4, <1>6, <1>7, Zenon
  <1>9. r = Append(s, b)
    <2>1. /\ Append(s, b) \in Seq(Byte) /\ Len(Append(s, b)) = n + 1
          /\ Append(s, b)[n + 1] = b /\ \A i \in 1..n : Append(s, b)[i] = s[i]
      BY <1>1, <1>3
    <2>2. \A i \in 1..(n + 1) : i = n + 1 \/ i \in 1..n
      BY <1>1
    <2>3. \A i \in 1..(n + 1) : r[i] = Append(s, b)[i]
      BY <1>5, <1>8, <2>1, <2>2, Zenon
    <2>4. n + 1 \in Nat
      BY <1>1
    <2> QED BY <1>4, <2>1, <2>3, <2>4
  <1> QED BY <1>9 DEF c, s, r

\* available_read and available_write never leave 0..N, and the bytes start at
\* head and end before tail.
LEMMA Available ==
  ASSUME TypeOK, Served
  PROVE  /\ available_read \in 0..N /\ available_write = N - available_read
         /\ available_read = 0 <=> status = "Empty"
         /\ available_read = N <=> status = "Full"
         /\ available_read < N => tail = Wrap(head + available_read)
  BY PipeAssumption DEF TypeOK, Served, available_read, available_write, N, Wrap

\* read_byte takes the first byte of the contents.
LEMMA ReadByteGets ==
  ASSUME TypeOK, Served, read_byte, available_read > 0
  PROVE  /\ Contents # <<>> /\ byte' = Head(Contents) /\ Contents' = Tail(Contents)
         /\ available_read' = available_read - 1 /\ available_write' = available_write + 1
         /\ head' \in 0..(N - 1) /\ status' \in {"Empty", "Normal"}
         /\ (status' = "Normal" <=> head' # tail') /\ byte' \in Byte
  <1>1. /\ N \in Nat \ {0} /\ head \in 0..(N - 1) /\ tail \in 0..(N - 1)
        /\ arr \in [0..(N - 1) -> Byte]
    BY PipeAssumption, Zenon DEF TypeOK, N
  <1>2. /\ head' = Wrap(head + 1) /\ arr' = arr /\ tail' = tail /\ head' \in 0..(N - 1)
        /\ byte' = arr[head] /\ status' = IF head' = tail THEN "Empty" ELSE "Normal"
    BY <1>1, AdvanceRing DEF read_byte, Wrap
  <1>3. available_read \in 1..N
    BY <1>1, Available
  <1>4. available_read' = available_read - 1 /\ available_write' = available_write + 1
    BY <1>1, <1>2, <1>3 DEF available_read, available_write, Served, TypeOK, N, Wrap
  <1>5. Contents = Slots(arr, head, available_read)
        /\ Contents' = Slots(arr, head', available_read - 1)
    BY <1>2, <1>4, Zenon DEF Contents, Slots
  <1>6. Contents # <<>> /\ byte' = Head(Contents) /\ Contents' = Tail(Contents)
    BY <1>1, <1>2, <1>3, <1>5, SlotsTail, Zenon
  <1> QED BY <1>1, <1>2, <1>4, <1>6, Zenon

\* write_byte puts its byte after the last.
LEMMA WriteBytePuts ==
  ASSUME NEW b \in Byte, TypeOK, Served, write_byte(b), available_write > 0
  PROVE  /\ Len(Contents) < N /\ Contents' = Append(Contents, b)
         /\ available_read' = available_read + 1 /\ available_write' = available_write - 1
         /\ tail' \in 0..(N - 1) /\ status' \in {"Full", "Normal"}
         /\ (status' = "Normal" <=> head' # tail') /\ arr' \in [0..(N - 1) -> Byte]
  <1>1. /\ N \in Nat \ {0} /\ head \in 0..(N - 1) /\ tail \in 0..(N - 1)
        /\ arr \in [0..(N - 1) -> Byte]
    BY PipeAssumption, Zenon DEF TypeOK, N
  <1>2. /\ tail' = Wrap(tail + 1) /\ head' = head /\ tail' \in 0..(N - 1)
        /\ arr' = [arr EXCEPT ![tail] = b]
        /\ status' = IF tail' = head THEN "Full" ELSE "Normal"
    BY <1>1, AdvanceRing DEF write_byte, Wrap
  <1>3. available_read \in 0..(N - 1) /\ tail = Wrap(head + available_read)
    BY <1>1, Available
  <1>4. available_read' = available_read + 1 /\ available_write' = available_write - 1
    BY <1>1, <1>2, <1>3 DEF available_read, available_write, Served, TypeOK, N, Wrap
  <1>5. /\ arr' \in [0..(N - 1) -> Byte] /\ arr'[tail] = b
        /\ \A j \in 0..(N - 1) : j # tail => arr'[j] = arr[j]
    BY <1>1, <1>2, Zenon
  <1>6. Contents = Slots(arr, head, available_read)
    BY Zenon DEF Contents, Slots
  <1>7. Contents' = Slots(arr', head, available_read + 1)
    <2>1. head' = head
      BY <1>2
    <2> QED BY <1>4, <2>1, Zenon DEF Contents, Slots
  <1>8. Contents' = Append(Contents, b)
    <2>1. arr' = Fill(arr, Wrap(head + available_read), b)
      BY <1>2, <1>3, Zenon DEF Fill
    <2>2. Slots(Fill(arr, Wrap(head + available_read), b), head, available_read + 1)
            = Append(Slots(arr, head, available_read), b)
      BY <1>1, <1>3, SlotsAppend, Zenon
    <2> QED BY <1>6, <1>7, <2>1, <2>2, Zenon
  <1>9. Len(Contents) < N
    <2>1. available_read \in 0..N
      BY <1>1, <1>3
    <2>2. Len(Contents) = available_read
      BY <1>1, <1>6, <2>1, SlotsType, Zenon
    <2> QED BY <1>1, <1>3, <2>2
  <1> QED BY <1>1, <1>2, <1>4, <1>5, <1>8, <1>9, Zenon

-----------------------------------------------------------------------------
(* The inductive invariant *)

\* What a descriptor may be.
Entry == End \cup {"none"}

\* alloc_fd puts one end into a table, and every other entry was there before.
LEMMA AllocFd ==
  ASSUME NEW table \in Seq(Entry), NEW end \in Entry
  PROVE  /\ alloc_fd(table, end) \in Seq(Entry)
         /\ \A g \in 1..Len(alloc_fd(table, end)) :
              \/ alloc_fd(table, end)[g] = end
              \/ \E fd \in 1..Len(table) : table[fd] = alloc_fd(table, end)[g]
  <1>1. CASE \E fd \in 1..Len(table) : table[fd] = "none"
    <2>1. PICK k : alloc_fd(table, end) = [table EXCEPT ![k] = end]
      BY <1>1, Zenon DEF alloc_fd
    <2> DEFINE r == [table EXCEPT ![k] = end]
    <2>2. \A g \in 1..Len(table) : r[g] = end \/ r[g] = table[g]
      OBVIOUS
    <2>3. r \in Seq(Entry) /\ Len(r) = Len(table)
      <3>1. table \in [1..Len(table) -> Entry] /\ Len(table) \in Nat
        OBVIOUS
      <3>2. r \in [1..Len(table) -> Entry]
        BY <3>1, Zenon
      <3> HIDE DEF r
      <3> QED BY <3>1, <3>2
    <2> HIDE DEF r
    <2>4. alloc_fd(table, end) = r
      BY <2>1, Zenon DEF r
    <2> QED BY <2>2, <2>3, <2>4, Zenon
  <1>2. CASE ~ \E fd \in 1..Len(table) : table[fd] = "none"
    <2>1. alloc_fd(table, end) = Append(table, end)
      BY <1>2, Zenon DEF alloc_fd
    <2> DEFINE r == Append(table, end)
    <2>2. r \in Seq(Entry)
      OBVIOUS
    <2>3. \A g \in 1..Len(r) : r[g] = end \/ (g \in 1..Len(table) /\ r[g] = table[g])
      OBVIOUS
    <2> HIDE DEF r
    <2>4. alloc_fd(table, end) = r
      BY <2>1, Zenon DEF r
    <2> QED BY <2>2, <2>3, <2>4, Zenon
  <1> QED BY <1>1, <1>2, Zenon

\* While a thread runs user code no for loop is under way.
LEMMA UserNoTurns ==
  ASSUME TypeOK, Served, NEW t \in Thread, InUser(t)
  PROVE  turns = 0
  BY PipeAssumption DEF TypeOK, Served, InUser

\* Served is about for loops only.
LEMMA ServedIdle ==
  ASSUME Served, UNCHANGED ringVars, turns' = 0
  PROVE  Served'
  BY DEF Served, ringVars

\* The invariant holds at the start.
LEMMA InitInv == Init => IInv
  <1> SUFFICES ASSUME Init PROVE IInv
    OBVIOUS
  <1>1. fd_table \in [Proc -> Seq(Entry)]
    <2>1. <<"read", "write">> \in Seq(Entry) /\ <<>> \in Seq(Entry)
      BY DEF Entry, End
    <2> QED BY <2>1, Zenon DEF Init
  <1>2. /\ arr \in [0..(RING_BUFFER_SIZE - 1) -> Byte]
        /\ live \subseteq Proc
        /\ pc \in [Thread -> End \cup {"absent", "user", "dead"}]
        /\ byte \in Byte /\ eof \in BOOLEAN /\ panicked \in BOOLEAN
        /\ cpu \in Thread \cup {NoThread}
    BY PipeAssumption, Zenon DEF Init
  <1>3. /\ 0 \in 0..(RING_BUFFER_SIZE - 1) /\ 0 \in Nat
    BY PipeAssumption
  <1>4. buf_len \in [Thread -> Nat] /\ already \in [Thread -> Nat] /\ turns \in Nat
    BY <1>3, Zenon DEF Init
  <1>5. TypeOK
    BY <1>1, <1>2, <1>3, <1>4, Zenon DEF TypeOK, Init, Entry
  <1>6. Served
    BY DEF Served, Init
  <1> QED BY <1>5, <1>6, Zenon DEF IInv

\* What a step that moves no byte may do to the pipe: close it, never reopen it.
Quiet ==
  /\ IInv' /\ UNCHANGED <<ringVars, byte, eof>>
  /\ all_write_ends_closed => all_write_ends_closed'

\* A system call that comes back to user code is quiet when it hands out no write
\* end that nobody had.
LEMMA QuietCall ==
  ASSUME IInv, NEW t \in Thread, InUser(t),
         UNCHANGED <<ringVars, callVars, byte, eof, panicked>>,
         fd_table' \in [Proc -> Seq(Entry)], live' \subseteq Proc,
         pc' \in [Thread -> End \cup {"absent", "user", "dead"}],
         \A q \in Proc : Refers(q, "write")' => \E p \in Proc : Refers(p, "write"),
         \A u \in Thread : pc'[u] = "write" => pc[u] = "write"
  PROVE  Quiet
  <1>1. TypeOK'
    BY Zenon DEF IInv, TypeOK, ringVars, callVars, Entry
  <1>2. turns' = 0
    BY UserNoTurns, Zenon DEF IInv, callVars
  <1>3. Served'
    BY <1>2, ServedIdle, Zenon DEF IInv
  <1>4. all_write_ends_closed => all_write_ends_closed'
    BY Zenon DEF all_write_ends_closed
  <1> QED BY <1>1, <1>3, <1>4, Zenon DEF Quiet, IInv

\* sys_dup: the new entry refers to an end the table already had.
LEMMA DupQuiet ==
  ASSUME IInv, NEW t \in Thread, NEW fd, sys_dup(t, fd)
  PROVE  Quiet
  <1> DEFINE table == fd_table[ProcOf[t]]
             new == alloc_fd(table, table[fd])
  <1>1. /\ InUser(t) /\ fd \in 1..Len(table) /\ fd_table' = [fd_table EXCEPT ![ProcOf[t]] = new]
        /\ UNCHANGED <<ringVars, live, pc, callVars, byte, eof, panicked>>
    BY Zenon DEF sys_dup
  <1>2. /\ fd_table \in [Proc -> Seq(Entry)] /\ ProcOf[t] \in Proc /\ live \subseteq Proc
        /\ pc \in [Thread -> End \cup {"absent", "user", "dead"}]
    BY PipeAssumption, Zenon DEF IInv, TypeOK, Entry
  <1>3. table \in Seq(Entry) /\ table[fd] \in Entry
    BY <1>1, <1>2
  <1>4. /\ new \in Seq(Entry)
        /\ \A g \in 1..Len(new) : \E k \in 1..Len(table) : table[k] = new[g]
    BY <1>1, <1>3, AllocFd, Zenon
  <1> HIDE DEF new
  <1>5. fd_table' \in [Proc -> Seq(Entry)]
    BY <1>1, <1>2, <1>4, Zenon
  <1>6. \A q \in Proc : Refers(q, "write")' => Refers(q, "write")
    <2> SUFFICES ASSUME NEW q \in Proc, NEW g \in 1..Len(fd_table'[q]), fd_table'[q][g] = "write"
                 PROVE  \E k \in 1..Len(fd_table[q]) : fd_table[q][k] = "write"
      BY Zenon DEF Refers
    <2>1. CASE q = ProcOf[t]
      <3>1. fd_table'[q] = new
        BY <1>1, <1>2, <2>1, Zenon
      <3> QED BY <1>4, <2>1, <3>1, Zenon
    <2>2. CASE q # ProcOf[t]
      <3>1. fd_table'[q] = fd_table[q]
        BY <1>1, <1>2, <2>2, Zenon
      <3> QED BY <3>1, Zenon
    <2> QED BY <2>1, <2>2, Zenon
  <1>7. /\ live' \subseteq Proc /\ pc' \in [Thread -> End \cup {"absent", "user", "dead"}]
        /\ \A u \in Thread : pc'[u] = "write" => pc[u] = "write"
        /\ \A q \in Proc : Refers(q, "write")' => \E p \in Proc : Refers(p, "write")
    BY <1>1, <1>2, <1>6, Zenon
  <1> QED BY <1>1, <1>5, <1>7, QuietCall, Zenon

\* sys_close: the table loses an entry.
LEMMA CloseQuiet ==
  ASSUME IInv, NEW t \in Thread, NEW fd, sys_close(t, fd)
  PROVE  Quiet
  <1> DEFINE new == [fd_table[ProcOf[t]] EXCEPT ![fd] = "none"]
  <1>1. /\ InUser(t) /\ fd \in 1..Len(fd_table[ProcOf[t]])
        /\ fd_table' = [fd_table EXCEPT ![ProcOf[t]] = new]
        /\ UNCHANGED <<ringVars, live, pc, callVars, byte, eof, panicked>>
    BY Zenon DEF sys_close
  <1>2. /\ fd_table \in [Proc -> Seq(Entry)] /\ ProcOf[t] \in Proc /\ live \subseteq Proc
        /\ pc \in [Thread -> End \cup {"absent", "user", "dead"}]
        /\ fd_table[ProcOf[t]] \in Seq(Entry)
    BY PipeAssumption, Zenon DEF IInv, TypeOK, Entry
  <1>3. new \in Seq(Entry) /\ Len(new) = Len(fd_table[ProcOf[t]])
        /\ \A g \in 1..Len(new) : new[g] = "none" \/ new[g] = fd_table[ProcOf[t]][g]
    BY <1>1, <1>2 DEF Entry
  <1> HIDE DEF new
  <1>5. fd_table' \in [Proc -> Seq(Entry)]
    BY <1>1, <1>2, <1>3, Zenon
  <1>6. \A q \in Proc : Refers(q, "write")' => Refers(q, "write")
    <2> SUFFICES ASSUME NEW q \in Proc, NEW g \in 1..Len(fd_table'[q]), fd_table'[q][g] = "write"
                 PROVE  \E k \in 1..Len(fd_table[q]) : fd_table[q][k] = "write"
      BY Zenon DEF Refers
    <2>1. CASE q = ProcOf[t]
      <3>1. fd_table'[q] = new
        BY <1>1, <1>2, <2>1, Zenon
      <3> QED BY <1>3, <2>1, <3>1, Zenon
    <2>2. CASE q # ProcOf[t]
      <3>1. fd_table'[q] = fd_table[q]
        BY <1>1, <1>2, <2>2, Zenon
      <3> QED BY <3>1, Zenon
    <2> QED BY <2>1, <2>2, Zenon
  <1>7. /\ live' \subseteq Proc /\ pc' \in [Thread -> End \cup {"absent", "user", "dead"}]
        /\ \A u \in Thread : pc'[u] = "write" => pc[u] = "write"
        /\ \A q \in Proc : Refers(q, "write")' => \E p \in Proc : Refers(p, "write")
    BY <1>1, <1>2, <1>6, Zenon
  <1> QED BY <1>1, <1>5, <1>7, QuietCall, Zenon

\* fork: the child gets what its parent has.
LEMMA ForkQuiet ==
  ASSUME IInv, NEW t \in Thread, NEW q \in Proc, fork(t, q)
  PROVE  Quiet
  <1>1. /\ fd_table \in [Proc -> Seq(Entry)] /\ ProcOf[t] \in Proc /\ live \subseteq Proc
        /\ pc \in [Thread -> End \cup {"absent", "user", "dead"}] /\ Main[q] \in Thread
    BY PipeAssumption, Zenon DEF IInv, TypeOK, Entry
  <1>2. fd_table' \in [Proc -> Seq(Entry)] /\ live' \subseteq Proc
        /\ pc' \in [Thread -> End \cup {"absent", "user", "dead"}]
    BY <1>1, Zenon DEF fork
  <1>3. \A u \in Thread : pc'[u] = "write" => pc[u] = "write"
    BY <1>1 DEF fork
  <1>4. \A r \in Proc : fd_table'[r] = fd_table[r] \/ fd_table'[r] = fd_table[ProcOf[t]]
    BY <1>1, Zenon DEF fork
  <1>5. \A r \in Proc : Refers(r, "write")' => \E p \in Proc : Refers(p, "write")
    BY <1>1, <1>4, Zenon DEF Refers
  <1>6. InUser(t) /\ UNCHANGED <<ringVars, callVars, byte, eof, panicked>>
    BY Zenon DEF fork
  <1> QED BY <1>2, <1>3, <1>5, <1>6, QuietCall, Zenon

\* sys_thread_create.
LEMMA CreateQuiet ==
  ASSUME IInv, NEW t \in Thread, NEW u \in Thread, sys_thread_create(t, u)
  PROVE  Quiet
  <1>1. /\ fd_table \in [Proc -> Seq(Entry)] /\ live \subseteq Proc
        /\ pc \in [Thread -> End \cup {"absent", "user", "dead"}]
    BY Zenon DEF IInv, TypeOK, Entry
  <1>2. fd_table' \in [Proc -> Seq(Entry)] /\ live' \subseteq Proc
        /\ pc' \in [Thread -> End \cup {"absent", "user", "dead"}]
    BY <1>1, Zenon DEF sys_thread_create, procVars
  <1>3. \A v \in Thread : pc'[v] = "write" => pc[v] = "write"
    BY <1>1 DEF sys_thread_create
  <1>4. \A q \in Proc : Refers(q, "write")' => \E p \in Proc : Refers(p, "write")
    BY Zenon DEF Refers, sys_thread_create, procVars
  <1>5. InUser(t) /\ UNCHANGED <<ringVars, callVars, byte, eof, panicked>>
    BY Zenon DEF sys_thread_create
  <1> QED BY <1>2, <1>3, <1>4, <1>5, QuietCall, Zenon

\* sys_exit: a table becomes empty, or stays.
LEMMA ExitQuiet ==
  ASSUME IInv, NEW t \in Thread, sys_exit(t)
  PROVE  Quiet
  <1>1. /\ fd_table \in [Proc -> Seq(Entry)] /\ live \subseteq Proc
        /\ pc \in [Thread -> End \cup {"absent", "user", "dead"}]
    BY Zenon DEF IInv, TypeOK, Entry
  <1>2. <<>> \in Seq(Entry) /\ Len(<<>>) = 0 /\ 1..0 = {}
    OBVIOUS
  <1>3. fd_table' \in [Proc -> Seq(Entry)] /\ live' \subseteq Proc
        /\ pc' \in [Thread -> End \cup {"absent", "user", "dead"}]
    BY <1>1, <1>2, Zenon DEF sys_exit, procVars
  <1>4. \A v \in Thread : pc'[v] = "write" => pc[v] = "write"
    BY <1>1 DEF sys_exit
  <1>5. \A q \in Proc : fd_table'[q] = fd_table[q] \/ fd_table'[q] = <<>>
    BY <1>1, Zenon DEF sys_exit, procVars
  <1>6. \A q \in Proc : Refers(q, "write")' => \E p \in Proc : Refers(p, "write")
    BY <1>2, <1>5, Zenon DEF Refers
  <1>7. InUser(t) /\ UNCHANGED <<ringVars, callVars, byte, eof, panicked>>
    BY Zenon DEF sys_exit
  <1> QED BY <1>3, <1>4, <1>6, <1>7, QuietCall, Zenon

\* sys_read and sys_write: a thread that enters Pipe::write has the write end.
LEMMA CallQuiet ==
  ASSUME IInv, NEW t \in Thread, NEW fd, NEW end \in End, NEW len \in Lens, Call(t, fd, end, len)
  PROVE  Quiet
  <1>1. /\ pc \in [Thread -> End \cup {"absent", "user", "dead"}]
        /\ buf_len \in [Thread -> Nat] /\ already \in [Thread -> Nat] /\ len \in Nat
        /\ ProcOf[t] \in Proc
    BY PipeAssumption, Zenon DEF IInv, TypeOK
  <1>2. 0 \in Nat
    OBVIOUS
  <1>3. /\ pc' \in [Thread -> End \cup {"absent", "user", "dead"}]
        /\ buf_len' \in [Thread -> Nat] /\ already' \in [Thread -> Nat]
        /\ cpu' \in Thread \cup {NoThread} /\ turns' \in Nat /\ turns' = 0
    BY <1>1, <1>2, Zenon DEF Call
  <1>4. TypeOK'
    BY <1>3, Zenon DEF IInv, TypeOK, Call, ringVars, procVars
  <1>5. Served'
    BY <1>3, ServedIdle, Zenon DEF IInv, Call
  <1>6. all_write_ends_closed => all_write_ends_closed'
    <2>1. \A q \in Proc : Refers(q, "write")' => Refers(q, "write")
      BY Zenon DEF Call, procVars, Refers
    <2>2. Refers(ProcOf[t], end)
      BY Zenon DEF Call, Refers
    <2>3. \A u \in Thread : pc'[u] = pc[u] \/ pc'[u] = end
      BY <1>1, Zenon DEF Call
    <2> QED BY <1>1, <2>1, <2>2, <2>3, Zenon DEF all_write_ends_closed
  <1> QED BY <1>4, <1>5, <1>6, Zenon DEF Quiet, IInv, Call

\* Every system call up to its first turn of a loop is quiet.
LEMMA ProgramQuiet ==
  ASSUME IInv, NEW t \in Thread, Program(t)
  PROVE  Quiet
  <1>1. "read" \in End /\ "write" \in End
    BY DEF End
  <1> QED BY <1>1, DupQuiet, CloseQuiet, ForkQuiet, CreateQuiet, ExitQuiet, CallQuiet, Zenon
          DEF Program, sys_read, sys_write

-----------------------------------------------------------------------------
(* The steps inside Pipe::read and Pipe::write *)

\* Return: the thread is back in user code and its for loop is over.
LEMMA ReturnFacts ==
  ASSUME IInv, NEW t \in Thread, Return(t), UNCHANGED <<ringVars, procVars, byte, panicked>>,
         eof' \in BOOLEAN
  PROVE  IInv' /\ (all_write_ends_closed => all_write_ends_closed')
  <1>1. /\ pc \in [Thread -> End \cup {"absent", "user", "dead"}]
        /\ buf_len \in [Thread -> Nat] /\ already \in [Thread -> Nat]
    BY Zenon DEF IInv, TypeOK
  <1>2. 0 \in Nat
    OBVIOUS
  <1>3. /\ pc' \in [Thread -> End \cup {"absent", "user", "dead"}]
        /\ buf_len' \in [Thread -> Nat] /\ already' \in [Thread -> Nat]
        /\ cpu' \in Thread \cup {NoThread} /\ turns' \in Nat /\ turns' = 0
    BY <1>1, <1>2, Zenon DEF Return
  <1>4. TypeOK'
    BY <1>3, Zenon DEF IInv, TypeOK, ringVars, procVars
  <1>5. Served'
    BY <1>3, ServedIdle, Zenon DEF IInv
  <1>6. \A u \in Thread : pc'[u] = "write" => pc[u] = "write"
    BY <1>1 DEF Return
  <1>7. \A q \in Proc : Refers(q, "write")' => Refers(q, "write")
    BY Zenon DEF procVars, Refers
  <1> QED BY <1>4, <1>5, <1>6, <1>7, Zenon DEF IInv, all_write_ends_closed

\* The turns of the for loop are counted by what the buffer can serve.
LEMMA EnterQuiet ==
  ASSUME IInv, NEW t \in Thread, NEW end \in End, NEW n \in Nat, pc[t] = end, Enter(t, n),
         end = "read" => n = available_read, end = "write" => n = available_write,
         UNCHANGED <<ringVars, procVars, byte, panicked>>
  PROVE  Quiet
  <1>1. TypeOK'
    BY Zenon DEF IInv, TypeOK, Enter, ringVars, procVars
  <1>2. available_read' = available_read /\ available_write' = available_write
    BY Zenon DEF available_read, available_write, ringVars
  <1>3. available_read \in Int /\ available_write \in Int
    BY Available, PipeAssumption DEF IInv, N
  <1>4. Served'
    <2>1. cpu' = t /\ turns' = n /\ pc' = pc
      BY Zenon DEF Enter
    <2>2. status' = "Normal" <=> head' # tail'
      BY Zenon DEF IInv, Served, ringVars
    <2> QED BY <1>2, <1>3, <2>1, <2>2 DEF Served, End
  <1>5. all_write_ends_closed => all_write_ends_closed'
    BY Zenon DEF all_write_ends_closed, Refers, procVars, Enter
  <1> QED BY <1>1, <1>4, <1>5, Zenon DEF Quiet, IInv, Enter

\* A thread that finds the buffer empty, or full, gives the CPU up.
LEMMA SuspendQuiet ==
  ASSUME IInv, suspend_current_and_run_next, turns = 0,
         UNCHANGED <<ringVars, procVars, byte, panicked>>
  PROVE  Quiet
  <1>1. TypeOK'
    BY Zenon DEF IInv, TypeOK, suspend_current_and_run_next, ringVars, procVars
  <1>2. Served'
    BY ServedIdle, Zenon DEF IInv, suspend_current_and_run_next
  <1>3. all_write_ends_closed => all_write_ends_closed'
    BY Zenon DEF all_write_ends_closed, Refers, procVars, suspend_current_and_run_next
  <1> QED BY <1>1, <1>2, <1>3, Zenon DEF Quiet, IInv, suspend_current_and_run_next

\* The loop top of Pipe::read moves no byte; when it ends a read early the pipe is
\* closed and empty.
LEMMA ReadTopStep ==
  ASSUME IInv, NEW t \in Thread, ReadTop(t)
  PROVE  Quiet \/ (IInv' /\ Fifo!End)
  <1>0. /\ pc[t] = "read" /\ turns = 0 /\ "read" \in End /\ "read" # "write"
        /\ UNCHANGED <<ringVars, procVars, byte, panicked>>
    BY DEF ReadTop, AtTop, End
  <1>1. CASE available_read = 0 /\ all_write_ends_closed /\ Return(t) /\ eof' = TRUE
    <2>1. IInv' /\ all_write_ends_closed'
      BY <1>0, <1>1, ReturnFacts, Zenon
    <2>2. Contents = <<>>
      BY <1>1 DEF Contents
    <2>3. available_read' = available_read
      BY <1>0, Zenon DEF ringVars, available_read
    <2>4. Contents' = Contents
      BY <1>0, <2>3, Zenon DEF ringVars, Contents
    <2>5. all_write_ends_closed' = all_write_ends_closed
      BY <1>1, <2>1, Zenon DEF all_write_ends_closed
    <2> QED BY <1>0, <1>1, <2>1, <2>2, <2>4, <2>5, Zenon DEF Fifo!End
  <1>2. CASE suspend_current_and_run_next
    BY <1>0, <1>2, SuspendQuiet, Zenon
  <1>3. CASE Enter(t, available_read)
    <2>1. available_read \in Nat
      BY Available, PipeAssumption DEF IInv, N
    <2> QED BY <1>0, <1>3, <2>1, EnterQuiet, Zenon
  <1> QED BY <1>1, <1>2, <1>3, Zenon DEF ReadTop

\* The top of the loop of write moves no byte.
LEMMA WriteTopStep ==
  ASSUME IInv, NEW t \in Thread, WriteTop(t)
  PROVE  Quiet
  <1>0. /\ pc[t] = "write" /\ turns = 0 /\ "write" \in End /\ "read" # "write"
        /\ UNCHANGED <<ringVars, procVars, byte, panicked>>
    BY DEF WriteTop, AtTop, End
  <1>1. CASE suspend_current_and_run_next
    BY <1>0, <1>1, SuspendQuiet, Zenon
  <1>2. CASE Enter(t, available_write)
    <2>1. available_write \in Nat
      BY Available, PipeAssumption DEF IInv, N
    <2> QED BY <1>0, <1>2, <2>1, EnterQuiet, Zenon
  <1> QED BY <1>1, <1>2, Zenon DEF WriteTop

\* Counting a byte that was moved.
LEMMA CountFacts ==
  ASSUME IInv, NEW t \in Thread, Count(t), turns > 0
  PROVE  /\ already' \in [Thread -> Nat] /\ turns' \in Nat
         /\ turns' <= turns - 1
         /\ UNCHANGED <<buf_len, cpu, pc, procVars, eof, panicked>>
         /\ all_write_ends_closed' = all_write_ends_closed
  <1>1. already \in [Thread -> Nat] /\ turns \in Nat
    BY Zenon DEF IInv, TypeOK
  <1>2. already' \in [Thread -> Nat] /\ turns' \in Nat /\ turns' <= turns - 1
    BY <1>1 DEF Count
  <1>3. all_write_ends_closed' = all_write_ends_closed
    BY Zenon DEF Count, all_write_ends_closed, Refers, procVars
  <1> QED BY <1>2, <1>3, Zenon DEF Count

\* A turn of the for loop of Pipe::read.
LEMMA ReadByteStep ==
  ASSUME IInv, NEW t \in Thread, ReadByte(t)
  PROVE  IInv' /\ Fifo!Get
  <1>1. TypeOK /\ Served /\ read_byte /\ Count(t) /\ turns > 0 /\ cpu = t /\ pc[t] = "read"
    BY Zenon DEF IInv, ReadByte, InLoop
  <1>2. turns <= available_read /\ available_read \in Int /\ turns \in Nat
    BY <1>1, Available, PipeAssumption DEF Served, N, TypeOK
  <1>3. available_read > 0
    BY <1>1, <1>2
  <1>4. /\ Contents # <<>> /\ byte' = Head(Contents) /\ Contents' = Tail(Contents)
        /\ available_read' = available_read - 1
        /\ head' \in 0..(N - 1) /\ status' \in {"Empty", "Normal"}
        /\ (status' = "Normal" <=> head' # tail') /\ byte' \in Byte
    BY <1>1, <1>3, ReadByteGets, Zenon
  <1>5. /\ already' \in [Thread -> Nat] /\ turns' \in Nat /\ turns' <= turns - 1
        /\ UNCHANGED <<buf_len, cpu, pc, procVars, eof, panicked>>
        /\ all_write_ends_closed' = all_write_ends_closed
    BY <1>1, CountFacts, Zenon
  <1>6. TypeOK'
    <2>1. status' \in {"Full", "Empty", "Normal"}
      BY <1>4
    <2>2. arr' = arr /\ tail' = tail
      BY <1>1, Zenon DEF read_byte
    <2> QED BY <1>1, <1>4, <1>5, <2>1, <2>2, Zenon DEF TypeOK, procVars, N
  <1>7. Served'
    <2>1. turns' <= available_read'
      BY <1>2, <1>4, <1>5
    <2>2. cpu' = t /\ pc'[t] = "read"
      BY <1>1, <1>5, Zenon
    <2> QED BY <1>4, <2>1, <2>2 DEF Served, End
  <1> QED BY <1>4, <1>5, <1>6, <1>7, Zenon DEF IInv, Fifo!Get

\* A turn of the for loop of Pipe::write.
LEMMA WriteByteStep ==
  ASSUME IInv, NEW t \in Thread, NEW b \in Byte, WriteByte(t, b)
  PROVE  IInv' /\ Fifo!Put(b)
  <1>1. /\ TypeOK /\ Served /\ write_byte(b) /\ Count(t) /\ turns > 0 /\ cpu = t
        /\ pc[t] = "write" /\ byte' = byte
    BY Zenon DEF IInv, WriteByte, InLoop
  <1>2. turns <= available_write /\ available_write \in Int /\ turns \in Nat
    BY <1>1, Available, PipeAssumption DEF Served, N, TypeOK
  <1>3. available_write > 0
    BY <1>1, <1>2
  <1>4. /\ Len(Contents) < N /\ Contents' = Append(Contents, b)
        /\ available_write' = available_write - 1
        /\ tail' \in 0..(N - 1) /\ status' \in {"Full", "Normal"}
        /\ (status' = "Normal" <=> head' # tail') /\ arr' \in [0..(N - 1) -> Byte]
    BY <1>1, <1>3, WriteBytePuts, Zenon
  <1>5. /\ already' \in [Thread -> Nat] /\ turns' \in Nat /\ turns' <= turns - 1
        /\ UNCHANGED <<buf_len, cpu, pc, procVars, eof, panicked>>
        /\ all_write_ends_closed' = all_write_ends_closed
    BY <1>1, CountFacts, Zenon
  <1>6. TypeOK'
    <2>1. status' \in {"Full", "Empty", "Normal"}
      BY <1>4
    <2>2. head' = head
      BY <1>1, Zenon DEF write_byte
    <2> QED BY <1>1, <1>4, <1>5, <2>1, <2>2, Zenon DEF TypeOK, procVars, N
  <1>7. Served'
    <2>1. turns' <= available_write'
      BY <1>2, <1>4, <1>5
    <2>2. cpu' = t /\ pc'[t] = "write"
      BY <1>1, <1>5, Zenon
    <2> QED BY <1>4, <2>1, <2>2 DEF Served, End
  <1>8. ~all_write_ends_closed
    BY <1>1, Zenon DEF all_write_ends_closed
  <1> QED BY <1>1, <1>4, <1>5, <1>6, <1>7, <1>8, Zenon DEF IInv, Fifo!Put, N

\* The return of a loop moves no byte.
LEMMA FinishStep ==
  ASSUME IInv, NEW t \in Thread, Finish(t)
  PROVE  Quiet
  <1>1. eof' \in BOOLEAN /\ Return(t) /\ UNCHANGED <<ringVars, procVars, byte, eof, panicked>>
    BY Zenon DEF Finish, IInv, TypeOK
  <1> QED BY <1>1, ReturnFacts, Zenon DEF Quiet

\* A failed unwrap changes nothing of the pipe.
LEMMA UnwrapStep ==
  ASSUME IInv, NEW t \in Thread, UnwrapNone(t)
  PROVE  Quiet
  <1>1. panicked' \in BOOLEAN /\ UNCHANGED <<ringVars, procVars, pc, callVars, byte, eof>>
    BY Zenon DEF UnwrapNone
  <1>2. TypeOK'
    BY <1>1, Zenon DEF IInv, TypeOK, ringVars, procVars, callVars
  <1>3. Served'
    BY <1>1, Zenon DEF IInv, Served, ringVars, callVars, available_read, available_write
  <1>4. all_write_ends_closed => all_write_ends_closed'
    BY <1>1, Zenon DEF all_write_ends_closed, Refers, procVars
  <1> QED BY <1>1, <1>2, <1>3, <1>4, Zenon DEF Quiet, IInv

-----------------------------------------------------------------------------
(* The theorems *)

\* A quiet step of the pipe is a stutter of the queue, or closes it.
LEMMA QuietSimulates ==
  ASSUME Quiet
  PROVE  IInv' /\ [Fifo!Next]_(Fifo!vars)
  <1>1. UNCHANGED <<ringVars, byte, eof>> /\ IInv'
    BY Zenon DEF Quiet
  <1>2. available_read' = available_read
    BY <1>1, Zenon DEF ringVars, available_read
  <1>3. Contents' = Contents
    BY <1>1, <1>2, Zenon DEF ringVars, Contents
  <1>4. CASE all_write_ends_closed' = all_write_ends_closed
    BY <1>1, <1>3, <1>4, Zenon DEF Fifo!vars
  <1>5. CASE all_write_ends_closed' # all_write_ends_closed
    <2>1. ~all_write_ends_closed /\ all_write_ends_closed' = TRUE
      BY <1>5, Zenon DEF Quiet, all_write_ends_closed
    <2> QED BY <1>1, <1>3, <2>1, Zenon DEF Fifo!Next, Fifo!Close
  <1> QED BY <1>4, <1>5, Zenon

\* Every step keeps the invariant and is a step or a stutter of the queue.
LEMMA StepSimulates ==
  ASSUME IInv, [Next]_vars
  PROVE  IInv' /\ [Fifo!Next]_(Fifo!vars)
  <1>1. CASE UNCHANGED vars
    <2>1. UNCHANGED <<ringVars, procVars, pc, callVars, byte, eof, panicked>>
      BY <1>1, Zenon DEF vars
    <2>2. TypeOK'
      BY <2>1, Zenon DEF IInv, TypeOK, ringVars, procVars, callVars
    <2>3. Served'
      BY <2>1, Zenon DEF IInv, Served, ringVars, callVars, available_read, available_write
    <2>4. all_write_ends_closed => all_write_ends_closed'
      BY <2>1, Zenon DEF all_write_ends_closed, Refers, procVars
    <2>5. Quiet
      BY <2>1, <2>2, <2>3, <2>4, Zenon DEF Quiet, IInv
    <2> QED BY <2>5, QuietSimulates, Zenon
  <1>2. ASSUME NEW t \in Thread, Program(t)
        PROVE  IInv' /\ [Fifo!Next]_(Fifo!vars)
    BY <1>2, ProgramQuiet, QuietSimulates, Zenon
  <1>3. ASSUME NEW t \in Thread, Kernel(t)
        PROVE  IInv' /\ [Fifo!Next]_(Fifo!vars)
    <2>1. CASE ReadTop(t)
      BY <2>1, ReadTopStep, QuietSimulates, Zenon DEF Fifo!Next
    <2>2. CASE WriteTop(t) \/ Finish(t) \/ UnwrapNone(t)
      BY <2>2, WriteTopStep, FinishStep, UnwrapStep, QuietSimulates, Zenon
    <2>3. CASE ReadByte(t)
      BY <2>3, ReadByteStep, Zenon DEF Fifo!Next
    <2>4. ASSUME NEW b \in Byte, WriteByte(t, b)
          PROVE  IInv' /\ [Fifo!Next]_(Fifo!vars)
      BY <2>4, WriteByteStep, Zenon DEF Fifo!Next
    <2> QED BY <1>3, <2>1, <2>2, <2>3, <2>4, Zenon DEF Kernel
  <1> QED BY <1>1, <1>2, <1>3, Zenon DEF Next

\* The pipe starts as an empty, open queue.
LEMMA InitSimulates == Init => Fifo!Init
  <1> SUFFICES ASSUME Init PROVE Fifo!Init
    OBVIOUS
  <1>1. Contents = <<>>
    BY DEF Init, Contents, available_read
  <1>2. Refers(First, "write")
    <2>1. fd_table[First] = <<"read", "write">>
      BY PipeAssumption, Zenon DEF Init
    <2> QED BY <2>1 DEF Refers
  <1>3. all_write_ends_closed = FALSE
    BY <1>2, PipeAssumption, Zenon DEF all_write_ends_closed
  <1> QED BY <1>1, <1>3, PipeAssumption, Zenon DEF Init, Fifo!Init

\* The inductive invariant holds in every state.
LEMMA Invariant == Spec => []IInv
  <1>1. IInv /\ [Next]_vars => IInv'
    BY StepSimulates
  <1> QED BY InitInv, <1>1, PTL DEF Spec

\* Type correctness of the pipe and its descriptors: in particular head and tail
\* stay inside the array, whatever the size of the buffer.
THEOREM PipeTypeCorrect == Spec => []TypeOK
  <1>1. IInv => TypeOK
    BY DEF IInv
  <1> QED BY Invariant, <1>1, PTL

\* The ring buffer, the loops of Pipe::read and Pipe::write and the descriptors
\* implement the bounded queue: no byte is lost, repeated or reordered, no byte
\* enters a pipe that counts as closed, and a read is cut short only when the
\* pipe is closed and empty.
THEOREM PipeImplementsFifo == Spec => FifoSpec
  <1>1. IInv /\ [Next]_vars => [Fifo!Next]_(Fifo!vars)
    BY StepSimulates
  <1> QED BY Invariant, InitSimulates, <1>1, PTL DEF Spec, FifoSpec, Fifo!Spec
=============================================================================
