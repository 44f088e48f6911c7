-------------------------- MODULE BlockCacheProofs --------------------------
(***************************************************************************)
(* BlockCache implements BufferedDisk, for every number of blocks, every   *)
(* size of the cache and every depth of nested closures.                   *)
(***************************************************************************)
EXTENDS BlockCache, Integers, FiniteSetTheorems, WellFoundedInduction, TLAPS

\* No block has two copies in q.
OnceOf(q, id) == \A i, j \in 1..Len(q) : id[q[i]] = id[q[j]] => i = j

\* An entry of q that is not marked as modified agrees with the device.
CleanOf(q, id, c, m, d) == \A i \in 1..Len(q) : ~m[q[i]] => c[q[i]] = d[id[q[i]]]

\* Every cache in use is in q.
UsedOf(q, h) == \A i \in 1..Len(h) : \E k \in 1..Len(q) : q[k] = h[i]

\* What a closure may write to is in use and marked.
NotedOf(h, w, m) == \A a \in w : m[a] /\ \E i \in 1..Len(h) : h[i] = a

\* What block_cache_sync_all has passed is not marked.
PassedOf(q, m, s) == \A i \in 1..Len(q) : i < s => ~m[q[i]]

\* The inductive invariant.
IInv ==
  /\ TypeOK
  /\ OnceOf(queue, disk_id)
  /\ CleanOf(queue, disk_id, cache, modified, disk)
  /\ UsedOf(queue, held)
  /\ NotedOf(held, muts, modified)
  /\ PassedOf(queue, modified, syncing)

-----------------------------------------------------------------------------
(* What the users see, as a function of the state *)

ViewOf(q, id, c, d) ==
  [b \in Block |-> IF \E k \in 1..Len(q) : id[q[k]] = b
                     THEN c[CHOOSE a \in Addr : (\E k \in 1..Len(q) : q[k] = a) /\ id[a] = b]
                     ELSE d[b]]

\* A block that has a copy is seen as that copy.
LEMMA ViewCached ==
  ASSUME NEW q \in Seq(Addr), NEW id \in [Addr -> Block], NEW c, NEW d,
         OnceOf(q, id), NEW k \in 1..Len(q)
  PROVE  ViewOf(q, id, c, d)[id[q[k]]] = c[q[k]]
  <1>1. q[k] \in Addr
    OBVIOUS
  <1>2. id[q[k]] \in Block
    BY <1>1, Zenon
  <1> DEFINE P(a) == (\E j \in 1..Len(q) : q[j] = a) /\ id[a] = id[q[k]]
             x == CHOOSE a \in Addr : P(a)
  <1>3. x \in Addr /\ P(x)
    <2>1. P(q[k])
      BY Zenon
    <2> HIDE DEF P
    <2> QED BY <1>1, <2>1, Zenon
  <1>4. x = q[k]
    <2>1. PICK j \in 1..Len(q) : q[j] = x
      BY <1>3, Zenon
    <2>2. id[q[j]] = id[q[k]]
      BY <1>3, <2>1, Zenon
    <2> HIDE DEF x
    <2> QED BY <2>1, <2>2, Zenon DEF OnceOf
  <1>5. ViewOf(q, id, c, d)[id[q[k]]] = c[x]
    BY <1>2, Zenon DEF ViewOf
  <1> HIDE DEF x
  <1> QED BY <1>4, <1>5, Zenon

\* A block that has none is seen as the device has it.
LEMMA ViewMissing ==
  ASSUME NEW q, NEW id, NEW c, NEW d, NEW b \in Block, \A k \in 1..Len(q) : id[q[k]] # b
  PROVE  ViewOf(q, id, c, d)[b] = d[b]
  BY Zenon DEF ViewOf

\* What is seen is a function on the blocks.
LEMMA ViewDomain ==
  ASSUME NEW q, NEW id, NEW c, NEW d
  PROVE  ViewOf(q, id, c, d) = [b \in Block |-> ViewOf(q, id, c, d)[b]]
  <1> DEFINE e(b) == IF \E k \in 1..Len(q) : id[q[k]] = b
                       THEN c[CHOOSE a \in Addr : (\E k \in 1..Len(q) : q[k] = a) /\ id[a] = b]
                       ELSE d[b]
             f == [b \in Block |-> e(b)]
  <1>1. ViewOf(q, id, c, d) = f
    BY Zenon DEF ViewOf
  <1>2. f = [b \in Block |-> f[b]]
    <2> HIDE DEF e
    <2> QED BY SMT
  <1> HIDE DEF f
  <1> QED BY <1>1, <1>2, Zenon

\* What is seen of a block is a value.
LEMMA ViewType ==
  ASSUME NEW q \in Seq(Addr), NEW id \in [Addr -> Block],
         NEW c \in [Addr -> Value], NEW d \in [Block -> Value], OnceOf(q, id)
  PROVE  ViewOf(q, id, c, d) \in [Block -> Value]
  <1> DEFINE f == ViewOf(q, id, c, d)
  <1>1. ASSUME NEW b \in Block
        PROVE  f[b] \in Value
    <2>1. CASE \E j \in 1..Len(q) : id[q[j]] = b
      <3>1. PICK j \in 1..Len(q) : id[q[j]] = b
        BY <2>1, Zenon
      <3>2. f[id[q[j]]] = c[q[j]]
        BY ViewCached
      <3>3. q[j] \in Addr
        OBVIOUS
      <3>4. c[q[j]] \in Value
        BY <3>3, Zenon
      <3> HIDE DEF f
      <3> QED BY <3>1, <3>2, <3>4, Zenon
    <2>2. CASE \A j \in 1..Len(q) : id[q[j]] # b
      <3>1. f[b] = d[b]
        BY <2>2, ViewMissing
      <3>2. d[b] \in Value
        BY Zenon
      <3> HIDE DEF f
      <3> QED BY <3>1, <3>2, Zenon
    <2> QED BY <2>1, <2>2, Zenon
  <1>2. f = [b \in Block |-> f[b]]
    BY ViewDomain, Zenon
  <1> HIDE DEF f
  <1>3. f \in [Block -> Value]
    BY <1>1, <1>2, SMT
  <1> QED BY <1>3, Zenon DEF f

\* Two states look the same when every block does.
LEMMA Same ==
  ASSUME NEW f \in [Block -> Value], NEW g \in [Block -> Value], \A b \in Block : f[b] = g[b]
  PROVE  f = g
  BY SMT

\* View, as a function of queue and contents.
LEMMA ViewIs == View = ViewOf(queue, disk_id, cache, disk)
  BY Zenon DEF View, ViewOf, Cached, Copy, Queued

-----------------------------------------------------------------------------
(* How what is seen changes *)

\* f with v at x.
Put(f, x, v) == [f EXCEPT ![x] = v]

\* Writing a copy back is not seen.
LEMMA ViewFlush ==
  ASSUME NEW q \in Seq(Addr), NEW id \in [Addr -> Block],
         NEW c \in [Addr -> Value], NEW d \in [Block -> Value],
         OnceOf(q, id), NEW k \in 1..Len(q)
  PROVE  /\ Put(d, id[q[k]], c[q[k]]) \in [Block -> Value]
         /\ ViewOf(q, id, c, Put(d, id[q[k]], c[q[k]])) = ViewOf(q, id, c, d)
  <1> DEFINE e == Put(d, id[q[k]], c[q[k]])
             f == ViewOf(q, id, c, d)
             g == ViewOf(q, id, c, e)
  <1>1. q[k] \in Addr
    OBVIOUS
  <1>2. /\ e \in [Block -> Value]
        /\ \A b \in Block : b # id[q[k]] => e[b] = d[b]
    BY <1>1, SMT DEF Put
  <1> HIDE DEF e
  <1>3. f \in [Block -> Value] /\ g \in [Block -> Value]
    BY <1>2, ViewType
  <1>4. ASSUME NEW b \in Block
        PROVE  g[b] = f[b]
    <2>1. CASE \E j \in 1..Len(q) : id[q[j]] = b
      <3>1. PICK j \in 1..Len(q) : id[q[j]] = b
        BY <2>1, Zenon
      <3>2. g[id[q[j]]] = c[q[j]] /\ f[id[q[j]]] = c[q[j]]
        BY ViewCached
      <3> QED BY <3>1, <3>2, Zenon
    <2>2. CASE \A j \in 1..Len(q) : id[q[j]] # b
      <3>1. g[b] = e[b] /\ f[b] = d[b]
        BY <2>2, ViewMissing
      <3>2. e[b] = d[b]
        BY <1>2, <2>2, Zenon
      <3> QED BY <3>1, <3>2, Zenon
    <2> QED BY <2>1, <2>2, Zenon
  <1> HIDE DEF f, g
  <1>5. g = f
    BY <1>3, <1>4, Same
  <1> QED BY <1>2, <1>5, Zenon DEF e, f, g

\* A write to a copy is a write to its block.
LEMMA ViewWrite ==
  ASSUME NEW q \in Seq(Addr), NEW id \in [Addr -> Block],
         NEW c \in [Addr -> Value], NEW d \in [Block -> Value],
         OnceOf(q, id), NEW k \in 1..Len(q), NEW v \in Value
  PROVE  ViewOf(q, id, Put(c, q[k], v), d)
           = Put(ViewOf(q, id, c, d), id[q[k]], v)
  <1> DEFINE e == Put(c, q[k], v)
             f == ViewOf(q, id, c, d)
             g == ViewOf(q, id, e, d)
             h == Put(f, id[q[k]], v)
  <1>1. q[k] \in Addr /\ id[q[k]] \in Block
    OBVIOUS
  <1>2. /\ e \in [Addr -> Value] /\ e[q[k]] = v
        /\ \A a \in Addr : a # q[k] => e[a] = c[a]
    BY <1>1, SMT DEF Put
  <1> HIDE DEF e
  <1>3. f \in [Block -> Value] /\ g \in [Block -> Value]
    BY <1>2, ViewType
  <1>4. /\ h \in [Block -> Value] /\ h[id[q[k]]] = v
        /\ \A b \in Block : b # id[q[k]] => h[b] = f[b]
    <2> HIDE DEF f
    <2> QED BY <1>1, <1>3, SMT DEF Put
  <1> HIDE DEF h
  <1>5. ASSUME NEW b \in Block
        PROVE  g[b] = h[b]
    <2>1. CASE b = id[q[k]]
      <3>1. g[id[q[k]]] = e[q[k]]
        BY <1>2, ViewCached
      <3> QED BY <1>2, <1>4, <2>1, <3>1, Zenon
    <2>2. ASSUME b # id[q[k]], NEW j \in 1..Len(q), id[q[j]] = b
          PROVE  g[b] = h[b]
      <3>1. g[id[q[j]]] = e[q[j]] /\ f[id[q[j]]] = c[q[j]]
        BY <1>2, ViewCached
      <3>2. q[j] \in Addr /\ q[j] # q[k]
        BY <2>2
      <3>3. e[q[j]] = c[q[j]]
        BY <1>2, <3>2, Zenon
      <3>4. h[b] = f[b]
        BY <1>4, <2>2, Zenon
      <3> QED BY <2>2, <3>1, <3>3, <3>4, Zenon
    <2>3. ASSUME b # id[q[k]], \A j \in 1..Len(q) : id[q[j]] # b
          PROVE  g[b] = h[b]
      <3>1. g[b] = d[b] /\ f[b] = d[b]
        BY <2>3, ViewMissing
      <3> QED BY <1>4, <2>3, <3>1, Zenon
    <2> QED BY <2>1, <2>2, <2>3, Zenon
  <1> HIDE DEF f, g
  <1>6. g = h
    BY <1>3, <1>4, <1>5, Same
  <1> QED BY <1>6, Zenon DEF e, f, g, h

\* With no copy that differs from the device, the device is what is seen.
LEMMA ViewClean ==
  ASSUME NEW q \in Seq(Addr), NEW id \in [Addr -> Block],
         NEW c \in [Addr -> Value], NEW d \in [Block -> Value],
         OnceOf(q, id), \A k \in 1..Len(q) : c[q[k]] = d[id[q[k]]]
  PROVE  ViewOf(q, id, c, d) = d
  <1> DEFINE f == ViewOf(q, id, c, d)
  <1>1. ASSUME NEW b \in Block
        PROVE  f[b] = d[b]
    <2>1. CASE \E j \in 1..Len(q) : id[q[j]] = b
      <3>1. PICK j \in 1..Len(q) : id[q[j]] = b
        BY <2>1, Zenon
      <3>2. f[id[q[j]]] = c[q[j]]
        BY ViewCached
      <3> QED BY <3>1, <3>2, Zenon
    <2>2. CASE \A j \in 1..Len(q) : id[q[j]] # b
      BY <2>2, ViewMissing
    <2> QED BY <2>1, <2>2, Zenon
  <1>2. f \in [Block -> Value]
    BY ViewType
  <1> HIDE DEF f
  <1>3. f = d
    BY <1>1, <1>2, Same
  <1> QED BY <1>3, Zenon DEF f

\* Loading a block is not seen.
LEMMA ViewLoad ==
  ASSUME NEW q \in Seq(Addr), NEW id \in [Addr -> Block],
         NEW c \in [Addr -> Value], NEW d \in [Block -> Value], OnceOf(q, id),
         NEW a \in Addr, NEW b \in Block, \A k \in 1..Len(q) : q[k] # a /\ id[q[k]] # b
  PROVE  /\ OnceOf(Append(q, a), [id EXCEPT ![a] = b])
         /\ ViewOf(Append(q, a), [id EXCEPT ![a] = b], [c EXCEPT ![a] = d[b]], d)
              = ViewOf(q, id, c, d)
  <1> DEFINE r == Append(q, a)
             i2 == [id EXCEPT ![a] = b]
             c2 == [c EXCEPT ![a] = d[b]]
             f == ViewOf(q, id, c, d)
             g == ViewOf(r, i2, c2, d)
  <1>1. /\ r \in Seq(Addr) /\ Len(r) = Len(q) + 1 /\ Len(q) \in Nat
        /\ r[Len(q) + 1] = a /\ \A k \in 1..Len(q) : r[k] = q[k]
    BY SMT
  <1>2. /\ i2 \in [Addr -> Block] /\ i2[a] = b
        /\ \A x \in Addr : x # a => i2[x] = id[x]
    BY SMT
  <1>3. /\ c2 \in [Addr -> Value] /\ c2[a] = d[b]
        /\ \A x \in Addr : x # a => c2[x] = c[x]
    BY SMT
  <1> HIDE DEF r, i2, c2
  <1>4. \A k \in 1..Len(q) : /\ k \in 1..Len(r)
                             /\ i2[r[k]] = id[q[k]] /\ c2[r[k]] = c[q[k]]
                             /\ i2[r[k]] # b
    <2> TAKE k \in 1..Len(q)
    <2>1. q[k] \in Addr /\ q[k] # a
      OBVIOUS
    <2>2. k \in 1..Len(r)
      BY <1>1, SMT
    <2>3. r[k] = q[k]
      BY <1>1, Zenon
    <2>4. i2[q[k]] = id[q[k]] /\ c2[q[k]] = c[q[k]]
      BY <1>2, <1>3, <2>1, Zenon
    <2>5. id[q[k]] # b
      BY Zenon
    <2> QED BY <2>2, <2>3, <2>4, <2>5, Zenon
  <1>5. \A k \in 1..Len(r) : k \in 1..Len(q) \/ k = Len(q) + 1
    BY <1>1, SMT
  <1>6. OnceOf(r, i2)
    <2> SUFFICES ASSUME NEW i \in 1..Len(r), NEW j \in 1..Len(r), i2[r[i]] = i2[r[j]]
                 PROVE  i = j
      BY Zenon DEF OnceOf
    <2>1. CASE i \in 1..Len(q) /\ j \in 1..Len(q)
      BY <1>4, <2>1, ZenonT(30) DEF OnceOf
    <2>2. CASE i = Len(q) + 1 /\ j \in 1..Len(q)
      BY <1>1, <1>2, <1>4, <2>2, Zenon
    <2>3. CASE j = Len(q) + 1 /\ i \in 1..Len(q)
      BY <1>1, <1>2, <1>4, <2>3, Zenon
    <2>4. CASE i = Len(q) + 1 /\ j = Len(q) + 1
      BY <2>4, Zenon
    <2> QED BY <1>5, <2>1, <2>2, <2>3, <2>4, Zenon
  <1>7. f \in [Block -> Value] /\ g \in [Block -> Value]
    BY <1>1, <1>2, <1>3, <1>6, ViewType
  <1>c. \A k \in 1..Len(r) : g[i2[r[k]]] = c2[r[k]]
    <2>1. r \in Seq(Addr) /\ i2 \in [Addr -> Block]
      BY <1>1, <1>2, Zenon
    <2> TAKE k \in 1..Len(r)
    <2>2. ViewOf(r, i2, c2, d)[i2[r[k]]] = c2[r[k]]
      <3> HIDE DEF g
      <3> QED BY <1>6, <2>1, ViewCached
    <2> QED BY <2>2, Zenon
  <1>8. ASSUME NEW x \in Block
        PROVE  f[x] = g[x]
    <2>1. CASE x = b
      <3>1. f[b] = d[b]
        BY ViewMissing
      <3>2. Len(q) + 1 \in 1..Len(r)
        BY <1>1, SMT
      <3>3. g[i2[r[Len(q) + 1]]] = c2[r[Len(q) + 1]]
        BY <1>c, <3>2, Zenon
      <3> HIDE DEF f, g
      <3> QED BY <1>1, <1>2, <1>3, <2>1, <3>1, <3>3, Zenon
    <2>2. ASSUME NEW k \in 1..Len(q), id[q[k]] = x
          PROVE  f[x] = g[x]
      <3>1. f[id[q[k]]] = c[q[k]]
        BY ViewCached
      <3>2. k \in 1..Len(r)
        BY <1>4, Zenon
      <3>3. g[i2[r[k]]] = c2[r[k]]
        BY <1>c, <3>2, Zenon
      <3> HIDE DEF f, g
      <3> QED BY <1>4, <2>2, <3>1, <3>3, Zenon
    <2>3. ASSUME x # b, \A k \in 1..Len(q) : id[q[k]] # x
          PROVE  f[x] = g[x]
      <3>1. f[x] = d[x]
        BY <2>3, ViewMissing
      <3>2. \A k \in 1..Len(r) : i2[r[k]] # x
        BY <1>1, <1>2, <1>4, <1>5, <2>3, Zenon
      <3>3. g[x] = d[x]
        BY <3>2, ViewMissing
      <3> QED BY <3>1, <3>3, Zenon
    <2> QED BY <2>1, <2>2, <2>3, Zenon
  <1> HIDE DEF f, g
  <1>9. f = g
    BY <1>7, <1>8, Same
  <1> QED BY <1>6, <1>9, Zenon DEF r, i2, c2, f, g

\* What drain leaves.
LEMMA DrainKeeps ==
  ASSUME NEW q \in Seq(Addr), NEW k \in 1..Len(q)
  PROVE  /\ drain(q, k) \in Seq(Addr) /\ Len(drain(q, k)) = Len(q) - 1
         /\ \A i \in 1..(Len(q) - 1) :
              /\ i < k => drain(q, k)[i] = q[i]
              /\ ~(i < k) => drain(q, k)[i] = q[i + 1]
  <1>1. Len(q) - 1 \in Nat
    BY SMT
  <1>2. \A i \in 1..(Len(q) - 1) : q[i] \in Addr /\ q[i + 1] \in Addr
    BY SMT
  <1>3. drain(q, k) \in [1..(Len(q) - 1) -> Addr]
    BY <1>2, Zenon DEF drain
  <1>4. \A i \in 1..(Len(q) - 1) : drain(q, k)[i] = IF i < k THEN q[i] ELSE q[i + 1]
    BY Zenon DEF drain
  <1>5. drain(q, k) \in Seq(Addr) /\ Len(drain(q, k)) = Len(q) - 1
    BY <1>1, <1>3, SMT
  <1> QED BY <1>4, <1>5, Zenon

\* r has all entries of q but the one at k.
Drained(q, r, k) ==
  /\ \A i \in 1..Len(r) : \E j \in 1..Len(q) : j # k /\ r[i] = q[j]
  /\ \A j \in 1..Len(q) : j # k => \E i \in 1..Len(r) : r[i] = q[j]

\* Evicting a copy that has been written back is not seen.
LEMMA ViewDrain ==
  ASSUME NEW q \in Seq(Addr), NEW id \in [Addr -> Block],
         NEW c \in [Addr -> Value], NEW d \in [Block -> Value],
         OnceOf(q, id), NEW k \in 1..Len(q)
  PROVE  /\ Drained(q, drain(q, k), k)
         /\ OnceOf(drain(q, k), id)
         /\ ViewOf(drain(q, k), id, c, Put(d, id[q[k]], c[q[k]]))
              = ViewOf(q, id, c, d)
  <1> DEFINE r == drain(q, k)
             e == Put(d, id[q[k]], c[q[k]])
             f == ViewOf(q, id, c, d)
             g == ViewOf(r, id, c, e)
             n == Len(q)
             at(i) == IF i < k THEN i ELSE i + 1
  <1>1. r \in Seq(Addr) /\ Len(r) = n - 1
    BY DrainKeeps, Zenon
  <1>2. n \in Nat /\ k \in 1..n
    OBVIOUS
  <1>3. \A i \in 1..Len(r) : r[i] = q[at(i)]
    <2>1. \A i \in 1..(n - 1) : /\ i < k => r[i] = q[i]
                                /\ ~(i < k) => r[i] = q[i + 1]
      BY DrainKeeps, Zenon
    <2> HIDE DEF r
    <2> QED BY <1>1, <2>1, Zenon
  <1> HIDE DEF r, n
  <1>4. \A i \in 1..Len(r) : at(i) \in 1..n /\ at(i) # k
    BY <1>1, <1>2, SMT
  <1>5. \A i, j \in 1..Len(r) : at(i) = at(j) => i = j
    BY <1>1, <1>2, SMT
  <1>6. \A j \in 1..n : j # k => \E i \in 1..Len(r) : at(i) = j
    <2> SUFFICES ASSUME NEW j \in 1..n, j # k
                 PROVE  \E i \in 1..Len(r) : at(i) = j
      BY Zenon
    <2>1. CASE j < k
      <3>1. j \in 1..Len(r) /\ at(j) = j
        BY <1>1, <1>2, <2>1, SMT
      <3> QED BY <3>1, Zenon
    <2>2. CASE ~(j < k)
      <3>1. j - 1 \in 1..Len(r) /\ at(j - 1) = j
        BY <1>1, <1>2, <2>2, SMT
      <3> QED BY <3>1, Zenon
    <2> QED BY <2>1, <2>2, Zenon
  <1> HIDE DEF at
  <1>7. \A i \in 1..Len(r) : \E j \in 1..n : j # k /\ r[i] = q[j]
    BY <1>3, <1>4, Zenon
  <1>8. \A j \in 1..n : j # k => \E i \in 1..Len(r) : r[i] = q[j]
    BY <1>3, <1>6, Zenon
  <1>9. OnceOf(r, id)
    <2> SUFFICES ASSUME NEW i \in 1..Len(r), NEW j \in 1..Len(r), id[r[i]] = id[r[j]]
                 PROVE  i = j
      BY Zenon DEF OnceOf
    <2>1. id[q[at(i)]] = id[q[at(j)]]
      BY <1>3, Zenon
    <2>2. at(i) = at(j)
      BY <1>4, <2>1, Zenon DEF OnceOf, n
    <2> QED BY <1>5, <2>2, Zenon
  <1>a. /\ e \in [Block -> Value] /\ e[id[q[k]]] = c[q[k]]
        /\ \A b \in Block : b # id[q[k]] => e[b] = d[b]
    <2>1. q[k] \in Addr
      OBVIOUS
    <2> QED BY <2>1, SMT DEF Put
  <1> HIDE DEF e
  <1>b. f \in [Block -> Value] /\ g \in [Block -> Value]
    BY <1>1, <1>9, <1>a, ViewType
  <1>c. ASSUME NEW b \in Block
        PROVE  f[b] = g[b]
    <2>1. CASE b = id[q[k]]
      <3>1. f[id[q[k]]] = c[q[k]]
        BY ViewCached
      <3>2. ASSUME NEW i \in 1..Len(r)
            PROVE  id[r[i]] # b
        <4>1. PICK j \in 1..n : j # k /\ r[i] = q[j]
          BY <1>7, Zenon
        <4> QED BY <2>1, <4>1, Zenon DEF OnceOf, n
      <3>3. g[b] = e[b]
        BY <3>2, ViewMissing
      <3> QED BY <1>a, <2>1, <3>1, <3>3, Zenon
    <2>2. ASSUME b # id[q[k]], NEW j \in 1..n, id[q[j]] = b
          PROVE  f[b] = g[b]
      <3>1. f[id[q[j]]] = c[q[j]]
        BY ViewCached DEF n
      <3>2. PICK i \in 1..Len(r) : r[i] = q[j]
        BY <1>8, <2>2, Zenon
      <3>3. g[id[r[i]]] = c[r[i]]
        BY <1>1, <1>9, ViewCached
      <3> QED BY <2>2, <3>1, <3>2, <3>3, Zenon
    <2>3. ASSUME b # id[q[k]], \A j \in 1..n : id[q[j]] # b
          PROVE  f[b] = g[b]
      <3>1. f[b] = d[b]
        BY <2>3, ViewMissing DEF n
      <3>2. \A i \in 1..Len(r) : id[r[i]] # b
        BY <1>7, <2>3, Zenon
      <3>3. g[b] = e[b]
        BY <3>2, ViewMissing
      <3> QED BY <1>a, <2>3, <3>1, <3>3, Zenon
    <2> QED BY <2>1, <2>2, <2>3, Zenon
  <1> HIDE DEF f, g
  <1>d. f = g
    BY <1>b, <1>c, Same
  <1> QED BY <1>7, <1>8, <1>9, <1>d, Zenon DEF Drained, r, n, e, f, g

-----------------------------------------------------------------------------
(* The steps *)

\* Whether or not a copy is marked, sync leaves it on the device.
LEMMA SyncedIs ==
  ASSUME IInv, NEW k \in 1..Len(queue)
  PROVE  Synced(queue[k]) = [disk EXCEPT ![disk_id[queue[k]]] = cache[queue[k]]]
  <1>1. /\ queue[k] \in Addr /\ disk_id \in [Addr -> Block]
        /\ disk \in [Block -> Value]
    BY DEF IInv, TypeOK
  <1>2. CASE modified[queue[k]]
    BY <1>2, Zenon DEF Synced
  <1>3. CASE ~modified[queue[k]]
    <2>1. cache[queue[k]] = disk[disk_id[queue[k]]]
      BY <1>3, Zenon DEF IInv, CleanOf
    <2>2. disk = [disk EXCEPT ![disk_id[queue[k]]] = cache[queue[k]]]
      BY <1>1, <2>1, SMT
    <2> QED BY <1>3, <2>2, Zenon DEF Synced
  <1> QED BY <1>2, <1>3, Zenon

\* lock pushes one cache on the stack.
LEMMA Push ==
  ASSUME NEW h \in Seq(Addr), NEW a \in Addr
  PROVE  /\ Append(h, a) \in Seq(Addr) /\ Len(Append(h, a)) = Len(h) + 1 /\ Len(h) \in Nat
         /\ Append(h, a)[Len(h) + 1] = a /\ Len(h) + 1 \in 1..Len(Append(h, a))
         /\ \A i \in 1..Len(h) : i \in 1..Len(Append(h, a)) /\ Append(h, a)[i] = h[i]
         /\ \A i \in 1..Len(Append(h, a)) : i \in 1..Len(h) \/ i = Len(h) + 1
  BY SMT

\* The stack after lock holds what it should.
LEMMA PushUsed ==
  ASSUME NEW h \in Seq(Addr), NEW q \in Seq(Addr), NEW a \in Addr, UsedOf(q, h),
         \E k \in 1..Len(q) : q[k] = a
  PROVE  UsedOf(q, Append(h, a))
  <1> SUFFICES ASSUME NEW i \in 1..Len(Append(h, a))
               PROVE  \E k \in 1..Len(q) : q[k] = Append(h, a)[i]
    BY Zenon DEF UsedOf
  <1>1. CASE i \in 1..Len(h)
    <2>1. Append(h, a)[i] = h[i]
      BY <1>1, Push, Zenon
    <2> QED BY <1>1, <2>1, Zenon DEF UsedOf
  <1>2. CASE i = Len(h) + 1
    <2>1. Append(h, a)[i] = a
      BY <1>2, Push, Zenon
    <2> QED BY <2>1, Zenon
  <1>3. i \in 1..Len(h) \/ i = Len(h) + 1
    BY Push, Zenon
  <1> QED BY <1>1, <1>2, <1>3, Zenon

\* Caches in use stay in the queue when one is appended.
LEMMA AppendUsed ==
  ASSUME NEW h \in Seq(Addr), NEW q \in Seq(Addr), NEW a \in Addr, UsedOf(q, h)
  PROVE  UsedOf(Append(q, a), h)
  <1> SUFFICES ASSUME NEW i \in 1..Len(h)
               PROVE  \E k \in 1..Len(Append(q, a)) : Append(q, a)[k] = h[i]
    BY Zenon DEF UsedOf
  <1>1. PICK k \in 1..Len(q) : q[k] = h[i]
    BY Zenon DEF UsedOf
  <1>2. k \in 1..Len(Append(q, a)) /\ Append(q, a)[k] = q[k]
    BY Push, Zenon
  <1> QED BY <1>1, <1>2, Zenon

\* The marks after lock are those they should be.
LEMMA PushNoted ==
  ASSUME NEW h \in Seq(Addr), NEW a \in Addr, NEW w, NEW m, NEW m2, NEW mut,
         NotedOf(h, w, m), \A x \in w : m[x] => m2[x], mut => m2[a]
  PROVE  NotedOf(Append(h, a), IF mut THEN w \cup {a} ELSE w, m2)
  <1> DEFINE g == Append(h, a)
  <1>1. ASSUME NEW x \in w
        PROVE  m2[x] /\ \E i \in 1..Len(g) : g[i] = x
    <2>1. PICK i \in 1..Len(h) : h[i] = x
      BY Zenon DEF NotedOf
    <2>2. i \in 1..Len(g) /\ g[i] = h[i]
      BY Push, Zenon
    <2>3. m2[x]
      BY Zenon DEF NotedOf
    <2> QED BY <2>1, <2>2, <2>3, Zenon
  <1>2. \E i \in 1..Len(g) : g[i] = a
    BY Push, Zenon
  <1> HIDE DEF g
  <1>3. CASE mut
    <2>1. m2[a]
      BY <1>3, Zenon
    <2>2. NotedOf(g, w \cup {a}, m2)
      BY <1>1, <1>2, <2>1, Zenon DEF NotedOf
    <2> QED BY <1>3, <2>2, Zenon DEF g
  <1>4. CASE ~mut
    <2>1. NotedOf(g, w, m2)
      BY <1>1, Zenon DEF NotedOf
    <2> QED BY <1>4, <2>1, Zenon DEF g
  <1> QED BY <1>3, <1>4, Zenon

\* A miss, once there is room in q, keeps the invariant and is not seen.
LEMMA LoadKeeps ==
  ASSUME IInv, NEW q \in Seq(Addr), NEW dev \in [Block -> Value],
         NEW a \in Addr, NEW b \in Block, NEW mut \in BOOLEAN,
         Len(q) < BLOCK_CACHE_SIZE, OnceOf(q, disk_id),
         \A k \in 1..Len(q) : q[k] # a /\ disk_id[q[k]] # b,
         CleanOf(q, disk_id, cache, modified, dev), UsedOf(q, held),
         Enters, Load(b, a, dev, mut), queue' = Append(q, a),
         UNCHANGED <<syncing, got, state, epoch>>
  PROVE  IInv' /\ View' = ViewOf(q, disk_id, cache, dev)
  <1>1. /\ disk' = dev /\ disk_id' = [disk_id EXCEPT ![a] = b]
        /\ cache' = [cache EXCEPT ![a] = dev[b]] /\ modified' = [modified EXCEPT ![a] = mut]
        /\ held' = Append(held, a) /\ muts' = IF mut THEN muts \cup {a} ELSE muts
    BY Zenon DEF Load
  <1>2. /\ disk_id \in [Addr -> Block] /\ cache \in [Addr -> Value]
        /\ modified \in [Addr -> BOOLEAN] /\ held \in Seq(Addr) /\ muts \subseteq Addr
    BY Zenon DEF IInv, TypeOK
  <1>3. /\ cache' \in [Addr -> Value] /\ cache'[a] = dev[b]
        /\ \A x \in Addr : x # a => cache'[x] = cache[x]
    BY <1>1, <1>2, SMT
  <1>4. /\ disk_id' \in [Addr -> Block] /\ disk_id'[a] = b
        /\ \A x \in Addr : x # a => disk_id'[x] = disk_id[x]
    BY <1>1, <1>2, SMT
  <1>5. /\ modified' \in [Addr -> BOOLEAN] /\ modified'[a] = mut
        /\ \A x \in Addr : x # a => modified'[x] = modified[x]
    BY <1>1, <1>2, Zenon
  <1>6. OnceOf(queue', disk_id') /\ View' = ViewOf(q, disk_id, cache, dev)
    <2>1. View' = ViewOf(queue', disk_id', cache', disk')
      BY Zenon DEF View, ViewOf, Cached, Copy, Queued
    <2>2. /\ OnceOf(Append(q, a), [disk_id EXCEPT ![a] = b])
          /\ ViewOf(Append(q, a), [disk_id EXCEPT ![a] = b], [cache EXCEPT ![a] = dev[b]], dev)
               = ViewOf(q, disk_id, cache, dev)
      BY <1>2, ViewLoad, Zenon
    <2> QED BY <1>1, <2>1, <2>2, Zenon
  <1>7. TypeOK'
    <2>1. queue' \in Seq(Addr) /\ Len(queue') <= BLOCK_CACHE_SIZE
      BY BlockCacheAssumption, SMT
    <2>2. held' \in Seq(Addr) /\ Len(held') <= MaxDepth
      BY <1>1, <1>2, BlockCacheAssumption, SMT DEF Enters
    <2>3. muts' \subseteq Addr
      BY <1>1, <1>2, Zenon
    <2>4. disk' \in [Block -> Value]
      BY <1>1, Zenon
    <2> QED BY <1>3, <1>4, <1>5, <2>1, <2>2, <2>3, <2>4, Zenon DEF IInv, TypeOK
  <1>8. CleanOf(queue', disk_id', cache', modified', disk')
    <2> SUFFICES ASSUME NEW i \in 1..Len(queue'), ~modified'[queue'[i]]
                 PROVE  cache'[queue'[i]] = disk'[disk_id'[queue'[i]]]
      BY Zenon DEF CleanOf
    <2>1. CASE i \in 1..Len(q)
      <3>1. q[i] \in Addr /\ q[i] # a
        BY <2>1
      <3>2. queue'[i] = q[i]
        BY <2>1, Push, Zenon
      <3>3. /\ cache'[q[i]] = cache[q[i]] /\ disk_id'[q[i]] = disk_id[q[i]]
            /\ modified'[q[i]] = modified[q[i]]
        BY <1>3, <1>4, <1>5, <3>1, Zenon
      <3>4. ~modified[q[i]]
        BY <3>2, <3>3, Zenon
      <3>5. cache[q[i]] = dev[disk_id[q[i]]]
        BY <2>1, <3>4, Zenon DEF CleanOf
      <3> QED BY <1>1, <3>2, <3>3, <3>5, Zenon
    <2>2. CASE i = Len(q) + 1
      <3>1. queue'[i] = a
        BY <2>2, Push, Zenon
      <3> QED BY <1>1, <1>3, <1>4, <3>1, Zenon
    <2>3. i \in 1..Len(q) \/ i = Len(q) + 1
      BY Push, Zenon
    <2> QED BY <2>1, <2>2, <2>3, Zenon
  <1>9. UsedOf(queue', held')
    <2>1. UsedOf(Append(q, a), held)
      BY <1>2, AppendUsed
    <2>2. Append(q, a) \in Seq(Addr) /\ \E k \in 1..Len(Append(q, a)) : Append(q, a)[k] = a
      <3>1. /\ Append(q, a) \in Seq(Addr) /\ Append(q, a)[Len(q) + 1] = a
            /\ Len(q) + 1 \in 1..Len(Append(q, a))
        BY Push, Zenon
      <3> QED BY <3>1, Zenon
    <2>3. UsedOf(Append(q, a), Append(held, a))
      BY <1>2, <2>1, <2>2, PushUsed, Zenon
    <2> QED BY <1>1, <2>3, Zenon
  <1>a. NotedOf(held', muts', modified')
    <2>1. ASSUME NEW x \in muts
          PROVE  modified[x] => modified'[x]
      <3>1. PICK i \in 1..Len(held) : held[i] = x
        BY Zenon DEF IInv, NotedOf
      <3>2. x # a
        BY <3>1, Zenon DEF UsedOf
      <3> QED BY <1>2, <1>5, <3>2, Zenon
    <2>2. mut => modified'[a]
      BY <1>5, Zenon
    <2>3. NotedOf(held, muts, modified)
      BY Zenon DEF IInv
    <2>4. NotedOf(Append(held, a), IF mut THEN muts \cup {a} ELSE muts, modified')
      BY <1>2, <2>1, <2>2, <2>3, PushNoted, Zenon
    <2> QED BY <1>1, <2>4, Zenon
  <1>b. PassedOf(queue', modified', syncing')
    BY SMT DEF PassedOf, Enters, Runs
  <1> QED BY <1>6, <1>7, <1>8, <1>9, <1>a, <1>b, Zenon DEF IInv

\* The state the cache starts in.
LEMMA InitKeeps ==
  ASSUME Init
  PROVE  IInv /\ Buffered!Init
  <1>1. queue = <<>> /\ held = <<>> /\ muts = {} /\ syncing = 0
    BY Zenon DEF Init
  <1>2. \A i : i \notin 1..Len(<<>>)
    BY SMT
  <1>3. /\ OnceOf(queue, disk_id) /\ CleanOf(queue, disk_id, cache, modified, disk)
        /\ UsedOf(queue, held) /\ NotedOf(held, muts, modified)
        /\ PassedOf(queue, modified, syncing)
    BY <1>1, <1>2, Zenon DEF OnceOf, CleanOf, UsedOf, NotedOf, PassedOf
  <1>4. /\ disk \in [Block -> Value] /\ disk_id \in [Addr -> Block]
        /\ cache \in [Addr -> Value] /\ modified \in [Addr -> BOOLEAN] /\ got \in Value
    <2>1. PICK b \in Block : disk_id = [a \in Addr |-> b]
      BY Zenon DEF Init
    <2>2. PICK v \in Value : cache = [a \in Addr |-> v] /\ got = v
      BY Zenon DEF Init
    <2>3. disk_id \in [Addr -> Block] /\ cache \in [Addr -> Value]
      BY <2>1, <2>2, SMT
    <2>4. modified \in [Addr -> BOOLEAN]
      BY Zenon DEF Init
    <2> QED BY <2>2, <2>3, <2>4, Zenon DEF Init
  <1>5. /\ queue \in Seq(Addr) /\ Len(queue) <= BLOCK_CACHE_SIZE
        /\ held \in Seq(Addr) /\ Len(held) <= MaxDepth
        /\ syncing \in 0..(BLOCK_CACHE_SIZE + 1)
    BY <1>1, BlockCacheAssumption, SMT
  <1>6. TypeOK
    BY <1>1, <1>4, <1>5, Zenon DEF TypeOK, Init
  <1>7. View = disk
    <2>1. \A k \in 1..Len(queue) : cache[queue[k]] = disk[disk_id[queue[k]]]
      BY <1>1, <1>2, Zenon
    <2>2. ViewOf(queue, disk_id, cache, disk) = disk
      BY <1>3, <1>4, <1>5, <2>1, ViewClean, Zenon
    <2> QED BY <2>2, ViewIs, Zenon
  <1> QED BY <1>3, <1>4, <1>6, <1>7, Zenon DEF IInv, Init, Buffered!Init

\* What is seen depends on the queue, the caches and the device alone.
LEMMA Unseen ==
  ASSUME UNCHANGED <<queue, disk_id, cache, disk>>
  PROVE  View' = View
  <1>1. View' = ViewOf(queue', disk_id', cache', disk')
    BY Zenon DEF View, ViewOf, Cached, Copy, Queued
  <1>2. queue' = queue /\ disk_id' = disk_id /\ cache' = cache /\ disk' = disk
    OBVIOUS
  <1> QED BY <1>1, <1>2, ViewIs, Zenon

\* A hit keeps the invariant and is not seen.
LEMMA HitKeeps ==
  ASSUME IInv, NEW b \in Block, NEW mut \in BOOLEAN, Hit(b, mut)
  PROVE  IInv' /\ View' = View
  <1>1. PICK k \in 1..Len(queue) : ~Held(queue[k]) /\ Lock(queue[k], mut)
    BY Zenon DEF Hit
  <1> DEFINE a == queue[k]
  <1>2. /\ disk' = disk /\ disk_id' = disk_id /\ cache' = cache /\ queue' = queue
        /\ syncing' = syncing /\ got' = got /\ state' = state /\ epoch' = epoch
        /\ Enters
    BY DEF Hit
  <1>3. /\ modified \in [Addr -> BOOLEAN] /\ held \in Seq(Addr) /\ muts \subseteq Addr
        /\ queue \in Seq(Addr) /\ Len(held) \in Nat
    BY DEF IInv, TypeOK
  <1>4. a \in Addr
    BY <1>3
  <1>5. /\ held' = Append(held, a) /\ muts' = IF mut THEN muts \cup {a} ELSE muts
        /\ modified' = IF mut THEN [modified EXCEPT ![a] = TRUE] ELSE modified
    BY <1>1, Zenon DEF Lock
  <1>6. \E j \in 1..Len(queue) : queue[j] = a
    BY Zenon
  <1> HIDE DEF a
  <1>7. /\ modified' \in [Addr -> BOOLEAN] /\ (mut => modified'[a])
        /\ \A x \in Addr : modified[x] => modified'[x]
    <2>1. CASE mut
      <3>1. modified' = [modified EXCEPT ![a] = TRUE]
        BY <1>5, <2>1, Zenon
      <3> QED BY <1>3, <1>4, <3>1, Zenon
    <2>2. CASE ~mut
      <3>1. modified' = modified
        BY <1>5, <2>2, Zenon
      <3> QED BY <1>3, <2>2, <3>1, Zenon
    <2> QED BY <2>1, <2>2, Zenon
  <1>8. TypeOK'
    <2>1. held' \in Seq(Addr) /\ Len(held') <= MaxDepth
      BY <1>2, <1>3, <1>4, <1>5, BlockCacheAssumption, SMT DEF Enters
    <2>2. muts' \subseteq Addr
      BY <1>3, <1>4, <1>5, Zenon
    <2> QED BY <1>2, <1>7, <2>1, <2>2, Zenon DEF IInv, TypeOK
  <1>9. OnceOf(queue', disk_id')
    BY <1>2, Zenon DEF IInv
  <1>a. CleanOf(queue', disk_id', cache', modified', disk')
    <2>1. \A i \in 1..Len(queue) : queue[i] \in Addr
      BY <1>3
    <2> QED BY <1>2, <1>7, <2>1, Zenon DEF IInv, CleanOf
  <1>b. UsedOf(queue', held')
    <2>1. UsedOf(queue, held)
      BY Zenon DEF IInv
    <2>2. UsedOf(queue, Append(held, a))
      BY <1>3, <1>4, <1>6, <2>1, PushUsed
    <2> QED BY <1>2, <1>5, <2>2, Zenon
  <1>c. NotedOf(held', muts', modified')
    <2>1. NotedOf(held, muts, modified)
      BY Zenon DEF IInv
    <2>2. \A x \in muts : modified[x] => modified'[x]
      BY <1>3, <1>7, Zenon
    <2>3. NotedOf(Append(held, a), IF mut THEN muts \cup {a} ELSE muts, modified')
      <3>1. held \in Seq(Addr) /\ (mut => modified'[a])
        BY <1>3, <1>7, Zenon
      <3> QED BY <1>4, <2>1, <2>2, <3>1, PushNoted, Zenon
    <2> QED BY <1>5, <2>3, Zenon
  <1>d. PassedOf(queue', modified', syncing')
    BY <1>2, SMT DEF PassedOf, Enters, Runs
  <1>e. View' = View
    BY <1>2, Unseen, Zenon
  <1> QED BY <1>8, <1>9, <1>a, <1>b, <1>c, <1>d, <1>e, Zenon DEF IInv

\* A miss with room in the queue.
LEMMA MissRoomKeeps ==
  ASSUME IInv, NEW b \in Block, NEW a \in Addr, NEW mut \in BOOLEAN, MissRoom(b, a, mut)
  PROVE  IInv' /\ View' = View /\ disk' = disk
  <1>1. /\ Enters /\ Load(b, a, disk, mut) /\ queue' = Append(queue, a)
        /\ UNCHANGED <<syncing, got, state, epoch>>
    BY Zenon DEF MissRoom, Misses
  <1>2. \A k \in 1..Len(queue) : queue[k] # a /\ disk_id[queue[k]] # b
    BY Zenon DEF MissRoom, Misses, Queued
  <1>3. /\ queue \in Seq(Addr) /\ disk \in [Block -> Value]
        /\ Len(queue) < BLOCK_CACHE_SIZE
    BY BlockCacheAssumption DEF MissRoom, IInv, TypeOK
  <1>4. /\ OnceOf(queue, disk_id) /\ UsedOf(queue, held)
        /\ CleanOf(queue, disk_id, cache, modified, disk)
    BY Zenon DEF IInv
  <1>5. IInv' /\ View' = ViewOf(queue, disk_id, cache, disk)
    BY <1>1, <1>2, <1>3, <1>4, LoadKeeps
  <1> QED BY <1>1, <1>5, ViewIs, Zenon DEF Load

\* A miss that evicts writes back the block of the victim, or what the device
\* has of it already.
LEMMA MissEvictKeeps ==
  ASSUME IInv, NEW b \in Block, NEW a \in Addr, NEW mut \in BOOLEAN, MissEvict(b, a, mut)
  PROVE  /\ IInv' /\ View' = View
         /\ \E x \in Block : disk' = [disk EXCEPT ![x] = View[x]]
  <1>1. PICK k \in 1..Len(queue) :
          /\ Victim(k) /\ (~Queued(a) \/ a = queue[k])
          /\ Load(b, a, Synced(queue[k]), mut)
          /\ queue' = Append(drain(queue, k), a)
    BY Zenon DEF MissEvict
  <1> DEFINE q == drain(queue, k)
             x == disk_id[queue[k]]
             dev == Put(disk, x, cache[queue[k]])
  <1>2. /\ Enters /\ UNCHANGED <<syncing, got, state, epoch>>
        /\ Len(queue) = BLOCK_CACHE_SIZE
        /\ \A j \in 1..Len(queue) : disk_id[queue[j]] # b
    BY Zenon DEF MissEvict, Misses
  <1>3. /\ queue \in Seq(Addr) /\ disk \in [Block -> Value] /\ disk_id \in [Addr -> Block]
        /\ cache \in [Addr -> Value] /\ OnceOf(queue, disk_id)
    BY Zenon DEF IInv, TypeOK
  <1>4. Synced(queue[k]) = dev
    BY SyncedIs, Zenon DEF Put
  <1>5. queue[k] \in Addr /\ x \in Block
    BY <1>3
  <1>6. /\ Drained(queue, q, k) /\ OnceOf(q, disk_id)
        /\ ViewOf(q, disk_id, cache, dev) = ViewOf(queue, disk_id, cache, disk)
    BY <1>3, ViewDrain, Zenon
  <1>7. q \in Seq(Addr) /\ Len(q) < BLOCK_CACHE_SIZE
    <2>1. q \in Seq(Addr) /\ Len(q) = Len(queue) - 1
      BY <1>3, DrainKeeps, Zenon
    <2> HIDE DEF q
    <2> QED BY <1>2, <2>1, BlockCacheAssumption, SMT
  <1>8. /\ dev \in [Block -> Value]
        /\ \A y \in Block : y # x => dev[y] = disk[y]
    <2> HIDE DEF x
    <2> QED BY <1>3, <1>5, SMT DEF Put
  <1> HIDE DEF q, dev
  <1>9. ASSUME NEW i \in 1..Len(q)
        PROVE  /\ q[i] # a /\ disk_id[q[i]] # b
               /\ ~modified[q[i]] => cache[q[i]] = dev[disk_id[q[i]]]
    <2>1. PICK j \in 1..Len(queue) : j # k /\ q[i] = queue[j]
      BY <1>6, Zenon DEF Drained
    <2>2. disk_id[queue[j]] # x
      BY <1>3, <2>1, Zenon DEF OnceOf
    <2>3. disk_id[queue[j]] \in Block
      BY <1>3
    <2>4. dev[disk_id[queue[j]]] = disk[disk_id[queue[j]]]
      BY <1>8, <2>2, <2>3, Zenon
    <2>5. q[i] # a
      BY <1>1, <2>1, <2>2, Zenon DEF Queued
    <2>6. ~modified[queue[j]] => cache[queue[j]] = disk[disk_id[queue[j]]]
      BY Zenon DEF IInv, CleanOf
    <2> QED BY <1>2, <2>1, <2>4, <2>5, <2>6, Zenon
  <1>a. CleanOf(q, disk_id, cache, modified, dev)
    BY <1>9, Zenon DEF CleanOf
  <1>b. UsedOf(q, held)
    <2> SUFFICES ASSUME NEW i \in 1..Len(held)
                 PROVE  \E n \in 1..Len(q) : q[n] = held[i]
      BY Zenon DEF UsedOf
    <2>1. PICK j \in 1..Len(queue) : queue[j] = held[i]
      BY Zenon DEF IInv, UsedOf
    <2>2. j # k
      BY <1>1, <2>1, Zenon DEF Victim, Idle, Held
    <2>3. PICK n \in 1..Len(q) : q[n] = queue[j]
      BY <1>6, <2>2, Zenon DEF Drained
    <2> QED BY <2>1, <2>3, Zenon
  <1>c. Load(b, a, dev, mut) /\ queue' = Append(q, a)
    BY <1>1, <1>4, Zenon DEF q
  <1>d. \A i \in 1..Len(q) : q[i] # a /\ disk_id[q[i]] # b
    BY <1>9, Zenon
  <1>e. IInv' /\ View' = ViewOf(q, disk_id, cache, dev)
    BY <1>2, <1>6, <1>7, <1>8, <1>a, <1>b, <1>c, <1>d, LoadKeeps
  <1>f. View[x] = cache[queue[k]]
    <2>1. ViewOf(queue, disk_id, cache, disk)[disk_id[queue[k]]] = cache[queue[k]]
      BY <1>3, ViewCached
    <2> QED BY <2>1, ViewIs, Zenon
  <1>g. disk' = [disk EXCEPT ![x] = View[x]]
    BY <1>c, <1>f, Zenon DEF Load, dev, Put
  <1> QED BY <1>5, <1>6, <1>e, <1>g, ViewIs, Zenon

\* A step that changes neither the caches nor their users.
LEMMA StillKeeps ==
  ASSUME IInv, UNCHANGED <<disk, disk_id, cache, modified, queue, held, muts, epoch>>,
         got' \in Value, state' \in {"run", "panic", "spin"},
         syncing' \in 0..(BLOCK_CACHE_SIZE + 1), PassedOf(queue, modified, syncing')
  PROVE  IInv' /\ View' = View
  <1>1. /\ disk' = disk /\ disk_id' = disk_id /\ cache' = cache /\ modified' = modified
        /\ queue' = queue /\ held' = held /\ muts' = muts /\ epoch' = epoch
    OBVIOUS
  <1>2. View' = View
    BY <1>1, Unseen, Zenon
  <1>3. TypeOK'
    BY <1>1, Zenon DEF IInv, TypeOK
  <1> QED BY <1>1, <1>2, <1>3, Zenon DEF IInv

\* The innermost closure uses a cache of the queue.
LEMMA TopQueued ==
  ASSUME IInv, held # <<>>
  PROVE  Len(held) \in 1..Len(held) /\ \E k \in 1..Len(queue) : queue[k] = Top
  <1>1. Len(held) \in 1..Len(held)
    BY DEF IInv, TypeOK
  <1> QED BY <1>1, Zenon DEF IInv, UsedOf, Top

\* What a closure reads is what its block is seen to hold.
LEMMA ReadsKeeps ==
  ASSUME IInv, ClosureReads
  PROVE  /\ IInv' /\ View' = View /\ disk' = disk /\ epoch' = epoch
         /\ \E x \in Block : got' = View[x]
  <1>1. PICK k \in 1..Len(queue) : queue[k] = Top
    BY TopQueued, Zenon DEF ClosureReads
  <1>2. /\ queue \in Seq(Addr) /\ disk_id \in [Addr -> Block]
        /\ cache \in [Addr -> Value] /\ OnceOf(queue, disk_id)
    BY Zenon DEF IInv, TypeOK
  <1>3. queue[k] \in Addr
    BY <1>2
  <1>4. disk_id[queue[k]] \in Block /\ cache[queue[k]] \in Value
    BY <1>2, <1>3, Zenon
  <1>5. ViewOf(queue, disk_id, cache, disk)[disk_id[queue[k]]] = cache[queue[k]]
    BY <1>2, ViewCached
  <1>6. got' = cache[queue[k]]
    BY <1>1, Zenon DEF ClosureReads
  <1>7. /\ UNCHANGED <<disk, disk_id, cache, modified, queue, held, muts, epoch>>
        /\ syncing' = syncing /\ state' = state
    BY DEF ClosureReads, cacheVars, useVars
  <1>8. IInv' /\ View' = View
    <2>1. /\ state' \in {"run", "panic", "spin"} /\ syncing' \in 0..(BLOCK_CACHE_SIZE + 1)
          /\ PassedOf(queue, modified, syncing')
      BY <1>7, Zenon DEF IInv, TypeOK
    <2>2. got' \in Value
      BY <1>4, <1>6, Zenon
    <2> QED BY <1>7, <2>1, <2>2, StillKeeps, Zenon
  <1> QED BY <1>4, <1>5, <1>6, <1>7, <1>8, ViewIs, Zenon

\* What a closure writes is written to its block.
LEMMA WritesKeeps ==
  ASSUME IInv, NEW v \in Value, ClosureWrites(v)
  PROVE  /\ IInv' /\ disk' = disk /\ got' = got /\ epoch' = ~epoch
         /\ \E x \in Block : View' = [View EXCEPT ![x] = v]
  <1>1. PICK k \in 1..Len(queue) : queue[k] = Top
    BY TopQueued, Zenon DEF ClosureWrites
  <1>2. /\ queue \in Seq(Addr) /\ disk_id \in [Addr -> Block] /\ disk \in [Block -> Value]
        /\ cache \in [Addr -> Value] /\ OnceOf(queue, disk_id)
    BY Zenon DEF IInv, TypeOK
  <1>3. queue[k] \in Addr
    BY <1>2
  <1>4. /\ cache' = [cache EXCEPT ![queue[k]] = v] /\ epoch' = ~epoch
        /\ disk' = disk /\ disk_id' = disk_id /\ modified' = modified /\ queue' = queue
        /\ held' = held /\ muts' = muts /\ syncing' = syncing
        /\ got' = got /\ state' = state
    BY <1>1 DEF ClosureWrites, useVars
  <1>5. /\ cache' \in [Addr -> Value]
        /\ \A x \in Addr : x # queue[k] => cache'[x] = cache[x]
    BY <1>2, <1>3, <1>4, SMT
  <1>6. TypeOK'
    <2>1. epoch' \in BOOLEAN
      BY <1>4, Zenon
    <2> QED BY <1>4, <1>5, <2>1, Zenon DEF IInv, TypeOK
  <1>7. CleanOf(queue, disk_id, cache', modified, disk)
    <2> SUFFICES ASSUME NEW i \in 1..Len(queue), ~modified[queue[i]]
                 PROVE  cache'[queue[i]] = disk[disk_id[queue[i]]]
      BY Zenon DEF CleanOf
    <2>1. modified[queue[k]]
      BY <1>1, Zenon DEF ClosureWrites, IInv, NotedOf
    <2>2. queue[i] # queue[k]
      BY <2>1, Zenon
    <2>3. queue[i] \in Addr
      BY <1>2
    <2>4. cache'[queue[i]] = cache[queue[i]]
      BY <1>5, <2>2, <2>3, Zenon
    <2>5. cache[queue[i]] = disk[disk_id[queue[i]]]
      BY Zenon DEF IInv, CleanOf
    <2> QED BY <2>4, <2>5, Zenon
  <1>8. IInv'
    BY <1>4, <1>6, <1>7, Zenon DEF IInv
  <1>9. View' = [View EXCEPT ![disk_id[queue[k]]] = v]
    <2>1. View' = ViewOf(queue', disk_id', cache', disk')
      BY Zenon DEF View, ViewOf, Cached, Copy, Queued
    <2>2. ViewOf(queue, disk_id, Put(cache, queue[k], v), disk)
            = Put(ViewOf(queue, disk_id, cache, disk), disk_id[queue[k]], v)
      BY <1>2, ViewWrite
    <2> QED BY <1>4, <2>1, <2>2, ViewIs, Zenon DEF Put
  <1>a. disk_id[queue[k]] \in Block
    BY <1>2, <1>3, Zenon
  <1> QED BY <1>4, <1>8, <1>9, <1>a, Zenon

\* A closure returns.
LEMMA ReturnsKeeps ==
  ASSUME IInv, ClosureReturns
  PROVE  IInv' /\ View' = View
  <1>1. /\ held' = SubSeq(held, 1, Len(held) - 1) /\ muts' = muts \ {Top} /\ held # <<>>
        /\ disk' = disk /\ disk_id' = disk_id /\ modified' = modified /\ queue' = queue
        /\ cache' = cache /\ syncing' = syncing /\ got' = got /\ state' = state
        /\ epoch' = epoch
    BY DEF ClosureReturns, cacheVars
  <1>2. held \in Seq(Addr) /\ Len(held) <= MaxDepth /\ muts \subseteq Addr
    BY Zenon DEF IInv, TypeOK
  <1>3. /\ held' \in Seq(Addr) /\ Len(held') <= MaxDepth
        /\ \A i \in 1..Len(held') : i \in 1..Len(held) /\ held'[i] = held[i]
        /\ \A i \in 1..Len(held) : i \in 1..Len(held') \/ i = Len(held)
    BY <1>1, <1>2, BlockCacheAssumption, SMT
  <1>4. TypeOK'
    <2>1. muts' \subseteq Addr
      BY <1>1, <1>2, Zenon
    <2> QED BY <1>1, <1>3, <2>1, Zenon DEF IInv, TypeOK
  <1>5. UsedOf(queue, held')
    BY <1>3, Zenon DEF IInv, UsedOf
  <1>6. NotedOf(held', muts', modified)
    <2> SUFFICES ASSUME NEW a \in muts'
                 PROVE  modified[a] /\ \E i \in 1..Len(held') : held'[i] = a
      BY Zenon DEF NotedOf
    <2>1. a \in muts /\ a # Top
      BY <1>1, Zenon
    <2>2. PICK i \in 1..Len(held) : held[i] = a
      BY <2>1, Zenon DEF IInv, NotedOf
    <2>3. i \in 1..Len(held')
      BY <1>3, <2>1, <2>2, Zenon DEF Top
    <2>4. modified[a]
      BY <2>1, Zenon DEF IInv, NotedOf
    <2> QED BY <1>3, <2>2, <2>3, <2>4, Zenon
  <1>7. View' = View
    BY <1>1, Unseen, Zenon
  <1> QED BY <1>1, <1>4, <1>5, <1>6, <1>7, Zenon DEF IInv

\* A turn of block_cache_sync_all writes one block back.
LEMMA SyncOneKeeps ==
  ASSUME IInv, SyncOne
  PROVE  /\ IInv' /\ View' = View /\ got' = got /\ epoch' = epoch
         /\ \E x \in Block : disk' = [disk EXCEPT ![x] = View[x]]
  <1> DEFINE k == syncing
             a == queue[k]
             x == disk_id[a]
  <1>1. /\ k \in 1..Len(queue) /\ ~Held(a) /\ disk' = Synced(a)
        /\ modified' = [modified EXCEPT ![a] = FALSE] /\ syncing' = k + 1
        /\ disk_id' = disk_id /\ cache' = cache /\ queue' = queue /\ held' = held
        /\ muts' = muts /\ got' = got /\ state' = state /\ epoch' = epoch
    BY DEF SyncOne, useVars
  <1>2. /\ queue \in Seq(Addr) /\ disk_id \in [Addr -> Block] /\ disk \in [Block -> Value]
        /\ cache \in [Addr -> Value] /\ modified \in [Addr -> BOOLEAN]
        /\ OnceOf(queue, disk_id) /\ Len(queue) <= BLOCK_CACHE_SIZE
    BY Zenon DEF IInv, TypeOK
  <1>3. a \in Addr /\ x \in Block
    BY <1>1, <1>2
  <1>4. disk' = Put(disk, disk_id[queue[k]], cache[queue[k]])
    BY <1>1, SyncedIs, Zenon DEF Put
  <1>5. View' = View /\ disk' \in [Block -> Value]
    <2>1. View' = ViewOf(queue', disk_id', cache', disk')
      BY Zenon DEF View, ViewOf, Cached, Copy, Queued
    <2>2. /\ Put(disk, disk_id[queue[k]], cache[queue[k]]) \in [Block -> Value]
          /\ ViewOf(queue, disk_id, cache, Put(disk, disk_id[queue[k]], cache[queue[k]]))
               = ViewOf(queue, disk_id, cache, disk)
      BY <1>1, <1>2, ViewFlush
    <2> QED BY <1>1, <1>4, <2>1, <2>2, ViewIs, Zenon
  <1>6. /\ disk'[x] = cache[a]
        /\ \A y \in Block : y # x => disk'[y] = disk[y]
    BY <1>2, <1>3, <1>4, SMT DEF Put
  <1>7. /\ modified' \in [Addr -> BOOLEAN] /\ ~modified'[a]
        /\ \A y \in Addr : y # a => modified'[y] = modified[y]
    BY <1>1, <1>2, <1>3, Zenon
  <1>8. View[x] = cache[a]
    <2>1. ViewOf(queue, disk_id, cache, disk)[disk_id[queue[k]]] = cache[queue[k]]
      BY <1>1, <1>2, ViewCached
    <2> QED BY <2>1, ViewIs, Zenon
  <1>9. TypeOK'
    <2>1. syncing' \in 0..(BLOCK_CACHE_SIZE + 1)
      BY <1>1, <1>2, BlockCacheAssumption, SMT
    <2> QED BY <1>1, <1>5, <1>7, <2>1, Zenon DEF IInv, TypeOK
  <1>a. CleanOf(queue, disk_id, cache, modified', disk')
    <2> SUFFICES ASSUME NEW i \in 1..Len(queue), ~modified'[queue[i]]
                 PROVE  cache[queue[i]] = disk'[disk_id[queue[i]]]
      BY Zenon DEF CleanOf
    <2>1. CASE i = k
      BY <1>6, <2>1, Zenon
    <2>2. CASE i # k
      <3>1. disk_id[queue[i]] # x
        BY <1>1, <1>2, <2>2, Zenon DEF OnceOf
      <3>2. queue[i] \in Addr /\ disk_id[queue[i]] \in Block
        BY <1>2
      <3>3. ~modified[queue[i]]
        BY <1>7, <3>1, <3>2, Zenon
      <3>4. cache[queue[i]] = disk[disk_id[queue[i]]]
        BY <3>3, Zenon DEF IInv, CleanOf
      <3> QED BY <1>6, <3>1, <3>2, <3>4, Zenon
    <2> QED BY <2>1, <2>2, Zenon
  <1>b. NotedOf(held, muts, modified')
    <2> SUFFICES ASSUME NEW y \in muts
                 PROVE  modified'[y] /\ \E i \in 1..Len(held) : held[i] = y
      BY Zenon DEF NotedOf
    <2>1. modified[y] /\ \E i \in 1..Len(held) : held[i] = y
      BY Zenon DEF IInv, NotedOf
    <2>2. y # a
      BY <1>1, <2>1, Zenon DEF Held
    <2>3. y \in Addr
      BY Zenon DEF IInv, TypeOK
    <2> QED BY <1>7, <2>1, <2>2, <2>3, Zenon
  <1>c. PassedOf(queue, modified', syncing')
    <2> SUFFICES ASSUME NEW i \in 1..Len(queue), i < k + 1
                 PROVE  ~modified'[queue[i]]
      BY <1>1, Zenon DEF PassedOf
    <2>1. CASE i = k
      BY <1>7, <2>1, Zenon
    <2>2. CASE i # k
      <3>1. i < k
        BY <1>1, <2>2, SMT
      <3>2. ~modified[queue[i]]
        BY <3>1, Zenon DEF IInv, PassedOf
      <3>3. queue[i] \in Addr
        BY <1>2
      <3> QED BY <1>7, <3>2, <3>3, Zenon
    <2> QED BY <2>1, <2>2, Zenon
  <1>d. IInv'
    BY <1>1, <1>9, <1>a, <1>b, <1>c, Zenon DEF IInv
  <1>e. disk' = [disk EXCEPT ![x] = View[x]]
    BY <1>4, <1>8, Zenon DEF Put
  <1> QED BY <1>1, <1>3, <1>5, <1>d, <1>e, Zenon

\* The machine starts again.
LEMMA PowerLossKeeps ==
  ASSUME IInv, PowerLoss
  PROVE  IInv' /\ View' = disk
  <1>1. /\ queue' = <<>> /\ held' = <<>> /\ muts' = {} /\ syncing' = 0 /\ state' = "run"
        /\ epoch' = ~epoch /\ disk' = disk /\ disk_id' = disk_id /\ cache' = cache
        /\ modified' = modified /\ got' = got
    BY DEF PowerLoss, cacheVars
  <1>2. /\ disk_id \in [Addr -> Block] /\ disk \in [Block -> Value]
        /\ cache \in [Addr -> Value]
    BY Zenon DEF IInv, TypeOK
  <1>3. \A i : i \notin 1..Len(<<>>)
    BY SMT
  <1>4. /\ OnceOf(queue', disk_id) /\ CleanOf(queue', disk_id, cache, modified, disk)
        /\ UsedOf(queue', held') /\ NotedOf(held', muts', modified)
        /\ PassedOf(queue', modified, syncing')
    BY <1>1, <1>3, Zenon DEF OnceOf, CleanOf, UsedOf, NotedOf, PassedOf
  <1>5. /\ queue' \in Seq(Addr) /\ Len(queue') <= BLOCK_CACHE_SIZE
        /\ held' \in Seq(Addr) /\ Len(held') <= MaxDepth
        /\ syncing' \in 0..(BLOCK_CACHE_SIZE + 1)
    BY <1>1, BlockCacheAssumption, SMT
  <1>6. TypeOK'
    <2>1. muts' \subseteq Addr /\ epoch' \in BOOLEAN /\ state' \in {"run", "panic", "spin"}
      BY <1>1, Zenon
    <2> QED BY <1>1, <1>5, <2>1, Zenon DEF IInv, TypeOK
  <1>7. View' = disk
    <2>1. View' = ViewOf(queue', disk_id', cache', disk')
      BY Zenon DEF View, ViewOf, Cached, Copy, Queued
    <2>2. \A k \in 1..Len(queue') : cache[queue'[k]] = disk[disk_id[queue'[k]]]
      BY <1>1, <1>3, Zenon
    <2>3. ViewOf(queue', disk_id, cache, disk) = disk
      BY <1>2, <1>4, <1>5, <2>2, ViewClean
    <2> QED BY <1>1, <2>1, <2>3, Zenon
  <1> QED BY <1>1, <1>4, <1>6, <1>7, Zenon DEF IInv

-----------------------------------------------------------------------------
(* The theorems *)

\* A step of BufferedDisk that writes a block back.
LEMMA FlushStep ==
  ASSUME View' = View, got' = got, epoch' = epoch,
         \E x \in Block : disk' = [disk EXCEPT ![x] = View[x]]
  PROVE  Buffered!Next
  <1>1. PICK x \in Block : disk' = [disk EXCEPT ![x] = View[x]]
    OBVIOUS
  <1>2. Buffered!Flush(x)
    BY <1>1 DEF Buffered!Flush
  <1> QED BY <1>2, Zenon DEF Buffered!Next

\* A step that only begins or ends something.
LEMMA StillStep ==
  ASSUME IInv, UNCHANGED <<disk, disk_id, cache, modified, queue, held, muts, epoch>>,
         got' = got, state' \in {"run", "panic", "spin"},
         syncing' \in 0..(BLOCK_CACHE_SIZE + 1), PassedOf(queue, modified, syncing')
  PROVE  IInv' /\ UNCHANGED Buffered!vars
  <1>1. got' \in Value
    BY Zenon DEF IInv, TypeOK
  <1>2. IInv' /\ View' = View
    BY <1>1, StillKeeps, Zenon
  <1> QED BY <1>2 DEF Buffered!vars

\* The caller stops for ever.
LEMMA StopKeeps ==
  ASSUME IInv, NEW how \in {"panic", "spin"}, Stop(how)
  PROVE  IInv' /\ UNCHANGED Buffered!vars
  <1>1. /\ UNCHANGED <<disk, disk_id, cache, modified, queue, held, muts, epoch>>
        /\ got' = got /\ syncing' = syncing /\ state' = how
    BY DEF Stop, cacheVars, useVars
  <1>2. /\ syncing' \in 0..(BLOCK_CACHE_SIZE + 1) /\ PassedOf(queue, modified, syncing')
        /\ state' \in {"run", "panic", "spin"}
    BY <1>1, Zenon DEF IInv, TypeOK
  <1> QED BY <1>1, <1>2, StillStep, Zenon

\* Every step keeps the invariant, and is a step of BufferedDisk or is not seen.
LEMMA StepKeeps ==
  ASSUME IInv, [Next]_vars
  PROVE  IInv' /\ [Buffered!Next]_Buffered!vars
  <1>1. ASSUME NEW b \in Block, NEW mut \in BOOLEAN, Hit(b, mut)
        PROVE  IInv' /\ [Buffered!Next]_Buffered!vars
    <2>1. IInv' /\ View' = View
      BY <1>1, HitKeeps, Zenon
    <2>2. UNCHANGED Buffered!vars
      BY <1>1, <2>1 DEF Hit, Buffered!vars
    <2> QED BY <2>1, <2>2, Zenon
  <1>2. ASSUME NEW b \in Block, HitLocked(b)
        PROVE  IInv' /\ [Buffered!Next]_Buffered!vars
    BY <1>2, StopKeeps, Zenon DEF HitLocked
  <1>3. ASSUME NEW b \in Block, NEW a \in Addr, NEW mut \in BOOLEAN, MissRoom(b, a, mut)
        PROVE  IInv' /\ [Buffered!Next]_Buffered!vars
    <2>1. IInv' /\ View' = View /\ disk' = disk
      BY <1>3, MissRoomKeeps, Zenon
    <2>2. UNCHANGED Buffered!vars
      BY <1>3, <2>1 DEF MissRoom, Buffered!vars
    <2> QED BY <2>1, <2>2, Zenon
  <1>4. ASSUME NEW b \in Block, NEW a \in Addr, NEW mut \in BOOLEAN, MissEvict(b, a, mut)
        PROVE  IInv' /\ [Buffered!Next]_Buffered!vars
    <2>1. /\ IInv' /\ View' = View
          /\ \E x \in Block : disk' = [disk EXCEPT ![x] = View[x]]
      BY <1>4, MissEvictKeeps, Zenon
    <2>2. got' = got /\ epoch' = epoch
      BY <1>4 DEF MissEvict
    <2>3. Buffered!Next
      BY <2>1, <2>2, FlushStep, Zenon
    <2> QED BY <2>1, <2>3, Zenon
  <1>5. ASSUME NEW b \in Block, MissFull(b)
        PROVE  IInv' /\ [Buffered!Next]_Buffered!vars
    BY <1>5, StopKeeps, Zenon DEF MissFull
  <1>6. ASSUME ClosureReads
        PROVE  IInv' /\ [Buffered!Next]_Buffered!vars
    <2>1. /\ IInv' /\ View' = View /\ disk' = disk /\ epoch' = epoch
          /\ \E x \in Block : got' = View[x]
      BY <1>6, ReadsKeeps, Zenon
    <2>2. \E x \in Block : Buffered!Read(x)
      BY <2>1 DEF Buffered!Read
    <2> QED BY <2>1, <2>2, Zenon DEF Buffered!Next
  <1>7. ASSUME NEW v \in Value, ClosureWrites(v)
        PROVE  IInv' /\ [Buffered!Next]_Buffered!vars
    <2>1. /\ IInv' /\ disk' = disk /\ got' = got /\ epoch' = ~epoch
          /\ \E x \in Block : View' = [View EXCEPT ![x] = v]
      BY <1>7, WritesKeeps, Zenon
    <2>2. PICK x \in Block : View' = [View EXCEPT ![x] = v]
      BY <2>1, Zenon
    <2>3. <<disk, got>>' = <<disk, got>>
      BY <2>1, Zenon
    <2>4. Buffered!Write(x, v)
      BY <2>1, <2>2, <2>3, Zenon DEF Buffered!Write
    <2> QED BY <2>1, <2>4, Zenon DEF Buffered!Next
  <1>8. ASSUME ClosureReturns
        PROVE  IInv' /\ [Buffered!Next]_Buffered!vars
    <2>1. IInv' /\ View' = View
      BY <1>8, ReturnsKeeps, Zenon
    <2>2. UNCHANGED Buffered!vars
      BY <1>8, <2>1 DEF ClosureReturns, Buffered!vars
    <2> QED BY <2>1, <2>2, Zenon
  <1>9. ASSUME SyncBegin
        PROVE  IInv' /\ [Buffered!Next]_Buffered!vars
    <2>1. /\ UNCHANGED <<disk, disk_id, cache, modified, queue, held, muts, epoch>>
          /\ got' = got /\ syncing' = 1 /\ state' = state
      BY <1>9 DEF SyncBegin, cacheVars, useVars
    <2>2. syncing' \in 0..(BLOCK_CACHE_SIZE + 1) /\ PassedOf(queue, modified, syncing')
      BY <2>1, BlockCacheAssumption, SMT DEF PassedOf
    <2>3. state' \in {"run", "panic", "spin"}
      BY <2>1, Zenon DEF IInv, TypeOK
    <2> QED BY <2>1, <2>2, <2>3, StillStep, Zenon
  <1>a. ASSUME SyncOne
        PROVE  IInv' /\ [Buffered!Next]_Buffered!vars
    <2>1. /\ IInv' /\ View' = View /\ got' = got /\ epoch' = epoch
          /\ \E x \in Block : disk' = [disk EXCEPT ![x] = View[x]]
      BY <1>a, SyncOneKeeps, Zenon
    <2>2. Buffered!Next
      BY <2>1, FlushStep, Zenon
    <2> QED BY <2>1, <2>2, Zenon
  <1>b. ASSUME SyncLocked
        PROVE  IInv' /\ [Buffered!Next]_Buffered!vars
    BY <1>b, StopKeeps, Zenon DEF SyncLocked
  <1>c. ASSUME SyncEnd
        PROVE  IInv' /\ [Buffered!Next]_Buffered!vars
    <2>1. /\ UNCHANGED <<disk, disk_id, cache, modified, queue, held, muts, epoch>>
          /\ got' = got /\ syncing' = 0 /\ state' = state
      BY <1>c DEF SyncEnd, cacheVars, useVars
    <2>2. syncing' \in 0..(BLOCK_CACHE_SIZE + 1) /\ PassedOf(queue, modified, syncing')
      BY <2>1, BlockCacheAssumption, SMT DEF PassedOf
    <2>3. state' \in {"run", "panic", "spin"}
      BY <2>1, Zenon DEF IInv, TypeOK
    <2> QED BY <2>1, <2>2, <2>3, StillStep, Zenon
  <1>d. ASSUME PowerLoss
        PROVE  IInv' /\ [Buffered!Next]_Buffered!vars
    <2>1. IInv' /\ View' = disk
      BY <1>d, PowerLossKeeps, Zenon
    <2>2. <<disk, got>>' = <<disk, got>> /\ epoch' = ~epoch
      BY <1>d, Zenon DEF PowerLoss
    <2>3. Buffered!PowerLoss
      BY <2>1, <2>2, Zenon DEF Buffered!PowerLoss
    <2> QED BY <2>1, <2>3, Zenon DEF Buffered!Next
  <1>e. ASSUME UNCHANGED vars
        PROVE  IInv' /\ [Buffered!Next]_Buffered!vars
    <2>1. /\ UNCHANGED <<disk, disk_id, cache, modified, queue, held, muts, epoch>>
          /\ got' = got /\ syncing' = syncing /\ state' = state
      BY <1>e DEF vars, cacheVars, useVars
    <2>2. /\ syncing' \in 0..(BLOCK_CACHE_SIZE + 1) /\ PassedOf(queue, modified, syncing')
          /\ state' \in {"run", "panic", "spin"}
      BY <2>1, Zenon DEF IInv, TypeOK
    <2> QED BY <2>1, <2>2, StillStep, Zenon
  <1> QED BY <1>1, <1>2, <1>3, <1>4, <1>5, <1>6, <1>7, <1>8, <1>9, <1>a, <1>b, <1>c,
             <1>d, <1>e, Zenon DEF Next, get_block_cache, block_cache_sync_all

\* Type correctness: among others, the queue of the manager never has more than
\* BLOCK_CACHE_SIZE entries.
THEOREM BlockCacheTypeCorrect == Spec => []TypeOK
  <1>1. Init => IInv
    BY InitKeeps, Zenon
  <1>2. IInv /\ [Next]_vars => IInv'
    BY StepKeeps, Zenon
  <1>3. IInv => TypeOK
    BY Zenon DEF IInv
  <1> QED BY <1>1, <1>2, <1>3, PTL DEF Spec

\* The cache is invisible: the device behind the cache, with its evictions, its
\* write-backs and its nested closures, is a BufferedDisk.
THEOREM BlockCacheImplementsDisk == Spec => BufferedSpec
  <1>1. Init => IInv /\ Buffered!Init
    BY InitKeeps, Zenon
  <1>2. IInv /\ [Next]_vars => IInv' /\ [Buffered!Next]_Buffered!vars
    BY StepKeeps, Zenon
  <1> QED BY <1>1, <1>2, PTL DEF Spec, BufferedSpec, Buffered!Spec

\* When block_cache_sync_all returns, the device holds every block as its users
\* see it.
THEOREM SyncLosesNothing == Spec => SyncComplete
  <1> DEFINE A == (syncing # 0 /\ syncing' = 0 /\ epoch' = epoch) => disk' = View'
  <1>1. Init => IInv
    BY InitKeeps, Zenon
  <1>2. IInv /\ [Next]_vars => IInv'
    BY StepKeeps, Zenon
  <1>3. IInv /\ [Next]_vars => [A]_vars
    <2> SUFFICES ASSUME IInv, Next, syncing # 0, syncing' = 0, epoch' = epoch
                 PROVE  disk' = View'
      BY Zenon
    <2>1. epoch' # ~epoch
      BY Zenon DEF IInv, TypeOK
    <2>2. ~Runs /\ ~Enters
      BY Zenon DEF Runs, Enters
    <2>3. ~PowerLoss /\ \A v \in Value : ~ClosureWrites(v)
      BY <2>1, Zenon DEF PowerLoss, ClosureWrites
    <2>4. ~SyncOne
      BY SMT DEF SyncOne, IInv, TypeOK
    <2>5. ~SyncLocked
      BY DEF SyncLocked, Stop
    <2>6. \A b \in Block, mut \in BOOLEAN : ~get_block_cache(b, mut)
      BY <2>2, Zenon DEF get_block_cache, Hit, HitLocked, MissRoom, MissEvict, MissFull, Misses
    <2>7. ~ClosureReads /\ ~ClosureReturns /\ ~SyncBegin
      BY <2>2, Zenon DEF ClosureReads, ClosureReturns, SyncBegin
    <2>8. SyncEnd
      BY <2>3, <2>4, <2>5, <2>6, <2>7, Zenon DEF Next, block_cache_sync_all
    <2>9. /\ queue \in Seq(Addr) /\ disk_id \in [Addr -> Block] /\ disk \in [Block -> Value]
          /\ cache \in [Addr -> Value] /\ OnceOf(queue, disk_id)
      BY Zenon DEF IInv, TypeOK
    <2>a. \A i \in 1..Len(queue) : cache[queue[i]] = disk[disk_id[queue[i]]]
      <3>1. \A i \in 1..Len(queue) : i < syncing
        BY <2>8, <2>9, SMT DEF SyncEnd
      <3>2. \A i \in 1..Len(queue) : ~modified[queue[i]]
        BY <3>1, Zenon DEF IInv, PassedOf
      <3> QED BY <3>2, Zenon DEF IInv, CleanOf
    <2>b. ViewOf(queue, disk_id, cache, disk) = disk
      BY <2>9, <2>a, ViewClean
    <2>c. disk' = disk /\ UNCHANGED <<queue, disk_id, cache, disk>>
      BY <2>8 DEF SyncEnd, cacheVars
    <2>d. View' = View
      BY <2>c, Unseen, Zenon
    <2> QED BY <2>b, <2>c, <2>d, ViewIs, Zenon
  <1> QED BY <1>1, <1>2, <1>3, PTL DEF Spec, SyncComplete

-----------------------------------------------------------------------------
(* When the cache runs out of entries *)

\* A set of numbers that is not empty has a least one.
LEMMA LeastNumber ==
  ASSUME NEW S \in SUBSET Nat, S # {}
  PROVE  \E m \in S : \A k \in S : m <= k
  <1> DEFINE R == {ss \in Nat \X Nat : ss[1] < ss[2]}
  <1>1. R = OpToRel(<, Nat)
    BY DEF OpToRel
  <1>2. IsWellFoundedOn(R, Nat)
    BY <1>1, NatLessThanWellFounded, Zenon
  <1>3. \E m \in S : \A k \in S : ~(<<k, m>> \in R)
    <2> HIDE DEF R
    <2> QED BY <1>2, WFMin, Zenon
  <1>4. \A k, m \in Nat : ~(<<k, m>> \in R) => m <= k
    OBVIOUS
  <1> HIDE DEF R
  <1> QED BY <1>3, <1>4, Zenon

\* An idle entry makes a victim: the search of get_block_cache finds one.
LEMMA VictimFound ==
  ASSUME TypeOK, \A k \in 1..Len(queue) : ~Victim(k)
  PROVE  \A k \in 1..Len(queue) : Held(queue[k])
  <1>1. SUFFICES ASSUME NEW i \in 1..Len(queue), Idle(i) PROVE FALSE
    BY Zenon DEF Idle
  <1> DEFINE S == {k \in 1..Len(queue) : Idle(k)}
  <1>2. S \in SUBSET Nat /\ i \in S
    BY <1>1 DEF TypeOK
  <1>3. \A k \in S : k \in 1..Len(queue) /\ Idle(k)
    OBVIOUS
  <1>4. \A k \in 1..Len(queue) : Idle(k) => k \in S
    OBVIOUS
  <1> HIDE DEF S
  <1>5. PICK m \in S : \A k \in S : m <= k
    BY <1>2, LeastNumber, Zenon
  <1>6. Victim(m)
    BY <1>3, <1>4, <1>5, Zenon DEF Victim
  <1> QED BY <1>3, <1>5, <1>6, Zenon

\* Entries that are all in use, each at its own address, are no more than the
\* closures that use them.
LEMMA UsersSuffice ==
  ASSUME IInv, \A k \in 1..Len(queue) : Held(queue[k])
  PROVE  Len(queue) <= Len(held)
  <1>0. Len(queue) \in Nat /\ Len(held) \in Nat
    BY DEF IInv, TypeOK
  <1> DEFINE f == [k \in 1..Len(queue) |-> CHOOSE i \in 1..Len(held) : held[i] = queue[k]]
  <1>1. \A k \in 1..Len(queue) : f[k] \in 1..Len(held) /\ held[f[k]] = queue[k]
    BY DEF Held
  <1>2. \A i, j \in 1..Len(queue) : queue[i] = queue[j] => i = j
    BY Zenon DEF IInv, OnceOf
  <1>3. f \in [1..Len(queue) -> 1..Len(held)]
    BY <1>1
  <1>4. \A i, j \in 1..Len(queue) : f[i] = f[j] => i = j
    <2> HIDE DEF f
    <2> QED BY <1>1, <1>2, Zenon
  <1> HIDE DEF f
  <1>5. f \in Injection(1..Len(queue), 1..Len(held))
    BY <1>3, <1>4 DEF Injection, IsInjective
  <1>6. /\ IsFiniteSet(1..Len(held)) /\ Cardinality(1..Len(held)) = Len(held)
        /\ Cardinality(1..Len(queue)) = Len(queue)
    <2>1. \A n \in Nat : IsFiniteSet(1..n) /\ Cardinality(1..n) = IF 1 > n THEN 0 ELSE n - 1 + 1
      <3>1. 1 \in Int /\ \A n \in Nat : n \in Int
        OBVIOUS
      <3> QED BY <3>1, FS_Interval, Zenon
    <2>2. \A n \in Nat : (IF 1 > n THEN 0 ELSE n - 1 + 1) = n
      OBVIOUS
    <2> QED BY <1>0, <2>1, <2>2, Zenon
  <1>7. Cardinality(1..Len(queue)) <= Cardinality(1..Len(held))
    BY <1>5, <1>6, FS_Injection, Zenon
  <1> QED BY <1>6, <1>7

\* The panic happens only then, and nothing but a new start follows it.
LEMMA StepNeverRunsOut ==
  ASSUME IInv, NeverRunsOut, [Next]_vars
  PROVE  NeverRunsOut'
  <1>1. CASE \E b \in Block : MissFull(b)
    <2>1. /\ held' = held /\ Len(queue) = BLOCK_CACHE_SIZE
          /\ \A k \in 1..Len(queue) : ~Victim(k)
      BY <1>1, Zenon DEF MissFull, Stop, useVars
    <2>2. Len(queue) <= Len(held)
      BY <2>1, VictimFound, UsersSuffice, Zenon DEF IInv
    <2>3. Len(held) >= BLOCK_CACHE_SIZE
      BY <2>1, <2>2, BlockCacheAssumption DEF IInv, TypeOK
    <2> QED BY <2>1, <2>3 DEF NeverRunsOut
  <1>2. CASE /\ state = "run" /\ state' \in {"run", "spin"}
    BY <1>2 DEF NeverRunsOut
  <1>3. CASE PowerLoss
    BY <1>3 DEF PowerLoss, NeverRunsOut
  <1>4. CASE UNCHANGED vars
    BY <1>4 DEF NeverRunsOut, vars, useVars
  <1>5. CASE ~ \E b \in Block : MissFull(b)
    <2>1. \/ /\ state = "run" /\ state' \in {"run", "spin"}
          \/ PowerLoss
          \/ UNCHANGED vars
      BY <1>5, Zenon
      DEF Next, get_block_cache, block_cache_sync_all, Hit, HitLocked, MissRoom, MissEvict,
          Misses, Enters, Runs, Stop, ClosureReads, ClosureWrites, ClosureReturns,
          SyncBegin, SyncOne, SyncLocked, SyncEnd
    <2> QED BY <1>2, <1>3, <1>4, <2>1, Zenon
  <1> QED BY <1>1, <1>5, Zenon

\* get_block_cache panics with "Run out of BlockCache!" only when as many closures
\* are open as the cache has entries.
THEOREM CacheNeverRunsOut == Spec => []NeverRunsOut
  <1>1. Init => IInv /\ NeverRunsOut
    <2>1. Init => NeverRunsOut
      BY DEF Init, NeverRunsOut
    <2> QED BY <2>1, InitKeeps, Zenon
  <1>2. IInv /\ NeverRunsOut /\ [Next]_vars => IInv' /\ NeverRunsOut'
    BY StepKeeps, StepNeverRunsOut, Zenon
  <1> QED BY <1>1, <1>2, PTL DEF Spec
=============================================================================
