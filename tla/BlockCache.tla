------------------------------ MODULE BlockCache ------------------------------
(***************************************************************************)
(* The block cache of easy-fs (easy-fs/src/block_cache.rs).                *)
(*                                                                         *)
(* The file system reaches a block only through                            *)
(*   get_block_cache(id, dev).lock().read(offset, closure)                 *)
(* or modify; the closure may do the same with other blocks.  The caches   *)
(* whose closures are running form a stack.  Each is referred to, and      *)
(* locked, until its closure returns.  Nothing runs concurrently: the      *)
(* kernel is not preempted, and the driver waits for the device.           *)
(*                                                                         *)
(* The contents of a block are one value, and the offset is left out.      *)
(***************************************************************************)
EXTENDS Naturals, Sequences

CONSTANTS
  Block, Value,
  Addr,               \* where the heap puts a BlockCache
  BLOCK_CACHE_SIZE,
  MaxDepth            \* how deep the file system nests its closures

ASSUME BlockCacheAssumption ==
  /\ BLOCK_CACHE_SIZE \in Nat \ {0}
  /\ MaxDepth \in Nat

VARIABLES
  disk,                        \* the block device
  disk_id, cache, modified,    \* the fields of the BlockCache at each address
  queue,                       \* BlockCacheManager.queue: addresses
  held,                        \* the stack of caches in use
  muts,                        \* those of held that are used by modify
  syncing,                     \* the turn of block_cache_sync_all, or 0
  got,                         \* what a closure read last
  state,                       \* "run", "panic", or "spin" on a lock for ever
  epoch                        \* ghost: changes with every write of a closure, and
                               \* when the machine starts again

cacheVars == <<disk_id, cache, modified>>
useVars == <<held, muts>>
vars == <<disk, cacheVars, queue, useVars, syncing, got, state, epoch>>

TypeOK ==
  /\ disk \in [Block -> Value]
  /\ disk_id \in [Addr -> Block] /\ cache \in [Addr -> Value]
  /\ modified \in [Addr -> BOOLEAN]
  /\ queue \in Seq(Addr) /\ Len(queue) <= BLOCK_CACHE_SIZE
  /\ held \in Seq(Addr) /\ Len(held) <= MaxDepth
  /\ muts \subseteq Addr
  /\ syncing \in 0..(BLOCK_CACHE_SIZE + 1)
  /\ got \in Value
  /\ state \in {"run", "panic", "spin"}
  /\ epoch \in BOOLEAN

Init ==
  /\ disk \in [Block -> Value]
  /\ \E b \in Block : disk_id = [a \in Addr |-> b]
  /\ \E v \in Value : cache = [a \in Addr |-> v] /\ got = v
  /\ modified = [a \in Addr |-> FALSE]
  /\ queue = <<>> /\ held = <<>> /\ muts = {}
  /\ syncing = 0 /\ state = "run" /\ epoch = FALSE

-----------------------------------------------------------------------------
(* BlockCacheManager *)

Queued(a) == \E k \in 1..Len(queue) : queue[k] = a
Held(a) == \E k \in 1..Len(held) : held[k] = a

\* queue.drain(k..=k)
drain(q, k) == [i \in 1..(Len(q) - 1) |-> IF i < k THEN q[i] ELSE q[i + 1]]

\* Mutant: the reference in the queue is not counted.
IdleNever(k) == FALSE

\* strong_count(queue[k]) = 1
Idle(k) == ~Held(queue[k])

\* The first idle entry is the one that goes.
Victim(k) ==
  /\ k \in 1..Len(queue) /\ Idle(k)
  /\ \A j \in 1..Len(queue) : Idle(j) => k <= j

\* The device after BlockCache::drop, and after sync, of the cache at a.
Synced(a) == IF modified[a] THEN [disk EXCEPT ![disk_id[a]] = cache[a]] ELSE disk

\* Mutant: the write is not noted.
LockUnnoted(a, mut) ==
  /\ held' = Append(held, a)
  /\ muts' = IF mut THEN muts \cup {a} ELSE muts
  /\ UNCHANGED modified

\* lock, then get_ref or get_mut: determines held, muts and modified.
Lock(a, mut) ==
  /\ held' = Append(held, a)
  /\ muts' = IF mut THEN muts \cup {a} ELSE muts
  /\ modified' = IF mut THEN [modified EXCEPT ![a] = TRUE] ELSE modified

\* BlockCache::new at a fresh address, and its use.
Load(b, a, dev, mut) ==
  /\ disk' = dev
  /\ disk_id' = [disk_id EXCEPT ![a] = b]
  /\ cache' = [cache EXCEPT ![a] = dev[b]]
  /\ modified' = [modified EXCEPT ![a] = mut]
  /\ held' = Append(held, a)
  /\ muts' = IF mut THEN muts \cup {a} ELSE muts

\* Code of the file system runs, and may use one more block.
Runs == state = "run" /\ syncing = 0

Enters == Runs /\ Len(held) < MaxDepth

Stop(how) ==
  /\ state' = how
  /\ UNCHANGED <<disk, cacheVars, queue, useVars, syncing, got, epoch>>

\* The block is cached.  Its lock is a spin lock, which a closure that is
\* still running has.
Hit(b, mut) ==
  /\ Enters
  /\ \E k \in 1..Len(queue) :
       /\ disk_id[queue[k]] = b
       /\ \A j \in 1..(k - 1) : disk_id[queue[j]] # b
       /\ ~Held(queue[k])
       /\ Lock(queue[k], mut)
  /\ UNCHANGED <<disk, disk_id, cache, queue, syncing, got, state, epoch>>

HitLocked(b) ==
  /\ Enters
  /\ \E k \in 1..Len(queue) : disk_id[queue[k]] = b /\ Held(queue[k])
  /\ Stop("spin")

Misses(b) == Enters /\ \A k \in 1..Len(queue) : disk_id[queue[k]] # b

\* Mutant: the queue grows without a bound.
MissNoLimit(b, a, mut) ==
  /\ Misses(b)
  /\ ~Queued(a)
  /\ Load(b, a, disk, mut)
  /\ queue' = Append(queue, a)
  /\ UNCHANGED <<syncing, got, state, epoch>>

MissRoom(b, a, mut) ==
  /\ Misses(b) /\ Len(queue) # BLOCK_CACHE_SIZE
  /\ ~Queued(a)
  /\ Load(b, a, disk, mut)
  /\ queue' = Append(queue, a)
  /\ UNCHANGED <<syncing, got, state, epoch>>

\* The victim is dropped first, so the new cache may take its address.
MissEvict(b, a, mut) ==
  /\ Misses(b) /\ Len(queue) = BLOCK_CACHE_SIZE
  /\ \E k \in 1..Len(queue) :
       /\ Victim(k)
       /\ ~Queued(a) \/ a = queue[k]
       /\ Load(b, a, Synced(queue[k]), mut)
       /\ queue' = Append(drain(queue, k), a)
  /\ UNCHANGED <<syncing, got, state, epoch>>

MissFull(b) ==
  /\ Misses(b) /\ Len(queue) = BLOCK_CACHE_SIZE
  /\ \A k \in 1..Len(queue) : ~Victim(k)
  /\ Stop("panic")

-----------------------------------------------------------------------------
(* Closures; only the innermost one runs *)

Top == held[Len(held)]

ClosureReads ==
  /\ Runs /\ held # <<>>
  /\ got' = cache[Top]
  /\ UNCHANGED <<disk, cacheVars, queue, useVars, syncing, state, epoch>>

ClosureWrites(v) ==
  /\ Runs /\ held # <<>> /\ Top \in muts
  /\ cache' = [cache EXCEPT ![Top] = v]
  /\ epoch' = ~epoch
  /\ UNCHANGED <<disk, disk_id, modified, queue, useVars, syncing, got, state>>

ClosureReturns ==
  /\ Runs /\ held # <<>>
  /\ held' = SubSeq(held, 1, Len(held) - 1)
  /\ muts' = muts \ {Top}
  /\ UNCHANGED <<disk, cacheVars, queue, syncing, got, state, epoch>>

-----------------------------------------------------------------------------
(* block_cache_sync_all, one turn of its loop at a time *)

SyncBegin ==
  /\ Runs
  /\ syncing' = 1
  /\ UNCHANGED <<disk, cacheVars, queue, useVars, got, state, epoch>>

\* Mutant: modified is cleared and the block stays where it is.
SyncOneClears ==
  /\ state = "run" /\ syncing \in 1..Len(queue) /\ ~Held(queue[syncing])
  /\ modified' = [modified EXCEPT ![queue[syncing]] = FALSE]
  /\ syncing' = syncing + 1
  /\ UNCHANGED <<disk, disk_id, cache, queue, useVars, got, state, epoch>>

SyncOne ==
  /\ state = "run" /\ syncing \in 1..Len(queue) /\ ~Held(queue[syncing])
  /\ disk' = Synced(queue[syncing])
  /\ modified' = [modified EXCEPT ![queue[syncing]] = FALSE]
  /\ syncing' = syncing + 1
  /\ UNCHANGED <<disk_id, cache, queue, useVars, got, state, epoch>>

SyncLocked ==
  /\ state = "run" /\ syncing \in 1..Len(queue) /\ Held(queue[syncing])
  /\ Stop("spin")

SyncEnd ==
  /\ state = "run" /\ syncing = Len(queue) + 1
  /\ syncing' = 0
  /\ UNCHANGED <<disk, cacheVars, queue, useVars, got, state, epoch>>

\* The power goes, at any time; the machine starts again with an empty cache.
PowerLoss ==
  /\ queue' = <<>> /\ held' = <<>> /\ muts' = {}
  /\ syncing' = 0 /\ state' = "run" /\ epoch' = ~epoch
  /\ UNCHANGED <<disk, cacheVars, got>>

-----------------------------------------------------------------------------
get_block_cache(b, mut) ==
  \/ Hit(b, mut) \/ HitLocked(b)
  \/ \E a \in Addr : MissRoom(b, a, mut) \/ MissEvict(b, a, mut)
  \/ MissFull(b)

block_cache_sync_all == SyncBegin \/ SyncOne \/ SyncLocked \/ SyncEnd

Next ==
  \/ \E b \in Block, mut \in BOOLEAN : get_block_cache(b, mut)
  \/ ClosureReads \/ (\E v \in Value : ClosureWrites(v)) \/ ClosureReturns
  \/ block_cache_sync_all
  \/ PowerLoss

Spec == Init /\ [][Next]_vars

-----------------------------------------------------------------------------
(* Properties *)

Cached(b) == \E k \in 1..Len(queue) : disk_id[queue[k]] = b
Copy(b) == CHOOSE a \in Addr : Queued(a) /\ disk_id[a] = b

\* A block as its users see it.
View == [b \in Block |-> IF Cached(b) THEN cache[Copy(b)] ELSE disk[b]]

Buffered == INSTANCE BufferedDisk WITH blocks <- View, stable <- disk

\* The cache is invisible: whatever is evicted, synced and loaded again, and in
\* whatever closure, a block is read as it was last written, and after a loss of
\* power each block holds what was written to the device last.
BufferedSpec == Buffered!Spec

\* When block_cache_sync_all returns, the device holds every block as its users
\* see it: a loss of power from here on loses nothing that was written before.
SyncComplete ==
  [][(syncing # 0 /\ syncing' = 0 /\ epoch' = epoch) => disk' = View']_vars

\* "Run out of BlockCache!" is reached only when as many closures are open as the
\* cache has entries: a file system that nests fewer never meets it.
NeverRunsOut == state = "panic" => Len(held) >= BLOCK_CACHE_SIZE
=============================================================================
