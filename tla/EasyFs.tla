-------------------------------- MODULE EasyFs --------------------------------
(***************************************************************************)
(* The file system of the kernel: easy-fs below, and above it the OSInode  *)
(* objects of os/src/fs/inode.rs that descriptors refer to.                *)
(*                                                                         *)
(* A system call on a file never suspends and ends with all dirty blocks   *)
(* written back, so each is one step.  A descriptor is an index of         *)
(* fd_table; two descriptors made by sys_dup share one OSInode and so one  *)
(* offset; two calls of sys_open on one name give two OSInodes of one      *)
(* inode, whose size neither of them caches.                               *)
(***************************************************************************)
EXTENDS DiskLayout

CONSTANTS
  Name,      \* names of files, nonzero numbers
  Flags,     \* the flags that occur in sys_open, a subset of OpenFlags
  Slices,    \* the buffers of a write: a set of sequences of nonempty slices
  Lens,      \* the buffers of a read: a set of sequences of lengths
  MaxFd,     \* bound: descriptors of the process
  MaxOffset, \* bound: a write ends at most here
  MaxOps     \* bound: calls that change the disk

VARIABLES
  fs,        \* bitmaps, inodes and blocks (DiskLayout)
  file,      \* OSInode objects: [FileId -> [inode, offset, readable, writable]]
  fd_table,  \* Seq(FileId or None)
  ops        \* calls so far, for the bound

vars == <<fs, file, fd_table, ops>>

FileId == 1..MaxFd
Closed == [inode |-> None, offset |-> 0, readable |-> FALSE, writable |-> FALSE]

Init ==
  /\ fs = [inode_bitmap |-> {Root}, data_bitmap |-> {},
           inodes |-> [i \in 0..(InodeBits - 1) |-> NewInode],
           blocks |-> [b \in Block |-> ZeroBlock], new_blocks |-> <<>>, bad |-> "no"]
  /\ file = [f \in FileId |-> Closed]
  /\ fd_table = <<>>
  /\ ops = 0

Runs == fs.bad = "no"

\* A call that fails panics in the kernel, which stops.
Outcome(after) ==
  IF after.bad = "no" THEN [after EXCEPT !.new_blocks = <<>>] ELSE Fail(fs, after.bad)

\* The descriptors that are open.
Open == {fd \in DOMAIN fd_table : fd_table[fd] # None}

\* fd_table with f in the slot alloc_fd finds: the first free one or a new one.
alloc_fd(f) ==
  LET free == DOMAIN fd_table \ Open
  IN IF free = {} THEN Append(fd_table, f) ELSE [fd_table EXCEPT ![Min(free)] = f]

\* The flags of sys_open; no flag is RDONLY.
OpenFlags == SUBSET {"WRONLY", "RDWR", "CREATE", "TRUNC"}
ASSUME FlagsAssumption == Flags \subseteq OpenFlags

readable(flags) == "WRONLY" \notin flags
writable(flags) == flags # {}

\* The file system after open_file, where the name exists or is created.
open_file(name, flags) ==
  LET id == find_inode_id(fs, name)
  IN IF id = None THEN create(fs, name)
     ELSE IF flags \cap {"CREATE", "TRUNC"} # {} THEN clear(fs, id) ELSE fs

sys_open(name, flags) ==
  /\ Runs /\ ops < MaxOps
  /\ "CREATE" \in flags \/ find_inode_id(fs, name) # None
  /\ Len(fd_table) < MaxFd \/ Open # DOMAIN fd_table
  /\ fs' = Outcome(open_file(name, flags))
  /\ LET f == Min(FileId \ {fd_table[fd] : fd \in Open})
         id == find_inode_id(fs', name)
         made == [inode |-> id, offset |-> 0,
                  readable |-> readable(flags), writable |-> writable(flags)]
     IN IF fs'.bad # "no" THEN UNCHANGED <<file, fd_table>>
        ELSE /\ file' = [file EXCEPT ![f] = made]
             /\ fd_table' = alloc_fd(f)
  /\ ops' = ops + 1

sys_dup(fd) ==
  /\ Runs /\ fd \in Open
  /\ Len(fd_table) < MaxFd \/ Open # DOMAIN fd_table
  /\ fd_table' = alloc_fd(fd_table[fd])
  /\ UNCHANGED <<fs, file, ops>>

\* A mutant: any descriptor drops the OSInode.
CloseDrops(fd) ==
  /\ Runs /\ fd \in Open
  /\ fd_table' = [fd_table EXCEPT ![fd] = None]
  /\ file' = [file EXCEPT ![fd_table[fd]] = Closed]
  /\ UNCHANGED <<fs, ops>>

\* The last descriptor drops the OSInode.
sys_close(fd) ==
  /\ Runs /\ fd \in Open
  /\ fd_table' = [fd_table EXCEPT ![fd] = None]
  /\ file' = IF \E g \in Open \ {fd} : fd_table[g] = fd_table[fd] THEN file
             ELSE [file EXCEPT ![fd_table[fd]] = Closed]
  /\ UNCHANGED <<fs, ops>>

-----------------------------------------------------------------------------
\* OSInode::write: each slice goes where the one before it ended.
write(g, i, offset, slices) ==
  LET put(a, slice) == [fs |-> write_at(a.fs, i, a.offset, slice),
                        offset |-> a.offset + Len(slice)]
  IN FoldLeft(put, [fs |-> g, offset |-> offset], slices)

sys_write(fd, slices) ==
  /\ Runs /\ ops < MaxOps /\ fd \in Open
  /\ file[fd_table[fd]].writable
  /\ LET f == file[fd_table[fd]]
         after == write(fs, f.inode, f.offset, slices)
     IN /\ after.offset <= MaxOffset
        /\ fs' = Outcome(after.fs)
        /\ file' = [file EXCEPT ![fd_table[fd]].offset = after.offset]
  /\ ops' = ops + 1
  /\ UNCHANGED fd_table

\* OSInode::read: slice after slice, until one reads nothing.
read(g, i, offset, lens) ==
  LET take(bytes, len) == bytes \o read_at(g, i, offset + Len(bytes), len)
  IN FoldLeft(take, <<>>, lens)

sys_read(fd, lens) ==
  /\ Runs /\ fd \in Open
  /\ file[fd_table[fd]].readable
  /\ LET f == file[fd_table[fd]]
     IN file' = [file EXCEPT ![fd_table[fd]].offset =
                   @ + Len(read(fs, f.inode, f.offset, lens))]
  /\ UNCHANGED <<fs, fd_table, ops>>

\* OSInode::read_all of a file just opened: buffer after buffer to the end.
read_all(g, i) ==
  FlattenSeq([n \in 1.._data_blocks(g.inodes[i].size) |->
                read_at(g, i, (n - 1) * BLOCK_SZ, BLOCK_SZ)])

Next ==
  \/ \E name \in Name, flags \in Flags : sys_open(name, flags)
  \/ \E fd \in Open : sys_dup(fd)
  \/ \E fd \in Open : sys_close(fd)
  \/ \E fd \in Open, slices \in Slices : sys_write(fd, slices)
  \/ \E fd \in Open, lens \in Lens : sys_read(fd, lens)

Spec == Init /\ [][Next]_vars

-----------------------------------------------------------------------------
(* Properties.                                                             *)

\* The inodes in use.
InUse == {Root} \cup {e[2] : e \in ToSet(DirEntries(fs))}

\* Types: bitmaps, inodes and blocks stay in their areas and descriptors refer
\* to open OSInodes, whatever sys_close and sys_open do with the slots.
TypeOK ==
  /\ fs.inode_bitmap \subseteq 0..(InodeBits - 1)
  /\ fs.data_bitmap \subseteq 0..(DataBlocks - 1)
  /\ \A b \in Block : \A o \in Offset : fs.blocks[b][o] \in Nat
  /\ fs.bad \in {"no", "disk full", "past the device", "no inode"}
  /\ \A f \in FileId : file[f].inode \in {None} \cup 0..(InodeBits - 1)
  /\ \A fd \in Open : file[fd_table[fd]].inode # None

\* The data bitmap is exact and blocks have one owner (alloc_data, dealloc_data,
\* increase_size, clear_size): a set bit is a data or index block of just one
\* inode, at just one place.  A free block is all zero, which is why the gap a
\* write past the end leaves reads as zero.
BlocksExact ==
  LET of == [i \in InUse |-> BlocksOf(fs, fs.inodes[i])]
      all == FlattenSeq(SetToSeq({<<i>> : i \in InUse}))
      every == FoldLeft(LAMBDA s, i : s \o of[i], <<>>, all)
  IN Runs =>
       /\ IsInjective(every)
       /\ ToSet(every) = {bit + 1 : bit \in fs.data_bitmap}
       /\ \A b \in Block : b - 1 \notin fs.data_bitmap => fs.blocks[b] = ZeroBlock

\* The directory and the inode bitmap agree (Inode::create): names and inodes
\* occur once, the inodes named are the allocated ones, and each descriptor is
\* of one of them.
DirectoryExact ==
  LET entries == DirEntries(fs)
  IN Runs =>
       /\ \A d, e \in DOMAIN entries :
            d # e => entries[d][1] # entries[e][1] /\ entries[d][2] # entries[e][2]
       /\ InUse = fs.inode_bitmap
       /\ \A fd \in Open : file[fd_table[fd]].inode \in InUse \ {Root}

\* The bitmaps, the inodes, the index blocks and the directory agree: neither a
\* block nor an inode is lost or shared, through any growth and truncation.
DiskExact == BlocksExact /\ DirectoryExact

\* What a program reads with OSInode::read_all.
NoFile == <<-1>>
ContentOf(name) ==
  LET id == find_inode_id(fs, name)
  IN IF id = None THEN NoFile ELSE read_all(fs, id)

Content == [name \in Name |-> ContentOf(name)]

Data == {FlattenSeq(slices) : slices \in Slices}

Store == INSTANCE FileStore WITH content <- Content, MaxSize <- MaxOffset

\* The file system implements FileStore: whatever blocks, indexes and bitmaps a
\* call goes through, a file reads back as its writes laid over one another,
\* with zeros between them, and no call on one file shows in another.  This
\* includes a write through a descriptor whose file another one truncated.
StoreSpec == Store!Spec
====
