-------------------------------- MODULE Ext2 --------------------------------
(***************************************************************************)
(* The ext2 driver of kernel/fs/ext2.c on a disk that may lose power       *)
(* between two block writes, or refuse one.  An operation reads what it    *)
(* needs, decides, and writes blocks one after the other: its writes are   *)
(* queued in todo and reach the disk one per step.  A crash forgets the    *)
(* mount context and the writes still queued.                              *)
(*                                                                         *)
(* Blocks are abstract: the superblock, per group its entry in the         *)
(* descriptor table and its two bitmaps, the inodes and the directory      *)
(* blocks.  A bitmap is the set of its set bits.  The state Init describes *)
(* is the one the first half of ext2_format_device writes (Ext2Layout).    *)
(* Callers ask allocate_blocks for one block and name the inode they want, *)
(* as every call in the source does.                                       *)
(***************************************************************************)
EXTENDS Integers, FiniteSets, FiniteSetsExt, Sequences

CONSTANTS
  Groups,            \* number of block groups
  inodes_per_group,  \* s_inodes_per_group
  DataBlocks,        \* blocks of a group that are not metadata
  MaxLinks,          \* bound: directory entries per directory
  MaxCrashes,        \* bound: power losses in a behaviour
  MaxFailures        \* bound: block writes the device refuses

ASSUME Ext2Assumption ==
  /\ Groups \in Nat \ {0} /\ inodes_per_group \in Nat \ {0}
  /\ DataBlocks \in Nat \ {0} /\ {MaxLinks, MaxCrashes, MaxFailures} \subseteq Nat

GroupIds == 0 .. Groups - 1
Inodes == 1 .. Groups * inodes_per_group
Blocks == 1 .. Groups * DataBlocks
Bits == 0 .. DataBlocks - 1

\* Inodes start from 1, and so do the data blocks here.
GroupOf(n) == (n - 1) \div inodes_per_group
InodeBit(n) == (n - 1) % inodes_per_group
BlockOf(g, bit) == g * DataBlocks + bit + 1
BlockGroup(b) == (b - 1) \div DataBlocks
BlockBit(b) == (b - 1) % DataBlocks

\* What formatting leaves in the inode table; no caller reads it.
NoInode == [links |-> 0, block |-> 0]
Unmounted == [free_blocks |-> -1, free_inodes |-> -1]

VARIABLES
  disk,     \* the blocks on the device
  mnt,      \* the counts of ctx_superblock, or Unmounted
  todo,     \* writes of the running operation that are not on disk yet
  obtained, \* inodes and blocks the caller got and has not used yet
  faults    \* power losses and refused writes so far

vars == <<disk, mnt, todo, obtained, faults>>

Nothing == [inodes |-> {}, blocks |-> {}]

Init ==
  /\ disk = [super |-> <<[state |-> "valid",
                          free_blocks |-> Groups * DataBlocks,
                          free_inodes |-> Groups * inodes_per_group]>>,
             desc |-> [g \in GroupIds |-> [free_blocks |-> DataBlocks,
                                           free_inodes |-> inodes_per_group,
                                           used_dirs |-> 0]],
             block_bitmap |-> [g \in GroupIds |-> {}],
             inode_bitmap |-> [g \in GroupIds |-> {}],
             inode |-> [n \in Inodes |-> NoInode],
             dir |-> [b \in Blocks |-> <<>>]]
  /\ mnt = Unmounted /\ todo = <<>> /\ obtained = Nothing
  /\ faults = [crashes |-> 0, failures |-> 0]

Write(block, at, val) == [block |-> block, at |-> at, val |-> val]

Idle == todo = <<>>
Mounted == Idle /\ mnt # Unmounted

-----------------------------------------------------------------------------
Super(state, counts) ==
  Write("super", 1, [state |-> state, free_blocks |-> counts.free_blocks,
                     free_inodes |-> counts.free_inodes])

ext2_mount_device ==
  LET counts == [free_blocks |-> disk.super[1].free_blocks,
                 free_inodes |-> disk.super[1].free_inodes]
  IN /\ Idle /\ mnt = Unmounted
     /\ mnt' = counts /\ todo' = <<Super("error", counts)>>
     /\ UNCHANGED <<disk, obtained, faults>>

ext2_unmount_device ==
  /\ Mounted
  /\ todo' = <<Super("valid", mnt)>>
  /\ UNCHANGED <<disk, mnt, obtained, faults>>

\* Faulty variant: the descriptor table is not written.
allocate_inode_OnlyBitmap(n, is_dir) ==
  LET g == GroupOf(n)
  IN /\ Mounted /\ InodeBit(n) \notin disk.inode_bitmap[g]
     /\ mnt' = [mnt EXCEPT !.free_inodes = @ - 1]
     /\ todo' = <<Write("inode_bitmap", g,
                        disk.inode_bitmap[g] \cup {InodeBit(n)})>>
     /\ obtained' = [obtained EXCEPT !.inodes = @ \cup {n}]
     /\ UNCHANGED <<disk, faults>>

\* allocate_inode with allocate_given; SYS_RET_UNAVAILABLE changes nothing.
allocate_inode(n, is_dir) ==
  LET g == GroupOf(n)
      d == disk.desc[g]
  IN /\ Mounted /\ InodeBit(n) \notin disk.inode_bitmap[g]
     /\ mnt' = [mnt EXCEPT !.free_inodes = @ - 1]
     /\ todo' = <<Write("inode_bitmap", g,
                        disk.inode_bitmap[g] \cup {InodeBit(n)}),
                  Write("desc", g,
                        [free_blocks |-> d.free_blocks,
                         free_inodes |-> d.free_inodes - 1,
                         used_dirs |-> IF is_dir THEN d.used_dirs + 1
                                                 ELSE d.used_dirs])>>
     /\ obtained' = [obtained EXCEPT !.inodes = @ \cup {n}]
     /\ UNCHANGED <<disk, faults>>

\* The groups allocate_blocks can serve a request from: their count says so
\* and their bitmap agrees.
Serving == {g \in GroupIds : /\ disk.desc[g].free_blocks >= 1
                             /\ disk.block_bitmap[g] # Bits}

\* Faulty variant: the table is written before the bitmap.
BlockWrites_TableFirst(g, bit) ==
  <<Write("desc", g, [disk.desc[g] EXCEPT !.free_blocks = @ - 1]),
    Write("block_bitmap", g, disk.block_bitmap[g] \cup {bit})>>

\* Faulty variant: the bitmap is left to a later flush.
BlockWrites_NoBitmap(g, bit) ==
  <<Write("desc", g, [disk.desc[g] EXCEPT !.free_blocks = @ - 1])>>

BlockWrites(g, bit) ==
  <<Write("block_bitmap", g, disk.block_bitmap[g] \cup {bit}),
    Write("desc", g, [disk.desc[g] EXCEPT !.free_blocks = @ - 1])>>

allocate_blocks ==
  LET g == Min(Serving)
      bit == Min(Bits \ disk.block_bitmap[g])
  IN /\ Mounted /\ Serving # {}
     /\ mnt' = [mnt EXCEPT !.free_blocks = @ - 1]
     /\ todo' = BlockWrites(g, bit)
     /\ obtained' = [obtained EXCEPT !.blocks = @ \cup {BlockOf(g, bit)}]
     /\ UNCHANGED <<disk, faults>>

InodeWrites(n, inode) ==
  LET g == GroupOf(n)
  IN <<Write("inode_bitmap", g, disk.inode_bitmap[g] \cup {InodeBit(n)}),
       Write("inode", n, inode)>>

\* The inode of a new directory, with its block in i_block[0].
create_dir_inode(b) == [links |-> 0, block |-> b]

\* The caller writes an inode and a block it was given.
ext2_write_inode(n, b) ==
  /\ Mounted /\ n \in obtained.inodes /\ b \in obtained.blocks
  /\ todo' = InodeWrites(n, create_dir_inode(b))
  /\ obtained' = [inodes |-> obtained.inodes \ {n},
                  blocks |-> obtained.blocks \ {b}]
  /\ UNCHANGED <<disk, mnt, faults>>

\* Directories and linked inodes are ones that have been written.
IsWritten(n) ==
  /\ InodeBit(n) \in disk.inode_bitmap[GroupOf(n)]
  /\ disk.inode[n].block # 0

\* The walk stops at the end of the entries; the new one goes there.
WithEntry(b, n) == Append(disk.dir[b], n)

\* Faulty variant: the link is counted before the entry is there.
LinkWrites_CountFirst(d, n) ==
  LET b == disk.inode[d].block
  IN InodeWrites(n, [disk.inode[n] EXCEPT !.links = @ + 1])
       \o <<Write("dir", b, WithEntry(b, n))>>

LinkWrites(d, n) ==
  LET b == disk.inode[d].block
  IN <<Write("dir", b, WithEntry(b, n))>>
       \o InodeWrites(n, [disk.inode[n] EXCEPT !.links = @ + 1])

ext2_add_link(d, n) ==
  /\ Mounted /\ IsWritten(d) /\ IsWritten(n)
  /\ Len(disk.dir[disk.inode[d].block]) < MaxLinks
  /\ todo' = LinkWrites(d, n)
  /\ UNCHANGED <<disk, mnt, obtained, faults>>

-----------------------------------------------------------------------------
\* A mount stands when its write is done, an unmount ends the context then.
ext2_write_blocks ==
  /\ todo # <<>>
  /\ LET w == Head(todo)
         ends == w.block = "super" /\ w.val.state = "valid"
     IN /\ disk' = [disk EXCEPT ![w.block][w.at] = w.val]
        /\ mnt' = IF ends THEN Unmounted ELSE mnt
        /\ obtained' = IF ends THEN Nothing ELSE obtained
  /\ todo' = Tail(todo)
  /\ UNCHANGED faults

\* Faulty variant: mounting goes on without its write.
WriteFails_Ignored ==
  /\ todo # <<>> /\ faults.failures < MaxFailures
  /\ faults' = [faults EXCEPT !.failures = @ + 1]
  /\ todo' = Tail(todo)
  /\ UNCHANGED <<disk, mnt, obtained>>

\* The device reports an error.  Only mount and unmount look at it: mount
\* gives up, unmount leaves the context as it is, the others go on with
\* their next write.
WriteFails ==
  /\ todo # <<>> /\ faults.failures < MaxFailures
  /\ faults' = [faults EXCEPT !.failures = @ + 1]
  /\ todo' = Tail(todo)
  /\ mnt' = IF Head(todo).block = "super" /\ Head(todo).val.state = "error"
              THEN Unmounted ELSE mnt
  /\ UNCHANGED <<disk, obtained>>

\* Power is lost; the device keeps what was written.
Crash ==
  /\ faults.crashes < MaxCrashes
  /\ faults' = [faults EXCEPT !.crashes = @ + 1]
  /\ mnt' = Unmounted /\ todo' = <<>> /\ obtained' = Nothing
  /\ UNCHANGED disk

Next ==
  \/ ext2_mount_device \/ ext2_unmount_device
  \/ \E n \in Inodes, is_dir \in BOOLEAN : allocate_inode(n, is_dir)
  \/ allocate_blocks
  \/ \E n \in Inodes, b \in Blocks : ext2_write_inode(n, b)
  \/ \E d, n \in Inodes : ext2_add_link(d, n)
  \/ ext2_write_blocks \/ WriteFails
  \/ Crash

Spec == Init /\ [][Next]_vars

-----------------------------------------------------------------------------
IsFree(b) == BlockBit(b) \notin disk.block_bitmap[BlockGroup(b)]

\* What bitmaps leave free.
FreeBlocksIn(maps) == {b \in Blocks : BlockBit(b) \notin maps[BlockGroup(b)]}
FreeInodesIn(maps) == {n \in Inodes : InodeBit(n) \notin maps[GroupOf(n)]}
Written == {n \in Inodes : disk.inode[n].block # 0}

\* The device has refused no write.
NoneRefused == faults.failures = 0

\* The places of the directory entries that name inode n.
EntriesIn(dir, n) ==
  {p \in Blocks \X (1 .. MaxLinks) :
     p[2] <= Len(dir[p[1]]) /\ dir[p[1]][p[2]] = n}

\* The table of a group promises at least what its bitmaps leave free, and
\* an inode counts no link without an entry.
CountsCover(desc, blocks, inodes, inode, dir) ==
  /\ \A g \in GroupIds :
       /\ desc[g].free_blocks >= Cardinality(Bits \ blocks[g])
       /\ desc[g].free_inodes >= inodes_per_group - Cardinality(inodes[g])
  /\ \A n \in Inodes : inode[n].links <= Cardinality(EntriesIn(dir, n))

\* The same with exact counts.
CountsMatch(desc, blocks, inodes, inode, dir) ==
  /\ \A g \in GroupIds :
       /\ desc[g].free_blocks = Cardinality(Bits \ blocks[g])
       /\ desc[g].free_inodes = inodes_per_group - Cardinality(inodes[g])
  /\ \A n \in Inodes : inode[n].links = Cardinality(EntriesIn(dir, n))

(***************************************************************************)
(* Neither a crash nor a refused write lets a file system look valid while *)
(* an operation changes it or a mount is standing: it stays marked with    *)
(* errors until an unmount has succeeded.                                  *)
(***************************************************************************)
MarkedUntilUnmount ==
  disk.super[1].state = "valid" =>
    /\ Idle => mnt = Unmounted
    /\ \A k \in DOMAIN todo : todo[k].block = "super"

(***************************************************************************)
(* At no moment, after any crash, does an inode on disk name a block that  *)
(* the bitmap on disk calls free, so that allocate_blocks cannot hand out  *)
(* a block that a directory uses.                                          *)
(***************************************************************************)
UsedBlocksMarked ==
  NoneRefused => \A n \in Written : ~IsFree(disk.inode[n].block)

(***************************************************************************)
(* No two inodes on disk own the same block, whatever crashed in between.  *)
(***************************************************************************)
BlocksOwnedOnce ==
  NoneRefused =>
    \A m, n \in Written : m # n => disk.inode[m].block # disk.inode[n].block

(***************************************************************************)
(* Whatever crashed in between, a block on disk belongs to one inode at    *)
(* the most, and the bitmap knows that it is in use.                       *)
(***************************************************************************)
BlocksSound == UsedBlocksMarked /\ BlocksOwnedOnce

(***************************************************************************)
(* A crash falsifies the counts on disk in one direction only.  The free   *)
(* counts of table and superblock may be too large, so nothing that is     *)
(* free is lost; a link count may be too small, so a crash in              *)
(* ext2_add_link loses a count, not an entry.                              *)
(***************************************************************************)
CountsSafe ==
  NoneRefused =>
    /\ CountsCover(disk.desc, disk.block_bitmap, disk.inode_bitmap, disk.inode,
                   disk.dir)
    /\ disk.super[1].free_blocks >= Cardinality(FreeBlocksIn(disk.block_bitmap))
    /\ disk.super[1].free_inodes >= Cardinality(FreeInodesIn(disk.inode_bitmap))

(***************************************************************************)
(* Without a crash or a refused write, a file system marked valid has      *)
(* exact counts: superblock, descriptor table, bitmaps and links agree.    *)
(***************************************************************************)
ValidIsExact ==
  NoneRefused /\ faults.crashes = 0 /\ disk.super[1].state = "valid" =>
    /\ CountsMatch(disk.desc, disk.block_bitmap, disk.inode_bitmap, disk.inode,
                   disk.dir)
    /\ disk.super[1].free_blocks = Cardinality(FreeBlocksIn(disk.block_bitmap))
    /\ disk.super[1].free_inodes = Cardinality(FreeInodesIn(disk.inode_bitmap))

-----------------------------------------------------------------------------
SuperBlocks ==
  [state : {"valid", "error"}, free_blocks : Int, free_inodes : Int]
GroupDescs == [free_blocks : Int, free_inodes : Int, used_dirs : Int]
InodeValues == [links : Nat, block : {0} \cup Blocks]

DiskStates ==
  [super : [{1} -> SuperBlocks],
   desc : [GroupIds -> GroupDescs],
   block_bitmap : [GroupIds -> SUBSET Bits],
   inode_bitmap : [GroupIds -> SUBSET (0 .. inodes_per_group - 1)],
   inode : [Inodes -> InodeValues],
   dir : [Blocks -> Seq(Inodes)]]

\* What a queued write may hold: a value of the block it is for.
Writes ==
  [block : {"super"}, at : {1}, val : SuperBlocks]
    \cup [block : {"desc"}, at : GroupIds, val : GroupDescs]
    \cup [block : {"block_bitmap"}, at : GroupIds, val : SUBSET Bits]
    \cup [block : {"inode_bitmap"}, at : GroupIds,
          val : SUBSET (0 .. inodes_per_group - 1)]
    \cup [block : {"inode"}, at : Inodes, val : InodeValues]
    \cup [block : {"dir"}, at : Blocks, val : Seq(Inodes)]

\* Writes are in the order the operations queue them: a superblock alone, a
\* block bitmap first, an inode last.
TodoSound ==
  /\ todo \in Seq(Writes)
  /\ \A k \in DOMAIN todo :
       /\ todo[k].block = "super" => Len(todo) = 1
       /\ todo[k].block = "block_bitmap" => k = 1
       /\ todo[k].block = "inode" => k = Len(todo)

Ext2Type ==
  /\ disk \in DiskStates
  /\ mnt \in [free_blocks : Int, free_inodes : Int]
  /\ obtained \in [inodes : SUBSET Inodes, blocks : SUBSET Blocks]
  /\ faults \in [crashes : Nat, failures : Nat]

\* A valid mark on disk: nothing is mounted, or the mount's own write, which
\* takes the mark away, is the one to come.
MarkSound ==
  disk.super[1].state = "valid" =>
    \/ Idle /\ mnt = Unmounted
    \/ Len(todo) = 1 /\ todo[1].block = "super" /\ todo[1].val.state = "error"

\* The bit of block b is about to be written.
Marking(b) ==
  /\ todo # <<>> /\ todo[1].block = "block_bitmap"
  /\ todo[1].at = BlockGroup(b) /\ BlockBit(b) \in todo[1].val

\* A block on its way to an inode, in the caller's hands or in a queued
\* write, is marked or being marked and is no other inode's.
OwnersSound ==
  /\ \A b \in obtained.blocks :
       /\ ~IsFree(b) \/ Marking(b)
       /\ \A n \in Inodes : disk.inode[n].block # b
  /\ \A k \in DOMAIN todo :
       /\ todo[k].block = "block_bitmap" =>
            disk.block_bitmap[todo[k].at] \subseteq todo[k].val
       /\ todo[k].block = "inode" =>
            /\ todo[k].val.block \in Blocks \ obtained.blocks
            /\ ~IsFree(todo[k].val.block)
            /\ \A m \in Inodes \ {todo[k].at} :
                 disk.inode[m].block # todo[k].val.block

\* The inductive invariant behind MarkedUntilUnmount and BlocksSound.
Ext2Inv ==
  /\ Ext2Type /\ TodoSound /\ MarkSound /\ BlocksSound
  /\ NoneRefused => OwnersSound

-----------------------------------------------------------------------------
\* What a block will hold once the writes of q are done, and what it holds now.
Settled(q, block, at, now) ==
  IF \E k \in DOMAIN q : q[k].block = block /\ q[k].at = at
  THEN q[CHOOSE k \in DOMAIN q : q[k].block = block /\ q[k].at = at].val
  ELSE now

BlockMaps == [g \in GroupIds |-> Settled(todo, "block_bitmap", g, disk.block_bitmap[g])]
InodeMaps == [g \in GroupIds |-> Settled(todo, "inode_bitmap", g, disk.inode_bitmap[g])]
Descs == [g \in GroupIds |-> Settled(todo, "desc", g, disk.desc[g])]
InodeTable == [n \in Inodes |-> Settled(todo, "inode", n, disk.inode[n])]
Dirs == [b \in Blocks |-> Settled(todo, "dir", b, disk.dir[b])]

\* An operation writes a block once, and what the counts are about before
\* the counts; bitmaps and directories only grow.
QueueSound ==
  /\ \A j, k \in DOMAIN todo : todo[j].block = todo[k].block => j = k
  /\ \A k \in DOMAIN todo :
       /\ todo[k].block \in {"desc", "super"} => k = Len(todo)
       /\ todo[k].block = "block_bitmap" =>
            disk.block_bitmap[todo[k].at] \subseteq todo[k].val
       /\ todo[k].block = "inode_bitmap" =>
            disk.inode_bitmap[todo[k].at] \subseteq todo[k].val
       /\ todo[k].block = "dir" =>
            /\ Len(disk.dir[todo[k].at]) <= Len(todo[k].val)
            /\ \A i \in DOMAIN disk.dir[todo[k].at] :
                 todo[k].val[i] = disk.dir[todo[k].at][i]

(***************************************************************************)
(* The inductive invariant behind CountsSafe: the counts cover what is on  *)
(* the disk and what will be once the queued writes are done, and those of *)
(* the mount cover the latter.                                             *)
(***************************************************************************)
CountsInv ==
  NoneRefused =>
    /\ QueueSound /\ CountsSafe
    /\ CountsCover(Descs, BlockMaps, InodeMaps, InodeTable, Dirs)
    /\ \A k \in DOMAIN todo : todo[k].block = "super" =>
         /\ todo[k].val.free_blocks >= Cardinality(FreeBlocksIn(BlockMaps))
         /\ todo[k].val.free_inodes >= Cardinality(FreeInodesIn(InodeMaps))
    /\ mnt # Unmounted =>
         /\ mnt.free_blocks >= Cardinality(FreeBlocksIn(BlockMaps))
         /\ mnt.free_inodes >= Cardinality(FreeInodesIn(InodeMaps))

(***************************************************************************)
(* The inductive invariant behind ValidIsExact: without a crash the counts *)
(* are exact for what the disk will hold.  An inode the caller holds is    *)
(* marked and has never been written, and only a written inode has links.  *)
(***************************************************************************)
ExactInv ==
  NoneRefused /\ faults.crashes = 0 =>
    /\ CountsMatch(Descs, BlockMaps, InodeMaps, InodeTable, Dirs)
    /\ todo # <<>> => mnt # Unmounted
    /\ mnt = Unmounted \/ disk.super[1].state = "valid" =>
         /\ disk.super[1].free_blocks = Cardinality(FreeBlocksIn(BlockMaps))
         /\ disk.super[1].free_inodes = Cardinality(FreeInodesIn(InodeMaps))
    /\ \A k \in DOMAIN todo : todo[k].block = "super" =>
         /\ todo[k].val.free_blocks = Cardinality(FreeBlocksIn(BlockMaps))
         /\ todo[k].val.free_inodes = Cardinality(FreeInodesIn(InodeMaps))
    /\ mnt # Unmounted =>
         /\ mnt.free_blocks = Cardinality(FreeBlocksIn(BlockMaps))
         /\ mnt.free_inodes = Cardinality(FreeInodesIn(InodeMaps))
    /\ \A n \in Inodes :
         /\ InodeTable[n].block # 0 => InodeBit(n) \in InodeMaps[GroupOf(n)]
         /\ EntriesIn(Dirs, n) # {} => InodeTable[n].block # 0
         /\ n \in obtained.inodes =>
              InodeTable[n].block = 0 /\ InodeBit(n) \in InodeMaps[GroupOf(n)]
=============================================================================
