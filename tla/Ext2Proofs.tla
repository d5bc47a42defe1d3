----------------------------- MODULE Ext2Proofs -----------------------------
(***************************************************************************)
(* The ext2 driver, for every number of groups, inodes and blocks, and for *)
(* crashes and refused writes at every step.  Last, the counts of free     *)
(* blocks and inodes on disk: what a crash leaves of them, and that they   *)
(* are exact on a file system that was unmounted.                          *)
(***************************************************************************)
EXTENDS Ext2, WellFoundedInduction, FiniteSetTheorems, TLAPS

(***************************************************************************)
(* Writing one block changes that block and no other.                      *)
(***************************************************************************)
Stored(d, w) == [d EXCEPT ![w.block][w.at] = w.val]

LEMMA StoredFields ==
  ASSUME NEW d \in DiskStates, NEW w \in Writes
  PROVE  /\ Stored(d, w) \in DiskStates
         /\ Stored(d, w).super[1] =
              IF w.block = "super" THEN w.val ELSE d.super[1]
         /\ \A g \in GroupIds : Stored(d, w).block_bitmap[g] =
              IF w.block = "block_bitmap" /\ g = w.at
                THEN w.val ELSE d.block_bitmap[g]
         /\ \A n \in Inodes : Stored(d, w).inode[n] =
              IF w.block = "inode" /\ n = w.at THEN w.val ELSE d.inode[n]
         /\ \A g \in GroupIds : Stored(d, w).desc[g] =
              IF w.block = "desc" /\ g = w.at THEN w.val ELSE d.desc[g]
         /\ \A g \in GroupIds : Stored(d, w).inode_bitmap[g] =
              IF w.block = "inode_bitmap" /\ g = w.at
                THEN w.val ELSE d.inode_bitmap[g]
         /\ \A b \in Blocks : Stored(d, w).dir[b] =
              IF w.block = "dir" /\ b = w.at THEN w.val ELSE d.dir[b]
<1>1. CASE w.block = "super"
  BY <1>1 DEF Writes, Stored, DiskStates
<1>2. CASE w.block = "desc"
  BY <1>2, Zenon DEF Writes, Stored, DiskStates
<1>3. CASE w.block = "block_bitmap"
  BY <1>3, Zenon DEF Writes, Stored, DiskStates
<1>4. CASE w.block = "inode_bitmap"
  BY <1>4, Zenon DEF Writes, Stored, DiskStates
<1>5. CASE w.block = "inode"
  BY <1>5, Zenon DEF Writes, Stored, DiskStates
<1>6. CASE w.block = "dir"
  BY <1>6, Zenon DEF Writes, Stored, DiskStates
<1> QED
  BY <1>1, <1>2, <1>3, <1>4, <1>5, <1>6 DEF Writes

(***************************************************************************)
(* Block and inode numbers split into a group and a bit, and back.         *)
(***************************************************************************)
LEMMA Splits ==
  ASSUME NEW k \in Nat \ {0}, NEW n \in Nat \ {0}, NEW a \in 1 .. k * n
  PROVE  (a - 1) \div n \in 0 .. k - 1 /\ (a - 1) % n \in 0 .. n - 1
<1>1. k * n \in Nat /\ a - 1 \in Nat /\ a - 1 < k * n
  OBVIOUS
<1> DEFINE e == a - 1
<1> HIDE DEF e
<1>2. e \in Nat /\ e < k * n
  BY <1>1 DEF e
<1>3. e % n \in 0 .. n - 1
  BY <1>2
<1>4. e \div n \in Nat
  BY <1>2
<1>5. e \div n < k
  BY <1>2
<1> QED
  BY <1>3, <1>4, <1>5 DEF e

LEMMA Joins ==
  ASSUME NEW k \in Nat \ {0}, NEW n \in Nat \ {0},
         NEW g \in 0 .. k - 1, NEW r \in 0 .. n - 1
  PROVE  /\ g * n + r + 1 \in 1 .. k * n
         /\ (g * n + r + 1 - 1) \div n = g /\ (g * n + r + 1 - 1) % n = r
<1>1. g * n \in Nat /\ k * n \in Nat
  OBVIOUS
<1>2. g * n + r < k * n
  OBVIOUS
<1>3. g * n + r + 1 - 1 = g * n + r
  BY <1>1
<1>4. (g * n + r) \div n = g /\ (g * n + r) % n = r
  OBVIOUS
<1> QED
  BY <1>1, <1>2, <1>3, <1>4

LEMMA Numbers ==
  /\ \A n \in Inodes :
       GroupOf(n) \in GroupIds /\ InodeBit(n) \in 0 .. inodes_per_group - 1
  /\ \A b \in Blocks : BlockGroup(b) \in GroupIds /\ BlockBit(b) \in Bits
  /\ \A g \in GroupIds, bit \in Bits :
       /\ BlockOf(g, bit) \in Blocks
       /\ BlockGroup(BlockOf(g, bit)) = g /\ BlockBit(BlockOf(g, bit)) = bit
<1>1. /\ Groups \in Nat \ {0} /\ inodes_per_group \in Nat \ {0}
      /\ DataBlocks \in Nat \ {0}
  BY Ext2Assumption
<1>2. ASSUME NEW n \in Inodes
      PROVE  GroupOf(n) \in GroupIds /\ InodeBit(n) \in 0 .. inodes_per_group - 1
  BY <1>1, Splits, Zenon DEF Inodes, GroupOf, InodeBit, GroupIds
<1>3. ASSUME NEW b \in Blocks
      PROVE  BlockGroup(b) \in GroupIds /\ BlockBit(b) \in Bits
  BY <1>1, Splits, Zenon DEF Blocks, BlockGroup, BlockBit, GroupIds, Bits
<1>4. ASSUME NEW g \in GroupIds, NEW bit \in Bits
      PROVE  /\ BlockOf(g, bit) \in Blocks
             /\ BlockGroup(BlockOf(g, bit)) = g
             /\ BlockBit(BlockOf(g, bit)) = bit
  BY <1>1, Joins DEF Blocks, BlockOf, BlockGroup, BlockBit, GroupIds, Bits
<1> QED
  BY <1>2, <1>3, <1>4

(***************************************************************************)
(* A set of natural numbers that is not empty has its Min: allocate_blocks *)
(* finds a group that serves it, and a free bit there.                     *)
(***************************************************************************)
LEMMA MinIn ==
  ASSUME NEW T \in SUBSET Nat, T # {}
  PROVE  Min(T) \in T
<1> DEFINE R == OpToRel(<, Nat)
<1>1. IsWellFoundedOn(R, Nat)
  BY NatLessThanWellFounded, Zenon
<1>2. \A n, m \in Nat : m < n => <<m, n>> \in R
  BY DEF OpToRel
<1> HIDE DEF R
<1>3. PICK n \in T : \A m \in T : ~(<<m, n>> \in R)
  BY <1>1, WFMin, Zenon
<1>4. \A m \in T : ~(m < n)
  BY <1>2, <1>3, Zenon
<1>5. \A m \in T : n <= m
  BY <1>4
<1> QED
  BY <1>5, Zenon DEF Min

LEMMA InitHolds == Init => Ext2Inv
<1> SUFFICES ASSUME Init PROVE Ext2Inv
  OBVIOUS
<1>1. /\ Groups \in Nat \ {0} /\ inodes_per_group \in Nat \ {0}
      /\ DataBlocks \in Nat \ {0}
  BY Ext2Assumption
<1>2. Groups * DataBlocks \in Nat /\ Groups * inodes_per_group \in Nat
  BY <1>1
<1>3. disk.super \in [{1} -> SuperBlocks]
  BY <1>2 DEF Init, SuperBlocks
<1>4. disk \in DiskStates
  BY <1>1, <1>3 DEF Init, DiskStates, GroupDescs, InodeValues, NoInode
<1>5. Ext2Type
  BY <1>4 DEF Ext2Type, Init, Unmounted, Nothing
<1>6. TodoSound /\ MarkSound
  BY DEF TodoSound, MarkSound, Init, Idle
<1>7. Written = {}
  BY DEF Written, Init, NoInode
<1>8. BlocksSound
  BY <1>7 DEF BlocksSound, UsedBlocksMarked, BlocksOwnedOnce
<1>9. OwnersSound
  BY DEF OwnersSound, Init, Nothing
<1> QED
  BY <1>5, <1>6, <1>8, <1>9 DEF Ext2Inv

(***************************************************************************)
(* What an operation finds when it starts: no write is queued, the disk is *)
(* marked with errors, and the blocks the caller holds are marked used.    *)
(***************************************************************************)
LEMMA AtStart ==
  ASSUME Ext2Inv, Mounted
  PROVE  /\ disk.super[1].state # "valid"
         /\ NoneRefused => \A b \in obtained.blocks :
              ~IsFree(b) /\ \A n \in Inodes : disk.inode[n].block # b
<1>1. todo = <<>> /\ mnt # Unmounted /\ Len(todo) = 0
  BY DEF Mounted, Idle
<1>2. disk.super[1].state # "valid"
  BY <1>1 DEF Ext2Inv, MarkSound
<1>3. ASSUME NoneRefused, NEW b \in obtained.blocks
      PROVE  ~IsFree(b) /\ \A n \in Inodes : disk.inode[n].block # b
  BY <1>1, <1>3 DEF Ext2Inv, OwnersSound, Marking
<1> QED
  BY <1>2, <1>3

(***************************************************************************)
(* What does not touch the disk keeps the blocks sound.                    *)
(***************************************************************************)
LEMMA SameDisk ==
  ASSUME BlocksSound, UNCHANGED disk, faults'.failures >= faults.failures,
         faults \in [crashes : Nat, failures : Nat],
         faults' \in [crashes : Nat, failures : Nat]
  PROVE  BlocksSound'
<1>1. NoneRefused' => NoneRefused
  BY DEF NoneRefused
<1>2. UsedBlocksMarked'
  BY <1>1 DEF BlocksSound, UsedBlocksMarked, Written, IsFree
<1>3. BlocksOwnedOnce'
  BY <1>1 DEF BlocksSound, BlocksOwnedOnce, Written
<1> QED
  BY <1>2, <1>3 DEF BlocksSound

LEMMA MountHolds == Ext2Inv /\ ext2_mount_device => Ext2Inv'
<1> SUFFICES ASSUME Ext2Inv, ext2_mount_device PROVE Ext2Inv'
  OBVIOUS
<1> DEFINE counts == [free_blocks |-> disk.super[1].free_blocks,
                      free_inodes |-> disk.super[1].free_inodes]
<1>1. /\ Idle /\ mnt' = counts /\ todo' = <<Super("error", counts)>>
      /\ UNCHANGED <<disk, obtained, faults>>
  BY DEF ext2_mount_device
<1>2. disk.super[1] \in SuperBlocks
  BY DEF Ext2Inv, Ext2Type, DiskStates
<1>3. counts \in [free_blocks : Int, free_inodes : Int]
  BY <1>2 DEF SuperBlocks
<1>4. Super("error", counts) \in Writes
  BY <1>3 DEF Writes, Super, Write, SuperBlocks
<1>5. Super("error", counts).block = "super" /\ Super("error", counts).val.state = "error"
  BY DEF Super, Write
<1> HIDE DEF counts
<1>6. Ext2Type'
  BY <1>1, <1>3 DEF Ext2Inv, Ext2Type
<1>7. TodoSound'
  BY <1>1, <1>4, <1>5 DEF TodoSound
<1>8. MarkSound'
  BY <1>1, <1>5 DEF MarkSound
<1>9. BlocksSound'
  BY <1>1, <1>6, SameDisk DEF Ext2Inv, Ext2Type
<1>10. ASSUME NoneRefused' PROVE OwnersSound'
  <2>1. NoneRefused /\ OwnersSound
    BY <1>1, <1>10 DEF NoneRefused, Ext2Inv
  <2>2. \A b \in obtained.blocks :
          ~IsFree(b)' /\ \A n \in Inodes : disk'.inode[n].block # b
    BY <1>1, <2>1 DEF OwnersSound, Marking, Idle, IsFree
  <2> QED
    BY <1>1, <1>5, <2>2 DEF OwnersSound
<1> QED
  BY <1>6, <1>7, <1>8, <1>9, <1>10 DEF Ext2Inv

LEMMA UnmountHolds == Ext2Inv /\ ext2_unmount_device => Ext2Inv'
<1> SUFFICES ASSUME Ext2Inv, ext2_unmount_device PROVE Ext2Inv'
  OBVIOUS
<1>1. /\ Mounted /\ todo' = <<Super("valid", mnt)>>
      /\ UNCHANGED <<disk, mnt, obtained, faults>>
  BY DEF ext2_unmount_device
<1>2. Super("valid", mnt) \in Writes
  BY DEF Ext2Inv, Ext2Type, Writes, Super, Write, SuperBlocks
<1>3. Super("valid", mnt).block = "super"
  BY DEF Super, Write
<1>4. Ext2Type'
  BY <1>1 DEF Ext2Inv, Ext2Type
<1>5. TodoSound'
  BY <1>1, <1>2, <1>3 DEF TodoSound
<1>6. MarkSound'
  BY <1>1, AtStart DEF MarkSound
<1>7. BlocksSound'
  BY <1>1, <1>4, SameDisk DEF Ext2Inv, Ext2Type
<1>8. ASSUME NoneRefused' PROVE OwnersSound'
  <2>1. \A b \in obtained.blocks :
          ~IsFree(b)' /\ \A n \in Inodes : disk'.inode[n].block # b
    BY <1>1, <1>8, AtStart DEF NoneRefused, IsFree
  <2> QED
    BY <1>1, <1>3, <2>1 DEF OwnersSound
<1> QED
  BY <1>4, <1>5, <1>6, <1>7, <1>8 DEF Ext2Inv

LEMMA AllocateInodeHolds ==
  ASSUME Ext2Inv, NEW n \in Inodes, NEW is_dir \in BOOLEAN,
         allocate_inode(n, is_dir)
  PROVE  Ext2Inv'
<1> DEFINE g == GroupOf(n)
           d == disk.desc[g]
           u == Write("inode_bitmap", g, disk.inode_bitmap[g] \cup {InodeBit(n)})
           next == [free_blocks |-> d.free_blocks,
                    free_inodes |-> d.free_inodes - 1,
                    used_dirs |-> IF is_dir THEN d.used_dirs + 1
                                            ELSE d.used_dirs]
           v == Write("desc", g, next)
<1>1. /\ Mounted /\ mnt' = [mnt EXCEPT !.free_inodes = @ - 1]
      /\ todo' = <<u, v>>
      /\ obtained' = [obtained EXCEPT !.inodes = @ \cup {n}]
      /\ UNCHANGED <<disk, faults>>
  BY DEF allocate_inode
<1>2. g \in GroupIds /\ InodeBit(n) \in 0 .. inodes_per_group - 1
  BY Numbers
<1>3. u \in Writes /\ u.block = "inode_bitmap"
  BY <1>2 DEF Ext2Inv, Ext2Type, DiskStates, Writes, Write
<1>4. v \in Writes /\ v.block = "desc"
  <2>1. d \in GroupDescs
    BY <1>2 DEF Ext2Inv, Ext2Type, DiskStates
  <2>2. next \in GroupDescs
    BY <2>1 DEF GroupDescs
  <2> QED
    BY <1>2, <2>2 DEF Writes, Write
<1> HIDE DEF u, v
<1>5. Ext2Type'
  BY <1>1 DEF Ext2Inv, Ext2Type
<1>6. TodoSound'
  BY <1>1, <1>3, <1>4 DEF TodoSound
<1>7. MarkSound'
  BY <1>1, AtStart DEF MarkSound
<1>8. BlocksSound'
  BY <1>1, <1>5, SameDisk DEF Ext2Inv, Ext2Type
<1>9. ASSUME NoneRefused' PROVE OwnersSound'
  <2>1. obtained'.blocks = obtained.blocks
    BY <1>1 DEF Ext2Inv, Ext2Type
  <2>2. \A b \in obtained.blocks :
          ~IsFree(b)' /\ \A m \in Inodes : disk'.inode[m].block # b
    BY <1>1, <1>9, AtStart DEF NoneRefused, IsFree
  <2> QED
    BY <1>1, <1>3, <1>4, <2>1, <2>2 DEF OwnersSound
<1> QED
  BY <1>5, <1>6, <1>7, <1>8, <1>9 DEF Ext2Inv

(***************************************************************************)
(* allocate_blocks finds a group and a free bit in it.                     *)
(***************************************************************************)
LEMMA BlockFound ==
  ASSUME Ext2Inv, allocate_blocks
  PROVE  \E g \in GroupIds, bit \in Bits :
           /\ bit \notin disk.block_bitmap[g]
           /\ mnt' = [mnt EXCEPT !.free_blocks = @ - 1]
           /\ todo' = BlockWrites(g, bit)
           /\ obtained' = [obtained EXCEPT !.blocks = @ \cup {BlockOf(g, bit)}]
<1>1. Serving # {}
  BY DEF allocate_blocks
<1>2. Min(Serving) \in GroupIds /\ disk.block_bitmap[Min(Serving)] # Bits
  <2>1. Serving \in SUBSET Nat
    BY DEF Serving, GroupIds
  <2> QED
    BY <1>1, <2>1, MinIn DEF Serving
<1>3. \A h \in GroupIds : disk.block_bitmap[h] \in SUBSET Bits
  BY DEF Ext2Inv, Ext2Type, DiskStates
<1> DEFINE free == Bits \ disk.block_bitmap[Min(Serving)]
<1>4. free \in SUBSET Nat
  BY DEF Bits
<1>5. free # {}
  BY <1>2, <1>3, Zenon
<1>6. Min(free) \in free
  BY <1>4, <1>5, MinIn
<1> QED
  BY <1>2, <1>6, Zenon DEF allocate_blocks

(***************************************************************************)
(* The block allocate_blocks returns is free on disk, so no inode names it *)
(* there, and the first write it queues marks it.                          *)
(***************************************************************************)
LEMMA AllocateBlocksHolds == Ext2Inv /\ allocate_blocks => Ext2Inv'
<1> SUFFICES ASSUME Ext2Inv, allocate_blocks PROVE Ext2Inv'
  OBVIOUS
<1>1. Mounted /\ Serving # {} /\ UNCHANGED <<disk, faults>>
  BY DEF allocate_blocks
<1>3. \A h \in GroupIds : disk.block_bitmap[h] \in SUBSET Bits
  BY DEF Ext2Inv, Ext2Type, DiskStates
<1>4. PICK g \in GroupIds, bit \in Bits :
        /\ bit \notin disk.block_bitmap[g]
        /\ mnt' = [mnt EXCEPT !.free_blocks = @ - 1]
        /\ todo' = BlockWrites(g, bit)
        /\ obtained' = [obtained EXCEPT !.blocks = @ \cup {BlockOf(g, bit)}]
  BY BlockFound
<1> DEFINE new == BlockOf(g, bit)
           u == Write("block_bitmap", g, disk.block_bitmap[g] \cup {bit})
           v == Write("desc", g, [disk.desc[g] EXCEPT !.free_blocks = @ - 1])
<1>5. new \in Blocks /\ BlockGroup(new) = g /\ BlockBit(new) = bit
  BY Numbers
<1>6. /\ u \in Writes /\ u.block = "block_bitmap"
      /\ u.at = g /\ u.val = disk.block_bitmap[g] \cup {bit}
  BY <1>3 DEF Writes, Write
<1>7. v \in Writes /\ v.block = "desc"
  <2>1. disk.desc[g] \in GroupDescs
    BY DEF Ext2Inv, Ext2Type, DiskStates
  <2> QED
    BY <2>1 DEF Writes, Write, GroupDescs
<1>8. todo' = <<u, v>>
  BY <1>4 DEF BlockWrites
<1> HIDE DEF u, v
<1>9. Ext2Type'
  BY <1>1, <1>4, <1>5 DEF Ext2Inv, Ext2Type
<1>10. TodoSound'
  BY <1>6, <1>7, <1>8 DEF TodoSound
<1>11. MarkSound'
  BY <1>1, AtStart DEF MarkSound
<1>12. BlocksSound'
  BY <1>1, <1>9, SameDisk DEF Ext2Inv, Ext2Type
<1>13. ASSUME NoneRefused' PROVE OwnersSound'
  <2>1. NoneRefused /\ IsFree(new)
    BY <1>1, <1>4, <1>5, <1>13 DEF NoneRefused, IsFree
  <2>2. \A n \in Inodes : disk.inode[n].block # new
    <3>1. 0 \notin Blocks
      BY DEF Blocks
    <3> QED
      BY <1>5, <2>1, <3>1 DEF Ext2Inv, BlocksSound, UsedBlocksMarked, Written
  <2>3. obtained'.blocks = obtained.blocks \cup {new}
    BY <1>4 DEF Ext2Inv, Ext2Type
  <2>4. Marking(new)'
    BY <1>5, <1>6, <1>8 DEF Marking
  <2>5. \A b \in obtained.blocks :
          ~IsFree(b)' /\ \A n \in Inodes : disk'.inode[n].block # b
    BY <1>1, <2>1, AtStart DEF IsFree
  <2>6. \A b \in obtained'.blocks :
          /\ (~IsFree(b) \/ Marking(b))'
          /\ \A n \in Inodes : disk'.inode[n].block # b
    BY <1>1, <2>2, <2>3, <2>4, <2>5
  <2> QED
    BY <1>1, <1>6, <1>7, <1>8, <2>6 DEF OwnersSound
<1> QED
  BY <1>9, <1>10, <1>11, <1>12, <1>13, SMTT(30), ZenonT(30) DEF Ext2Inv

LEMMA WriteInodeHolds ==
  ASSUME Ext2Inv, NEW n \in Inodes, NEW b \in Blocks, ext2_write_inode(n, b)
  PROVE  Ext2Inv'
<1> DEFINE g == GroupOf(n)
           u == Write("inode_bitmap", g, disk.inode_bitmap[g] \cup {InodeBit(n)})
           v == Write("inode", n, create_dir_inode(b))
<1>1. /\ Mounted /\ b \in obtained.blocks /\ todo' = <<u, v>>
      /\ obtained' = [inodes |-> obtained.inodes \ {n},
                      blocks |-> obtained.blocks \ {b}]
      /\ UNCHANGED <<disk, mnt, faults>>
  BY DEF ext2_write_inode, InodeWrites
<1>2. u \in Writes /\ u.block = "inode_bitmap"
  BY Numbers DEF Ext2Inv, Ext2Type, DiskStates, Writes, Write
<1>3. /\ v \in Writes /\ v.block = "inode" /\ v.at = n
      /\ v.val.block = b
  BY DEF Writes, Write, create_dir_inode, InodeValues
<1> HIDE DEF u, v
<1>4. Ext2Type'
  BY <1>1 DEF Ext2Inv, Ext2Type
<1>5. TodoSound'
  BY <1>1, <1>2, <1>3 DEF TodoSound
<1>6. MarkSound'
  BY <1>1, AtStart DEF MarkSound
<1>7. BlocksSound'
  BY <1>1, <1>4, SameDisk DEF Ext2Inv, Ext2Type
<1>8. ASSUME NoneRefused' PROVE OwnersSound'
  <2>1. \A c \in obtained.blocks :
          ~IsFree(c)' /\ \A m \in Inodes : disk'.inode[m].block # c
    BY <1>1, <1>8, AtStart DEF NoneRefused, IsFree
  <2>2. obtained'.blocks = obtained.blocks \ {b}
    BY <1>1
  <2>3. \A c \in obtained'.blocks :
          ~IsFree(c)' /\ \A m \in Inodes : disk'.inode[m].block # c
    BY <2>1, <2>2
  <2>4. /\ v.val.block \in Blocks \ obtained'.blocks /\ ~IsFree(v.val.block)'
        /\ \A m \in Inodes : disk'.inode[m].block # v.val.block
    BY <1>1, <1>3, <2>1, <2>2 DEF IsFree
  <2> QED
    BY <1>1, <1>2, <1>3, <2>3, <2>4, SMTT(30), ZenonT(30) DEF OwnersSound, IsFree
<1> QED
  BY <1>4, <1>5, <1>6, <1>7, <1>8 DEF Ext2Inv

LEMMA ThreeQueued ==
  ASSUME NEW t, NEW u, NEW v, NEW q, q = <<t>> \o <<u, v>>
  PROVE  /\ Len(q) = 3 /\ DOMAIN q = 1 .. 3
         /\ q[1] = t /\ q[2] = u /\ q[3] = v
OBVIOUS

LEMMA AddLinkHolds ==
  ASSUME Ext2Inv, NEW d \in Inodes, NEW n \in Inodes, ext2_add_link(d, n)
  PROVE  Ext2Inv'
<1>1. /\ Mounted /\ IsWritten(d) /\ IsWritten(n)
      /\ UNCHANGED <<disk, mnt, obtained, faults>>
  BY DEF ext2_add_link
<1>2. /\ disk.inode \in [Inodes -> InodeValues]
      /\ disk.dir \in [Blocks -> Seq(Inodes)]
      /\ disk.inode_bitmap \in [GroupIds -> SUBSET (0 .. inodes_per_group - 1)]
  BY DEF Ext2Inv, Ext2Type, DiskStates
<1>3. /\ disk.inode[n] \in InodeValues /\ disk.inode[n].block \in Blocks
      /\ disk.inode[d].block \in Blocks
  BY <1>1, <1>2 DEF IsWritten, InodeValues
<1>4. PICK t, u, v :
        /\ todo' = <<t>> \o <<u, v>>
        /\ t \in Writes /\ t.block = "dir"
        /\ u \in Writes /\ u.block = "inode_bitmap"
        /\ v \in Writes /\ v.block = "inode" /\ v.at = n
        /\ v.val.block = disk.inode[n].block
  <2> DEFINE b == disk.inode[d].block
             g == GroupOf(n)
             old == disk.inode[n]
             t == Write("dir", b, WithEntry(b, n))
             u == Write("inode_bitmap", g,
                        disk.inode_bitmap[g] \cup {InodeBit(n)})
             v == Write("inode", n, [old EXCEPT !.links = @ + 1])
  <2>1. todo' = <<t>> \o <<u, v>>
    BY DEF ext2_add_link, LinkWrites, InodeWrites
  <2>2. t \in Writes /\ t.block = "dir"
    <3>1. WithEntry(b, n) \in Seq(Inodes)
      BY <1>2, <1>3 DEF WithEntry
    <3> QED
      BY <1>3, <3>1 DEF Writes, Write
  <2>3. u \in Writes /\ u.block = "inode_bitmap"
    BY <1>2, Numbers DEF Writes, Write
  <2>4. /\ v \in Writes /\ v.block = "inode" /\ v.at = n
        /\ v.val.block = old.block
    BY <1>3 DEF Writes, Write, InodeValues
  <2> HIDE DEF t, u, v
  <2> QED
    BY <2>1, <2>2, <2>3, <2>4, Zenon
<1>5. /\ Len(todo') = 3 /\ DOMAIN todo' = 1 .. 3
      /\ todo'[1] = t /\ todo'[2] = u /\ todo'[3] = v
  BY <1>4, ThreeQueued
<1>6. Ext2Type'
  BY <1>1 DEF Ext2Inv, Ext2Type
<1>7. TodoSound'
  BY <1>4, <1>5 DEF TodoSound
<1>8. MarkSound'
  BY <1>1, AtStart DEF MarkSound
<1>9. BlocksSound'
  BY <1>1, <1>6, SameDisk, SMTT(30), ZenonT(30) DEF Ext2Inv, Ext2Type
<1>10. ASSUME NoneRefused' PROVE OwnersSound'
  <2>1. NoneRefused
    BY <1>1, <1>10 DEF NoneRefused
  <2>2. \A c \in obtained.blocks :
          ~IsFree(c)' /\ \A m \in Inodes : disk'.inode[m].block # c
    BY <1>1, <2>1, AtStart DEF IsFree
  <2>3. n \in Written /\ ~IsFree(disk.inode[n].block)
    BY <1>1, <2>1 DEF IsWritten, Written, Ext2Inv, BlocksSound, UsedBlocksMarked
  <2>4. \A m \in Inodes \ {n} : disk.inode[m].block # disk.inode[n].block
    BY <1>1, <2>1, <2>3, SMTT(30), ZenonT(30)
      DEF IsWritten, Written, Ext2Inv, BlocksSound, BlocksOwnedOnce
  <2>5. /\ v.val.block \in Blocks \ obtained'.blocks /\ ~IsFree(v.val.block)'
        /\ \A m \in Inodes \ {v.at} : disk'.inode[m].block # v.val.block
    BY <1>1, <1>3, <1>4, <2>2, <2>3, <2>4, SMTT(30), ZenonT(30) DEF IsFree
  <2> QED
    BY <1>1, <1>4, <1>5, <2>2, <2>5 DEF OwnersSound, IsFree
<1> QED
  BY <1>6, <1>7, <1>8, <1>9, <1>10 DEF Ext2Inv

LEMMA NoneLeft ==
  ASSUME NEW S, NEW q \in Seq(S), Len(q) = 0
  PROVE  q = <<>>
OBVIOUS

(***************************************************************************)
(* A write that reaches the disk: a bitmap only grows, and an inode brings *)
(* a block that is marked and nobody else's.                               *)
(***************************************************************************)
LEMMA WriteBlocksHolds == Ext2Inv /\ ext2_write_blocks => Ext2Inv'
<1> SUFFICES ASSUME Ext2Inv, ext2_write_blocks PROVE Ext2Inv'
  OBVIOUS
<1>1. todo # <<>> /\ todo \in Seq(Writes) /\ todo' = Tail(todo) /\ UNCHANGED faults
  BY DEF ext2_write_blocks, Ext2Inv, TodoSound
<1>2. /\ Head(todo) = todo[1] /\ todo[1] \in Writes
      /\ Len(todo) \in Nat \ {0} /\ DOMAIN todo = 1 .. Len(todo)
  BY <1>1
<1>3. /\ todo' \in Seq(Writes) /\ Len(todo') = Len(todo) - 1
      /\ DOMAIN todo' = 1 .. Len(todo')
      /\ \A k \in DOMAIN todo' : k + 1 \in DOMAIN todo /\ todo'[k] = todo[k + 1]
  BY <1>1, <1>2
<1>4. PICK w \in Writes : w = todo[1]
  BY <1>2
<1>5. /\ disk' = Stored(disk, w)
      /\ mnt' = IF w.block = "super" /\ w.val.state = "valid"
                  THEN Unmounted ELSE mnt
      /\ obtained' = IF w.block = "super" /\ w.val.state = "valid"
                       THEN Nothing ELSE obtained
  BY <1>2, <1>4, Zenon DEF ext2_write_blocks, Stored
<1>6. /\ disk \in DiskStates /\ disk' \in DiskStates
      /\ disk'.super[1] = IF w.block = "super" THEN w.val ELSE disk.super[1]
      /\ \A g \in GroupIds : disk'.block_bitmap[g] =
           IF w.block = "block_bitmap" /\ g = w.at
             THEN w.val ELSE disk.block_bitmap[g]
      /\ \A n \in Inodes : disk'.inode[n] =
           IF w.block = "inode" /\ n = w.at THEN w.val ELSE disk.inode[n]
  <2>1. disk \in DiskStates
    BY DEF Ext2Inv, Ext2Type
  <2> QED
    BY <1>5, <2>1, StoredFields
<1>7. Ext2Type'
  BY <1>1, <1>5, <1>6 DEF Ext2Inv, Ext2Type, Unmounted, Nothing
<1>8. TodoSound'
  BY <1>2, <1>3 DEF Ext2Inv, TodoSound
<1>9. w.block = "super" => Len(todo) = 1 /\ w.val.state \in {"valid", "error"}
  BY <1>2, <1>4 DEF Ext2Inv, TodoSound, Writes, SuperBlocks
<1>10. MarkSound'
  <2>1. CASE w.block = "super"
    <3>1. Len(todo') = 0
      <4>1. Len(todo) = 1
        BY <1>9, <2>1
      <4>2. Len(todo') = Len(todo) - 1
        BY <1>3
      <4> QED
        BY <4>1, <4>2
    <3>2. todo' = <<>>
      BY <1>3, <3>1, NoneLeft
    <3> QED
      BY <1>5, <1>6, <1>9, <2>1, <3>2, SMTT(30), ZenonT(30) DEF MarkSound, Idle
  <2>2. CASE w.block # "super"
    BY <1>1, <1>4, <1>6, <2>2 DEF Ext2Inv, MarkSound, Idle
  <2> QED
    BY <2>1, <2>2
<1>11. /\ NoneRefused' <=> NoneRefused
       /\ obtained'.blocks \subseteq obtained.blocks
  BY <1>1, <1>5 DEF NoneRefused, Nothing
<1>12. ASSUME NoneRefused PROVE BlocksSound' /\ OwnersSound'
  <2>1. /\ 1 \in DOMAIN todo /\ OwnersSound
        /\ UsedBlocksMarked /\ BlocksOwnedOnce
    BY <1>2, <1>12 DEF Ext2Inv, BlocksSound
  <2>2. w.block = "block_bitmap" => disk.block_bitmap[w.at] \subseteq w.val
    BY <1>4, <2>1 DEF OwnersSound
  <2>3. w.block = "inode" =>
          /\ w.val.block \in Blocks \ obtained.blocks /\ ~IsFree(w.val.block)
          /\ \A m \in Inodes \ {w.at} : disk.inode[m].block # w.val.block
    BY <1>4, <2>1 DEF OwnersSound
  <2>4. ASSUME NEW b \in Blocks, ~IsFree(b) PROVE ~IsFree(b)'
    <3>1. BlockGroup(b) \in GroupIds
      BY Numbers
    <3> QED
      BY <1>6, <2>2, <2>4, <3>1, SMTT(30), ZenonT(30) DEF IsFree
  <2>5. ASSUME NEW b \in obtained.blocks PROVE ~IsFree(b)'
    <3>1. b \in Blocks /\ BlockGroup(b) \in GroupIds
      BY Numbers DEF Ext2Inv, Ext2Type
    <3>2. CASE ~IsFree(b)
      BY <2>4, <3>1, <3>2
    <3>3. CASE Marking(b)
      BY <1>4, <1>6, <3>1, <3>3, SMTT(30), ZenonT(30) DEF Marking, IsFree
    <3> QED
      BY <2>1, <3>2, <3>3 DEF OwnersSound
  <2>6. \A n \in Inodes : disk.inode[n].block \in {0} \cup Blocks
    BY <1>6 DEF DiskStates, InodeValues
  <2>7. ASSUME NEW n \in Inodes, disk'.inode[n].block # 0
        PROVE  ~IsFree(disk.inode[n].block)'
    <3>1. CASE w.block = "inode" /\ n = w.at
      <4>1. disk'.inode[n].block = w.val.block
        BY <1>6, <3>1
      <4> QED
        BY <2>3, <2>4, <3>1, <4>1, SMTT(30), ZenonT(30) DEF IsFree
    <3>2. CASE ~(w.block = "inode" /\ n = w.at)
      <4>1. disk'.inode[n].block = disk.inode[n].block
        BY <1>6, <3>2
      <4>2. disk.inode[n].block \in Blocks /\ ~IsFree(disk.inode[n].block)
        BY <1>12, <2>1, <2>6, <2>7, <4>1, SMTT(30), ZenonT(30) DEF UsedBlocksMarked, Written
      <4> QED
        BY <2>4, <4>1, <4>2 DEF IsFree
    <3> QED
      BY <3>1, <3>2
  <2>8. ASSUME NEW m \in Inodes, NEW n \in Inodes, m # n,
               disk'.inode[m].block # 0, disk'.inode[n].block # 0
        PROVE  disk'.inode[m].block # disk'.inode[n].block
    BY <1>6, <1>12, <2>1, <2>3, <2>8, SMTT(30), ZenonT(30) DEF BlocksOwnedOnce, Written
  <2>9. BlocksSound'
    BY <2>7, <2>8 DEF BlocksSound, UsedBlocksMarked, BlocksOwnedOnce, Written
  <2>10. \A b \in obtained'.blocks : \A n \in Inodes : disk'.inode[n].block # b
    BY <1>6, <1>11, <2>1, <2>3, SMTT(30), ZenonT(30) DEF OwnersSound
  <2>11. ASSUME NEW k \in DOMAIN todo'
         PROVE  /\ todo'[k].block # "block_bitmap"
                /\ w.block # "inode"
                /\ todo'[k].block = "inode" =>
                     /\ todo'[k].val.block \in Blocks \ obtained'.blocks
                     /\ ~IsFree(todo[k].val.block)'
                     /\ \A m \in Inodes \ {todo'[k].at} :
                          disk'.inode[m].block # todo'[k].val.block
    <3>1. k \in Nat /\ k >= 1 /\ Len(todo) > 1 /\ k + 1 \in DOMAIN todo
      BY <1>2, <1>3
    <3>2. PICK v : v = todo[k + 1] /\ v = todo'[k]
      BY <1>3
    <3>3. v.block # "block_bitmap" /\ w.block # "inode"
      <4>1. v.block = "block_bitmap" => k + 1 = 1
        BY <3>1, <3>2, Zenon DEF Ext2Inv, TodoSound
      <4>2. w.block = "inode" => 1 = Len(todo)
        BY <1>4, <2>1, Zenon DEF Ext2Inv, TodoSound
      <4> QED
        BY <3>1, <4>1, <4>2
    <3>4. v.block = "inode" =>
            /\ v.val.block \in Blocks \ obtained.blocks /\ ~IsFree(v.val.block)
            /\ \A m \in Inodes \ {v.at} : disk.inode[m].block # v.val.block
      BY <2>1, <3>1, <3>2, Zenon DEF OwnersSound
    <3>5. v.block = "inode" => ~IsFree(v.val.block)'
      BY <2>4, <3>4
    <3>6. v.block = "inode" =>
            \A m \in Inodes \ {v.at} : disk'.inode[m].block # v.val.block
      BY <1>6, <3>3, <3>4, SMTT(30), ZenonT(30)
    <3> QED
      BY <1>11, <3>2, <3>3, <3>4, <3>5, <3>6, SMTT(30), ZenonT(30) DEF IsFree
  <2>12. OwnersSound'
    BY <1>11, <2>5, <2>10, <2>11, SMTT(30), ZenonT(30) DEF OwnersSound
  <2> QED
    BY <2>9, <2>12
<1>13. ASSUME ~NoneRefused PROVE BlocksSound'
  BY <1>11, <1>13 DEF BlocksSound, UsedBlocksMarked, BlocksOwnedOnce
<1> QED
  BY <1>7, <1>8, <1>10, <1>11, <1>12, <1>13, SMTT(30), ZenonT(30) DEF Ext2Inv

(***************************************************************************)
(* A refused write takes the promises about blocks away, but a mount whose *)
(* mark was refused does not stand.                                        *)
(***************************************************************************)
LEMMA WriteFailsHolds == Ext2Inv /\ WriteFails => Ext2Inv'
<1> SUFFICES ASSUME Ext2Inv, WriteFails PROVE Ext2Inv'
  OBVIOUS
<1>1. /\ todo # <<>> /\ todo \in Seq(Writes) /\ todo' = Tail(todo)
      /\ faults' = [faults EXCEPT !.failures = @ + 1]
      /\ UNCHANGED <<disk, obtained>>
  BY DEF WriteFails, Ext2Inv, TodoSound
<1>2. /\ Head(todo) = todo[1] /\ todo[1] \in Writes
      /\ Len(todo) \in Nat \ {0} /\ DOMAIN todo = 1 .. Len(todo)
  BY <1>1
<1>3. /\ todo' \in Seq(Writes) /\ Len(todo') = Len(todo) - 1
      /\ DOMAIN todo' = 1 .. Len(todo')
      /\ \A k \in DOMAIN todo' : k + 1 \in DOMAIN todo /\ todo'[k] = todo[k + 1]
  BY <1>1, <1>2
<1>4. mnt' = IF todo[1].block = "super" /\ todo[1].val.state = "error"
               THEN Unmounted ELSE mnt
  BY <1>2 DEF WriteFails
<1>5. Ext2Type' /\ ~NoneRefused'
  BY <1>1, <1>4 DEF Ext2Inv, Ext2Type, Unmounted, NoneRefused
<1>6. TodoSound'
  BY <1>2, <1>3 DEF Ext2Inv, TodoSound
<1>7. MarkSound'
  <2>1. CASE Len(todo) = 1 /\ todo[1].block = "super" /\ todo[1].val.state = "error"
    <3>1. Len(todo') = 0
      BY <1>3, <2>1
    <3>2. todo' = <<>>
      BY <1>3, <3>1, NoneLeft
    <3> QED
      BY <1>4, <2>1, <3>2 DEF MarkSound, Idle
  <2>2. CASE ~(Len(todo) = 1 /\ todo[1].block = "super" /\ todo[1].val.state = "error")
    BY <1>1, <2>2 DEF Ext2Inv, MarkSound, Idle
  <2> QED
    BY <2>1, <2>2
<1>8. BlocksSound'
  BY <1>5 DEF BlocksSound, UsedBlocksMarked, BlocksOwnedOnce
<1> QED
  BY <1>5, <1>6, <1>7, <1>8 DEF Ext2Inv

LEMMA CrashHolds == Ext2Inv /\ Crash => Ext2Inv'
<1> SUFFICES ASSUME Ext2Inv, Crash PROVE Ext2Inv'
  OBVIOUS
<1>1. Ext2Type'
  BY DEF Crash, Ext2Inv, Ext2Type, Unmounted, Nothing
<1>2. TodoSound' /\ MarkSound'
  BY DEF Crash, TodoSound, MarkSound, Idle
<1>3. BlocksSound'
  BY <1>1, SameDisk DEF Crash, Ext2Inv, Ext2Type
<1>4. OwnersSound'
  BY DEF Crash, OwnersSound, Nothing
<1> QED
  BY <1>1, <1>2, <1>3, <1>4 DEF Ext2Inv

LEMMA StepHolds == Ext2Inv /\ [Next]_vars => Ext2Inv'
<1> SUFFICES ASSUME Ext2Inv, [Next]_vars PROVE Ext2Inv'
  OBVIOUS
<1>1. CASE UNCHANGED vars
  <2>1. Ext2Type' /\ TodoSound' /\ MarkSound'
    BY <1>1 DEF vars, Ext2Inv, Ext2Type, TodoSound, MarkSound, Idle
  <2>2. BlocksSound'
    BY <1>1, <2>1, SameDisk, SMTT(30), ZenonT(30) DEF vars, Ext2Inv, Ext2Type
  <2>3. (NoneRefused => OwnersSound)'
    BY <1>1 DEF vars, Ext2Inv, NoneRefused, OwnersSound, IsFree, Marking
  <2> QED
    BY <2>1, <2>2, <2>3 DEF Ext2Inv
<1>2. CASE Next
  BY <1>2, MountHolds, UnmountHolds, AllocateInodeHolds, AllocateBlocksHolds,
     WriteInodeHolds, AddLinkHolds, WriteBlocksHolds, WriteFailsHolds, CrashHolds,
     SMTT(30), ZenonT(30)
     DEF Next
<1> QED
  BY <1>1, <1>2

(***************************************************************************)
(* Ext2Inv holds in every state of the driver.                             *)
(***************************************************************************)
THEOREM InvariantHolds == Spec => []Ext2Inv
<1> QED
  BY InitHolds, StepHolds, PTL DEF Spec

-----------------------------------------------------------------------------
(***************************************************************************)
(* The counts.  First what is finite, and what marking one bit, or more of *)
(* them, does to the number of what is free.                               *)
(***************************************************************************)
LEMMA Finites ==
  /\ IsFiniteSet(Bits) /\ IsFiniteSet(Blocks) /\ IsFiniteSet(Inodes)
  /\ IsFiniteSet(0 .. inodes_per_group - 1)
  /\ IsFiniteSet(Blocks \X (1 .. MaxLinks))
<1>1. /\ Groups \in Nat /\ inodes_per_group \in Nat /\ DataBlocks \in Nat
      /\ MaxLinks \in Nat
  BY Ext2Assumption
<1>2. Groups * DataBlocks \in Int /\ Groups * inodes_per_group \in Int
  BY <1>1
<1>3. IsFiniteSet(Bits) /\ IsFiniteSet(0 .. inodes_per_group - 1)
  BY <1>1, FS_Interval DEF Bits
<1>4. IsFiniteSet(Blocks)
  BY <1>2, FS_Interval DEF Blocks
<1>5. IsFiniteSet(Inodes)
  BY <1>2, FS_Interval DEF Inodes
<1>6. IsFiniteSet(1 .. MaxLinks)
  BY <1>1, FS_Interval
<1> QED BY <1>3, <1>4, <1>5, <1>6, FS_Product

LEMMA FewerLeft ==
  ASSUME NEW S, IsFiniteSet(S), NEW T \in SUBSET S
  PROVE  /\ IsFiniteSet(T) /\ Cardinality(T) \in Nat /\ Cardinality(S) \in Nat
         /\ Cardinality(T) <= Cardinality(S)
BY FS_Subset, FS_CardinalityType

LEMMA OneTaken ==
  ASSUME NEW S, IsFiniteSet(S), NEW T, NEW x \in S \ T
  PROVE  /\ Cardinality(S \ (T \cup {x})) = Cardinality(S \ T) - 1
         /\ Cardinality(S \ T) \in Nat
<1>1. IsFiniteSet(S \ T)
  BY FS_Subset
<1>2. S \ (T \cup {x}) = (S \ T) \ {x}
  OBVIOUS
<1> QED BY <1>1, <1>2, FS_RemoveElement, FS_CardinalityType, ZenonT(30), SMTT(30)

LEMMA OneAdded ==
  ASSUME NEW S, IsFiniteSet(S), NEW x, x \notin S
  PROVE  Cardinality(S \cup {x}) = Cardinality(S) + 1 /\ Cardinality(S) \in Nat
BY FS_AddElement, FS_CardinalityType

(***************************************************************************)
(* Counts that cover bitmaps and directories cover larger ones.            *)
(***************************************************************************)
BitMaps(bits) == [GroupIds -> SUBSET bits]
InodeBits == 0 .. inodes_per_group - 1

LEMMA MoreMarked ==
  ASSUME NEW maps \in BitMaps(Bits), NEW more \in BitMaps(Bits),
         \A g \in GroupIds : maps[g] \subseteq more[g]
  PROVE  /\ \A g \in GroupIds : /\ Cardinality(Bits \ more[g]) \in Nat
                                /\ Cardinality(Bits \ maps[g]) \in Nat
                                /\ Cardinality(Bits \ more[g]) <= Cardinality(Bits \ maps[g])
         /\ Cardinality(FreeBlocksIn(more)) \in Nat /\ Cardinality(FreeBlocksIn(maps)) \in Nat
         /\ Cardinality(FreeBlocksIn(more)) <= Cardinality(FreeBlocksIn(maps))
<1>1. ASSUME NEW g \in GroupIds
      PROVE  /\ Cardinality(Bits \ more[g]) \in Nat
             /\ Cardinality(Bits \ maps[g]) \in Nat
             /\ Cardinality(Bits \ more[g]) <= Cardinality(Bits \ maps[g])
  <2>1. Bits \ more[g] \in SUBSET (Bits \ maps[g]) /\ Bits \ maps[g] \in SUBSET Bits
    OBVIOUS
  <2> QED BY <2>1, Finites, FewerLeft
<1>2. FreeBlocksIn(more) \in SUBSET FreeBlocksIn(maps)
  BY Numbers DEF FreeBlocksIn
<1>3. FreeBlocksIn(maps) \in SUBSET Blocks
  BY DEF FreeBlocksIn
<1>4. /\ Cardinality(FreeBlocksIn(more)) \in Nat /\ Cardinality(FreeBlocksIn(maps)) \in Nat
      /\ Cardinality(FreeBlocksIn(more)) <= Cardinality(FreeBlocksIn(maps))
  BY <1>2, <1>3, Finites, FewerLeft
<1> QED BY <1>1, <1>4

LEMMA MoreInodes ==
  ASSUME NEW maps \in BitMaps(InodeBits), NEW more \in BitMaps(InodeBits),
         \A g \in GroupIds : maps[g] \subseteq more[g]
  PROVE  /\ \A g \in GroupIds : /\ Cardinality(maps[g]) \in Nat /\ Cardinality(more[g]) \in Nat
                                /\ Cardinality(maps[g]) <= Cardinality(more[g])
         /\ Cardinality(FreeInodesIn(more)) \in Nat /\ Cardinality(FreeInodesIn(maps)) \in Nat
         /\ Cardinality(FreeInodesIn(more)) <= Cardinality(FreeInodesIn(maps))
<1>1. ASSUME NEW g \in GroupIds
      PROVE  /\ Cardinality(maps[g]) \in Nat /\ Cardinality(more[g]) \in Nat
             /\ Cardinality(maps[g]) <= Cardinality(more[g])
  <2>1. maps[g] \in SUBSET more[g] /\ more[g] \in SUBSET InodeBits
    BY DEF BitMaps
  <2> QED BY <2>1, Finites, FewerLeft DEF InodeBits
<1>2. FreeInodesIn(more) \in SUBSET FreeInodesIn(maps)
  BY Numbers DEF FreeInodesIn
<1>3. FreeInodesIn(maps) \in SUBSET Inodes
  BY DEF FreeInodesIn
<1>4. /\ Cardinality(FreeInodesIn(more)) \in Nat /\ Cardinality(FreeInodesIn(maps)) \in Nat
      /\ Cardinality(FreeInodesIn(more)) <= Cardinality(FreeInodesIn(maps))
  BY <1>2, <1>3, Finites, FewerLeft
<1> QED BY <1>1, <1>4

LEMMA EntriesFinite ==
  ASSUME NEW dir, NEW n
  PROVE  IsFiniteSet(EntriesIn(dir, n)) /\ Cardinality(EntriesIn(dir, n)) \in Nat
<1>1. EntriesIn(dir, n) \in SUBSET (Blocks \X (1 .. MaxLinks))
  BY DEF EntriesIn
<1> QED BY <1>1, Finites, FewerLeft

LEMMA MoreEntries ==
  ASSUME NEW dir \in [Blocks -> Seq(Inodes)], NEW more \in [Blocks -> Seq(Inodes)],
         \A b \in Blocks : /\ Len(dir[b]) <= Len(more[b])
                           /\ \A i \in DOMAIN dir[b] : more[b][i] = dir[b][i],
         NEW n
  PROVE  Cardinality(EntriesIn(dir, n)) <= Cardinality(EntriesIn(more, n))
<1>1. ASSUME NEW p \in EntriesIn(dir, n) PROVE p \in EntriesIn(more, n)
  <2>1. /\ p \in Blocks \X (1 .. MaxLinks) /\ p[1] \in Blocks /\ p[2] \in 1 .. MaxLinks
        /\ p[2] <= Len(dir[p[1]]) /\ dir[p[1]][p[2]] = n
    BY <1>1 DEF EntriesIn
  <2>2. /\ Len(dir[p[1]]) \in Nat /\ Len(more[p[1]]) \in Nat /\ p[2] \in Nat
        /\ p[2] \in DOMAIN dir[p[1]]
    BY <2>1, Ext2Assumption
  <2>3. p[2] <= Len(more[p[1]]) /\ more[p[1]][p[2]] = n
    BY <2>1, <2>2
  <2> QED BY <2>1, <2>3 DEF EntriesIn
<1>2. EntriesIn(dir, n) \in SUBSET EntriesIn(more, n)
  BY <1>1
<1> QED BY <1>2, EntriesFinite, FewerLeft

MapsGrow(maps, more) == \A g \in GroupIds : maps[g] \subseteq more[g]
DirsGrow(dir, more) ==
  \A b \in Blocks : /\ Len(dir[b]) <= Len(more[b])
                    /\ \A i \in DOMAIN dir[b] : more[b][i] = dir[b][i]

LEMMA CoverGrows ==
  ASSUME NEW desc \in [GroupIds -> GroupDescs], NEW inode \in [Inodes -> InodeValues],
         NEW blocks \in BitMaps(Bits), NEW blocks2 \in BitMaps(Bits),
         NEW inodes \in BitMaps(InodeBits), NEW inodes2 \in BitMaps(InodeBits),
         NEW dir \in [Blocks -> Seq(Inodes)], NEW dir2 \in [Blocks -> Seq(Inodes)],
         MapsGrow(blocks, blocks2), MapsGrow(inodes, inodes2), DirsGrow(dir, dir2),
         CountsCover(desc, blocks, inodes, inode, dir)
  PROVE  CountsCover(desc, blocks2, inodes2, inode, dir2)
<1> USE DEF MapsGrow, DirsGrow
<1>1. ASSUME NEW g \in GroupIds
      PROVE  /\ desc[g].free_blocks >= Cardinality(Bits \ blocks2[g])
             /\ desc[g].free_inodes >= inodes_per_group - Cardinality(inodes2[g])
  <2>1. desc[g].free_blocks \in Int /\ desc[g].free_inodes \in Int
    BY DEF GroupDescs
  <2>2. /\ desc[g].free_blocks >= Cardinality(Bits \ blocks[g])
        /\ desc[g].free_inodes >= inodes_per_group - Cardinality(inodes[g])
    BY ZenonT(30), SMTT(30) DEF CountsCover
  <2>3. /\ Cardinality(Bits \ blocks2[g]) \in Nat /\ Cardinality(Bits \ blocks[g]) \in Nat
        /\ Cardinality(Bits \ blocks2[g]) <= Cardinality(Bits \ blocks[g])
    BY MoreMarked, ZenonT(30), SMTT(30)
  <2>4. /\ Cardinality(inodes[g]) \in Nat /\ Cardinality(inodes2[g]) \in Nat
        /\ Cardinality(inodes[g]) <= Cardinality(inodes2[g])
    BY MoreInodes, SMTT(30), ZenonT(30)
  <2>5. inodes_per_group \in Nat
    BY Ext2Assumption, SMTT(30), ZenonT(30)
  <2>6. ASSUME NEW x \in Int, NEW y \in Int, NEW z \in Int, x >= y, z <= y PROVE x >= z
    BY <2>6
  <2>7. desc[g].free_blocks >= Cardinality(Bits \ blocks2[g])
    BY <2>1, <2>2, <2>3, <2>6, SMTT(30), ZenonT(30)
  <2>8. inodes_per_group - Cardinality(inodes2[g]) <= inodes_per_group - Cardinality(inodes[g])
    BY <2>4, <2>5, SMTT(30), ZenonT(30)
  <2>9. desc[g].free_inodes >= inodes_per_group - Cardinality(inodes2[g])
    BY <2>1, <2>2, <2>4, <2>5, <2>8, SMTT(30), ZenonT(30)
  <2> QED BY <2>7, <2>9, ZenonT(30), SMTT(30)
<1>2. ASSUME NEW n \in Inodes PROVE inode[n].links <= Cardinality(EntriesIn(dir2, n))
  <2>1. inode[n].links \in Nat
    BY DEF InodeValues
  <2>2. inode[n].links <= Cardinality(EntriesIn(dir, n))
    BY DEF CountsCover
  <2>3. Cardinality(EntriesIn(dir, n)) <= Cardinality(EntriesIn(dir2, n))
    BY MoreEntries
  <2> QED BY <2>1, <2>2, <2>3, EntriesFinite
<1> QED BY <1>1, <1>2 DEF CountsCover

(***************************************************************************)
(* What blocks will hold: the next write changes nothing about it.         *)
(***************************************************************************)
LEMMA SettledOne ==
  ASSUME NEW u, NEW block, NEW at, NEW now
  PROVE  Settled(<<u>>, block, at, now) =
           IF u.block = block /\ u.at = at THEN u.val ELSE now
<1> DEFINE q == <<u>>
<1>1. DOMAIN q = {1} /\ q[1] = u
  OBVIOUS
<1> HIDE DEF q
<1>2. Settled(q, block, at, now) = IF u.block = block /\ u.at = at THEN u.val ELSE now
  BY <1>1 DEF Settled
<1> QED BY <1>2 DEF q

LEMMA SettledTwo ==
  ASSUME NEW q, NEW u, NEW v, DOMAIN q = {1, 2}, q[1] = u, q[2] = v, u.block # v.block
  PROVE  \A block, at, now : Settled(q, block, at, now) =
           IF u.block = block /\ u.at = at THEN u.val
           ELSE IF v.block = block /\ v.at = at THEN v.val ELSE now
BY DEF Settled

LEMMA SettledThree ==
  ASSUME NEW q, DOMAIN q = {1, 2, 3},
         q[1].block = "dir", q[2].block = "inode_bitmap", q[3].block = "inode"
  PROVE  /\ \A at, now : Settled(q, "block_bitmap", at, now) = now
         /\ \A at, now : Settled(q, "desc", at, now) = now
         /\ \A at, now : Settled(q, "dir", at, now) =
                           IF at = q[1].at THEN q[1].val ELSE now
         /\ \A at, now : Settled(q, "inode_bitmap", at, now) =
                           IF at = q[2].at THEN q[2].val ELSE now
         /\ \A at, now : Settled(q, "inode", at, now) =
                           IF at = q[3].at THEN q[3].val ELSE now
<1>1. ASSUME NEW block, NEW at, NEW now, block \in {"block_bitmap", "desc"}
      PROVE  Settled(q, block, at, now) = now
  BY <1>1 DEF Settled
<1>2. ASSUME NEW at, NEW now
      PROVE  Settled(q, "dir", at, now) = IF at = q[1].at THEN q[1].val ELSE now
  BY DEF Settled
<1>3. ASSUME NEW at, NEW now
      PROVE  Settled(q, "inode_bitmap", at, now) = IF at = q[2].at THEN q[2].val ELSE now
  BY DEF Settled
<1>4. ASSUME NEW at, NEW now
      PROVE  Settled(q, "inode", at, now) = IF at = q[3].at THEN q[3].val ELSE now
  BY DEF Settled
<1> QED BY <1>1, <1>2, <1>3, <1>4

LEMMA SettledTail ==
  ASSUME NEW S, NEW q \in Seq(S), Len(q) # 0,
         \A j, k \in DOMAIN q : q[j].block = q[k].block => j = k,
         NEW block, NEW at, NEW now, NEW then,
         then = IF q[1].block = block /\ q[1].at = at THEN q[1].val ELSE now
  PROVE  Settled(Tail(q), block, at, then) = Settled(q, block, at, now)
<1> DEFINE r == Tail(q)
<1>1. /\ Len(q) \in Nat \ {0} /\ DOMAIN q = 1 .. Len(q)
      /\ DOMAIN r = 1 .. (Len(q) - 1) /\ \A k \in DOMAIN r : r[k] = q[k + 1]
  OBVIOUS
<1> HIDE DEF r
<1> DEFINE Here(k) == q[k].block = block /\ q[k].at = at
           There(k) == r[k].block = block /\ r[k].at = at
<1>2. \A k \in DOMAIN r : There(k) <=> Here(k + 1)
  BY <1>1
<1>3. CASE Here(1)
  <2>1. \A k \in DOMAIN q : Here(k) => k = 1
    BY <1>1, <1>3
  <2>2. ~ \E k \in DOMAIN r : There(k)
    BY <1>1, <1>2, <2>1
  <2>3. Settled(r, block, at, then) = q[1].val
    BY <1>3, <2>2 DEF Settled
  <2>4. 1 \in DOMAIN q
    BY <1>1
  <2>5. (CHOOSE k \in DOMAIN q : Here(k)) = 1
    BY <1>3, <2>1, <2>4
  <2>6. Settled(q, block, at, now) = q[1].val
    BY <1>3, <2>4, <2>5 DEF Settled
  <2> QED BY <2>3, <2>6 DEF r
<1>4. CASE ~Here(1) /\ \E k \in DOMAIN q : Here(k)
  <2>1. PICK k \in DOMAIN q : Here(k)
    BY <1>4
  <2>2. \A j \in DOMAIN q : Here(j) => j = k
    BY <2>1
  <2>3. k - 1 \in DOMAIN r /\ (k - 1) + 1 = k
    BY <1>1, <1>4, <2>1
  <2>4. There(k - 1)
    BY <1>2, <2>1, <2>3
  <2>5. \A j \in DOMAIN r : There(j) => j = k - 1
    <3> SUFFICES ASSUME NEW j \in DOMAIN r, There(j) PROVE j = k - 1
      OBVIOUS
    <3>1. j + 1 \in DOMAIN q /\ j \in Nat
      BY <1>1
    <3>2. j + 1 = k
      BY <1>2, <2>2, <3>1
    <3> QED BY <3>1, <3>2
  <2>6. (CHOOSE j \in DOMAIN q : Here(j)) = k
    BY <2>1, <2>2
  <2>7. (CHOOSE j \in DOMAIN r : There(j)) = k - 1
    BY <2>3, <2>4, <2>5
  <2>8. Settled(q, block, at, now) = q[k].val
    BY <2>1, <2>6 DEF Settled
  <2>9. Settled(r, block, at, then) = r[k - 1].val
    BY <2>3, <2>4, <2>7 DEF Settled
  <2>10. r[k - 1] = q[k]
    BY <1>1, <2>3
  <2> QED BY <2>8, <2>9, <2>10 DEF r
<1>5. CASE \A k \in DOMAIN q : ~Here(k)
  <2>1. ~ \E k \in DOMAIN r : There(k)
    <3> SUFFICES ASSUME NEW k \in DOMAIN r PROVE ~There(k)
      OBVIOUS
    <3>1. k + 1 \in DOMAIN q
      BY <1>1
    <3> QED BY <1>2, <1>5, <3>1
  <2>2. 1 \in DOMAIN q
    BY <1>1
  <2>3. then = now
    BY <1>5, <2>2
  <2>4. Settled(q, block, at, now) = now
    BY <1>5 DEF Settled
  <2>5. Settled(r, block, at, then) = then
    BY <2>1 DEF Settled
  <2> QED BY <2>3, <2>4, <2>5 DEF r
<1> QED BY <1>3, <1>4, <1>5

(***************************************************************************)
(* Marking one block, marking one inode, and adding one entry.             *)
(***************************************************************************)
LEMMA Rejoins ==
  ASSUME NEW n \in Nat \ {0}, NEW a \in Nat \ {0}, NEW b \in Nat \ {0},
         (a - 1) \div n = (b - 1) \div n, (a - 1) % n = (b - 1) % n
  PROVE  a = b
<1>1. \A e \in Nat : e = n * (e \div n) + (e % n)
  OBVIOUS
<1>2. a - 1 \in Nat /\ b - 1 \in Nat
  OBVIOUS
<1>3. a - 1 = b - 1
  BY <1>1, <1>2
<1> QED BY <1>3

LEMMA SamePlace ==
  /\ \A a, b \in Blocks :
       BlockGroup(a) = BlockGroup(b) /\ BlockBit(a) = BlockBit(b) => a = b
  /\ \A a, b \in Inodes :
       GroupOf(a) = GroupOf(b) /\ InodeBit(a) = InodeBit(b) => a = b
<1>1. inodes_per_group \in Nat \ {0} /\ DataBlocks \in Nat \ {0}
  BY Ext2Assumption
<1>2. Blocks \subseteq Nat \ {0} /\ Inodes \subseteq Nat \ {0}
  BY DEF Blocks, Inodes
<1>3. ASSUME NEW a \in Blocks, NEW b \in Blocks,
             BlockGroup(a) = BlockGroup(b), BlockBit(a) = BlockBit(b)
      PROVE  a = b
  <2>1. a \in Nat \ {0} /\ b \in Nat \ {0}
    BY <1>2
  <2> QED BY <1>1, <1>3, <2>1, Rejoins, Zenon DEF BlockGroup, BlockBit
<1>4. ASSUME NEW a \in Inodes, NEW b \in Inodes,
             GroupOf(a) = GroupOf(b), InodeBit(a) = InodeBit(b)
      PROVE  a = b
  <2>1. a \in Nat \ {0} /\ b \in Nat \ {0}
    BY <1>2
  <2> QED BY <1>1, <1>4, <2>1, Rejoins, Zenon DEF GroupOf, InodeBit
<1> QED BY <1>3, <1>4

\* more is maps with one more bit marked, in group g.
OneMore(maps, more, g, bit) ==
  /\ bit \notin maps[g] /\ more[g] = maps[g] \cup {bit}
  /\ \A h \in GroupIds \ {g} : more[h] = maps[h]

LEMMA BlockMarked ==
  ASSUME NEW maps \in BitMaps(Bits), NEW g \in GroupIds, NEW bit \in Bits,
         NEW more, OneMore(maps, more, g, bit)
  PROVE  Cardinality(FreeBlocksIn(more)) = Cardinality(FreeBlocksIn(maps)) - 1
<1> USE DEF OneMore
<1> DEFINE new == BlockOf(g, bit)
<1>1. new \in Blocks /\ BlockGroup(new) = g /\ BlockBit(new) = bit
  BY Numbers
<1> HIDE DEF new
<1>2. more[g] = maps[g] \cup {bit} /\ \A h \in GroupIds \ {g} : more[h] = maps[h]
  BY DEF BitMaps
<1>3. \A b \in Blocks : BlockGroup(b) = g /\ BlockBit(b) = bit <=> b = new
  BY <1>1, SamePlace
<1>4. FreeBlocksIn(more) = FreeBlocksIn(maps) \ {new}
  BY <1>2, <1>3, Numbers DEF FreeBlocksIn
<1>5. new \in FreeBlocksIn(maps)
  BY <1>1 DEF FreeBlocksIn
<1>6. FreeBlocksIn(maps) \in SUBSET Blocks
  BY DEF FreeBlocksIn
<1>7. IsFiniteSet(FreeBlocksIn(maps)) /\ Cardinality(FreeBlocksIn(maps)) \in Nat
  BY <1>6, Finites, FewerLeft, SMTT(30), ZenonT(30)
<1> QED BY <1>4, <1>5, <1>7, FS_RemoveElement, ZenonT(30), SMTT(30)

LEMMA InodeMarked ==
  ASSUME NEW maps \in BitMaps(InodeBits), NEW n \in Inodes,
         NEW g, g = GroupOf(n), NEW more, OneMore(maps, more, g, InodeBit(n))
  PROVE  /\ Cardinality(FreeInodesIn(more)) = Cardinality(FreeInodesIn(maps)) - 1
         /\ Cardinality(FreeInodesIn(maps)) \in Nat
         /\ Cardinality(more[g]) = Cardinality(maps[g]) + 1
         /\ Cardinality(maps[g]) \in Nat
         /\ \A h \in GroupIds \ {g} : more[h] = maps[h]
<1> USE DEF OneMore
<1>1. g \in GroupIds
  BY Numbers
<1>2. /\ more[g] = maps[g] \cup {InodeBit(n)} /\ \A h \in GroupIds \ {g} : more[h] = maps[h]
      /\ maps[g] \in SUBSET InodeBits
  BY <1>1 DEF BitMaps
<1>3. \A m \in Inodes : GroupOf(m) = g /\ InodeBit(m) = InodeBit(n) <=> m = n
  BY SamePlace
<1>4. FreeInodesIn(more) = FreeInodesIn(maps) \ {n}
  BY <1>2, <1>3, Numbers DEF FreeInodesIn
<1>5. n \in FreeInodesIn(maps) /\ FreeInodesIn(maps) \in SUBSET Inodes
  BY DEF FreeInodesIn
<1>6. IsFiniteSet(FreeInodesIn(maps)) /\ Cardinality(FreeInodesIn(maps)) \in Nat
  BY <1>5, Finites, FewerLeft
<1>7. Cardinality(FreeInodesIn(more)) = Cardinality(FreeInodesIn(maps)) - 1
  BY <1>4, <1>5, <1>6, FS_RemoveElement
<1>8. IsFiniteSet(maps[g])
  BY <1>2, Finites, FewerLeft DEF InodeBits
<1>9. Cardinality(more[g]) = Cardinality(maps[g]) + 1 /\ Cardinality(maps[g]) \in Nat
  BY <1>2, <1>8, OneAdded
<1> QED BY <1>2, <1>6, <1>7, <1>9, SMTT(30), ZenonT(30)

\* more is dir with an entry for inode n added at the end of block b.
OneEntryMore(dir, more, b, n) ==
  /\ more[b] = Append(dir[b], n)
  /\ \A c \in Blocks \ {b} : more[c] = dir[c]

LEMMA EntryAdded ==
  ASSUME NEW dir \in [Blocks -> Seq(Inodes)], NEW b \in Blocks, NEW n \in Inodes,
         Len(dir[b]) < MaxLinks,
         NEW more, OneEntryMore(dir, more, b, n)
  PROVE  /\ Cardinality(EntriesIn(more, n)) = Cardinality(EntriesIn(dir, n)) + 1
         /\ EntriesIn(more, n) # {}
         /\ \A m \in Inodes \ {n} : EntriesIn(more, m) = EntriesIn(dir, m)
<1> USE DEF OneEntryMore
<1> DEFINE new == <<b, Len(dir[b]) + 1>>
<1>1. /\ dir[b] \in Seq(Inodes) /\ Len(dir[b]) \in Nat /\ MaxLinks \in Nat
      /\ more[b] = Append(dir[b], n) /\ \A c \in Blocks \ {b} : more[c] = dir[c]
  BY Ext2Assumption
<1>2. /\ Len(more[b]) = Len(dir[b]) + 1 /\ more[b][Len(dir[b]) + 1] = n
      /\ \A i \in 1 .. Len(dir[b]) : more[b][i] = dir[b][i]
  BY <1>1
<1>3. /\ new \in Blocks \X (1 .. MaxLinks) /\ new \notin EntriesIn(dir, n)
      /\ new[1] = b /\ new[2] = Len(dir[b]) + 1
  BY <1>1 DEF EntriesIn
<1>4. ASSUME NEW p \in Blocks \X (1 .. MaxLinks), NEW m \in Inodes
      PROVE  p \in EntriesIn(more, m) <=> p \in EntriesIn(dir, m) \/ (m = n /\ p = new)
  <2>1. PICK c \in Blocks, i \in 1 .. MaxLinks : p = <<c, i>>
    BY <1>4
  <2>2. i \in Nat /\ i >= 1
    BY <1>1, <2>1
  <2>3. /\ p \in EntriesIn(more, m) <=> i <= Len(more[c]) /\ more[c][i] = m
        /\ p \in EntriesIn(dir, m) <=> i <= Len(dir[c]) /\ dir[c][i] = m
        /\ p = new <=> c = b /\ i = Len(dir[b]) + 1
    BY <2>1 DEF EntriesIn
  <2>4. CASE c # b
    BY <1>1, <2>3, <2>4
  <2>5. CASE c = b
    <3>1. CASE i <= Len(dir[b])
      BY <1>1, <1>2, <2>2, <2>3, <2>5, <3>1, SMTT(30), ZenonT(30)
    <3>2. CASE i = Len(dir[b]) + 1
      BY <1>1, <1>2, <2>2, <2>3, <2>5, <3>2
    <3>3. CASE i > Len(dir[b]) + 1
      BY <1>1, <1>2, <2>2, <2>3, <2>5, <3>3
    <3> QED BY <1>1, <2>2, <3>1, <3>2, <3>3, SMTT(30), ZenonT(30)
  <2> QED BY <2>4, <2>5
<1>5. \A m \in Inodes : /\ EntriesIn(more, m) \subseteq Blocks \X (1 .. MaxLinks)
                        /\ EntriesIn(dir, m) \subseteq Blocks \X (1 .. MaxLinks)
  BY DEF EntriesIn
<1> HIDE DEF new
<1>6. EntriesIn(more, n) = EntriesIn(dir, n) \cup {new}
  BY <1>3, <1>4, <1>5
<1>7. \A m \in Inodes \ {n} : EntriesIn(more, m) = EntriesIn(dir, m)
  BY <1>4, <1>5
<1>8. Cardinality(EntriesIn(more, n)) = Cardinality(EntriesIn(dir, n)) + 1
  BY <1>3, <1>6, EntriesFinite, OneAdded
<1> QED BY <1>6, <1>7, <1>8

(***************************************************************************)
(* With no write queued, or only the superblock, blocks hold what they     *)
(* will hold.                                                              *)
(***************************************************************************)
LEMMA AsIs ==
  ASSUME NEW q, q = <<>> \/ \E u : q = <<u>> /\ u.block = "super"
  PROVE  /\ \A at, now : Settled(q, "block_bitmap", at, now) = now
         /\ \A at, now : Settled(q, "inode_bitmap", at, now) = now
         /\ \A at, now : Settled(q, "desc", at, now) = now
         /\ \A at, now : Settled(q, "inode", at, now) = now
         /\ \A at, now : Settled(q, "dir", at, now) = now
<1>1. CASE q = <<>>
  BY <1>1 DEF Settled
<1>2. ASSUME NEW u, q = <<u>>, u.block = "super"
      PROVE  \A block, at, now : block # "super" => Settled(q, block, at, now) = now
  BY <1>2, SettledOne
<1> QED BY <1>1, <1>2

LEMMA DiskParts ==
  ASSUME NEW d \in DiskStates
  PROVE  /\ d.block_bitmap = [g \in GroupIds |-> d.block_bitmap[g]]
         /\ d.inode_bitmap = [g \in GroupIds |-> d.inode_bitmap[g]]
         /\ d.desc = [g \in GroupIds |-> d.desc[g]]
         /\ d.inode = [n \in Inodes |-> d.inode[n]]
         /\ d.dir = [b \in Blocks |-> d.dir[b]]
  BY DEF DiskStates

LEMMA SettledNow ==
  ASSUME disk \in DiskStates,
         todo = <<>> \/ \E u : todo = <<u>> /\ u.block = "super"
  PROVE  /\ BlockMaps = disk.block_bitmap /\ InodeMaps = disk.inode_bitmap
         /\ Descs = disk.desc /\ InodeTable = disk.inode /\ Dirs = disk.dir
<1>1. /\ \A at, now : Settled(todo, "block_bitmap", at, now) = now
      /\ \A at, now : Settled(todo, "inode_bitmap", at, now) = now
      /\ \A at, now : Settled(todo, "desc", at, now) = now
      /\ \A at, now : Settled(todo, "inode", at, now) = now
      /\ \A at, now : Settled(todo, "dir", at, now) = now
  BY AsIs
<1> QED BY <1>1, DiskParts DEF BlockMaps, InodeMaps, Descs, InodeTable, Dirs

LEMMA SettledNext ==
  ASSUME disk' \in DiskStates,
         todo' = <<>> \/ \E u : todo' = <<u>> /\ u.block = "super"
  PROVE  /\ BlockMaps' = disk'.block_bitmap /\ InodeMaps' = disk'.inode_bitmap
         /\ Descs' = disk'.desc /\ InodeTable' = disk'.inode /\ Dirs' = disk'.dir
<1>1. /\ \A at, now : Settled(todo', "block_bitmap", at, now) = now
      /\ \A at, now : Settled(todo', "inode_bitmap", at, now) = now
      /\ \A at, now : Settled(todo', "desc", at, now) = now
      /\ \A at, now : Settled(todo', "inode", at, now) = now
      /\ \A at, now : Settled(todo', "dir", at, now) = now
  BY AsIs
<1>2. /\ disk'.block_bitmap = [g \in GroupIds |-> disk'.block_bitmap[g]]
      /\ disk'.inode_bitmap = [g \in GroupIds |-> disk'.inode_bitmap[g]]
      /\ disk'.desc = [g \in GroupIds |-> disk'.desc[g]]
      /\ disk'.inode = [n \in Inodes |-> disk'.inode[n]]
      /\ disk'.dir = [b \in Blocks |-> disk'.dir[b]]
  BY DiskParts
<1>3. /\ BlockMaps' = [g \in GroupIds |-> disk'.block_bitmap[g]]
      /\ InodeMaps' = [g \in GroupIds |-> disk'.inode_bitmap[g]]
      /\ Descs' = [g \in GroupIds |-> disk'.desc[g]]
      /\ InodeTable' = [n \in Inodes |-> disk'.inode[n]]
      /\ Dirs' = [b \in Blocks |-> disk'.dir[b]]
  <2>1. BlockMaps' = [g \in GroupIds |-> disk'.block_bitmap[g]]
    BY <1>1 DEF BlockMaps
  <2>2. InodeMaps' = [g \in GroupIds |-> disk'.inode_bitmap[g]]
    BY <1>1 DEF InodeMaps
  <2>3. Descs' = [g \in GroupIds |-> disk'.desc[g]]
    BY <1>1 DEF Descs
  <2>4. InodeTable' = [n \in Inodes |-> disk'.inode[n]]
    BY <1>1 DEF InodeTable
  <2>5. Dirs' = [b \in Blocks |-> disk'.dir[b]]
    BY <1>1 DEF Dirs
  <2> QED BY <2>1, <2>2, <2>3, <2>4, <2>5
<1> QED BY <1>2, <1>3

LEMMA AtRest ==
  ASSUME Ext2Inv, Idle
  PROVE  /\ BlockMaps = disk.block_bitmap /\ BlockMaps \in BitMaps(Bits)
         /\ InodeMaps = disk.inode_bitmap /\ InodeMaps \in BitMaps(InodeBits)
         /\ Descs = disk.desc /\ Descs \in [GroupIds -> GroupDescs]
         /\ InodeTable = disk.inode /\ InodeTable \in [Inodes -> InodeValues]
         /\ Dirs = disk.dir /\ Dirs \in [Blocks -> Seq(Inodes)]
<1>1. disk \in DiskStates /\ todo = <<>>
  BY DEF Ext2Inv, Ext2Type, Idle
<1>2. /\ BlockMaps = disk.block_bitmap /\ InodeMaps = disk.inode_bitmap
      /\ Descs = disk.desc /\ InodeTable = disk.inode /\ Dirs = disk.dir
  BY <1>1, SettledNow
<1> QED BY <1>1, <1>2 DEF DiskStates, BitMaps, InodeBits

(***************************************************************************)
(* What each operation does, once its writes are done.                     *)
(***************************************************************************)
Same == UNCHANGED <<BlockMaps, InodeMaps, Descs, InodeTable, Dirs>>
NoSuper == \A k \in DOMAIN todo : todo[k].block # "super"

LEMMA SuperSettles ==
  ASSUME Ext2Inv, Idle, disk' = disk,
         NEW u, todo' = <<u>>, u.block = "super"
  PROVE  Same /\ QueueSound' /\ DOMAIN todo' = {1} /\ todo'[1] = u
<1>1. disk \in DiskStates
  BY DEF Ext2Inv, Ext2Type
<1>2. /\ BlockMaps' = disk.block_bitmap /\ InodeMaps' = disk.inode_bitmap
      /\ Descs' = disk.desc /\ InodeTable' = disk.inode /\ Dirs' = disk.dir
  <2>1. todo' = <<>> \/ \E w : todo' = <<w>> /\ w.block = "super"
    OBVIOUS
  <2>2. disk' \in DiskStates
    BY <1>1
  <2>3. /\ BlockMaps' = disk'.block_bitmap /\ InodeMaps' = disk'.inode_bitmap
        /\ Descs' = disk'.desc /\ InodeTable' = disk'.inode /\ Dirs' = disk'.dir
    BY <2>1, <2>2, SettledNext
  <2> QED BY <2>3
<1>3. DOMAIN todo' = {1} /\ todo'[1] = u /\ Len(todo') = 1
  BY SMTT(30), ZenonT(30)
<1>4. QueueSound'
  BY <1>3, SMTT(30), ZenonT(30) DEF QueueSound
<1> QED BY <1>2, <1>3, <1>4, AtRest DEF Same

LEMMA AllocateBlockSettles ==
  ASSUME Ext2Inv, allocate_blocks
  PROVE  /\ QueueSound' /\ NoSuper' /\ todo' # <<>>
         /\ \E g \in GroupIds, bit \in Bits :
              /\ bit \notin BlockMaps[g]
              /\ BlockMaps' = [BlockMaps EXCEPT ![g] = BlockMaps[g] \cup {bit}]
              /\ \A h \in GroupIds :
                   /\ Descs'[h].free_inodes = Descs[h].free_inodes
                   /\ Descs'[h].free_blocks =
                        IF h = g THEN Descs[h].free_blocks - 1 ELSE Descs[h].free_blocks
              /\ UNCHANGED <<InodeMaps, InodeTable, Dirs>>
              /\ mnt'.free_blocks = mnt.free_blocks - 1
              /\ mnt'.free_inodes = mnt.free_inodes
              /\ obtained'.inodes = obtained.inodes
<1>1. Idle /\ UNCHANGED <<disk, faults>>
  BY DEF allocate_blocks, Mounted
<1>2. PICK g \in GroupIds, bit \in Bits :
        /\ bit \notin disk.block_bitmap[g]
        /\ mnt' = [mnt EXCEPT !.free_blocks = @ - 1]
        /\ todo' = BlockWrites(g, bit)
        /\ obtained' = [obtained EXCEPT !.blocks = @ \cup {BlockOf(g, bit)}]
  BY BlockFound
<1> DEFINE u == Write("block_bitmap", g, disk.block_bitmap[g] \cup {bit})
           v == Write("desc", g, [disk.desc[g] EXCEPT !.free_blocks = @ - 1])
<1>3. /\ u.block = "block_bitmap" /\ u.at = g /\ u.val = disk.block_bitmap[g] \cup {bit}
      /\ v.block = "desc" /\ v.at = g
      /\ v.val = [disk.desc[g] EXCEPT !.free_blocks = @ - 1]
  BY DEF Write
<1>4. todo' = <<u, v>>
  BY <1>2 DEF BlockWrites
<1> HIDE DEF u, v
<1>5. /\ DOMAIN todo' = {1, 2} /\ Len(todo') = 2 /\ todo'[1] = u /\ todo'[2] = v
      /\ todo' # <<>>
  BY <1>4
<1>6. QueueSound' /\ NoSuper'
  BY <1>1, <1>3, <1>5 DEF QueueSound, NoSuper
<1>7. \A block, at, now : Settled(todo', block, at, now) =
        IF u.block = block /\ u.at = at THEN u.val
        ELSE IF v.block = block /\ v.at = at THEN v.val ELSE now
  <2>1. u.block # v.block
    BY <1>3
  <2> QED BY <1>5, <2>1, SettledTwo, SMTT(30), ZenonT(30)
<1>8. /\ disk.desc[g] \in GroupDescs /\ mnt \in [free_blocks : Int, free_inodes : Int]
      /\ obtained \in [inodes : SUBSET Inodes, blocks : SUBSET Blocks]
  BY DEF Ext2Inv, Ext2Type, DiskStates
<1>9. /\ v.val.free_blocks = disk.desc[g].free_blocks - 1
      /\ v.val.free_inodes = disk.desc[g].free_inodes
  BY <1>3, <1>8 DEF GroupDescs
<1>10. BlockMaps' = [BlockMaps EXCEPT ![g] = BlockMaps[g] \cup {bit}]
  <2>1. \A h \in GroupIds : Settled(todo', "block_bitmap", h, disk'.block_bitmap[h]) =
                               IF h = g THEN u.val ELSE disk.block_bitmap[h]
    <3> TAKE h \in GroupIds
    <3>1. disk'.block_bitmap[h] = disk.block_bitmap[h]
      BY <1>1, ZenonT(30), SMTT(30)
    <3>2. u.block = "block_bitmap" /\ u.at = g /\ v.block # "block_bitmap"
      BY <1>3, SMTT(30), ZenonT(30)
    <3> QED BY <1>7, <3>1, <3>2, ZenonT(30), SMTT(30)
  <2>2. BlockMaps' = [h \in GroupIds |-> IF h = g THEN u.val ELSE disk.block_bitmap[h]]
    BY <2>1, Zenon DEF BlockMaps
  <2> QED BY <1>1, <1>3, <2>2, AtRest DEF BitMaps
<1>11. \A h \in GroupIds : Descs'[h] = IF h = g THEN v.val ELSE disk.desc[h]
  BY <1>1, <1>3, <1>7 DEF Descs
<1>12. /\ InodeMaps' = InodeMaps /\ InodeTable' = InodeTable /\ Dirs' = Dirs
  <2>1. /\ InodeMaps' = [h \in GroupIds |-> disk.inode_bitmap[h]]
        /\ InodeTable' = [n \in Inodes |-> disk.inode[n]]
        /\ Dirs' = [b \in Blocks |-> disk.dir[b]]
    BY <1>1, <1>3, <1>7 DEF InodeMaps, InodeTable, Dirs
  <2> QED BY <1>1, <2>1, AtRest DEF BitMaps
<1>13. /\ mnt'.free_blocks = mnt.free_blocks - 1 /\ mnt'.free_inodes = mnt.free_inodes
       /\ obtained'.inodes = obtained.inodes
  BY <1>2, <1>8
<1>14. \A h \in GroupIds :
         /\ Descs'[h].free_inodes = Descs[h].free_inodes
         /\ Descs'[h].free_blocks =
              IF h = g THEN Descs[h].free_blocks - 1 ELSE Descs[h].free_blocks
  BY <1>1, <1>9, <1>11, AtRest
<1>15. bit \notin BlockMaps[g]
  BY <1>1, <1>2, AtRest, SMTT(30), ZenonT(30)
<1> QED BY <1>5, <1>6, <1>10, <1>12, <1>13, <1>14, <1>15

LEMMA AllocateInodeSettles ==
  ASSUME Ext2Inv, NEW n \in Inodes, NEW is_dir \in BOOLEAN, allocate_inode(n, is_dir)
  PROVE  /\ QueueSound' /\ NoSuper' /\ todo' # <<>>
         /\ InodeBit(n) \notin InodeMaps[GroupOf(n)]
         /\ InodeMaps' = [InodeMaps EXCEPT
                            ![GroupOf(n)] = InodeMaps[GroupOf(n)] \cup {InodeBit(n)}]
         /\ \A h \in GroupIds :
              /\ Descs'[h].free_blocks = Descs[h].free_blocks
              /\ Descs'[h].free_inodes =
                   IF h = GroupOf(n) THEN Descs[h].free_inodes - 1
                                     ELSE Descs[h].free_inodes
         /\ UNCHANGED <<BlockMaps, InodeTable, Dirs>>
         /\ mnt'.free_blocks = mnt.free_blocks
         /\ mnt'.free_inodes = mnt.free_inodes - 1
         /\ obtained'.inodes = obtained.inodes \cup {n}
<1> DEFINE g == GroupOf(n)
           d == disk.desc[g]
           u == Write("inode_bitmap", g, disk.inode_bitmap[g] \cup {InodeBit(n)})
           v == Write("desc", g, [free_blocks |-> d.free_blocks,
                                  free_inodes |-> d.free_inodes - 1,
                                  used_dirs |-> IF is_dir THEN d.used_dirs + 1
                                                          ELSE d.used_dirs])
<1>1. /\ Idle /\ InodeBit(n) \notin disk.inode_bitmap[g]
      /\ mnt' = [mnt EXCEPT !.free_inodes = @ - 1]
      /\ todo' = <<u, v>>
      /\ obtained' = [obtained EXCEPT !.inodes = @ \cup {n}]
      /\ UNCHANGED <<disk, faults>>
  BY DEF allocate_inode, Mounted
<1>2. g \in GroupIds
  BY Numbers, SMTT(30), ZenonT(30)
<1>3. /\ u.block = "inode_bitmap" /\ u.at = g
      /\ u.val = disk.inode_bitmap[g] \cup {InodeBit(n)}
      /\ v.block = "desc" /\ v.at = g
      /\ v.val.free_blocks = disk.desc[g].free_blocks
      /\ v.val.free_inodes = disk.desc[g].free_inodes - 1
  BY DEF Write
<1> HIDE DEF u, v, g
<1>4. /\ DOMAIN todo' = {1, 2} /\ Len(todo') = 2 /\ todo'[1] = u /\ todo'[2] = v
      /\ todo' # <<>>
  BY <1>1
<1>5. QueueSound' /\ NoSuper'
  BY <1>1, <1>3, <1>4 DEF QueueSound, NoSuper
<1>6. \A block, at, now : Settled(todo', block, at, now) =
        IF u.block = block /\ u.at = at THEN u.val
        ELSE IF v.block = block /\ v.at = at THEN v.val ELSE now
  <2>1. u.block # v.block
    BY <1>3
  <2> QED BY <1>4, <2>1, SettledTwo, SMTT(30), ZenonT(30)
<1>7. /\ mnt \in [free_blocks : Int, free_inodes : Int]
      /\ obtained \in [inodes : SUBSET Inodes, blocks : SUBSET Blocks]
  BY DEF Ext2Inv, Ext2Type
<1>8. InodeMaps' = [InodeMaps EXCEPT ![g] = InodeMaps[g] \cup {InodeBit(n)}]
  <2>1. \A h, now : Settled(todo', "inode_bitmap", h, now) = IF h = g THEN u.val ELSE now
    <3>1. u.block = "inode_bitmap" /\ u.at = g /\ v.block # "inode_bitmap"
      BY <1>3
    <3> QED BY <1>6, <3>1
  <2>2. InodeMaps' = [h \in GroupIds |-> Settled(todo', "inode_bitmap", h, disk.inode_bitmap[h])]
    BY <1>1 DEF InodeMaps
  <2>3. InodeMaps' = [h \in GroupIds |-> IF h = g THEN u.val ELSE disk.inode_bitmap[h]]
    BY <2>1, <2>2
  <2> QED BY <1>1, <1>3, <2>3, AtRest, ZenonT(30), SMTT(30) DEF BitMaps
<1>9. \A h \in GroupIds : Descs'[h] = IF h = g THEN v.val ELSE disk.desc[h]
  BY <1>1, <1>3, <1>6, SMTT(30), ZenonT(30) DEF Descs
<1>10. /\ BlockMaps' = BlockMaps /\ InodeTable' = InodeTable /\ Dirs' = Dirs
  <2>1. /\ BlockMaps' = [h \in GroupIds |-> disk.block_bitmap[h]]
        /\ InodeTable' = [m \in Inodes |-> disk.inode[m]]
        /\ Dirs' = [b \in Blocks |-> disk.dir[b]]
    BY <1>1, <1>3, <1>6 DEF BlockMaps, InodeTable, Dirs
  <2> QED BY <1>1, <2>1, AtRest DEF BitMaps
<1>11. /\ mnt'.free_blocks = mnt.free_blocks /\ mnt'.free_inodes = mnt.free_inodes - 1
       /\ obtained'.inodes = obtained.inodes \cup {n}
  BY <1>1, <1>7
<1>12. \A h \in GroupIds :
         /\ Descs'[h].free_blocks = Descs[h].free_blocks
         /\ Descs'[h].free_inodes =
              IF h = g THEN Descs[h].free_inodes - 1 ELSE Descs[h].free_inodes
  BY <1>1, <1>3, <1>9, AtRest
<1>13. InodeBit(n) \notin InodeMaps[g]
  BY <1>1, AtRest, SMTT(30), ZenonT(30)
<1> QED BY <1>4, <1>5, <1>8, <1>10, <1>11, <1>12, <1>13 DEF g

LEMMA WriteInodeSettles ==
  ASSUME Ext2Inv, NEW n \in Inodes, NEW b \in Blocks, ext2_write_inode(n, b)
  PROVE  /\ QueueSound' /\ NoSuper' /\ todo' # <<>>
         /\ InodeMaps' = [InodeMaps EXCEPT
                            ![GroupOf(n)] = InodeMaps[GroupOf(n)] \cup {InodeBit(n)}]
         /\ InodeTable' = [InodeTable EXCEPT ![n] = [links |-> 0, block |-> b]]
         /\ UNCHANGED <<BlockMaps, Descs, Dirs>>
         /\ n \in obtained.inodes /\ obtained'.inodes = obtained.inodes \ {n}
<1> DEFINE g == GroupOf(n)
           u == Write("inode_bitmap", g, disk.inode_bitmap[g] \cup {InodeBit(n)})
           v == Write("inode", n, [links |-> 0, block |-> b])
<1>1. /\ Idle /\ n \in obtained.inodes /\ todo' = <<u, v>>
      /\ obtained' = [inodes |-> obtained.inodes \ {n}, blocks |-> obtained.blocks \ {b}]
      /\ UNCHANGED <<disk, mnt, faults>>
  BY DEF ext2_write_inode, Mounted, InodeWrites, create_dir_inode
<1>2. g \in GroupIds
  BY Numbers, SMTT(30), ZenonT(30)
<1>3. /\ u.block = "inode_bitmap" /\ u.at = g
      /\ u.val = disk.inode_bitmap[g] \cup {InodeBit(n)}
      /\ v.block = "inode" /\ v.at = n /\ v.val = [links |-> 0, block |-> b]
  BY DEF Write
<1> HIDE DEF u, v, g
<1>4. /\ DOMAIN todo' = {1, 2} /\ Len(todo') = 2 /\ todo'[1] = u /\ todo'[2] = v
      /\ todo' # <<>>
  BY <1>1, SMTT(30), ZenonT(30)
<1>5. QueueSound' /\ NoSuper'
  BY <1>1, <1>3, <1>4, ZenonT(30), SMTT(30) DEF QueueSound, NoSuper
<1>6. \A block, at, now : Settled(todo', block, at, now) =
        IF u.block = block /\ u.at = at THEN u.val
        ELSE IF v.block = block /\ v.at = at THEN v.val ELSE now
  <2>1. u.block # v.block
    BY <1>3
  <2> QED BY <1>4, <2>1, SettledTwo, SMTT(30), ZenonT(30)
<1>10. /\ \A at, now : Settled(todo', "inode_bitmap", at, now) =
                         IF at = g THEN u.val ELSE now
       /\ \A at, now : Settled(todo', "inode", at, now) = IF at = n THEN v.val ELSE now
  <2>1. /\ u.block = "inode_bitmap" /\ u.at = g /\ u.block # "inode"
        /\ v.block = "inode" /\ v.at = n /\ v.block # "inode_bitmap"
    BY <1>3, SMTT(30), ZenonT(30)
  <2> QED BY <1>6, <2>1, ZenonT(30), SMTT(30)
<1>7. InodeMaps' = [InodeMaps EXCEPT ![g] = InodeMaps[g] \cup {InodeBit(n)}]
  <2>1. \A h \in GroupIds : Settled(todo', "inode_bitmap", h, disk'.inode_bitmap[h]) =
                               IF h = g THEN u.val ELSE disk.inode_bitmap[h]
    <3> TAKE h \in GroupIds
    <3>1. disk'.inode_bitmap[h] = disk.inode_bitmap[h]
      BY <1>1, ZenonT(30), SMTT(30)
    <3> QED BY <1>10, <3>1, ZenonT(30), SMTT(30)
  <2>2. InodeMaps' = [h \in GroupIds |-> IF h = g THEN u.val ELSE disk.inode_bitmap[h]]
    BY <2>1, Zenon DEF InodeMaps
  <2> QED BY <1>1, <1>3, <2>2, AtRest, ZenonT(30), SMTT(30) DEF BitMaps
<1>8. InodeTable' = [InodeTable EXCEPT ![n] = [links |-> 0, block |-> b]]
  <2>1. InodeTable' = [m \in Inodes |-> IF m = n THEN v.val ELSE disk.inode[m]]
    <3>1. \A m \in Inodes : Settled(todo', "inode", m, disk'.inode[m]) =
                              IF m = n THEN v.val ELSE disk.inode[m]
      <4> TAKE m \in Inodes
      <4>1. disk'.inode[m] = disk.inode[m]
        BY <1>1, ZenonT(30), SMTT(30)
      <4> QED BY <1>10, <4>1, ZenonT(30), SMTT(30)
    <3> QED BY <3>1, ZenonT(30), SMTT(30) DEF InodeTable
  <2> QED BY <1>1, <1>3, <2>1, AtRest, ZenonT(30), SMTT(30)
<1>9. /\ BlockMaps' = BlockMaps /\ Descs' = Descs /\ Dirs' = Dirs
  <2>1. /\ BlockMaps' = [h \in GroupIds |-> disk.block_bitmap[h]]
        /\ Descs' = [h \in GroupIds |-> disk.desc[h]]
        /\ Dirs' = [c \in Blocks |-> disk.dir[c]]
    BY <1>1, <1>3, <1>6, SMTT(30), ZenonT(30) DEF BlockMaps, Descs, Dirs
  <2> QED BY <1>1, <2>1, AtRest, SMTT(30), ZenonT(30) DEF BitMaps
<1> QED BY <1>1, <1>4, <1>5, <1>7, <1>8, <1>9, SMTT(30), ZenonT(30) DEF g

LEMMA AddLinkSettles ==
  ASSUME Ext2Inv, NEW d \in Inodes, NEW n \in Inodes, ext2_add_link(d, n)
  PROVE  /\ QueueSound' /\ NoSuper' /\ todo' # <<>>
         /\ InodeMaps' = InodeMaps
         /\ InodeTable[n].block # 0
         /\ InodeTable' = [InodeTable EXCEPT
                             ![n] = [links |-> InodeTable[n].links + 1,
                                     block |-> InodeTable[n].block]]
         /\ \E b \in Blocks : /\ Len(Dirs[b]) < MaxLinks
                              /\ Dirs' = [Dirs EXCEPT ![b] = Append(Dirs[b], n)]
         /\ UNCHANGED <<BlockMaps, Descs>>
<1> DEFINE g == GroupOf(n)
           b == disk.inode[d].block
           t == Write("dir", b, Append(disk.dir[b], n))
           u == Write("inode_bitmap", g, disk.inode_bitmap[g] \cup {InodeBit(n)})
           v == Write("inode", n, [disk.inode[n] EXCEPT !.links = @ + 1])
<1>1. /\ Idle /\ InodeBit(n) \in disk.inode_bitmap[g] /\ disk.inode[n].block # 0
      /\ b # 0 /\ Len(disk.dir[b]) < MaxLinks /\ todo' = <<t>> \o <<u, v>>
      /\ UNCHANGED <<disk, mnt, obtained, faults>>
  BY DEF ext2_add_link, Mounted, IsWritten, LinkWrites, InodeWrites, WithEntry
<1>2. g \in GroupIds /\ disk \in DiskStates
  BY Numbers DEF Ext2Inv, Ext2Type
<1>3. /\ b \in Blocks /\ disk.dir[b] \in Seq(Inodes) /\ disk.inode[n] \in InodeValues
  BY <1>1, <1>2, SMTT(30), ZenonT(30) DEF DiskStates, InodeValues
<1>4. /\ t.block = "dir" /\ t.at = b /\ t.val = Append(disk.dir[b], n)
      /\ u.block = "inode_bitmap" /\ u.at = g
      /\ u.val = disk.inode_bitmap[g] \cup {InodeBit(n)}
      /\ v.block = "inode" /\ v.at = n
      /\ v.val = [disk.inode[n] EXCEPT !.links = @ + 1]
  BY DEF Write
<1>5. u.val = disk.inode_bitmap[g]
  BY <1>1, <1>4, ZenonT(30), SMTT(30)
<1>6. v.val = [links |-> disk.inode[n].links + 1, block |-> disk.inode[n].block]
  BY <1>3, <1>4 DEF InodeValues
<1> HIDE DEF t, u, v, g, b
<1>7. /\ DOMAIN todo' = {1, 2, 3} /\ Len(todo') = 3
      /\ todo'[1] = t /\ todo'[2] = u /\ todo'[3] = v /\ todo' # <<>>
  <2>1. /\ DOMAIN todo' = {1, 2, 3} /\ Len(todo') = 3
        /\ todo'[1] = t /\ todo'[2] = u /\ todo'[3] = v
    BY <1>1, ThreeQueued
  <2> QED BY <2>1
<1>8. /\ Len(disk.dir[b]) <= Len(t.val)
      /\ \A i \in DOMAIN disk.dir[b] : t.val[i] = disk.dir[b][i]
  BY <1>3, <1>4, SMTT(30), ZenonT(30)
<1>9. QueueSound' /\ NoSuper'
  <2>1. \A k \in DOMAIN todo' : k = 1 \/ k = 2 \/ k = 3
    BY <1>7
  <2>2. \A j, k \in DOMAIN todo' : todo'[j].block = todo'[k].block => j = k
    BY <1>4, <1>7, <2>1, SMTT(30), ZenonT(30)
  <2>3. ASSUME NEW k \in DOMAIN todo', NEW x, x = todo'[k]
        PROVE  /\ x.block \notin {"desc", "super", "block_bitmap"}
               /\ x.block = "inode_bitmap" => disk'.inode_bitmap[x.at] \subseteq x.val
               /\ x.block = "dir" =>
                    /\ Len(disk'.dir[x.at]) <= Len(x.val)
                    /\ \A i \in DOMAIN disk'.dir[x.at] : x.val[i] = disk'.dir[x.at][i]
    <3>1. CASE x = t
      BY <1>1, <1>4, <1>8, <3>1, ZenonT(30), SMTT(30)
    <3>2. CASE x = u
      BY <1>1, <1>4, <3>2
    <3>3. CASE x = v
      BY <1>4, <3>3
    <3> QED BY <1>7, <2>1, <2>3, <3>1, <3>2, <3>3
  <2> QED BY <2>2, <2>3 DEF QueueSound, NoSuper
<1>10. /\ \A at, now : Settled(todo', "block_bitmap", at, now) = now
       /\ \A at, now : Settled(todo', "desc", at, now) = now
       /\ \A at, now : Settled(todo', "dir", at, now) = IF at = b THEN t.val ELSE now
       /\ \A at, now : Settled(todo', "inode_bitmap", at, now) =
                         IF at = g THEN u.val ELSE now
       /\ \A at, now : Settled(todo', "inode", at, now) = IF at = n THEN v.val ELSE now
  BY <1>4, <1>7, SettledThree
<1>16. disk' = disk
  BY <1>1, SMTT(30), ZenonT(30)
<1>11. InodeMaps' = InodeMaps
  <2>1. \A h \in GroupIds : Settled(todo', "inode_bitmap", h, disk'.inode_bitmap[h]) =
                               disk.inode_bitmap[h]
    <3> TAKE h \in GroupIds
    <3>1. disk'.inode_bitmap[h] = disk.inode_bitmap[h]
      BY <1>16, ZenonT(30), SMTT(30)
    <3> QED BY <1>5, <1>10, <3>1, ZenonT(30), SMTT(30)
  <2>2. InodeMaps' = [h \in GroupIds |-> disk.inode_bitmap[h]]
    BY <2>1, Zenon DEF InodeMaps
  <2> QED BY <1>1, <2>2, AtRest, SMTT(30), ZenonT(30) DEF BitMaps
<1>12. InodeTable' = [InodeTable EXCEPT ![n] = v.val]
  <2>1. \A m \in Inodes : Settled(todo', "inode", m, disk'.inode[m]) =
                             IF m = n THEN v.val ELSE disk.inode[m]
    BY <1>10, <1>16, ZenonT(30), SMTT(30)
  <2>2. InodeTable' = [m \in Inodes |-> IF m = n THEN v.val ELSE disk.inode[m]]
    BY <2>1, Zenon DEF InodeTable
  <2> QED BY <1>1, <2>2, AtRest, ZenonT(30), SMTT(30)
<1>13. Dirs' = [Dirs EXCEPT ![b] = Append(Dirs[b], n)]
  <2>1. \A c \in Blocks : Settled(todo', "dir", c, disk'.dir[c]) =
                             IF c = b THEN t.val ELSE disk.dir[c]
    BY <1>10, <1>16, ZenonT(30), SMTT(30)
  <2>2. Dirs' = [c \in Blocks |-> IF c = b THEN t.val ELSE disk.dir[c]]
    BY <2>1, Zenon DEF Dirs
  <2> QED BY <1>1, <1>4, <2>2, AtRest
<1>14. BlockMaps' = BlockMaps /\ Descs' = Descs
  <2>1. /\ BlockMaps' = [h \in GroupIds |-> disk.block_bitmap[h]]
        /\ Descs' = [h \in GroupIds |-> disk.desc[h]]
    BY <1>1, <1>4, <1>10, SMTT(30), ZenonT(30) DEF BlockMaps, Descs
  <2> QED BY <1>1, <2>1, AtRest DEF BitMaps
<1>15. /\ InodeTable = disk.inode /\ Dirs = disk.dir
  BY <1>1, AtRest
<1> QED BY <1>1, <1>3, <1>6, <1>7, <1>9, <1>11, <1>12, <1>13, <1>14, <1>15

(***************************************************************************)
(* A write reaches the disk: what blocks will hold stays as it is, and the *)
(* block written holds it now.                                             *)
(***************************************************************************)
LEMMA WriteSettles ==
  ASSUME Ext2Inv, QueueSound, ext2_write_blocks
  PROVE  Same
<1>1. todo # <<>> /\ todo \in Seq(Writes) /\ todo' = Tail(todo)
  BY DEF ext2_write_blocks, Ext2Inv, TodoSound
<1>2. Len(todo) # 0 /\ Head(todo) = todo[1] /\ todo[1] \in Writes
  BY <1>1
<1>3. PICK w \in Writes : w = todo[1]
  BY <1>2
<1>4. disk' = Stored(disk, w) /\ disk \in DiskStates
  BY <1>2, <1>3, Zenon DEF ext2_write_blocks, Stored, Ext2Inv, Ext2Type
<1>5. \A j, k \in DOMAIN todo : todo[j].block = todo[k].block => j = k
  BY DEF QueueSound
<1>6. \A block, at, now, then :
        then = (IF w.block = block /\ w.at = at THEN w.val ELSE now) =>
          Settled(todo', block, at, then) = Settled(todo, block, at, now)
  BY <1>1, <1>2, <1>3, <1>5, SettledTail
<1>7. BlockMaps' = BlockMaps
  <2>1. \A g \in GroupIds : Settled(todo', "block_bitmap", g, disk'.block_bitmap[g]) =
                            Settled(todo, "block_bitmap", g, disk.block_bitmap[g])
    BY <1>4, <1>6, StoredFields
  <2> QED BY <2>1, Zenon DEF BlockMaps
<1>8. InodeMaps' = InodeMaps
  <2>1. \A g \in GroupIds : Settled(todo', "inode_bitmap", g, disk'.inode_bitmap[g]) =
                            Settled(todo, "inode_bitmap", g, disk.inode_bitmap[g])
    BY <1>4, <1>6, StoredFields
  <2> QED BY <2>1, Zenon DEF InodeMaps
<1>9. Descs' = Descs
  <2>1. \A g \in GroupIds : Settled(todo', "desc", g, disk'.desc[g]) =
                            Settled(todo, "desc", g, disk.desc[g])
    BY <1>4, <1>6, StoredFields
  <2> QED BY <2>1, Zenon DEF Descs
<1>10. InodeTable' = InodeTable
  <2>1. \A n \in Inodes : Settled(todo', "inode", n, disk'.inode[n]) =
                          Settled(todo, "inode", n, disk.inode[n])
    BY <1>4, <1>6, StoredFields
  <2> QED BY <2>1, Zenon DEF InodeTable
<1>11. Dirs' = Dirs
  <2>1. \A b \in Blocks : Settled(todo', "dir", b, disk'.dir[b]) =
                          Settled(todo, "dir", b, disk.dir[b])
    BY <1>4, <1>6, StoredFields, SMTT(30), ZenonT(30)
  <2> QED BY <2>1, Zenon DEF Dirs
<1> QED BY <1>7, <1>8, <1>9, <1>10, <1>11 DEF Same

LEMMA StoredGrows ==
  ASSUME NEW d \in DiskStates, NEW w \in Writes,
         w.block = "block_bitmap" => d.block_bitmap[w.at] \subseteq w.val,
         w.block = "inode_bitmap" => d.inode_bitmap[w.at] \subseteq w.val,
         w.block = "dir" => /\ Len(d.dir[w.at]) <= Len(w.val)
                            /\ \A i \in DOMAIN d.dir[w.at] : w.val[i] = d.dir[w.at][i],
         NEW e, e = Stored(d, w)
  PROVE  /\ \A g \in GroupIds : d.block_bitmap[g] \subseteq e.block_bitmap[g]
         /\ \A g \in GroupIds : d.inode_bitmap[g] \subseteq e.inode_bitmap[g]
         /\ \A b \in Blocks : /\ Len(d.dir[b]) <= Len(e.dir[b])
                              /\ \A i \in DOMAIN d.dir[b] : e.dir[b][i] = d.dir[b][i]
<1>1. \A g \in GroupIds : d.block_bitmap[g] \subseteq e.block_bitmap[g]
  BY StoredFields, SMTT(30), ZenonT(30)
<1>2. \A g \in GroupIds : d.inode_bitmap[g] \subseteq e.inode_bitmap[g]
  BY StoredFields, SMTT(30), ZenonT(30)
<1>3. ASSUME NEW b \in Blocks
      PROVE  /\ Len(d.dir[b]) <= Len(e.dir[b])
             /\ \A i \in DOMAIN d.dir[b] : e.dir[b][i] = d.dir[b][i]
  <2>1. d.dir[b] \in Seq(Inodes)
    BY DEF DiskStates
  <2>2. CASE w.block = "dir" /\ b = w.at
    <3>1. e.dir[b] = w.val
      BY <2>2, StoredFields, SMTT(30), ZenonT(30)
    <3> QED BY <2>2, <3>1, SMTT(30), ZenonT(30)
  <2>3. CASE ~(w.block = "dir" /\ b = w.at)
    <3>1. e.dir[b] = d.dir[b]
      BY <2>3, StoredFields, SMTT(30), ZenonT(30)
    <3> QED BY <2>1, <3>1, SMTT(30), ZenonT(30)
  <2> QED BY <2>2, <2>3, SMTT(30), ZenonT(30)
<1> QED BY <1>1, <1>2, <1>3, SMTT(30), ZenonT(30)

LEMMA QueueShrinks ==
  ASSUME Ext2Inv, QueueSound, ext2_write_blocks
  PROVE  QueueSound'
<1>1. todo # <<>> /\ todo \in Seq(Writes) /\ todo' = Tail(todo)
  BY DEF ext2_write_blocks, Ext2Inv, TodoSound
<1>2. /\ Head(todo) = todo[1] /\ todo[1] \in Writes
      /\ Len(todo) \in Nat \ {0} /\ DOMAIN todo = 1 .. Len(todo)
  BY <1>1
<1>3. /\ Len(todo') = Len(todo) - 1 /\ DOMAIN todo' = 1 .. Len(todo')
      /\ \A k \in DOMAIN todo' : k + 1 \in DOMAIN todo /\ todo'[k] = todo[k + 1]
  BY <1>1, <1>2
<1>4. PICK w \in Writes : w = todo[1]
  BY <1>2
<1>5. disk' = Stored(disk, w) /\ disk \in DiskStates
  BY <1>2, <1>4, Zenon DEF ext2_write_blocks, Stored, Ext2Inv, Ext2Type
<1>6. ASSUME NEW j \in DOMAIN todo', NEW k \in DOMAIN todo', todo'[j].block = todo'[k].block
      PROVE  j = k
  <2>1. j + 1 \in DOMAIN todo /\ k + 1 \in DOMAIN todo /\ j \in Nat /\ k \in Nat
    BY <1>3
  <2>2. j + 1 = k + 1
    <3>1. \A l, m \in DOMAIN todo : todo[l].block = todo[m].block => l = m
      BY DEF QueueSound
    <3>2. todo'[j] = todo[j + 1] /\ todo'[k] = todo[k + 1]
      BY <1>3, SMTT(30), ZenonT(30)
    <3> QED BY <1>6, <2>1, <3>1, <3>2, SMTT(30), ZenonT(30)
  <2> QED BY <2>1, <2>2
<1>7. ASSUME NEW k \in DOMAIN todo'
      PROVE  /\ todo'[k].block \in {"desc", "super"} => k = Len(todo')
             /\ todo'[k].block = "block_bitmap" =>
                  disk'.block_bitmap[todo'[k].at] \subseteq todo'[k].val
             /\ todo'[k].block = "inode_bitmap" =>
                  disk'.inode_bitmap[todo'[k].at] \subseteq todo'[k].val
             /\ todo'[k].block = "dir" =>
                  /\ Len(disk'.dir[todo'[k].at]) <= Len(todo'[k].val)
                  /\ \A i \in DOMAIN disk'.dir[todo'[k].at] :
                       todo'[k].val[i] = disk'.dir[todo'[k].at][i]
  <2>1. k + 1 \in DOMAIN todo /\ k \in Nat /\ k + 1 # 1 /\ 1 \in DOMAIN todo
    BY <1>2, <1>3
  <2>2. PICK x \in Writes : x = todo'[k] /\ x = todo[k + 1]
    BY <1>1, <1>3, <2>1
  <2>3. x.block # w.block
    BY <1>4, <2>1, <2>2, Zenon DEF QueueSound
  <2>4. x.block \in {"desc", "super"} => k + 1 = Len(todo)
    BY <2>1, <2>2, Zenon DEF QueueSound
  <2>5. x.block \in {"desc", "super"} => k = Len(todo')
    BY <1>2, <1>3, <2>1, <2>4
  <2>6. x.block = "block_bitmap" => disk'.block_bitmap[x.at] \subseteq x.val
    <3>1. x.block = "block_bitmap" => disk.block_bitmap[x.at] \subseteq x.val
      BY <2>1, <2>2, Zenon DEF QueueSound
    <3>2. x.block = "block_bitmap" => x.at \in GroupIds
      BY <2>2 DEF Writes
    <3>3. x.block = "block_bitmap" => disk'.block_bitmap[x.at] = disk.block_bitmap[x.at]
      BY <1>5, <2>3, <3>2, StoredFields, SMTT(30), ZenonT(30)
    <3> QED BY <3>1, <3>3
  <2>7. x.block = "inode_bitmap" => disk'.inode_bitmap[x.at] \subseteq x.val
    <3>1. x.block = "inode_bitmap" => disk.inode_bitmap[x.at] \subseteq x.val
      BY <2>1, <2>2, Zenon DEF QueueSound
    <3>2. x.block = "inode_bitmap" => x.at \in GroupIds
      BY <2>2 DEF Writes
    <3>3. x.block = "inode_bitmap" => disk'.inode_bitmap[x.at] = disk.inode_bitmap[x.at]
      BY <1>5, <2>3, <3>2, StoredFields, SMTT(30), ZenonT(30)
    <3> QED BY <3>1, <3>3
  <2>8. x.block = "dir" =>
          /\ Len(disk'.dir[x.at]) <= Len(x.val)
          /\ \A i \in DOMAIN disk'.dir[x.at] : x.val[i] = disk'.dir[x.at][i]
    <3>1. x.block = "dir" =>
            /\ Len(disk.dir[x.at]) <= Len(x.val)
            /\ \A i \in DOMAIN disk.dir[x.at] : x.val[i] = disk.dir[x.at][i]
      <4>1. \A m \in DOMAIN todo : todo[m].block = "dir" =>
              /\ Len(disk.dir[todo[m].at]) <= Len(todo[m].val)
              /\ \A i \in DOMAIN disk.dir[todo[m].at] :
                   todo[m].val[i] = disk.dir[todo[m].at][i]
        BY DEF QueueSound
      <4>2. todo[k + 1].block = "dir" =>
              /\ Len(disk.dir[todo[k + 1].at]) <= Len(todo[k + 1].val)
              /\ \A i \in DOMAIN disk.dir[todo[k + 1].at] :
                   todo[k + 1].val[i] = disk.dir[todo[k + 1].at][i]
        BY <2>1, <4>1, SMTT(30), ZenonT(30)
      <4> QED BY <2>2, <4>2, SMTT(30), ZenonT(30)
    <3>2. x.block = "dir" => x.at \in Blocks
      BY <2>2, SMTT(30), ZenonT(30) DEF Writes
    <3>3. x.block = "dir" => disk'.dir[x.at] = disk.dir[x.at]
      BY <1>5, <2>3, <3>2, StoredFields, SMTT(30), ZenonT(30)
    <3> QED BY <3>1, <3>3, SMTT(30), ZenonT(30)
  <2> QED BY <2>2, <2>5, <2>6, <2>7, <2>8
<1> QED BY <1>6, <1>7 DEF QueueSound

(***************************************************************************)
(* For every size of the file system, and wherever power is lost: as long  *)
(* as the device refuses no write, a block on disk belongs to one inode at *)
(* the most and its bitmap says that it is in use, because allocate_blocks *)
(* writes the bitmap before it returns the block.                          *)
(***************************************************************************)
THEOREM CrashKeepsBlocks == Spec => []BlocksSound
<1>1. Ext2Inv => BlocksSound
  BY DEF Ext2Inv
<1> QED
  BY <1>1, InvariantHolds, PTL

(***************************************************************************)
(* With refused writes too: a file system on disk is marked valid only     *)
(* while it is neither mounted nor changed (ext2_mount_device takes the    *)
(* mark away first, ext2_unmount_device gives it back last).               *)
(***************************************************************************)
THEOREM MarkedWhileChanged == Spec => []MarkedUntilUnmount
<1>1. Ext2Inv => MarkedUntilUnmount
  <2> SUFFICES ASSUME Ext2Inv, disk.super[1].state = "valid"
               PROVE  /\ Idle => mnt = Unmounted
                      /\ \A k \in DOMAIN todo : todo[k].block = "super"
    BY DEF MarkedUntilUnmount
  <2>1. todo \in Seq(Writes) /\ DOMAIN todo = 1 .. Len(todo)
    BY DEF Ext2Inv, TodoSound
  <2>2. CASE Idle /\ mnt = Unmounted
    BY <2>2 DEF Idle
  <2>3. CASE Len(todo) = 1 /\ todo[1].block = "super"
    <3>1. ~Idle
      <4>1. Idle => Len(todo) = 0
        BY DEF Idle
      <4> QED
        BY <2>3, <4>1
    <3>2. \A k \in DOMAIN todo : k = 1
      BY <2>1, <2>3, SMTT(30), ZenonT(30)
    <3> QED
      BY <2>3, <3>1, <3>2
  <2> QED
    BY <2>2, <2>3 DEF Ext2Inv, MarkSound
<1> QED
  BY <1>1, InvariantHolds, PTL

-----------------------------------------------------------------------------
(***************************************************************************)
(* A write that is carried out leaves the counts covered.                  *)
(***************************************************************************)
LEMMA CountsWrite ==
  ASSUME Ext2Inv, Ext2Inv', CountsInv, ext2_write_blocks
  PROVE  CountsInv'
<1>1. todo # <<>> /\ todo \in Seq(Writes) /\ todo' = Tail(todo) /\ faults' = faults
  BY DEF ext2_write_blocks, Ext2Inv, TodoSound
<1>2. /\ Head(todo) = todo[1] /\ todo[1] \in Writes
      /\ Len(todo) \in Nat \ {0} /\ DOMAIN todo = 1 .. Len(todo)
  BY <1>1
<1>3. /\ Len(todo') = Len(todo) - 1 /\ todo' \in Seq(Writes)
      /\ \A k \in DOMAIN todo' : k + 1 \in DOMAIN todo /\ todo'[k] = todo[k + 1]
  BY <1>1, <1>2
<1>4. PICK w \in Writes : w = todo[1]
  BY <1>2
<1>5. /\ disk' = Stored(disk, w) /\ disk \in DiskStates /\ disk' \in DiskStates
      /\ mnt' = Unmounted \/ mnt' = mnt
  BY <1>2, <1>4, Zenon DEF ext2_write_blocks, Stored, Ext2Inv, Ext2Type
<1> SUFFICES ASSUME NoneRefused'
             PROVE  /\ QueueSound' /\ CountsSafe'
                    /\ CountsCover(Descs, BlockMaps, InodeMaps, InodeTable, Dirs)'
                    /\ \A k \in DOMAIN todo' : todo'[k].block = "super" =>
                         /\ todo'[k].val.free_blocks >= Cardinality(FreeBlocksIn(BlockMaps'))
                         /\ todo'[k].val.free_inodes >= Cardinality(FreeInodesIn(InodeMaps'))
                    /\ mnt' # Unmounted =>
                         /\ mnt'.free_blocks >= Cardinality(FreeBlocksIn(BlockMaps'))
                         /\ mnt'.free_inodes >= Cardinality(FreeInodesIn(InodeMaps'))
  BY DEF CountsInv
<1>6. NoneRefused
  BY <1>1, SMTT(30), ZenonT(30) DEF NoneRefused
<1>7. /\ QueueSound /\ CountsSafe
      /\ CountsCover(Descs, BlockMaps, InodeMaps, InodeTable, Dirs)
      /\ \A k \in DOMAIN todo : todo[k].block = "super" =>
           /\ todo[k].val.free_blocks >= Cardinality(FreeBlocksIn(BlockMaps))
           /\ todo[k].val.free_inodes >= Cardinality(FreeInodesIn(InodeMaps))
      /\ mnt # Unmounted =>
           /\ mnt.free_blocks >= Cardinality(FreeBlocksIn(BlockMaps))
           /\ mnt.free_inodes >= Cardinality(FreeInodesIn(InodeMaps))
  BY <1>6 DEF CountsInv
<1>8. /\ BlockMaps' = BlockMaps /\ InodeMaps' = InodeMaps /\ Descs' = Descs
      /\ InodeTable' = InodeTable /\ Dirs' = Dirs
  BY <1>7, WriteSettles, SMTT(30), ZenonT(30) DEF Same
<1>9. QueueSound'
  BY <1>7, QueueShrinks
<1>10. /\ 1 \in DOMAIN todo
       /\ w.block = "block_bitmap" => disk.block_bitmap[w.at] \subseteq w.val
       /\ w.block = "inode_bitmap" => disk.inode_bitmap[w.at] \subseteq w.val
       /\ w.block = "dir" =>
            /\ Len(disk.dir[w.at]) <= Len(w.val)
            /\ \A i \in DOMAIN disk.dir[w.at] : w.val[i] = disk.dir[w.at][i]
  <2>1. 1 \in DOMAIN todo
    BY <1>2, SMTT(30), ZenonT(30)
  <2> QED BY <1>4, <1>7, <2>1, Zenon DEF QueueSound
<1>11. /\ \A g \in GroupIds : disk.block_bitmap[g] \subseteq disk'.block_bitmap[g]
       /\ \A g \in GroupIds : disk.inode_bitmap[g] \subseteq disk'.inode_bitmap[g]
       /\ \A b \in Blocks : /\ Len(disk.dir[b]) <= Len(disk'.dir[b])
                            /\ \A i \in DOMAIN disk.dir[b] : disk'.dir[b][i] = disk.dir[b][i]
  BY <1>4, <1>5, <1>10, StoredGrows, SMTT(30), ZenonT(30)
<1>12. /\ disk.block_bitmap \in BitMaps(Bits) /\ disk'.block_bitmap \in BitMaps(Bits)
       /\ disk.inode_bitmap \in BitMaps(InodeBits) /\ disk'.inode_bitmap \in BitMaps(InodeBits)
       /\ disk.dir \in [Blocks -> Seq(Inodes)] /\ disk'.dir \in [Blocks -> Seq(Inodes)]
       /\ disk.desc \in [GroupIds -> GroupDescs] /\ disk.inode \in [Inodes -> InodeValues]
       /\ disk'.desc \in [GroupIds -> GroupDescs] /\ disk'.inode \in [Inodes -> InodeValues]
  BY <1>5 DEF DiskStates, BitMaps, InodeBits
<1>13. Len(todo) = 1 =>
         /\ BlockMaps' = disk'.block_bitmap /\ InodeMaps' = disk'.inode_bitmap
         /\ Descs' = disk'.desc /\ InodeTable' = disk'.inode /\ Dirs' = disk'.dir
  <2>1. Len(todo) = 1 => Len(todo') = 0
    BY <1>2, <1>3
  <2>2. Len(todo) = 1 => todo' = <<>>
    BY <1>3, <2>1, NoneLeft
  <2> QED BY <1>5, <2>2, SettledNext
<1>14. CountsCover(disk'.desc, disk'.block_bitmap, disk'.inode_bitmap, disk'.inode,
                   disk'.dir)
  <2>1. CASE Len(todo) = 1
    BY <1>7, <1>8, <1>13, <2>1, SMTT(30), ZenonT(30)
  <2>2. CASE Len(todo) # 1
    <3>1. w.block \notin {"desc", "super", "inode"}
      <4>1. w.block \in {"desc", "super"} => 1 = Len(todo)
        BY <1>4, <1>7, <1>10, Zenon DEF QueueSound
      <4>2. w.block = "inode" => 1 = Len(todo)
        BY <1>4, <1>10, Zenon DEF Ext2Inv, TodoSound
      <4> QED BY <2>2, <4>1, <4>2
    <3>2. disk'.desc = disk.desc
      <4>1. \A g \in GroupIds : disk'.desc[g] = disk.desc[g]
        BY <1>5, <3>1, StoredFields
      <4> QED BY <1>12, <4>1, SMTT(30), ZenonT(30)
    <3>3. disk'.inode = disk.inode
      <4>1. \A n \in Inodes : disk'.inode[n] = disk.inode[n]
        BY <1>5, <3>1, StoredFields
      <4>2. disk.inode \in [Inodes -> InodeValues] /\ disk'.inode \in [Inodes -> InodeValues]
        BY <1>12
      <4> QED BY <4>1, <4>2, SMTT(30), ZenonT(30)
    <3>4. CountsCover(disk.desc, disk.block_bitmap, disk.inode_bitmap, disk.inode, disk.dir)
      BY <1>6, <1>7 DEF CountsSafe
    <3>5. CountsCover(disk.desc, disk'.block_bitmap, disk'.inode_bitmap, disk.inode,
                      disk'.dir)
      <4>1. /\ MapsGrow(disk.block_bitmap, disk'.block_bitmap)
            /\ MapsGrow(disk.inode_bitmap, disk'.inode_bitmap)
            /\ DirsGrow(disk.dir, disk'.dir)
        BY <1>11 DEF MapsGrow, DirsGrow
      <4> QED BY <1>12, <3>4, <4>1, CoverGrows, Zenon
    <3> QED BY <3>2, <3>3, <3>5
  <2> QED BY <2>1, <2>2, SMTT(30), ZenonT(30)
<1>15. /\ disk'.super[1].free_blocks >= Cardinality(FreeBlocksIn(disk'.block_bitmap))
       /\ disk'.super[1].free_inodes >= Cardinality(FreeInodesIn(disk'.inode_bitmap))
  <2>1. CASE w.block = "super"
    <3>1. Len(todo) = 1
      BY <1>4, <1>10, <2>1, Zenon DEF Ext2Inv, TodoSound
    <3>2. disk'.super[1] = w.val
      BY <1>5, <2>1, StoredFields
    <3>3. /\ w.val.free_blocks >= Cardinality(FreeBlocksIn(BlockMaps))
          /\ w.val.free_inodes >= Cardinality(FreeInodesIn(InodeMaps))
      BY <1>4, <1>7, <1>10, <2>1, Zenon
    <3> QED BY <1>8, <1>13, <3>1, <3>2, <3>3
  <2>2. CASE w.block # "super"
    <3>1. disk'.super[1] = disk.super[1] /\ disk.super[1] \in SuperBlocks
      BY <1>5, <2>2, StoredFields, ZenonT(30), SMTT(30) DEF DiskStates
    <3>2. /\ disk.super[1].free_blocks >= Cardinality(FreeBlocksIn(disk.block_bitmap))
          /\ disk.super[1].free_inodes >= Cardinality(FreeInodesIn(disk.inode_bitmap))
      BY <1>6, <1>7 DEF CountsSafe
    <3>3. /\ disk.super[1].free_blocks \in Int /\ disk.super[1].free_inodes \in Int
      BY <3>1, SMTT(30), ZenonT(30) DEF SuperBlocks
    <3>4. /\ Cardinality(FreeBlocksIn(disk'.block_bitmap)) \in Nat
          /\ Cardinality(FreeBlocksIn(disk.block_bitmap)) \in Nat
          /\ Cardinality(FreeBlocksIn(disk'.block_bitmap)) <=
               Cardinality(FreeBlocksIn(disk.block_bitmap))
      BY <1>11, <1>12, MoreMarked, ZenonT(30), SMTT(30)
    <3>5. /\ Cardinality(FreeInodesIn(disk'.inode_bitmap)) \in Nat
          /\ Cardinality(FreeInodesIn(disk.inode_bitmap)) \in Nat
          /\ Cardinality(FreeInodesIn(disk'.inode_bitmap)) <=
               Cardinality(FreeInodesIn(disk.inode_bitmap))
      BY <1>11, <1>12, MoreInodes
    <3> QED BY <3>1, <3>2, <3>3, <3>4, <3>5
  <2> QED BY <2>1, <2>2
<1>16. CountsSafe'
  BY <1>14, <1>15, SMTT(30), ZenonT(30) DEF CountsSafe
<1>17. CountsCover(Descs, BlockMaps, InodeMaps, InodeTable, Dirs)'
  BY <1>7, <1>8
<1> QED BY <1>3, <1>5, <1>7, <1>8, <1>9, <1>16, <1>17, SMTT(30), ZenonT(30)

(***************************************************************************)
(* What the operations do to the counts, once their writes are done.       *)
(***************************************************************************)
Cover == CountsCover(Descs, BlockMaps, InodeMaps, InodeTable, Dirs)
Match == CountsMatch(Descs, BlockMaps, InodeMaps, InodeTable, Dirs)

\* The numbers of free blocks and free inodes there will be.
BlocksLeft == Cardinality(FreeBlocksIn(BlockMaps))
InodesLeft == Cardinality(FreeInodesIn(InodeMaps))

LEMMA RestTypes ==
  ASSUME Ext2Inv, Idle
  PROVE  /\ BlocksLeft \in Nat /\ InodesLeft \in Nat
         /\ \A g \in GroupIds :
              /\ Descs[g].free_blocks \in Int /\ Descs[g].free_inodes \in Int
              /\ Cardinality(Bits \ BlockMaps[g]) \in Nat
              /\ Cardinality(InodeMaps[g]) \in Nat
         /\ \A n \in Inodes : /\ InodeTable[n].links \in Nat
                              /\ Cardinality(EntriesIn(Dirs, n)) \in Nat
         /\ inodes_per_group \in Nat
         /\ mnt.free_blocks \in Int /\ mnt.free_inodes \in Int
<1>1. /\ BlockMaps \in BitMaps(Bits) /\ InodeMaps \in BitMaps(InodeBits)
      /\ Descs \in [GroupIds -> GroupDescs] /\ InodeTable \in [Inodes -> InodeValues]
  BY AtRest
<1>2. /\ BlocksLeft \in Nat /\ \A g \in GroupIds : Cardinality(Bits \ BlockMaps[g]) \in Nat
  <2>1. \A g \in GroupIds : BlockMaps[g] \subseteq BlockMaps[g]
    OBVIOUS
  <2> QED BY <1>1, <2>1, MoreMarked DEF BlocksLeft
<1>3. /\ InodesLeft \in Nat /\ \A g \in GroupIds : Cardinality(InodeMaps[g]) \in Nat
  <2>1. \A g \in GroupIds : InodeMaps[g] \subseteq InodeMaps[g]
    OBVIOUS
  <2> QED BY <1>1, <2>1, MoreInodes DEF InodesLeft
<1>4. /\ \A g \in GroupIds : Descs[g].free_blocks \in Int /\ Descs[g].free_inodes \in Int
      /\ \A n \in Inodes : InodeTable[n].links \in Nat
  BY <1>1 DEF GroupDescs, InodeValues
<1>5. mnt.free_blocks \in Int /\ mnt.free_inodes \in Int
  BY DEF Ext2Inv, Ext2Type
<1> QED BY <1>2, <1>3, <1>4, <1>5, EntriesFinite, Ext2Assumption, SMTT(30), ZenonT(30)

LEMMA BlockCounts ==
  ASSUME Ext2Inv, allocate_blocks
  PROVE  /\ (Cover => Cover') /\ (Match => Match')
         /\ BlocksLeft' = BlocksLeft - 1 /\ InodesLeft' = InodesLeft
<1>1. Idle
  BY DEF allocate_blocks, Mounted
<1>2. PICK g \in GroupIds, bit \in Bits :
        /\ bit \notin BlockMaps[g]
        /\ BlockMaps' = [BlockMaps EXCEPT ![g] = BlockMaps[g] \cup {bit}]
        /\ \A h \in GroupIds :
             /\ Descs'[h].free_inodes = Descs[h].free_inodes
             /\ Descs'[h].free_blocks =
                  IF h = g THEN Descs[h].free_blocks - 1 ELSE Descs[h].free_blocks
        /\ UNCHANGED <<InodeMaps, InodeTable, Dirs>>
  BY AllocateBlockSettles
<1>3. BlockMaps \in BitMaps(Bits)
  BY <1>1, AtRest
<1>4. /\ Cardinality(FreeBlocksIn(BlockMaps')) = Cardinality(FreeBlocksIn(BlockMaps)) - 1
      /\ Cardinality(Bits \ BlockMaps'[g]) = Cardinality(Bits \ BlockMaps[g]) - 1
      /\ \A h \in GroupIds \ {g} : BlockMaps'[h] = BlockMaps[h]
  <2>1. PICK maps, more : maps = BlockMaps /\ more = BlockMaps'
    OBVIOUS
  <2>2. maps \in BitMaps(Bits) /\ OneMore(maps, more, g, bit)
    BY <1>2, <1>3, <2>1 DEF BitMaps, OneMore
  <2>3. Cardinality(FreeBlocksIn(more)) = Cardinality(FreeBlocksIn(maps)) - 1
    BY <2>2, BlockMarked
  <2>4. Cardinality(Bits \ more[g]) = Cardinality(Bits \ maps[g]) - 1
    BY <2>2, Finites, OneTaken DEF OneMore
  <2>5. \A h \in GroupIds \ {g} : more[h] = maps[h]
    BY <2>2 DEF OneMore
  <2> QED BY <2>1, <2>3, <2>4, <2>5
<1>5. BlocksLeft' = BlocksLeft - 1 /\ InodesLeft' = InodesLeft
  BY <1>2, <1>4 DEF BlocksLeft, InodesLeft
<1>6. \A h \in GroupIds : Cardinality(Bits \ BlockMaps'[h]) =
        IF h = g THEN Cardinality(Bits \ BlockMaps[h]) - 1 ELSE Cardinality(Bits \ BlockMaps[h])
  BY <1>4
<1>7. InodeMaps' = InodeMaps /\ InodeTable' = InodeTable /\ Dirs' = Dirs
  BY <1>2
<1>8. ASSUME Cover PROVE Cover'
  <2>1. \A h \in GroupIds : /\ Descs'[h].free_blocks >= Cardinality(Bits \ BlockMaps'[h])
                            /\ Descs'[h].free_inodes >=
                                 inodes_per_group - Cardinality(InodeMaps'[h])
    <3> SUFFICES ASSUME NEW h \in GroupIds
                 PROVE  /\ Descs'[h].free_blocks >= Cardinality(Bits \ BlockMaps'[h])
                        /\ Descs'[h].free_inodes >=
                             inodes_per_group - Cardinality(InodeMaps'[h])
      OBVIOUS
    <3>1. /\ Descs[h].free_blocks \in Int /\ Descs[h].free_inodes \in Int
          /\ Cardinality(Bits \ BlockMaps[h]) \in Nat /\ Cardinality(InodeMaps[h]) \in Nat
          /\ inodes_per_group \in Nat
      BY <1>1, RestTypes
    <3>2. /\ Descs[h].free_blocks >= Cardinality(Bits \ BlockMaps[h])
          /\ Descs[h].free_inodes >= inodes_per_group - Cardinality(InodeMaps[h])
      BY <1>8 DEF Cover, CountsCover
    <3> QED BY <1>2, <1>6, <1>7, <3>1, <3>2, SMTT(30), ZenonT(30)
  <2>2. \A n \in Inodes : InodeTable'[n].links <= Cardinality(EntriesIn(Dirs', n))
    BY <1>7, <1>8, SMTT(30), ZenonT(30) DEF Cover, CountsCover
  <2> QED BY <2>1, <2>2 DEF Cover, CountsCover
<1>9. ASSUME Match PROVE Match'
  <2>1. \A h \in GroupIds : /\ Descs'[h].free_blocks = Cardinality(Bits \ BlockMaps'[h])
                            /\ Descs'[h].free_inodes =
                                 inodes_per_group - Cardinality(InodeMaps'[h])
    <3> SUFFICES ASSUME NEW h \in GroupIds
                 PROVE  /\ Descs'[h].free_blocks = Cardinality(Bits \ BlockMaps'[h])
                        /\ Descs'[h].free_inodes =
                             inodes_per_group - Cardinality(InodeMaps'[h])
      OBVIOUS
    <3>1. /\ Descs[h].free_blocks \in Int /\ Descs[h].free_inodes \in Int
          /\ Cardinality(Bits \ BlockMaps[h]) \in Nat /\ Cardinality(InodeMaps[h]) \in Nat
          /\ inodes_per_group \in Nat
      BY <1>1, RestTypes
    <3>2. /\ Descs[h].free_blocks = Cardinality(Bits \ BlockMaps[h])
          /\ Descs[h].free_inodes = inodes_per_group - Cardinality(InodeMaps[h])
      BY <1>9 DEF Match, CountsMatch
    <3> QED BY <1>2, <1>6, <1>7, <3>1, <3>2, SMTT(30), ZenonT(30)
  <2>2. \A n \in Inodes : InodeTable'[n].links = Cardinality(EntriesIn(Dirs', n))
    BY <1>7, <1>9 DEF Match, CountsMatch
  <2> QED BY <2>1, <2>2 DEF Match, CountsMatch
<1> QED BY <1>5, <1>8, <1>9

LEMMA InodeCounts ==
  ASSUME Ext2Inv, NEW n \in Inodes, NEW is_dir \in BOOLEAN, allocate_inode(n, is_dir)
  PROVE  /\ (Cover => Cover') /\ (Match => Match')
         /\ InodesLeft' = InodesLeft - 1 /\ BlocksLeft' = BlocksLeft
<1>1. Idle
  BY DEF allocate_inode, Mounted
<1>2. PICK g : g = GroupOf(n)
  OBVIOUS
<1>3. /\ InodeBit(n) \notin InodeMaps[g]
      /\ InodeMaps' = [InodeMaps EXCEPT ![g] = InodeMaps[g] \cup {InodeBit(n)}]
      /\ \A h \in GroupIds :
           /\ Descs'[h].free_blocks = Descs[h].free_blocks
           /\ Descs'[h].free_inodes =
                IF h = g THEN Descs[h].free_inodes - 1 ELSE Descs[h].free_inodes
      /\ BlockMaps' = BlockMaps /\ InodeTable' = InodeTable /\ Dirs' = Dirs
  BY <1>2, AllocateInodeSettles
<1>4. InodeMaps \in BitMaps(InodeBits)
  BY <1>1, AtRest
<1>5. /\ Cardinality(FreeInodesIn(InodeMaps')) = Cardinality(FreeInodesIn(InodeMaps)) - 1
      /\ Cardinality(InodeMaps'[g]) = Cardinality(InodeMaps[g]) + 1
      /\ \A h \in GroupIds \ {g} : InodeMaps'[h] = InodeMaps[h]
  <2>1. PICK maps, more : maps = InodeMaps /\ more = InodeMaps'
    BY SMTT(30), ZenonT(30)
  <2>2. maps \in BitMaps(InodeBits) /\ OneMore(maps, more, g, InodeBit(n))
    BY <1>2, <1>3, <1>4, <2>1, Numbers DEF BitMaps, OneMore
  <2>3. /\ Cardinality(FreeInodesIn(more)) = Cardinality(FreeInodesIn(maps)) - 1
        /\ Cardinality(more[g]) = Cardinality(maps[g]) + 1
        /\ \A h \in GroupIds \ {g} : more[h] = maps[h]
    BY <1>2, <2>2, InodeMarked, SMTT(30), ZenonT(30)
  <2> QED BY <2>1, <2>3
<1>6. InodesLeft' = InodesLeft - 1 /\ BlocksLeft' = BlocksLeft
  BY <1>3, <1>5 DEF BlocksLeft, InodesLeft
<1>7. \A h \in GroupIds : Cardinality(InodeMaps'[h]) =
        IF h = g THEN Cardinality(InodeMaps[h]) + 1 ELSE Cardinality(InodeMaps[h])
  BY <1>5
<1>8. ASSUME Cover PROVE Cover'
  <2>1. \A h \in GroupIds : /\ Descs'[h].free_blocks >= Cardinality(Bits \ BlockMaps'[h])
                            /\ Descs'[h].free_inodes >=
                                 inodes_per_group - Cardinality(InodeMaps'[h])
    <3> SUFFICES ASSUME NEW h \in GroupIds
                 PROVE  /\ Descs'[h].free_blocks >= Cardinality(Bits \ BlockMaps'[h])
                        /\ Descs'[h].free_inodes >=
                             inodes_per_group - Cardinality(InodeMaps'[h])
      OBVIOUS
    <3>1. /\ Descs[h].free_blocks \in Int /\ Descs[h].free_inodes \in Int
          /\ Cardinality(Bits \ BlockMaps[h]) \in Nat /\ Cardinality(InodeMaps[h]) \in Nat
          /\ inodes_per_group \in Nat
      BY <1>1, RestTypes
    <3>2. /\ Descs[h].free_blocks >= Cardinality(Bits \ BlockMaps[h])
          /\ Descs[h].free_inodes >= inodes_per_group - Cardinality(InodeMaps[h])
      BY <1>8 DEF Cover, CountsCover
    <3>3. /\ Descs'[h].free_blocks = Descs[h].free_blocks
          /\ Cardinality(Bits \ BlockMaps'[h]) = Cardinality(Bits \ BlockMaps[h])
          /\ Descs'[h].free_inodes =
               IF h = g THEN Descs[h].free_inodes - 1 ELSE Descs[h].free_inodes
          /\ Cardinality(InodeMaps'[h]) =
               IF h = g THEN Cardinality(InodeMaps[h]) + 1 ELSE Cardinality(InodeMaps[h])
      BY <1>3, <1>7
    <3>4. CASE h = g
      <4>1. PICK a, b, m : /\ a = Descs[h].free_inodes /\ b = Cardinality(InodeMaps[h])
                           /\ m = inodes_per_group
        OBVIOUS
      <4>2. a \in Int /\ b \in Nat /\ m \in Nat /\ a >= m - b
        BY <3>1, <3>2, <4>1, ZenonT(30), SMTT(30)
      <4>3. a - 1 >= m - (b + 1)
        BY <4>2
      <4> QED BY <3>2, <3>3, <3>4, <4>1, <4>3, ZenonT(30), SMTT(30)
    <3>5. CASE h # g
      BY <3>2, <3>3, <3>5, ZenonT(30), SMTT(30)
    <3> QED BY <3>4, <3>5
  <2>2. \A m \in Inodes : InodeTable'[m].links <= Cardinality(EntriesIn(Dirs', m))
    BY <1>3, <1>8 DEF Cover, CountsCover
  <2> QED BY <2>1, <2>2 DEF Cover, CountsCover
<1>9. ASSUME Match PROVE Match'
  <2>1. \A h \in GroupIds : /\ Descs'[h].free_blocks = Cardinality(Bits \ BlockMaps'[h])
                            /\ Descs'[h].free_inodes =
                                 inodes_per_group - Cardinality(InodeMaps'[h])
    <3> SUFFICES ASSUME NEW h \in GroupIds
                 PROVE  /\ Descs'[h].free_blocks = Cardinality(Bits \ BlockMaps'[h])
                        /\ Descs'[h].free_inodes =
                             inodes_per_group - Cardinality(InodeMaps'[h])
      OBVIOUS
    <3>1. /\ Descs[h].free_blocks \in Int /\ Descs[h].free_inodes \in Int
          /\ Cardinality(Bits \ BlockMaps[h]) \in Nat /\ Cardinality(InodeMaps[h]) \in Nat
          /\ inodes_per_group \in Nat
      BY <1>1, RestTypes
    <3>2. /\ Descs[h].free_blocks = Cardinality(Bits \ BlockMaps[h])
          /\ Descs[h].free_inodes = inodes_per_group - Cardinality(InodeMaps[h])
      BY <1>9, SMTT(30), ZenonT(30) DEF Match, CountsMatch
    <3>3. /\ Descs'[h].free_blocks = Descs[h].free_blocks
          /\ Cardinality(Bits \ BlockMaps'[h]) = Cardinality(Bits \ BlockMaps[h])
          /\ Descs'[h].free_inodes =
               IF h = g THEN Descs[h].free_inodes - 1 ELSE Descs[h].free_inodes
          /\ Cardinality(InodeMaps'[h]) =
               IF h = g THEN Cardinality(InodeMaps[h]) + 1 ELSE Cardinality(InodeMaps[h])
      BY <1>3, <1>7
    <3>4. CASE h = g BY <3>1, <3>2, <3>3, <3>4, SMTT(30), ZenonT(30)
    <3>5. CASE h # g BY <3>1, <3>2, <3>3, <3>5, SMTT(30), ZenonT(30)
    <3> QED BY <3>4, <3>5
  <2>2. \A m \in Inodes : InodeTable'[m].links = Cardinality(EntriesIn(Dirs', m))
    BY <1>3, <1>9, SMTT(30), ZenonT(30) DEF Match, CountsMatch
  <2> QED BY <2>1, <2>2 DEF Match, CountsMatch
<1> QED BY <1>6, <1>8, <1>9

LEMMA WriteInodeCounts ==
  ASSUME Ext2Inv, NEW n \in Inodes, NEW b \in Blocks, ext2_write_inode(n, b)
  PROVE  /\ Cover => Cover'
         /\ InodeBit(n) \in InodeMaps[GroupOf(n)] => InodeMaps' = InodeMaps
         /\ /\ Match /\ EntriesIn(Dirs, n) = {}
            /\ InodeBit(n) \in InodeMaps[GroupOf(n)]
            => Match'
         /\ BlocksLeft' = BlocksLeft
         /\ InodesLeft' \in Nat /\ InodesLeft' <= InodesLeft
<1>1. Idle
  BY DEF ext2_write_inode, Mounted
<1>2. PICK g : g = GroupOf(n)
  OBVIOUS
<1>3. /\ InodeMaps' = [InodeMaps EXCEPT ![g] = InodeMaps[g] \cup {InodeBit(n)}]
      /\ InodeTable' = [InodeTable EXCEPT ![n] = [links |-> 0, block |-> b]]
      /\ BlockMaps' = BlockMaps /\ Descs' = Descs /\ Dirs' = Dirs
  BY <1>2, WriteInodeSettles
<1>4. /\ g \in GroupIds /\ InodeBit(n) \in InodeBits
  BY <1>2, Numbers DEF InodeBits
<1>5. /\ InodeMaps \in BitMaps(InodeBits) /\ BlockMaps \in BitMaps(Bits)
      /\ Descs \in [GroupIds -> GroupDescs] /\ InodeTable \in [Inodes -> InodeValues]
      /\ Dirs \in [Blocks -> Seq(Inodes)]
  BY <1>1, AtRest
<1>6. InodeMaps' \in BitMaps(InodeBits) /\ MapsGrow(InodeMaps, InodeMaps')
  BY <1>3, <1>4, <1>5, SMTT(30), ZenonT(30) DEF BitMaps, MapsGrow
<1>7. InodesLeft' \in Nat /\ InodesLeft' <= InodesLeft /\ BlocksLeft' = BlocksLeft
  <2>1. \A h \in GroupIds : InodeMaps[h] \subseteq InodeMaps'[h]
    BY <1>6 DEF MapsGrow
  <2> QED BY <1>3, <1>5, <1>6, <2>1, MoreInodes DEF InodesLeft, BlocksLeft
<1>8. \A m \in Inodes : InodeTable'[m].links = IF m = n THEN 0 ELSE InodeTable[m].links
  BY <1>3, <1>5, SMTT(30), ZenonT(30)
<1>9. ASSUME Cover PROVE Cover'
  <2>1. CountsCover(Descs, BlockMaps, InodeMaps', InodeTable, Dirs)
    <3>1. MapsGrow(BlockMaps, BlockMaps) /\ DirsGrow(Dirs, Dirs)
      <4>1. \A c \in Blocks : Len(Dirs[c]) \in Nat
        BY <1>5
      <4> QED BY <4>1 DEF MapsGrow, DirsGrow
    <3>2. CountsCover(Descs, BlockMaps, InodeMaps, InodeTable, Dirs)
      BY <1>9, SMTT(30), ZenonT(30) DEF Cover
    <3> QED BY <1>5, <1>6, <3>1, <3>2, CoverGrows, Zenon
  <2>2. ASSUME NEW m \in Inodes
        PROVE  InodeTable'[m].links <= Cardinality(EntriesIn(Dirs, m))
    <3>1. /\ InodeTable[m].links <= Cardinality(EntriesIn(Dirs, m))
          /\ Cardinality(EntriesIn(Dirs, m)) \in Nat
      BY <2>1, EntriesFinite DEF CountsCover
    <3> QED BY <1>8, <3>1, SMTT(30), ZenonT(30)
  <2> QED BY <1>3, <2>1, <2>2 DEF Cover, CountsCover
<1>10. ASSUME InodeBit(n) \in InodeMaps[g] PROVE InodeMaps' = InodeMaps
  BY <1>3, <1>4, <1>5, <1>10, SMTT(30), ZenonT(30) DEF BitMaps
<1>11. ASSUME Match, EntriesIn(Dirs, n) = {}, InodeBit(n) \in InodeMaps[g] PROVE Match'
  <2>1. Cardinality(EntriesIn(Dirs, n)) = 0
    BY <1>11, FS_EmptySet
  <2>2. \A m \in Inodes : InodeTable'[m].links = Cardinality(EntriesIn(Dirs, m))
    BY <1>8, <1>11, <2>1, SMTT(30), ZenonT(30) DEF Match, CountsMatch
  <2> QED BY <1>3, <1>10, <1>11, <2>2, ZenonT(30), SMTT(30) DEF Match, CountsMatch
<1> QED BY <1>2, <1>7, <1>9, <1>10, <1>11

LEMMA AddLinkCounts ==
  ASSUME Ext2Inv, NEW d \in Inodes, NEW n \in Inodes, ext2_add_link(d, n)
  PROVE  /\ (Cover => Cover') /\ (Match => Match')
         /\ BlocksLeft' = BlocksLeft /\ InodesLeft' = InodesLeft
         /\ \A m \in Inodes \ {n} : EntriesIn(Dirs', m) = EntriesIn(Dirs, m)
         /\ \A m \in Inodes : InodeTable'[m].block = InodeTable[m].block
<1>1. Idle
  BY DEF ext2_add_link, Mounted
<1>2. /\ InodeMaps' = InodeMaps /\ BlockMaps' = BlockMaps /\ Descs' = Descs
      /\ InodeTable' = [InodeTable EXCEPT ![n] = [links |-> InodeTable[n].links + 1,
                                                  block |-> InodeTable[n].block]]
  BY AddLinkSettles
<1>3. PICK b \in Blocks : /\ Len(Dirs[b]) < MaxLinks
                          /\ Dirs' = [Dirs EXCEPT ![b] = Append(Dirs[b], n)]
  BY AddLinkSettles
<1>4. Dirs \in [Blocks -> Seq(Inodes)] /\ InodeTable \in [Inodes -> InodeValues]
  BY <1>1, AtRest
<1>5. OneEntryMore(Dirs, Dirs', b, n)
  BY <1>3, <1>4 DEF OneEntryMore
<1>6. /\ Cardinality(EntriesIn(Dirs', n)) = Cardinality(EntriesIn(Dirs, n)) + 1
      /\ \A m \in Inodes \ {n} : EntriesIn(Dirs', m) = EntriesIn(Dirs, m)
  <2>1. PICK dir, more : dir = Dirs /\ more = Dirs'
    OBVIOUS
  <2>2. /\ dir \in [Blocks -> Seq(Inodes)] /\ Len(dir[b]) < MaxLinks
        /\ OneEntryMore(dir, more, b, n)
    BY <1>3, <1>4, <1>5, <2>1
  <2>3. Cardinality(EntriesIn(more, n)) = Cardinality(EntriesIn(dir, n)) + 1
    BY <2>2, EntryAdded
  <2>4. \A m \in Inodes \ {n} : EntriesIn(more, m) = EntriesIn(dir, m)
    BY <2>2, EntryAdded
  <2> QED BY <2>1, <2>3, <2>4
<1>7. BlocksLeft' = BlocksLeft /\ InodesLeft' = InodesLeft
  BY <1>2 DEF BlocksLeft, InodesLeft
<1>8. \A m \in Inodes :
        /\ InodeTable'[m].links = IF m = n THEN InodeTable[m].links + 1
                                           ELSE InodeTable[m].links
        /\ InodeTable'[m].block = InodeTable[m].block
  BY <1>2, <1>4, SMTT(30), ZenonT(30)
<1>9. \A m \in Inodes : InodeTable[m].links \in Nat /\ Cardinality(EntriesIn(Dirs, m)) \in Nat
  BY <1>1, RestTypes
<1>10. ASSUME Cover PROVE Cover'
  <2>1. \A m \in Inodes : InodeTable[m].links <= Cardinality(EntriesIn(Dirs, m))
    BY <1>10, SMTT(30), ZenonT(30) DEF Cover, CountsCover
  <2>2. \A m \in Inodes : InodeTable'[m].links <= Cardinality(EntriesIn(Dirs', m))
    BY <1>6, <1>8, <1>9, <2>1, SMTT(30), ZenonT(30)
  <2> QED BY <1>2, <1>10, <2>2 DEF Cover, CountsCover
<1>11. ASSUME Match PROVE Match'
  <2>1. \A m \in Inodes : InodeTable[m].links = Cardinality(EntriesIn(Dirs, m))
    BY <1>11, SMTT(30), ZenonT(30) DEF Match, CountsMatch
  <2>2. \A m \in Inodes : InodeTable'[m].links = Cardinality(EntriesIn(Dirs', m))
    BY <1>6, <1>8, <1>9, <2>1, SMTT(30), ZenonT(30)
  <2> QED BY <1>2, <1>11, <2>2, SMTT(30), ZenonT(30) DEF Match, CountsMatch
<1> QED BY <1>6, <1>7, <1>8, <1>10, <1>11

(***************************************************************************)
(* A formatted disk has exact counts.                                      *)
(***************************************************************************)
LEMMA Formatted ==
  ASSUME Init
  PROVE  /\ Match /\ BlocksLeft = Groups * DataBlocks
         /\ InodesLeft = Groups * inodes_per_group
         /\ Groups * DataBlocks \in Nat /\ Groups * inodes_per_group \in Nat
         /\ disk.super[1] = [state |-> "valid", free_blocks |-> Groups * DataBlocks,
                             free_inodes |-> Groups * inodes_per_group]
         /\ \A n \in Inodes : EntriesIn(Dirs, n) = {} /\ InodeTable[n].block = 0
<1>1. /\ Groups \in Nat /\ inodes_per_group \in Nat \ {0} /\ DataBlocks \in Nat \ {0}
  BY Ext2Assumption, SMTT(30), ZenonT(30)
<1>2. /\ disk \in DiskStates /\ todo = <<>>
  BY InitHolds, ZenonT(30), SMTT(30) DEF Init, Ext2Inv, Ext2Type
<1>3. /\ BlockMaps = [g \in GroupIds |-> {}] /\ InodeMaps = [g \in GroupIds |-> {}]
      /\ Descs = [g \in GroupIds |-> [free_blocks |-> DataBlocks,
                                      free_inodes |-> inodes_per_group,
                                      used_dirs |-> 0]]
      /\ InodeTable = [n \in Inodes |-> NoInode]
      /\ Dirs = [b \in Blocks |-> <<>>]
      /\ disk.super[1] = [state |-> "valid", free_blocks |-> Groups * DataBlocks,
                          free_inodes |-> Groups * inodes_per_group]
  BY <1>2, SettledNow DEF Init
<1>4. Groups * DataBlocks \in Nat /\ Groups * inodes_per_group \in Nat
  BY <1>1
<1>5. Cardinality(Bits) = DataBlocks
  BY <1>1, FS_Interval DEF Bits
<1>6. BlocksLeft = Groups * DataBlocks
  <2>1. FreeBlocksIn(BlockMaps) = Blocks
    BY <1>3, Numbers DEF FreeBlocksIn
  <2>2. Cardinality(Blocks) = Groups * DataBlocks
    <3> DEFINE k == Groups * DataBlocks
    <3> HIDE DEF k
    <3>1. k \in Nat
      BY <1>4 DEF k
    <3>2. Cardinality(1 .. k) = k
      BY <3>1, FS_Interval, SMTT(30), ZenonT(30)
    <3> QED BY <3>2 DEF k, Blocks
  <2> QED BY <2>1, <2>2, SMTT(30), ZenonT(30) DEF BlocksLeft
<1>7. InodesLeft = Groups * inodes_per_group
  <2>1. FreeInodesIn(InodeMaps) = Inodes
    BY <1>3, Numbers DEF FreeInodesIn
  <2>2. Cardinality(Inodes) = Groups * inodes_per_group
    <3> DEFINE k == Groups * inodes_per_group
    <3> HIDE DEF k
    <3>1. k \in Nat
      BY <1>4 DEF k
    <3>2. Cardinality(1 .. k) = k
      BY <3>1, FS_Interval
    <3> QED BY <3>2 DEF k, Inodes
  <2> QED BY <2>1, <2>2 DEF InodesLeft
<1>8. ASSUME NEW n \in Inodes PROVE EntriesIn(Dirs, n) = {}
  <2>1. \A p \in Blocks \X (1 .. MaxLinks) : Len(Dirs[p[1]]) = 0 /\ p[2] > 0
    BY <1>3, Ext2Assumption, SMTT(30), ZenonT(30)
  <2> QED BY <2>1, Ext2Assumption, SMTT(30), ZenonT(30) DEF EntriesIn
<1>9. \A n \in Inodes : InodeTable[n].links = 0 /\ InodeTable[n].block = 0
  BY <1>3, SMTT(30), ZenonT(30) DEF NoInode
<1>10. Match
  <2>1. Cardinality({}) = 0
    BY FS_EmptySet, SMTT(30), ZenonT(30)
  <2>2. \A g \in GroupIds : /\ Descs[g].free_blocks = DataBlocks
                            /\ Descs[g].free_inodes = inodes_per_group
                            /\ Bits \ BlockMaps[g] = Bits /\ InodeMaps[g] = {}
    BY <1>3
  <2>3. \A g \in GroupIds :
          /\ Descs[g].free_blocks = Cardinality(Bits \ BlockMaps[g])
          /\ Descs[g].free_inodes = inodes_per_group - Cardinality(InodeMaps[g])
    <3>1. \A g \in GroupIds : /\ Cardinality(Bits \ BlockMaps[g]) = DataBlocks
                              /\ Cardinality(InodeMaps[g]) = 0
      BY <1>5, <2>1, <2>2, Zenon
    <3> QED BY <1>1, <2>2, <3>1
  <2>4. \A n \in Inodes : InodeTable[n].links = Cardinality(EntriesIn(Dirs, n))
    BY <1>8, <1>9, <2>1, ZenonT(30), SMTT(30)
  <2> QED BY <2>3, <2>4 DEF Match, CountsMatch
<1> QED BY <1>3, <1>4, <1>6, <1>7, <1>8, <1>9, <1>10, SMTT(30), ZenonT(30)

(***************************************************************************)
(* CountsInv, part by part.                                                *)
(***************************************************************************)
SupersCover ==
  \A k \in DOMAIN todo : todo[k].block = "super" =>
    todo[k].val.free_blocks >= BlocksLeft /\ todo[k].val.free_inodes >= InodesLeft
MountCovers ==
  mnt # Unmounted => mnt.free_blocks >= BlocksLeft /\ mnt.free_inodes >= InodesLeft

LEMMA CountsParts ==
  CountsInv <=> (NoneRefused => /\ QueueSound /\ CountsSafe
                                /\ Cover /\ SupersCover /\ MountCovers)
BY DEF CountsInv, Cover, SupersCover, MountCovers, BlocksLeft, InodesLeft

LEMMA CountsPartsNext ==
  CountsInv' <=> (NoneRefused' => /\ QueueSound' /\ CountsSafe'
                                  /\ Cover' /\ SupersCover' /\ MountCovers')
BY DEF CountsInv, Cover, SupersCover, MountCovers, BlocksLeft, InodesLeft

LEMMA CountsInit == Init => CountsInv
<1> SUFFICES ASSUME Init PROVE CountsInv
  OBVIOUS
<1>1. disk \in DiskStates /\ todo = <<>> /\ mnt = Unmounted /\ Ext2Inv /\ Idle
  BY InitHolds DEF Init, Ext2Inv, Ext2Type, Idle
<1>2. /\ BlockMaps = disk.block_bitmap /\ InodeMaps = disk.inode_bitmap
      /\ Descs = disk.desc /\ InodeTable = disk.inode /\ Dirs = disk.dir
  BY <1>1, SettledNow
<1>3. Cover
  <2>1. \A g \in GroupIds :
          /\ Descs[g].free_blocks = Cardinality(Bits \ BlockMaps[g])
          /\ Descs[g].free_inodes = inodes_per_group - Cardinality(InodeMaps[g])
          /\ Descs[g].free_blocks \in Int /\ Descs[g].free_inodes \in Int
    BY <1>1, Formatted, RestTypes DEF Match, CountsMatch
  <2>2. \A n \in Inodes : /\ InodeTable[n].links = Cardinality(EntriesIn(Dirs, n))
                          /\ InodeTable[n].links \in Nat
    BY <1>1, Formatted, RestTypes DEF Match, CountsMatch
  <2>3. \A g \in GroupIds :
          /\ Descs[g].free_blocks >= Cardinality(Bits \ BlockMaps[g])
          /\ Descs[g].free_inodes >= inodes_per_group - Cardinality(InodeMaps[g])
    BY <2>1
  <2>4. \A n \in Inodes : InodeTable[n].links <= Cardinality(EntriesIn(Dirs, n))
    BY <2>2
  <2> QED BY <2>3, <2>4, SMTT(30), ZenonT(30) DEF Cover, CountsCover
<1>4. disk.super[1].free_blocks >= BlocksLeft /\ disk.super[1].free_inodes >= InodesLeft
  BY Formatted, SMTT(30), ZenonT(30)
<1>5. CountsSafe
  BY <1>2, <1>3, <1>4 DEF CountsSafe, Cover, BlocksLeft, InodesLeft
<1>6. QueueSound /\ SupersCover /\ MountCovers
  BY <1>1 DEF QueueSound, SupersCover, MountCovers
<1> QED BY <1>3, <1>5, <1>6, CountsParts, SMTT(30), ZenonT(30)

LEMMA CountsSuper ==
  ASSUME Ext2Inv, CountsInv, ext2_mount_device \/ ext2_unmount_device
  PROVE  CountsInv'
<1>1. PICK u : /\ Idle /\ todo' = <<u>> /\ u.block = "super"
               /\ UNCHANGED <<disk, obtained, faults>>
               /\ u.val.free_blocks = mnt'.free_blocks
               /\ u.val.free_inodes = mnt'.free_inodes
               /\ \/ mnt' = mnt /\ mnt # Unmounted
                  \/ /\ mnt'.free_blocks = disk.super[1].free_blocks
                     /\ mnt'.free_inodes = disk.super[1].free_inodes
  BY DEF ext2_mount_device, ext2_unmount_device, Mounted, Super, Write
<1>2. /\ Same /\ QueueSound' /\ DOMAIN todo' = {1} /\ todo'[1] = u
  BY <1>1, SuperSettles
<1> SUFFICES ASSUME NoneRefused'
             PROVE  QueueSound' /\ CountsSafe' /\ Cover' /\ SupersCover' /\ MountCovers'
  BY CountsPartsNext
<1>3. NoneRefused /\ QueueSound /\ CountsSafe /\ Cover /\ SupersCover /\ MountCovers
  BY <1>1, CountsParts DEF NoneRefused
<1>4. BlocksLeft' = BlocksLeft /\ InodesLeft' = InodesLeft
  BY <1>2 DEF Same, BlocksLeft, InodesLeft
<1>5. Cover'
  BY <1>2, <1>3, SMTT(30), ZenonT(30) DEF Same, Cover
<1>6. CountsSafe'
  BY <1>1, <1>3, SMTT(30), ZenonT(30) DEF CountsSafe, NoneRefused
<1>7. disk.super[1].free_blocks >= BlocksLeft /\ disk.super[1].free_inodes >= InodesLeft
  BY <1>1, <1>3, AtRest, SMTT(30), ZenonT(30) DEF CountsSafe, BlocksLeft, InodesLeft
<1>8. mnt'.free_blocks >= BlocksLeft /\ mnt'.free_inodes >= InodesLeft
  BY <1>1, <1>3, <1>7 DEF MountCovers
<1>9. MountCovers'
  BY <1>4, <1>8 DEF MountCovers
<1>10. SupersCover'
  BY <1>1, <1>2, <1>4, <1>8 DEF SupersCover
<1> QED BY <1>2, <1>5, <1>6, <1>9, <1>10, SMTT(30), ZenonT(30)

LEMMA CountsOperation ==
  ASSUME Ext2Inv, CountsInv, Mounted, disk' = disk, faults' = faults,
         QueueSound', NoSuper', Cover => Cover',
         Cover /\ MountCovers => MountCovers'
  PROVE  CountsInv'
<1> SUFFICES ASSUME NoneRefused'
             PROVE  QueueSound' /\ CountsSafe' /\ Cover' /\ SupersCover' /\ MountCovers'
  BY CountsPartsNext
<1>1. NoneRefused /\ QueueSound /\ CountsSafe /\ Cover /\ SupersCover /\ MountCovers
  BY CountsParts DEF NoneRefused
<1>2. CountsSafe'
  BY <1>1 DEF CountsSafe, NoneRefused
<1>3. SupersCover'
  BY DEF SupersCover, NoSuper
<1> QED BY <1>1, <1>2, <1>3

LEMMA CountsStep ==
  ASSUME Ext2Inv, Ext2Inv', CountsInv, [Next]_vars
  PROVE  CountsInv'
<1>1. CASE ext2_mount_device \/ ext2_unmount_device
  BY <1>1, CountsSuper
<1>2. ASSUME NEW n \in Inodes, NEW is_dir \in BOOLEAN, allocate_inode(n, is_dir)
      PROVE  CountsInv'
  <2>1. Mounted /\ disk' = disk /\ faults' = faults /\ Idle
    BY <1>2 DEF allocate_inode, Mounted
  <2>2. /\ QueueSound' /\ NoSuper' /\ mnt'.free_blocks = mnt.free_blocks
        /\ mnt'.free_inodes = mnt.free_inodes - 1
    BY <1>2, AllocateInodeSettles
  <2>3. (Cover => Cover') /\ InodesLeft' = InodesLeft - 1 /\ BlocksLeft' = BlocksLeft
    BY <1>2, InodeCounts, SMTT(30), ZenonT(30)
  <2>4. MountCovers => MountCovers'
    BY <2>1, <2>2, <2>3, RestTypes DEF MountCovers, Mounted
  <2> QED BY <2>1, <2>2, <2>3, <2>4, CountsOperation
<1>3. CASE allocate_blocks
  <2>1. Mounted /\ disk' = disk /\ faults' = faults /\ Idle
    BY <1>3 DEF allocate_blocks, Mounted
  <2>2. /\ QueueSound' /\ NoSuper' /\ mnt'.free_blocks = mnt.free_blocks - 1
        /\ mnt'.free_inodes = mnt.free_inodes
    BY <1>3, AllocateBlockSettles
  <2>3. (Cover => Cover') /\ BlocksLeft' = BlocksLeft - 1 /\ InodesLeft' = InodesLeft
    BY <1>3, BlockCounts
  <2>4. MountCovers => MountCovers'
    BY <2>1, <2>2, <2>3, RestTypes DEF MountCovers, Mounted
  <2> QED BY <2>1, <2>2, <2>3, <2>4, CountsOperation
<1>4. ASSUME NEW n \in Inodes, NEW b \in Blocks, ext2_write_inode(n, b)
      PROVE  CountsInv'
  <2>1. Mounted /\ disk' = disk /\ faults' = faults /\ Idle /\ mnt' = mnt
    BY <1>4, SMTT(30), ZenonT(30) DEF ext2_write_inode, Mounted
  <2>2. QueueSound' /\ NoSuper'
    BY <1>4, WriteInodeSettles, ZenonT(30), SMTT(30)
  <2>3. /\ (Cover => Cover') /\ BlocksLeft' = BlocksLeft
        /\ InodesLeft' \in Nat /\ InodesLeft' <= InodesLeft
    BY <1>4, WriteInodeCounts
  <2>4. MountCovers => MountCovers'
    BY <2>1, <2>3, RestTypes DEF MountCovers, Mounted
  <2> QED BY <2>1, <2>2, <2>3, <2>4, CountsOperation, SMTT(30), ZenonT(30)
<1>5. ASSUME NEW d \in Inodes, NEW n \in Inodes, ext2_add_link(d, n)
      PROVE  CountsInv'
  <2>1. Mounted /\ disk' = disk /\ faults' = faults /\ mnt' = mnt
    BY <1>5 DEF ext2_add_link
  <2>2. QueueSound' /\ NoSuper'
    BY <1>5, AddLinkSettles
  <2>3. (Cover => Cover') /\ BlocksLeft' = BlocksLeft /\ InodesLeft' = InodesLeft
    BY <1>5, AddLinkCounts
  <2>4. MountCovers => MountCovers'
    BY <2>1, <2>3 DEF MountCovers
  <2> QED BY <2>1, <2>2, <2>3, <2>4, CountsOperation
<1>6. CASE ext2_write_blocks
  BY <1>6, CountsWrite
<1>7. CASE WriteFails
  <2>1. faults.failures \in Nat /\ faults' = [faults EXCEPT !.failures = @ + 1]
    BY <1>7 DEF WriteFails, Ext2Inv, Ext2Type
  <2>2. faults'.failures = faults.failures + 1
    BY <2>1 DEF Ext2Inv, Ext2Type
  <2>3. ~NoneRefused'
    BY <2>1, <2>2 DEF NoneRefused
  <2> QED BY <2>3, CountsPartsNext
<1>8. CASE Crash
  <2>1. /\ mnt' = Unmounted /\ todo' = <<>> /\ disk' = disk
        /\ faults' = [faults EXCEPT !.crashes = @ + 1]
    BY <1>8 DEF Crash
  <2>2. NoneRefused' <=> NoneRefused
    BY <2>1 DEF NoneRefused, Ext2Inv, Ext2Type
  <2>3. disk' \in DiskStates
    BY DEF Ext2Inv, Ext2Type
  <2>4. /\ BlockMaps' = disk'.block_bitmap /\ InodeMaps' = disk'.inode_bitmap
        /\ Descs' = disk'.desc /\ InodeTable' = disk'.inode /\ Dirs' = disk'.dir
    BY <2>1, <2>3, SettledNext, SMTT(30), ZenonT(30)
  <2>5. ASSUME NoneRefused PROVE CountsSafe' /\ Cover'
    <3>1. CountsSafe
      BY <2>5, CountsParts
    <3>2. CountsSafe'
      BY <2>1, <2>2, <3>1 DEF CountsSafe
    <3> QED BY <2>2, <2>4, <2>5, <3>2 DEF CountsSafe, Cover
  <2>6. QueueSound' /\ SupersCover' /\ MountCovers'
    BY <2>1, SMTT(30), ZenonT(30) DEF QueueSound, SupersCover, MountCovers
  <2> QED BY <2>2, <2>5, <2>6, CountsPartsNext, SMTT(30), ZenonT(30)
<1>9. CASE UNCHANGED vars
  <2>1. UNCHANGED <<disk, mnt, todo, obtained, faults>>
    BY <1>9, SMTT(30), ZenonT(30) DEF vars
  <2>2. Same
    BY <2>1 DEF Same, BlockMaps, InodeMaps, Descs, InodeTable, Dirs
  <2>3. BlocksLeft' = BlocksLeft /\ InodesLeft' = InodesLeft /\ Cover' = Cover
    BY <2>2 DEF Same, BlocksLeft, InodesLeft, Cover
  <2> QED BY <2>1, <2>3, CountsParts, CountsPartsNext, ZenonT(30), SMTT(30)
          DEF NoneRefused, QueueSound, CountsSafe, SupersCover, MountCovers
<1> QED
  BY <1>1, <1>2, <1>3, <1>4, <1>5, <1>6, <1>7, <1>8, <1>9, SMTT(30), ZenonT(30) DEF Next

(***************************************************************************)
(* For every size of the file system, and wherever power is lost while no  *)
(* write is refused: the free counts on disk never promise less than the   *)
(* bitmaps leave free, and no inode counts a link without an entry, so a   *)
(* crash of allocate_blocks, allocate_inode or ext2_add_link loses a count *)
(* and never a block, an inode or an entry.                                *)
(***************************************************************************)
THEOREM CrashKeepsCounts == Spec => []CountsSafe
<1>1. Ext2Inv /\ Ext2Inv' /\ CountsInv /\ [Next]_vars => CountsInv'
  BY CountsStep, SMTT(30), ZenonT(30)
<1>2. CountsInv => CountsSafe
  BY CountsParts DEF CountsSafe
<1> QED
  BY CountsInit, InvariantHolds, <1>1, <1>2, PTL DEF Spec

(***************************************************************************)
(* ExactInv, part by part.                                                 *)
(***************************************************************************)
NoFault == NoneRefused /\ faults.crashes = 0
Exact(counts) == counts.free_blocks = BlocksLeft /\ counts.free_inodes = InodesLeft
SupersExact == \A k \in DOMAIN todo : todo[k].block = "super" => Exact(todo[k].val)
MountExact == mnt # Unmounted => Exact(mnt)
DiskExact == mnt = Unmounted \/ disk.super[1].state = "valid" => Exact(disk.super[1])
Working == todo # <<>> => mnt # Unmounted
InodesSound ==
  \A n \in Inodes :
    /\ InodeTable[n].block # 0 => InodeBit(n) \in InodeMaps[GroupOf(n)]
    /\ EntriesIn(Dirs, n) # {} => InodeTable[n].block # 0
    /\ n \in obtained.inodes =>
         InodeTable[n].block = 0 /\ InodeBit(n) \in InodeMaps[GroupOf(n)]

LEMMA ExactParts ==
  ExactInv <=> (NoFault => /\ Match /\ Working /\ DiskExact /\ SupersExact
                           /\ MountExact /\ InodesSound)
BY Zenon DEF ExactInv, NoFault, Match, Working, DiskExact, SupersExact, MountExact,
             InodesSound, Exact, BlocksLeft, InodesLeft

LEMMA ExactPartsNext ==
  ExactInv' <=> (NoFault' => /\ Match' /\ Working' /\ DiskExact' /\ SupersExact'
                             /\ MountExact' /\ InodesSound')
BY Zenon DEF ExactInv, NoFault, Match, Working, DiskExact, SupersExact, MountExact,
             InodesSound, Exact, BlocksLeft, InodesLeft

LEMMA ExactInit == Init => ExactInv
<1> SUFFICES ASSUME Init PROVE ExactInv
  OBVIOUS
<1>1. todo = <<>> /\ mnt = Unmounted /\ obtained = Nothing
  BY DEF Init
<1>2. Working /\ SupersExact /\ MountExact
  BY <1>1 DEF Working, SupersExact, MountExact
<1>3. DiskExact
  BY Formatted, SMTT(30), ZenonT(30) DEF DiskExact, Exact
<1>4. InodesSound
  BY <1>1, Formatted DEF InodesSound, Nothing
<1> QED BY <1>2, <1>3, <1>4, Formatted, ExactParts, SMTT(30), ZenonT(30)

LEMMA ExactSuper ==
  ASSUME Ext2Inv, ExactInv, ext2_mount_device \/ ext2_unmount_device
  PROVE  ExactInv'
<1>1. PICK u : /\ Idle /\ todo' = <<u>> /\ u.block = "super"
               /\ UNCHANGED <<disk, obtained, faults>>
               /\ u.val.free_blocks = mnt'.free_blocks
               /\ u.val.free_inodes = mnt'.free_inodes
               /\ \/ mnt' = mnt /\ mnt # Unmounted
                  \/ /\ mnt'.free_blocks = disk.super[1].free_blocks
                     /\ mnt'.free_inodes = disk.super[1].free_inodes
                     /\ mnt = Unmounted
  <2>1. CASE ext2_mount_device
    <3>1. PICK c : c = [free_blocks |-> disk.super[1].free_blocks,
                        free_inodes |-> disk.super[1].free_inodes]
      OBVIOUS
    <3>2. /\ Idle /\ mnt = Unmounted /\ mnt' = c /\ todo' = <<Super("error", c)>>
          /\ UNCHANGED <<disk, obtained, faults>>
      BY <2>1, <3>1, ZenonT(30), SMTT(30) DEF ext2_mount_device
    <3>3. PICK u : u = Super("error", c)
      OBVIOUS
    <3>4. /\ u.block = "super" /\ u.val.free_blocks = c.free_blocks
          /\ u.val.free_inodes = c.free_inodes
      BY <3>3, SMTT(30), ZenonT(30) DEF Super, Write
    <3>5. /\ c.free_blocks = disk.super[1].free_blocks
          /\ c.free_inodes = disk.super[1].free_inodes
      BY <3>1
    <3> QED BY <3>2, <3>3, <3>4, <3>5, ZenonT(30), SMTT(30)
  <2>2. CASE ext2_unmount_device
    <3>1. PICK u : u = Super("valid", mnt)
      OBVIOUS
    <3>2. /\ Idle /\ mnt # Unmounted /\ todo' = <<u>> /\ mnt' = mnt
          /\ UNCHANGED <<disk, obtained, faults>>
      BY <2>2, <3>1, ZenonT(30), SMTT(30) DEF ext2_unmount_device, Mounted
    <3>3. /\ u.block = "super" /\ u.val.free_blocks = mnt.free_blocks
          /\ u.val.free_inodes = mnt.free_inodes
      BY <3>1, SMTT(30), ZenonT(30) DEF Super, Write
    <3> QED BY <3>2, <3>3, ZenonT(30), SMTT(30)
  <2> QED BY <2>1, <2>2
<1>2. /\ Same /\ QueueSound' /\ DOMAIN todo' = {1} /\ todo'[1] = u
  BY <1>1, SuperSettles
<1> SUFFICES ASSUME NoFault'
             PROVE  /\ Match' /\ Working' /\ DiskExact' /\ SupersExact'
                    /\ MountExact' /\ InodesSound'
  BY ExactPartsNext
<1>3. /\ Match /\ Working /\ DiskExact /\ SupersExact /\ MountExact /\ InodesSound
  BY <1>1, ExactParts DEF NoFault, NoneRefused
<1>4. BlocksLeft' = BlocksLeft /\ InodesLeft' = InodesLeft
  BY <1>2 DEF Same, BlocksLeft, InodesLeft
<1>5. Match'
  BY <1>2, <1>3, SMTT(30), ZenonT(30) DEF Same, Match
<1>7. mnt'.free_blocks = BlocksLeft /\ mnt'.free_inodes = InodesLeft
  BY <1>1, <1>3, SMTT(30), ZenonT(30) DEF MountExact, DiskExact, Exact
<1>8. mnt' # Unmounted
  BY <1>1, <1>7, RestTypes DEF Unmounted
<1>9. Working' /\ MountExact'
  BY <1>4, <1>7, <1>8, SMTT(30), ZenonT(30) DEF Working, MountExact, Exact
<1>10. SupersExact'
  BY <1>1, <1>2, <1>4, <1>7, SMTT(30), ZenonT(30) DEF SupersExact, Exact
<1>11. DiskExact'
  BY <1>1, <1>3, <1>4, <1>8, SMTT(30), ZenonT(30) DEF DiskExact, Exact
<1>12. InodesSound'
  BY <1>1, <1>2, <1>3 DEF Same, InodesSound
<1> QED BY <1>5, <1>9, <1>10, <1>11, <1>12, SMTT(30), ZenonT(30)

LEMMA ExactOperation ==
  ASSUME Ext2Inv, ExactInv, Mounted, disk' = disk, faults' = faults, NoSuper',
         NoFault /\ Match /\ MountExact /\ InodesSound =>
           Match' /\ mnt' # Unmounted /\ MountExact' /\ InodesSound'
  PROVE  ExactInv'
<1> SUFFICES ASSUME NoFault'
             PROVE  /\ Match' /\ Working' /\ DiskExact' /\ SupersExact'
                    /\ MountExact' /\ InodesSound'
  BY ExactPartsNext
<1>1. NoFault /\ Match /\ MountExact /\ InodesSound
  BY ExactParts DEF NoFault, NoneRefused
<1>2. /\ Match' /\ mnt' # Unmounted /\ MountExact' /\ InodesSound'
  BY <1>1
<1>3. disk.super[1].state # "valid"
  <2>1. todo = <<>> /\ mnt # Unmounted
    BY DEF Mounted, Idle
  <2>2. Len(todo) # 1
    BY <2>1
  <2> QED BY <2>1, <2>2 DEF Ext2Inv, MarkSound
<1>4. DiskExact'
  BY <1>2, <1>3 DEF DiskExact
<1>5. Working' /\ SupersExact'
  BY <1>2 DEF Working, SupersExact, NoSuper
<1> QED BY <1>2, <1>4, <1>5

LEMMA ExactWrite ==
  ASSUME Ext2Inv, CountsInv, ExactInv, ext2_write_blocks
  PROVE  ExactInv'
<1>1. todo # <<>> /\ todo \in Seq(Writes) /\ todo' = Tail(todo) /\ faults' = faults
  BY DEF ext2_write_blocks, Ext2Inv, TodoSound
<1>2. /\ Head(todo) = todo[1] /\ todo[1] \in Writes /\ 1 \in DOMAIN todo
      /\ Len(todo) \in Nat \ {0} /\ DOMAIN todo = 1 .. Len(todo)
  BY <1>1
<1>3. /\ Len(todo') = Len(todo) - 1
      /\ \A k \in DOMAIN todo' : k + 1 \in DOMAIN todo /\ todo'[k] = todo[k + 1]
  BY <1>1, <1>2
<1>4. PICK w \in Writes : w = todo[1]
  BY <1>2
<1> DEFINE ends == w.block = "super" /\ w.val.state = "valid"
<1>5. /\ disk' = Stored(disk, w) /\ disk \in DiskStates
      /\ mnt' = IF ends THEN Unmounted ELSE mnt
      /\ obtained' = IF ends THEN Nothing ELSE obtained
  BY <1>2, <1>4, Zenon DEF ext2_write_blocks, Stored, Ext2Inv, Ext2Type
<1> SUFFICES ASSUME NoFault'
             PROVE  /\ Match' /\ Working' /\ DiskExact' /\ SupersExact'
                    /\ MountExact' /\ InodesSound'
  BY ExactPartsNext
<1>6. NoneRefused /\ Match /\ Working /\ DiskExact /\ SupersExact /\ MountExact /\ InodesSound
  BY <1>1, ExactParts DEF NoFault, NoneRefused
<1>7. Same
  BY <1>6, CountsParts, WriteSettles
<1>8. BlocksLeft' = BlocksLeft /\ InodesLeft' = InodesLeft
  BY <1>7 DEF Same, BlocksLeft, InodesLeft
<1>9. Match'
  BY <1>6, <1>7, SMTT(30), ZenonT(30) DEF Same, Match
<1>10. disk'.super[1] = IF w.block = "super" THEN w.val ELSE disk.super[1]
  BY <1>5, StoredFields, ZenonT(30), SMTT(30)
<1>11. w.block = "super" => Len(todo) = 1 /\ Exact(w.val)
  <2>1. w.block = "super" => Len(todo) = 1
    BY <1>2, <1>4, Zenon DEF Ext2Inv, TodoSound
  <2>2. w.block = "super" => Exact(w.val)
    BY <1>2, <1>4, <1>6, Zenon DEF SupersExact
  <2> QED BY <2>1, <2>2
<1>12. mnt # Unmounted
  BY <1>1, <1>6 DEF Working
<1>13. Working'
  <2>1. CASE w.block = "super"
    <3>1. Len(todo') = 0
      BY <1>3, <1>11, <2>1, SMTT(30), ZenonT(30)
    <3>2. todo' \in Seq(Writes)
      BY <1>1
    <3>3. todo' = <<>>
      BY <3>1, <3>2, NoneLeft
    <3> QED BY <3>3 DEF Working
  <2>2. CASE w.block # "super"
    BY <1>5, <1>12, <2>2, SMTT(30), ZenonT(30) DEF Working
  <2> QED BY <2>1, <2>2
<1>14. DiskExact'
  BY <1>5, <1>6, <1>8, <1>10, <1>11, <1>12, SMTT(30), ZenonT(30) DEF DiskExact, Exact
<1>15. SupersExact'
  BY <1>3, <1>6, <1>8, SMTT(30), ZenonT(30) DEF SupersExact, Exact
<1>16. MountExact'
  BY <1>5, <1>6, <1>8, SMTT(30), ZenonT(30) DEF MountExact, Exact
<1>17. InodesSound'
  <2>1. obtained'.inodes \subseteq obtained.inodes
    BY <1>5 DEF Nothing
  <2> QED BY <1>6, <1>7, <2>1, SMTT(30), ZenonT(30) DEF Same, InodesSound
<1> QED BY <1>9, <1>13, <1>14, <1>15, <1>16, <1>17, SMTT(30), ZenonT(30)

LEMMA ExactStep ==
  ASSUME Ext2Inv, CountsInv, ExactInv, [Next]_vars
  PROVE  ExactInv'
<1>1. CASE ext2_mount_device \/ ext2_unmount_device
  BY <1>1, ExactSuper, SMTT(30), ZenonT(30)
<1>2. ASSUME NEW n \in Inodes, NEW is_dir \in BOOLEAN, allocate_inode(n, is_dir)
      PROVE  ExactInv'
  <2>1. Mounted /\ disk' = disk /\ faults' = faults /\ Idle /\ mnt # Unmounted
    BY <1>2, SMTT(30), ZenonT(30) DEF allocate_inode, Mounted
  <2>2. /\ NoSuper' /\ mnt'.free_blocks = mnt.free_blocks
        /\ mnt'.free_inodes = mnt.free_inodes - 1
        /\ InodeBit(n) \notin InodeMaps[GroupOf(n)]
        /\ InodeMaps' = [InodeMaps EXCEPT
                           ![GroupOf(n)] = InodeMaps[GroupOf(n)] \cup {InodeBit(n)}]
        /\ InodeTable' = InodeTable /\ Dirs' = Dirs
        /\ obtained'.inodes = obtained.inodes \cup {n}
    BY <1>2, AllocateInodeSettles
  <2>3. (Match => Match') /\ InodesLeft' = InodesLeft - 1 /\ BlocksLeft' = BlocksLeft
    BY <1>2, InodeCounts, SMTT(30), ZenonT(30)
  <2>4. ASSUME MountExact PROVE mnt' # Unmounted /\ MountExact'
    <3>1. mnt.free_blocks = BlocksLeft /\ mnt.free_inodes = InodesLeft
      BY <2>1, <2>4, SMTT(30), ZenonT(30) DEF MountExact, Exact
    <3>2. mnt'.free_blocks \in Nat
      BY <2>1, <2>2, <3>1, RestTypes, SMTT(30), ZenonT(30)
    <3> QED BY <2>2, <2>3, <3>1, <3>2 DEF MountExact, Exact, Unmounted
  <2>5. ASSUME InodesSound PROVE InodesSound'
    <3>1. \A m \in Inodes : GroupOf(m) \in GroupIds
      BY Numbers, SMTT(30), ZenonT(30)
    <3>2. \A g \in GroupIds : InodeMaps[g] \subseteq InodeMaps'[g]
      BY <2>1, <2>2, AtRest, SMTT(30), ZenonT(30) DEF BitMaps
    <3>3. InodeBit(n) \in InodeMaps'[GroupOf(n)]
      BY <2>1, <2>2, <3>1, AtRest, SMTT(30), ZenonT(30) DEF BitMaps
    <3>4. InodeTable[n].block = 0
      BY <2>2, <2>5 DEF InodesSound
    <3> QED BY <2>2, <2>5, <3>1, <3>2, <3>3, <3>4, SMTT(30), ZenonT(30) DEF InodesSound
  <2> QED BY <2>1, <2>2, <2>3, <2>4, <2>5, ExactOperation
<1>3. CASE allocate_blocks
  <2>1. Mounted /\ disk' = disk /\ faults' = faults /\ Idle /\ mnt # Unmounted
    BY <1>3 DEF allocate_blocks, Mounted
  <2>2. /\ NoSuper' /\ mnt'.free_blocks = mnt.free_blocks - 1
        /\ mnt'.free_inodes = mnt.free_inodes
        /\ InodeMaps' = InodeMaps /\ InodeTable' = InodeTable /\ Dirs' = Dirs
        /\ obtained'.inodes = obtained.inodes
    BY <1>3, AllocateBlockSettles
  <2>3. (Match => Match') /\ BlocksLeft' = BlocksLeft - 1 /\ InodesLeft' = InodesLeft
    BY <1>3, BlockCounts
  <2>4. ASSUME MountExact PROVE mnt' # Unmounted /\ MountExact'
    <3>1. mnt.free_blocks = BlocksLeft /\ mnt.free_inodes = InodesLeft
      BY <2>1, <2>4, SMTT(30), ZenonT(30) DEF MountExact, Exact
    <3>2. mnt'.free_inodes \in Nat
      BY <2>1, <2>2, <3>1, RestTypes, SMTT(30), ZenonT(30)
    <3> QED BY <2>2, <2>3, <3>1, <3>2 DEF MountExact, Exact, Unmounted
  <2>5. ASSUME InodesSound PROVE InodesSound'
    BY <2>2, <2>5, SMTT(30), ZenonT(30) DEF InodesSound
  <2> QED BY <2>1, <2>2, <2>3, <2>4, <2>5, ExactOperation
<1>4. ASSUME NEW n \in Inodes, NEW b \in Blocks, ext2_write_inode(n, b)
      PROVE  ExactInv'
  <2>1. Mounted /\ disk' = disk /\ faults' = faults /\ Idle /\ mnt' = mnt /\ mnt # Unmounted
    BY <1>4, SMTT(30), ZenonT(30) DEF ext2_write_inode, Mounted
  <2>2. /\ NoSuper' /\ n \in obtained.inodes
        /\ InodeTable' = [InodeTable EXCEPT ![n] = [links |-> 0, block |-> b]]
        /\ Dirs' = Dirs /\ obtained'.inodes = obtained.inodes \ {n}
    BY <1>4, WriteInodeSettles, SMTT(30), ZenonT(30)
  <2>3. /\ InodeBit(n) \in InodeMaps[GroupOf(n)] => InodeMaps' = InodeMaps
        /\ /\ Match /\ EntriesIn(Dirs, n) = {}
           /\ InodeBit(n) \in InodeMaps[GroupOf(n)]
           => Match'
        /\ BlocksLeft' = BlocksLeft
    BY <1>4, WriteInodeCounts, SMTT(30), ZenonT(30)
  <2>4. InodesSound =>
          /\ InodeBit(n) \in InodeMaps[GroupOf(n)] /\ EntriesIn(Dirs, n) = {}
          /\ InodeMaps' = InodeMaps /\ InodesLeft' = InodesLeft
    BY <2>2, <2>3, SMTT(30), ZenonT(30) DEF InodesSound, InodesLeft
  <2>5. ASSUME InodesSound PROVE InodesSound'
    <3>1. b # 0
      BY DEF Blocks
    <3>2. \A m \in Inodes : InodeTable'[m].block = IF m = n THEN b ELSE InodeTable[m].block
      BY <2>1, <2>2, AtRest, SMTT(30), ZenonT(30)
    <3> QED BY <2>2, <2>4, <2>5, <3>1, <3>2 DEF InodesSound
  <2>6. ASSUME MountExact, InodesSound PROVE MountExact'
    BY <2>1, <2>3, <2>4, <2>6, SMTT(30), ZenonT(30) DEF MountExact, Exact
  <2> QED BY <2>1, <2>2, <2>3, <2>4, <2>5, <2>6, ExactOperation, SMTT(30), ZenonT(30)
<1>5. ASSUME NEW d \in Inodes, NEW n \in Inodes, ext2_add_link(d, n)
      PROVE  ExactInv'
  <2>1. /\ Mounted /\ disk' = disk /\ faults' = faults /\ mnt' = mnt /\ mnt # Unmounted
        /\ obtained' = obtained
    BY <1>5 DEF ext2_add_link, Mounted
  <2>2. NoSuper' /\ InodeMaps' = InodeMaps /\ InodeTable[n].block # 0
    BY <1>5, AddLinkSettles, SMTT(30), ZenonT(30)
  <2>3. /\ (Match => Match') /\ BlocksLeft' = BlocksLeft /\ InodesLeft' = InodesLeft
        /\ \A m \in Inodes \ {n} : EntriesIn(Dirs', m) = EntriesIn(Dirs, m)
        /\ \A m \in Inodes : InodeTable'[m].block = InodeTable[m].block
    BY <1>5, AddLinkCounts, SMTT(30), ZenonT(30)
  <2>4. MountExact => MountExact'
    BY <2>1, <2>3, SMTT(30), ZenonT(30) DEF MountExact, Exact
  <2>5. ASSUME InodesSound PROVE InodesSound'
    BY <2>1, <2>2, <2>3, <2>5 DEF InodesSound
  <2> QED BY <2>1, <2>2, <2>3, <2>4, <2>5, ExactOperation, SMTT(30), ZenonT(30)
<1>6. CASE ext2_write_blocks
  BY <1>6, ExactWrite
<1>7. CASE WriteFails
  <2>1. faults.failures \in Nat /\ faults' = [faults EXCEPT !.failures = @ + 1]
    BY <1>7 DEF WriteFails, Ext2Inv, Ext2Type
  <2>2. faults'.failures = faults.failures + 1
    BY <2>1 DEF Ext2Inv, Ext2Type
  <2>3. ~NoFault'
    BY <2>1, <2>2 DEF NoFault, NoneRefused
  <2> QED BY <2>3, ExactPartsNext
<1>8. CASE Crash
  <2>1. faults.crashes \in Nat /\ faults' = [faults EXCEPT !.crashes = @ + 1]
    BY <1>8 DEF Crash, Ext2Inv, Ext2Type
  <2>2. faults'.crashes = faults.crashes + 1
    BY <2>1 DEF Ext2Inv, Ext2Type
  <2>3. ~NoFault'
    BY <2>1, <2>2, SMTT(30), ZenonT(30) DEF NoFault
  <2> QED BY <2>3, ExactPartsNext
<1>9. CASE UNCHANGED vars
  <2>1. UNCHANGED <<disk, mnt, todo, obtained, faults>>
    BY <1>9, SMTT(30), ZenonT(30) DEF vars
  <2>2. Same
    BY <2>1 DEF Same, BlockMaps, InodeMaps, Descs, InodeTable, Dirs
  <2>3. BlocksLeft' = BlocksLeft /\ InodesLeft' = InodesLeft /\ Match' = Match
    BY <2>2, SMTT(30), ZenonT(30) DEF Same, BlocksLeft, InodesLeft, Match
  <2>4. InodesSound' = InodesSound
    BY <2>1, <2>2, SMTT(30), ZenonT(30) DEF Same, InodesSound
  <2> QED BY <2>1, <2>3, <2>4, ExactParts, ExactPartsNext
          DEF NoFault, NoneRefused, Working, DiskExact, SupersExact, MountExact, Exact
<1> QED
  BY <1>1, <1>2, <1>3, <1>4, <1>5, <1>6, <1>7, <1>8, <1>9, SMTT(30), ZenonT(30) DEF Next

LEMMA ExactWhenValid ==
  ASSUME Ext2Inv, ExactInv
  PROVE  ValidIsExact
<1> SUFFICES ASSUME NoneRefused, faults.crashes = 0, disk.super[1].state = "valid"
             PROVE  /\ CountsMatch(disk.desc, disk.block_bitmap, disk.inode_bitmap,
                                   disk.inode, disk.dir)
                    /\ disk.super[1].free_blocks =
                         Cardinality(FreeBlocksIn(disk.block_bitmap))
                    /\ disk.super[1].free_inodes =
                         Cardinality(FreeInodesIn(disk.inode_bitmap))
  BY SMTT(30), ZenonT(30) DEF ValidIsExact
<1>1. Match /\ Exact(disk.super[1])
  BY ExactParts DEF NoFault, DiskExact
<1>2. todo = <<>> \/ \E u : todo = <<u>> /\ u.block = "super"
  <2>1. CASE Idle
    BY <2>1 DEF Idle
  <2>2. CASE ~Idle
    <3>1. Len(todo) = 1 /\ todo[1].block = "super" /\ todo \in Seq(Writes)
      BY <2>2 DEF Ext2Inv, MarkSound, TodoSound
    <3>2. todo = <<todo[1]>>
      BY <3>1
    <3> QED BY <3>1, <3>2
  <2> QED BY <2>1, <2>2
<1>3. /\ BlockMaps = disk.block_bitmap /\ InodeMaps = disk.inode_bitmap
      /\ Descs = disk.desc /\ InodeTable = disk.inode /\ Dirs = disk.dir
  BY <1>2, SettledNow DEF Ext2Inv, Ext2Type
<1> QED BY <1>1, <1>3, SMTT(30), ZenonT(30) DEF Match, Exact, BlocksLeft, InodesLeft

(***************************************************************************)
(* For every size of the file system: as long as no power is lost and no   *)
(* write refused, a disk that ext2_unmount_device has marked valid has     *)
(* exact counts.  Superblock and descriptor table say what the bitmaps     *)
(* leave free, and every inode has as many links as entries name it.       *)
(***************************************************************************)
THEOREM UnmountedExact == Spec => []ValidIsExact
<1>1. Ext2Inv /\ Ext2Inv' /\ CountsInv /\ [Next]_vars => CountsInv'
  BY CountsStep
<1>2. Ext2Inv /\ CountsInv /\ ExactInv /\ [Next]_vars => ExactInv'
  BY ExactStep
<1>3. Ext2Inv /\ ExactInv => ValidIsExact
  BY ExactWhenValid
<1> QED
  BY CountsInit, ExactInit, InvariantHolds, <1>1, <1>2, <1>3, PTL DEF Spec
=============================================================================
