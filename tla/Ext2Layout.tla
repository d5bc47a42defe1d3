----------------------------- MODULE Ext2Layout -----------------------------
(***************************************************************************)
(* What the first half of ext2_format_device puts on a device: the counts  *)
(* of the superblock, the block group descriptors, and group after group   *)
(* the bitmaps and the inode table at the running position curr_block.     *)
(* The sizes are constants, so that a small device has the same corner     *)
(* cases as a large one; a bitmap is its sequence of bytes.                *)
(***************************************************************************)
EXTENDS Integers, FiniteSets, Functions, Sequences

CONSTANTS
  byte_bits,           \* bits of a byte
  block_size,          \* bytes of a block, and so of a bitmap
  inode_table_length,  \* blocks of a group's inode table
  inodes_per_group,
  desc_size,           \* sizeof(ext2_block_group_descriptor_t)
  reduced_count,       \* the group count that is to fit into one block
  Sizes                \* sizes of the devices looked at, in blocks

ASSUME LayoutAssumption ==
  /\ {byte_bits, block_size, inode_table_length, inodes_per_group, desc_size,
      reduced_count} \subseteq Nat \ {0}
  /\ Sizes \subseteq Nat
  /\ block_size * byte_bits <= 65536 /\ inodes_per_group <= block_size * byte_bits

blocks_per_group == block_size * byte_bits
Metadata == inode_table_length + 4
Uint16(n) == n % 65536
Pow2[n \in 0 .. byte_bits] == IF n = 0 THEN 1 ELSE 2 * Pow2[n - 1]
Byte(n) == n % Pow2[byte_bits]
AllOnes == Pow2[byte_bits] - 1

VARIABLES
  blocks,        \* s_blocks_count
  desc,          \* the block group descriptors, by group
  super,         \* the free counts of the superblock
  i,             \* the next group to write
  curr_block,
  block_bitmap,  \* initial_block_bitmap, byte 0 first
  placed         \* what was written where, by group

layoutVars == <<blocks, desc, super, i, curr_block, block_bitmap, placed>>

-----------------------------------------------------------------------------
\* n times: shift left, add one.
Ones(byte, n) ==
  LET ones[k \in 0 .. n] == IF k = 0 THEN byte ELSE Byte(2 * ones[k - 1] + 1)
  IN ones[n]

setup_initial_block_bitmap ==
  [k \in 1 .. block_size |->
     CASE k - 1 < Metadata \div byte_bits -> AllOnes
       [] k - 1 = Metadata \div byte_bits -> Ones(0, Metadata % byte_bits)
       [] OTHER -> 0]

setup_initial_inode_bitmap ==
  LET full == inodes_per_group \div byte_bits
  IN [k \in 1 .. block_size |->
        CASE k - 1 < full -> 0
          [] k - 1 = full -> Byte(AllOnes * Pow2[inodes_per_group % byte_bits])
          [] OTHER -> AllOnes]

block_group_count(n) ==
  LET count == n \div blocks_per_group + 1
  IN IF count * desc_size > block_size THEN reduced_count ELSE count

\* Faulty variant: block 0, which belongs to no group, is counted.
fill_block_group_descriptor_Block0(n, g) ==
  [bg_block_bitmap |-> g * blocks_per_group + 3,
   bg_inode_bitmap |-> g * blocks_per_group + 4,
   bg_inode_table |-> g * blocks_per_group + 5,
   bg_free_blocks_count |->
     Uint16(IF (g + 1) * blocks_per_group > n
              THEN n - g * blocks_per_group - Metadata
              ELSE blocks_per_group - Metadata),
   bg_free_inodes_count |-> inodes_per_group]

\* Faulty variant: the copy of the descriptor table is forgotten.
fill_block_group_descriptor_NoTable(n, g) ==
  [bg_block_bitmap |-> g * blocks_per_group + 3,
   bg_inode_bitmap |-> g * blocks_per_group + 4,
   bg_inode_table |-> g * blocks_per_group + 5,
   bg_free_blocks_count |->
     Uint16(IF (g + 1) * blocks_per_group > n
              THEN n - g * blocks_per_group - Metadata - 1
              ELSE blocks_per_group - Metadata + 1),
   bg_free_inodes_count |-> inodes_per_group]

fill_block_group_descriptor(n, g) ==
  [bg_block_bitmap |-> g * blocks_per_group + 3,
   bg_inode_bitmap |-> g * blocks_per_group + 4,
   bg_inode_table |-> g * blocks_per_group + 5,
   bg_free_blocks_count |->
     Uint16(IF (g + 1) * blocks_per_group > n
              THEN n - g * blocks_per_group - Metadata - 1
              ELSE blocks_per_group - Metadata),
   bg_free_inodes_count |-> inodes_per_group]

SumOver(f) == FoldFunction(LAMBDA a, b : a + b, 0, f)

\* The superblock's free counts are the sums of the descriptors'.
fill_superblock(d) ==
  [free_blocks |-> SumOver([g \in DOMAIN d |-> d[g].bg_free_blocks_count]),
   free_inodes |-> SumOver([g \in DOMAIN d |-> d[g].bg_free_inodes_count])]

LayoutInit(n) ==
  LET d == [g \in 0 .. block_group_count(n) - 1 |->
              fill_block_group_descriptor(n, g)]
  IN /\ blocks = n /\ desc = d
     /\ super = fill_superblock(d)
     /\ i = 0 /\ curr_block = 1 /\ placed = <<>>
     /\ block_bitmap = setup_initial_block_bitmap

\* The last group's bitmap also covers blocks behind the end of the device.
\* A byte behind the bitmap is no part of it.
Padded(bitmap, free_blocks) ==
  LET breaking_byte == free_blocks \div byte_bits
  IN [k \in 1 .. block_size |->
        CASE k - 1 < breaking_byte -> bitmap[k]
          [] k - 1 = breaking_byte ->
               AllOnes - Ones(bitmap[k], free_blocks % byte_bits)
          [] OTHER -> AllOnes]

WriteGroup ==
  LET last == i = Cardinality(DOMAIN desc) - 1
      free == desc[i].bg_free_blocks_count
      bitmap == IF last THEN Padded(block_bitmap, free + Metadata)
                        ELSE block_bitmap
  IN /\ i \in DOMAIN desc
     /\ block_bitmap' = bitmap
     /\ placed' = Append(placed, [super |-> curr_block,
                                  block_bitmap_at |-> curr_block + 2,
                                  block_bitmap |-> bitmap,
                                  inode_bitmap_at |-> curr_block + 3,
                                  inode_bitmap |-> setup_initial_inode_bitmap,
                                  inode_table_at |-> curr_block + 4])
     /\ curr_block' = curr_block + Metadata + free
     /\ i' = i + 1
     /\ UNCHANGED <<blocks, desc, super>>

LayoutSpec == (\E n \in Sizes : LayoutInit(n)) /\ [][WriteGroup]_layoutVars

-----------------------------------------------------------------------------
\* The clear bits of a bitmap.
Clear(bitmap) ==
  {b \in 0 .. blocks_per_group - 1 :
     (bitmap[b \div byte_bits + 1] \div Pow2[b % byte_bits]) % 2 = 0}

\* The bits of group g whose blocks are inside the device and hold no metadata.
DataBits(g) ==
  {b \in Metadata .. blocks_per_group - 1 : g * blocks_per_group + 1 + b < blocks}

\* The descriptors fit into one block, and the last group has its metadata and
\* its first byte of data blocks on the device.
RoomInLast ==
  /\ (blocks \div blocks_per_group + 1) * desc_size <= block_size
  /\ (Metadata \div byte_bits + 1) * byte_bits < blocks % blocks_per_group

(***************************************************************************)
(* What a group's block bitmap leaves clear is exactly the group's data    *)
(* blocks on the device, and the descriptor counts as many.                *)
(***************************************************************************)
BitmapsMatchCounts ==
  \A k \in 1 .. Len(placed) :
    /\ Clear(placed[k].block_bitmap) = DataBits(k - 1)
    /\ Cardinality(DataBits(k - 1)) = desc[k - 1].bg_free_blocks_count
    /\ Cardinality(Clear(placed[k].inode_bitmap))
         = desc[k - 1].bg_free_inodes_count

(***************************************************************************)
(* The running position puts the bitmaps and the inode table of each group *)
(* where its descriptor says they are, and inside the device.              *)
(***************************************************************************)
MetadataInPlace ==
  \A k \in 1 .. Len(placed) :
    /\ placed[k].block_bitmap_at = desc[k - 1].bg_block_bitmap
    /\ placed[k].inode_bitmap_at = desc[k - 1].bg_inode_bitmap
    /\ placed[k].inode_table_at = desc[k - 1].bg_inode_table
    /\ placed[k].inode_table_at + inode_table_length <= blocks

(***************************************************************************)
(* ext2_format_device leaves a device whose bitmaps, counts and positions  *)
(* agree with one another, for every size whose descriptors fit into their *)
(* block and whose last group has room.                                    *)
(***************************************************************************)
LayoutRight == RoomInLast => BitmapsMatchCounts /\ MetadataInPlace

-----------------------------------------------------------------------------
(***************************************************************************)
(* The inductive invariant behind LayoutRight.  Up to the last group the   *)
(* bitmap is the initial one, and the groups lie one behind the other.     *)
(***************************************************************************)
LayoutInv ==
  /\ blocks \in Nat /\ i \in Nat /\ i <= block_group_count(blocks)
  /\ desc = [g \in 0 .. block_group_count(blocks) - 1 |->
               fill_block_group_descriptor(blocks, g)]
  /\ Len(placed) = i
  /\ RoomInLast /\ i < block_group_count(blocks) =>
       /\ block_bitmap = setup_initial_block_bitmap
       /\ curr_block = i * blocks_per_group + 1
  /\ LayoutRight
=============================================================================
