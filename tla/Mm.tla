--------------------------------- MODULE Mm ---------------------------------
(***************************************************************************)
(* The page-frame allocator (kernel/mm/mm.c) and the page tables it writes *)
(* (kernel/arch/i686/paging/paging.c).                                     *)
(*                                                                         *)
(* Memory is counted in blocks of 4096 bytes.  Physical and virtual memory *)
(* are both 4 GB, so frames and pages are numbered by the same set Blocks. *)
(* A bitmap is the set of the blocks whose bit is 1.                       *)
(***************************************************************************)
EXTENDS Integers, FiniteSets

CONSTANTS
  NBlocks,       \* 2^20 in the code: frames, and pages
  LowBlocks,     \* pages identity-mapped at boot (10 tables of 1024)
  KernelBase,    \* first kernel page (0xC0000)
  KernelBlocks,  \* pages of the kernel image mapped at boot (4 tables)
  KernelVm,      \* pages mm_init marks in mm_vm_alloc_bitmap
  FreeAtBoot     \* frames mm_init leaves free

Blocks == 0 .. NBlocks - 1

ASSUME MmAssumption ==
  /\ NBlocks \in Nat \ {0}
  /\ LowBlocks \in 0 .. NBlocks
  /\ KernelBase \in Blocks /\ KernelBlocks \in Nat
  /\ KernelVm \subseteq Blocks
  /\ FreeAtBoot \subseteq Blocks

VARIABLES
  pageBitmap,  \* mm_page_alloc_bitmap: frames in use
  vmBitmap,    \* mm_vm_alloc_bitmap: pages in use
  pageTable,   \* page_tables: one entry per page
  exhausted    \* history: mm_alloc has been called with no free frame left

mmVars == <<pageBitmap, vmBitmap, pageTable, exhausted>>

Pte == [present : BOOLEAN, frame : Blocks]

(***************************************************************************)
(* Every entry starts as the identity, not present; the low pages are made *)
(* present, and the kernel's pages point at the bottom of memory.          *)
(***************************************************************************)
arch_paging_init_lower ==
  [p \in Blocks |->
     IF p \in KernelBase .. (KernelBase + KernelBlocks - 1)
     THEN [present |-> TRUE, frame |-> p - KernelBase]
     ELSE [present |-> p < LowBlocks, frame |-> p]]

MmInit ==
  /\ pageBitmap = Blocks \ FreeAtBoot
  /\ vmBitmap = KernelVm
  /\ pageTable = arch_paging_init_lower
  /\ exhausted = FALSE

(***************************************************************************)
(* The lowest clear bit.  With every bit set the scan leaves the array: it *)
(* takes whatever clear bit lies behind it (the block number, truncated to *)
(* 32 bits of address, may be any frame) or runs into an unmapped page.    *)
(***************************************************************************)
mm_find_empty_block_physical(j) ==
  IF pageBitmap = Blocks
  THEN j \in Blocks
  ELSE j \in Blocks \ pageBitmap /\ \A i \in Blocks \ pageBitmap : j <= i

\* Faulty variant: a page too many.
arch_paging_map_ExtraPage(v, n, j) ==
  [p \in Blocks |->
     IF p \in v .. (v + n)
     THEN [present |-> TRUE, frame |-> (j + (p - v)) % NBlocks]
     ELSE pageTable[p]]

(***************************************************************************)
(* arch_paging_map, called for the n consecutive pages from v on.          *)
(***************************************************************************)
arch_paging_map(v, n, j) ==
  [p \in Blocks |->
     IF p \in v .. (v + n - 1)
     THEN [present |-> TRUE, frame |-> (j + (p - v)) % NBlocks]
     ELSE pageTable[p]]

arch_paging_unmap(pages) ==
  [p \in Blocks |->
     IF p \in pages THEN [present |-> FALSE, frame |-> 0] ELSE pageTable[p]]

\* Faulty variant: the frame is not marked.
mm_alloc_Unmarked(v, n, j) ==
  /\ v \notin vmBitmap
  /\ mm_find_empty_block_physical(j)
  /\ pageTable' = arch_paging_map(v, n, j)
  /\ vmBitmap' = vmBitmap \cup {v}
  /\ exhausted' = (exhausted \/ pageBitmap = Blocks)
  /\ UNCHANGED pageBitmap

(***************************************************************************)
(* A successful mm_alloc of n pages at v, on the frame j it finds.  All n  *)
(* pages are mapped, but only the first page and its frame are marked.     *)
(***************************************************************************)
mm_alloc(v, n, j) ==
  /\ v \notin vmBitmap
  /\ mm_find_empty_block_physical(j)
  /\ pageTable' = arch_paging_map(v, n, j)
  /\ pageBitmap' = pageBitmap \cup {j}
  /\ vmBitmap' = vmBitmap \cup {v}
  /\ exhausted' = (exhausted \/ pageBitmap = Blocks)

\* Faulty variant: the frame stays marked.
mm_free_KeepsFrame(pages) ==
  /\ pageTable' = arch_paging_unmap(pages)
  /\ vmBitmap' = vmBitmap \ pages
  /\ UNCHANGED <<pageBitmap, exhausted>>

(***************************************************************************)
(* mm_free, for each page of a set.  Nothing is checked: the frame is the  *)
(* one the entry names, whether the page was mapped or not.                *)
(***************************************************************************)
mm_free(pages) ==
  /\ pageTable' = arch_paging_unmap(pages)
  /\ pageBitmap' = pageBitmap \ {pageTable[p].frame : p \in pages}
  /\ vmBitmap' = vmBitmap \ pages
  /\ UNCHANGED exhausted

(***************************************************************************)
(* A client that takes single pages outside the kernel's own and gives     *)
(* back pages it holds.                                                    *)
(***************************************************************************)
ClientPages == Blocks \ KernelVm

AllocPage(v) == \E j \in Blocks : mm_alloc(v, 1, j)

\* The address is in use: MEM_ALLOC_ERROR, and nothing changes.
AllocRefused(v) == v \in vmBitmap /\ UNCHANGED mmVars

FreePage(v) == v \in vmBitmap /\ mm_free({v})

MmNext ==
  \E v \in ClientPages : AllocPage(v) \/ AllocRefused(v) \/ FreePage(v)

MmSpec == MmInit /\ [][MmNext]_mmVars

-----------------------------------------------------------------------------
Frame(p) == pageTable[p].frame

(***************************************************************************)
(* mm_alloc and mm_free keep both bitmaps and every page-table entry       *)
(* within the machine's blocks, the frames found behind a full bitmap      *)
(* included.                                                               *)
(***************************************************************************)
MmTypeOK ==
  /\ pageBitmap \subseteq Blocks
  /\ vmBitmap \subseteq Blocks
  /\ pageTable \in [Blocks -> Pte]
  /\ exhausted \in BOOLEAN

Held == vmBitmap \ KernelVm

(***************************************************************************)
(* Until memory runs out, two pages handed out by mm_alloc never share a   *)
(* frame, whatever pages were allocated and freed before.                  *)
(***************************************************************************)
FramesExclusive ==
  ~exhausted => \A p, q \in Held : p # q => Frame(p) # Frame(q)

(***************************************************************************)
(* Until memory runs out, the frame bitmap marks exactly what was in use   *)
(* at boot and the frames of the pages handed out: mm_alloc and mm_free    *)
(* together neither leak a frame nor free one that is still mapped.        *)
(***************************************************************************)
FramesConserved ==
  ~exhausted =>
    pageBitmap = (Blocks \ FreeAtBoot) \cup {Frame(p) : p \in Held}

(***************************************************************************)
(* mm_alloc and mm_free neither share, nor leak, nor lose a frame.         *)
(***************************************************************************)
FramesSound == FramesExclusive /\ FramesConserved

(***************************************************************************)
(* A page is marked in the VM bitmap only while its entry is present, so   *)
(* memory handed out can be accessed without a page fault.                 *)
(***************************************************************************)
HeldPresent == \A p \in Held : pageTable[p].present

(***************************************************************************)
(* A step changes the entry of no page but the one it allocates or frees:  *)
(* a page that stays held keeps its frame.                                 *)
(***************************************************************************)
HeldStable ==
  [][\A p \in Held : p \in vmBitmap' => pageTable'[p] = pageTable[p]]_mmVars

(***************************************************************************)
(* The inductive invariant: besides the above, every frame handed out was  *)
(* free at boot, so freeing it cannot free a frame in use since boot.      *)
(***************************************************************************)
HeldFromFree == ~exhausted => \A p \in Held : Frame(p) \in FreeAtBoot

MmInv ==
  /\ MmTypeOK
  /\ FramesExclusive
  /\ FramesConserved
  /\ HeldPresent
  /\ HeldFromFree
=============================================================================
