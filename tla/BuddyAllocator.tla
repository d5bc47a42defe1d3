--------------------------- MODULE BuddyAllocator ---------------------------
(***************************************************************************)
(* The kernel heap: kernel/mm/buddy_allocator.c on top of Mm, and the      *)
(* callers of mm_alloc outside it: kmain (the kernel stack) and            *)
(* fat16_create_context (the cluster buffer).                              *)
(*                                                                         *)
(* The kernel is sequential here (no interrupt handler allocates), so the  *)
(* recursion of __buddy_allocator__find_space and the two page loops are   *)
(* unfolded into steps: pc says which loop runs, todo holds the subtrees   *)
(* find_space has still to search, page is the loop's page.                *)
(* Addresses and lengths of nodes are in pages; request lengths in bytes.  *)
(***************************************************************************)
EXTENDS Mm, Sequences

CONSTANTS
  PageSize,                \* 4096, also MIN_MEM_SPLIT
  HeapBase, HeapBlocks,    \* the root node: 0x10000000, 0x80000000
  TableBase, TableBlocks,  \* tree_location, tree_area_size
  PoolSlots,               \* nodes that fit into the tree area
  SlotsPerPage,            \* nodes that fit into one page of it
  StackBase, StackBlocks,  \* 0xCFF00000, 0x10000
  StackDepth,              \* pages at the top of the stack in actual use
  BufferBase,              \* 0xD0010000
  BufferSizes,             \* possible values of sectorSize * sectorsPerCluster
  Lens,                    \* lengths clients ask for
  Word                     \* 2^32: lengths are uint32_t and wrap around

Region(base, n) == base .. (base + n - 1)
HeapPages == Region(HeapBase, HeapBlocks)
TablePages == Region(TableBase, TableBlocks)
StackPages == Region(StackBase, StackBlocks)

size_in_blocks(size) ==
  IF size \div PageSize = 0 THEN 1 ELSE size \div PageSize

BufferPages == UNION {Region(BufferBase, size_in_blocks(s)) : s \in BufferSizes}

ASSUME BuddyAssumption ==
  /\ PageSize \in Nat \ {0}
  /\ HeapBase \in Nat /\ HeapBlocks \in Nat \ {0}
  /\ TableBase \in Nat /\ TableBlocks \in Nat \ {0}
  /\ StackBase \in Nat /\ StackBlocks \in Nat \ {0}
  /\ StackDepth \in 1 .. StackBlocks
  /\ BufferBase \in Nat /\ BufferSizes \subseteq Nat
  /\ PoolSlots \in Nat \ {0} /\ SlotsPerPage \in Nat \ {0}
  /\ Lens \subseteq Nat /\ Word \in Nat \ {0}

\* The machine has memory for the stack's page and the tree area.
ASSUME BootAssumption == Cardinality(FreeAtBoot) > TableBlocks

\* memory_map.txt: the regions lie in the address space and apart.
ASSUME LayoutAssumption ==
  /\ HeapPages \cup TablePages \cup StackPages \cup BufferPages
       \subseteq Blocks \ KernelVm
  /\ HeapPages \cap (TablePages \cup StackPages \cup BufferPages) = {}
  /\ TablePages \cap (StackPages \cup BufferPages) = {}
  /\ StackPages \cap BufferPages = {}

VARIABLES
  node,   \* the slots of the tree area: binary_tree_node_t with alloc_info
  used,   \* slots handed out by __buddy_allocator__alloc_node
  pc, req, todo, cur, page,
  ret     \* SYS_RET of the last buddy_allocator__alloc or _free

treeVars == <<node, used>>
ctlVars == <<pc, req, todo, cur, page, ret>>
vars == <<mmVars, treeVars, ctlVars>>

NULL == 0
Slots == 1 .. PoolSlots
Root == 1

Node == [vaddr : Nat, len : Nat, left : Slots \cup {NULL},
         right : Slots \cup {NULL}, is_allocated : BOOLEAN]

FreshNode(vaddr, len) ==
  [vaddr |-> vaddr, len |-> len, left |-> NULL, right |-> NULL,
   is_allocated |-> FALSE]

IsLeaf(n) == node[n].left = NULL /\ node[n].right = NULL
Bytes(n) == node[n].len * PageSize

Init ==
  /\ MmInit
  /\ node = [n \in Slots |-> FreshNode(0, 0)]
  /\ used = 0
  /\ pc = "stack" /\ page = 0
  /\ req = 0 /\ todo = <<>> /\ cur = Root /\ ret = "NO_ERROR"

-----------------------------------------------------------------------------
(* Boot: kmain moves the stack, then calls buddy_allocator__init.          *)

kmain_stack ==
  /\ pc = "stack"
  /\ \E j \in Blocks : mm_alloc(StackBase, StackBlocks, j)
  /\ pc' = "table" /\ page' = TableBase
  /\ UNCHANGED <<treeVars, req, todo, cur, ret>>

buddy_allocator__init_map ==
  /\ pc = "table" /\ page \in TablePages
  /\ \E j \in Blocks : mm_alloc(page, 1, j)
  /\ page' = page + 1
  /\ UNCHANGED <<treeVars, pc, req, todo, cur, ret>>

buddy_allocator__init_root ==
  /\ pc = "table" /\ page \notin TablePages
  /\ node' = [node EXCEPT ![Root] = FreshNode(HeapBase, HeapBlocks)]
  /\ used' = 1
  /\ pc' = "idle"
  /\ UNCHANGED <<mmVars, req, todo, cur, page, ret>>

\* fscontext__init calls it once; its buffer is never freed.
fat16_create_context ==
  /\ pc = "idle" /\ BufferBase \notin vmBitmap
  /\ \E s \in BufferSizes, j \in Blocks :
       mm_alloc(BufferBase, size_in_blocks(s), j)
  /\ UNCHANGED <<treeVars, ctlVars>>

\* The scan for a free frame runs off the bitmap into an unmapped page.
BufferFault ==
  /\ pc = "idle" /\ BufferBase \notin vmBitmap
  /\ pageBitmap = Blocks
  /\ pc' = "halt" /\ exhausted' = TRUE
  /\ UNCHANGED <<pageBitmap, vmBitmap, pageTable, treeVars, req, todo, cur,
                 page, ret>>

-----------------------------------------------------------------------------
(* buddy_allocator__alloc                                                  *)

\* mm_available_block_count is set by mm_init and never updated.
rem_mem == (Cardinality(FreeAtBoot) * PageSize) % Word

Return(code) == pc' = "idle" /\ ret' = code

AllocTooLong(len) ==
  /\ pc = "idle"
  /\ len > rem_mem
  /\ Return("MEM_ALLOC_ERROR")
  /\ UNCHANGED <<mmVars, treeVars, req, todo, cur, page>>

AllocStart(len) ==
  /\ pc = "idle"
  /\ len <= rem_mem
  /\ pc' = "find" /\ req' = len /\ todo' = <<Root>>
  /\ UNCHANGED <<mmVars, treeVars, cur, page, ret>>

(***************************************************************************)
(* __buddy_allocator__find_space on the subtree at the head of todo.       *)
(***************************************************************************)
FitsLen(bytes, len) == bytes > (2 * len) % Word /\ bytes < (4 * len) % Word
Fits(n) == FitsLen(Bytes(n), req)

Searching(n) == pc = "find" /\ todo # <<>> /\ n = Head(todo)

\* Faulty variant: a subtree without space is searched again.
FindSkip_Again(n) ==
  /\ Searching(n)
  /\ node[n].is_allocated \/ (Fits(n) /\ ~IsLeaf(n))
  /\ UNCHANGED vars

\* An allocated node, or one of the right size that is split: NOT_FOUND.
FindSkip(n) ==
  /\ Searching(n)
  /\ node[n].is_allocated \/ (Fits(n) /\ ~IsLeaf(n))
  /\ todo' = Tail(todo)
  /\ UNCHANGED <<mmVars, treeVars, pc, req, cur, page, ret>>

\* Faulty variants: settles for a leaf of two pages; takes allocated leaves.
Accepts_TwoPages(n) ==
  ~node[n].is_allocated /\ IsLeaf(n) /\ (Fits(n) \/ Bytes(n) <= 2 * PageSize)

Accepts_Allocated(n) == IsLeaf(n) /\ (Fits(n) \/ Bytes(n) <= PageSize)

\* A leaf of the right size, or one that is too small to be split.
Accepts(n) ==
  ~node[n].is_allocated /\ IsLeaf(n) /\ (Fits(n) \/ Bytes(n) <= PageSize)

\* Faulty variant: mapping starts behind the first page.
FindAccept_SecondPage(n) ==
  /\ Searching(n) /\ Accepts(n)
  /\ pc' = "map" /\ cur' = n /\ page' = node[n].vaddr + 1 /\ todo' = <<>>
  /\ UNCHANGED <<mmVars, treeVars, req, ret>>

FindAccept(n) ==
  /\ Searching(n) /\ Accepts(n)
  /\ pc' = "map" /\ cur' = n /\ page' = node[n].vaddr /\ todo' = <<>>
  /\ UNCHANGED <<mmVars, treeVars, req, ret>>

\* Faulty variant: only the left half is searched.
FindDescend_LeftOnly(n) ==
  /\ Searching(n)
  /\ ~node[n].is_allocated /\ ~IsLeaf(n) /\ ~Fits(n)
  /\ todo' = <<node[n].left>> \o Tail(todo)
  /\ UNCHANGED <<mmVars, treeVars, pc, req, cur, page, ret>>

FindDescend(n) ==
  /\ Searching(n)
  /\ ~node[n].is_allocated /\ ~IsLeaf(n) /\ ~Fits(n)
  /\ todo' = <<node[n].left, node[n].right>> \o Tail(todo)
  /\ UNCHANGED <<mmVars, treeVars, pc, req, cur, page, ret>>

Splits(n) ==
  ~node[n].is_allocated /\ IsLeaf(n) /\ ~Fits(n) /\ Bytes(n) > PageSize

(***************************************************************************)
(* The frame of a slot's page may be mapped in the stack as well (see      *)
(* mm_alloc): a node written there and the stack overwrite each other.     *)
(***************************************************************************)
StackInUse == Region(StackBase + StackBlocks - StackDepth, StackDepth)
SlotPage(n) == TableBase + (n \div SlotsPerPage)
OnStack(n) == \E p \in StackInUse : Frame(p) = Frame(SlotPage(n))

\* Faulty variant: the right half starts where the left one does.
FindSplit_SameStart(n) ==
  LET left == used + 1
      right == used + 2
      half == node[n].len \div 2
  IN /\ Searching(n) /\ Splits(n)
     /\ right <= PoolSlots /\ ~OnStack(left) /\ ~OnStack(right)
     /\ used' = right
     /\ node' = [node EXCEPT
          ![n].left = left, ![n].right = right,
          ![left] = FreshNode(node[n].vaddr, half),
          ![right] = FreshNode(node[n].vaddr, node[n].len - half)]
     /\ todo' = <<left, right>> \o Tail(todo)
     /\ UNCHANGED <<mmVars, pc, req, cur, page, ret>>

\* __buddy_allocator__split_node, then the search of both halves.
FindSplit(n) ==
  LET left == used + 1
      right == used + 2
      half == node[n].len \div 2
  IN /\ Searching(n) /\ Splits(n)
     /\ right <= PoolSlots /\ ~OnStack(left) /\ ~OnStack(right)
     /\ used' = right
     /\ node' = [node EXCEPT
          ![n].left = left, ![n].right = right,
          ![left] = FreshNode(node[n].vaddr, half),
          ![right] = FreshNode(node[n].vaddr + half, node[n].len - half)]
     /\ todo' = <<left, right>> \o Tail(todo)
     /\ UNCHANGED <<mmVars, pc, req, cur, page, ret>>

(***************************************************************************)
(* __buddy_allocator__alloc_node without a free slot: its bound check lets *)
(* it read the word behind the area, which is not mapped; the page fault   *)
(* handler never returns.                                                  *)
(***************************************************************************)
PoolFault(n) ==
  /\ Searching(n) /\ Splits(n) /\ used + 2 > PoolSlots
  /\ pc' = "halt"
  /\ UNCHANGED <<mmVars, treeVars, req, todo, cur, page, ret>>

\* A new node lies on the stack: from here on the tree is arbitrary.
PoolClobbered(n) ==
  /\ Searching(n) /\ Splits(n) /\ used + 2 <= PoolSlots
  /\ OnStack(used + 1) \/ OnStack(used + 2)
  /\ pc' = "undefined"
  /\ UNCHANGED <<mmVars, treeVars, req, todo, cur, page, ret>>

FindFailed ==
  /\ pc = "find" /\ todo = <<>>
  /\ Return("NOT_FOUND")
  /\ UNCHANGED <<mmVars, treeVars, req, todo, cur, page>>

NodePages(n) == Region(node[n].vaddr, node[n].len)

\* One iteration of the mm_alloc loop; a refused page ends the call.
MapPage ==
  /\ pc = "map" /\ page \in NodePages(cur)
  /\ IF page \in vmBitmap
     THEN Return("MEM_ALLOC_ERROR") /\ UNCHANGED <<mmVars, page>>
     ELSE /\ \E j \in Blocks : mm_alloc(page, 1, j)
          /\ page' = page + 1
          /\ UNCHANGED <<pc, ret>>
  /\ UNCHANGED <<treeVars, req, todo, cur>>

\* As BufferFault.
MapFault ==
  /\ pc = "map" /\ page \in NodePages(cur) \ vmBitmap
  /\ pageBitmap = Blocks
  /\ pc' = "halt" /\ exhausted' = TRUE
  /\ UNCHANGED <<pageBitmap, vmBitmap, pageTable, treeVars, req, todo, cur,
                 page, ret>>

\* Faulty variant: the node is not marked allocated.
MapDone_Unmarked ==
  /\ pc = "map" /\ page \notin NodePages(cur)
  /\ Return("NO_ERROR")
  /\ UNCHANGED <<mmVars, treeVars, req, todo, cur, page>>

MapDone ==
  /\ pc = "map" /\ page \notin NodePages(cur)
  /\ node' = [node EXCEPT ![cur].is_allocated = TRUE]
  /\ Return("NO_ERROR")
  /\ UNCHANGED <<mmVars, used, req, todo, cur, page>>

-----------------------------------------------------------------------------
(***************************************************************************)
(* buddy_allocator__free.  Its loop moves node but never info, so only the *)
(* root's own address is found, and then the whole heap is unmapped.       *)
(***************************************************************************)
buddy_allocator__free(addr) ==
  /\ pc = "idle"
  /\ IF addr = node[Root].vaddr
     THEN /\ mm_free(NodePages(Root))
          /\ node' = [node EXCEPT ![Root].is_allocated = FALSE]
          /\ Return("NO_ERROR")
     ELSE UNCHANGED <<mmVars, node>> /\ Return("NOT_FOUND")
  /\ UNCHANGED <<used, req, todo, cur, page>>

\* The page fault handler's endless loop; arbitrary behaviour is cut off.
Stopped == pc \in {"halt", "undefined"} /\ UNCHANGED vars

FindStep ==
  \/ FindFailed
  \/ \E n \in Slots : \/ FindSkip(n) \/ FindAccept(n) \/ FindDescend(n)
                      \/ FindSplit(n) \/ PoolFault(n) \/ PoolClobbered(n)

MapStep == MapPage \/ MapFault \/ MapDone

KernelNext ==
  \/ kmain_stack \/ buddy_allocator__init_map \/ buddy_allocator__init_root
  \/ fat16_create_context \/ BufferFault
  \/ \E len \in Lens : AllocTooLong(len) \/ AllocStart(len)
  \/ FindStep \/ MapStep
  \/ Stopped

\* The kernel as it is built: nothing calls buddy_allocator__free.
Spec == Init /\ [][KernelNext]_vars

\* A call of the allocator runs to its end: the CPU does not stop.
FairSpec == Spec /\ WF_vars(FindStep \/ MapStep)

\* The allocator's whole interface, with callers that free blocks.
Next == KernelNext \/ \E addr \in HeapPages : buddy_allocator__free(addr)

FullSpec == Init /\ [][Next]_vars

-----------------------------------------------------------------------------
Nodes == 1 .. used
Leaves == {n \in Nodes : IsLeaf(n)}
Allocated == {n \in Nodes : node[n].is_allocated}

(***************************************************************************)
(* The search of find_space only ever holds nodes that alloc_node has      *)
(* handed out, and the tree area's count stays within its slots.           *)
(***************************************************************************)
TypeOK ==
  /\ MmTypeOK
  /\ node \in [Slots -> Node]
  /\ used \in 0 .. PoolSlots
  /\ pc \in {"stack", "table", "idle", "find", "map", "halt", "undefined"}
  /\ pc \notin {"stack", "table"} => used >= 1
  /\ req \in Nat /\ page \in Nat
  /\ todo \in Seq(Nodes)
  /\ cur \in Slots
  /\ ret \in {"NO_ERROR", "MEM_ALLOC_ERROR", "NOT_FOUND"}

(***************************************************************************)
(* Two blocks the allocator has handed out never overlap, whatever splits  *)
(* of split_node and failed searches came before.                          *)
(***************************************************************************)
BlocksDisjoint ==
  \A m, n \in Allocated : m # n => NodePages(m) \cap NodePages(n) = {}

(***************************************************************************)
(* The tree and the VM bitmap agree: a heap page is marked only if it is   *)
(* in an allocated block, or in the part of the block being mapped that    *)
(* the loop of buddy_allocator__alloc has passed.                          *)
(***************************************************************************)
HeapPagesOwned ==
  \A p \in vmBitmap \cap HeapPages :
    \/ \E n \in Allocated : p \in NodePages(n)
    \/ pc \in {"map", "halt"} /\ p \in NodePages(cur) /\ p < page

(***************************************************************************)
(* mm_alloc never refuses a page of the block find_space chose, so the     *)
(* error return in the middle of the mapping loop, which would leave half  *)
(* a block mapped and unowned, is never taken.                             *)
(***************************************************************************)
MapNeverRefused ==
  pc = "map" => \A p \in NodePages(cur) : p >= page => p \notin vmBitmap

(***************************************************************************)
(* The tree of buddy_allocator.c and the bitmap of mm.c stay in step:      *)
(* blocks are disjoint, marked pages are owned, and the mapping loop meets *)
(* no page that is in use.                                                 *)
(***************************************************************************)
HeapSound == BlocksDisjoint /\ HeapPagesOwned /\ MapNeverRefused

(***************************************************************************)
(* Every page of a block handed out stays mapped in the kernel as built    *)
(* (without callers of buddy_allocator__free).                             *)
(***************************************************************************)
BlocksMapped ==
  \A n \in Allocated : \A p \in NodePages(n) :
    p \in vmBitmap /\ pageTable[p].present

(***************************************************************************)
(* The sizes nodes can have: the heap's, and half of each that is even.  A *)
(* request that lies strictly between a quarter and a half of one of them  *)
(* has a class.                                                            *)
(***************************************************************************)
Halving(C) == HeapBlocks \in C /\ \A c \in C : c % 2 = 0 => c \div 2 \in C
SizeClasses == {s \in 1 .. HeapBlocks :
                  \A C \in SUBSET (1 .. HeapBlocks) : Halving(C) => s \in C}

\* The root's length is a power of two (0x80000000).
ASSUME HeapSizeAssumption == 1 \in SizeClasses

HasClass(len) == \E s \in SizeClasses : FitsLen(s * PageSize, len)

(***************************************************************************)
(* A request that has a class is given a block of that class, never the    *)
(* smaller leaf find_space settles for when nothing fits.                  *)
(***************************************************************************)
ClassGranted == pc = "map" /\ HasClass(req) => Fits(cur)

(***************************************************************************)
(* find_space gives up only if no free leaf could have served the request: *)
(* each one left is no larger than twice the request, and the request has  *)
(* a class.                                                                *)
(***************************************************************************)
SearchComplete ==
  pc = "find" /\ todo = <<>> =>
    \A n \in Leaves \ Allocated : HasClass(req) /\ Bytes(n) <= (2 * req) % Word

H == INSTANCE Heap WITH Arena <- HeapPages,
                        granted <- {NodePages(n) : n \in Allocated}

(***************************************************************************)
(* buddy_allocator__alloc and buddy_allocator__free implement the abstract *)
(* heap: a block they hand out is made of pages that no other block in use *)
(* has.                                                                    *)
(***************************************************************************)
ImplementsHeap == H!HeapSpec

(***************************************************************************)
(* A call of buddy_allocator__alloc comes back, unless the kernel stops in *)
(* a page fault or its tree is overwritten: the splitting search ends.     *)
(***************************************************************************)
AllocReturns == pc \in {"find", "map"} ~> pc \in {"idle", "halt", "undefined"}

(***************************************************************************)
(* memory_map.txt gives the tree area (mem_alloc_table) and the stack      *)
(* regions of their own: a page of one never shares a frame with a page of *)
(* the other.                                                              *)
(***************************************************************************)
StackApartFromTable ==
  \A p \in StackPages, q \in TablePages :
    pageTable[p].present /\ pageTable[q].present => Frame(p) # Frame(q)

-----------------------------------------------------------------------------
(***************************************************************************)
(* The inductive invariant behind BlocksDisjoint, HeapPagesOwned and       *)
(* MapNeverRefused.  Disjointness is inductive for leaves (a split puts    *)
(* two halves in the place of one leaf), not for allocated nodes alone.    *)
(***************************************************************************)
TreeShape ==
  /\ used >= 1 => /\ node[Root].vaddr = HeapBase
                  /\ node[Root].len = HeapBlocks
  /\ \A n \in Nodes : node[n].len >= 1 /\ NodePages(n) \subseteq HeapPages
  /\ \A n \in Nodes \ Leaves : node[n].left \in Nodes /\ node[n].right \in Nodes
  /\ Allocated \subseteq Leaves

LeavesDisjoint ==
  \A m, n \in Leaves : m # n => NodePages(m) \cap NodePages(n) = {}

Mapping(n) == pc \in {"map", "halt"} /\ n = cur

FreeLeavesClear ==
  \A n \in Leaves \ Allocated : \A p \in NodePages(n) :
    p \in vmBitmap => Mapping(n) /\ p < page

MapLoop ==
  pc = "map" => /\ cur \in Leaves \ Allocated
                /\ page >= node[cur].vaddr
                /\ page <= node[cur].vaddr + node[cur].len

HeapInv ==
  /\ TypeOK /\ TreeShape /\ LeavesDisjoint
  /\ FreeLeavesClear /\ MapLoop /\ HeapPagesOwned
  /\ used = 0 <=> pc \in {"stack", "table"}

(***************************************************************************)
(* The inductive invariant behind ClassGranted and SearchComplete.  Every  *)
(* split was even and the leaves nest in the nodes above them; the search  *)
(* has not yet gone below a size that fits; and a free leaf it has passed  *)
(* lies below a node of the request's class, so it is too small.           *)
(***************************************************************************)
Within(m, n) == NodePages(m) \subseteq NodePages(n)

TreeHalves ==
  /\ \A n \in Nodes : node[n].len \in SizeClasses
  /\ \A n \in Nodes \ Leaves :
       /\ NodePages(n) = NodePages(node[n].left) \cup NodePages(node[n].right)
       /\ node[n].len = 2 * node[node[n].left].len
       /\ node[n].len = 2 * node[node[n].right].len
  /\ \A m \in Leaves, n \in Nodes :
       Within(m, n) \/ NodePages(m) \cap NodePages(n) = {}

Pending == {todo[i] : i \in DOMAIN todo}

ClassAhead ==
  pc = "find" =>
    \A n \in Pending, s \in SizeClasses :
      FitsLen(s * PageSize, req) => node[n].len >= s

LeavesSearched ==
  pc = "find" =>
    \A m \in Leaves \ Allocated :
      \/ \E n \in Pending : Within(m, n)
      \/ HasClass(req) /\ Bytes(m) <= (2 * req) % Word

SearchInv == TreeHalves /\ ClassAhead /\ ClassGranted /\ LeavesSearched

(***************************************************************************)
(* The inductive invariant behind BlocksMapped: the mapping loop leaves no *)
(* page of the block behind, and without free no page is unmapped again.   *)
(***************************************************************************)
PagesMarked ==
  /\ \A n \in Allocated : NodePages(n) \subseteq vmBitmap
  /\ pc = "map" => \A p \in NodePages(cur) : p < page => p \in vmBitmap

MappedInv == PagesMarked /\ HeldPresent
=============================================================================
