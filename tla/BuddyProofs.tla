---------------------------- MODULE BuddyProofs ----------------------------
(***************************************************************************)
(* The heap hands out disjoint blocks, for every layout, pool size, set of *)
(* request lengths and amount of memory.                                   *)
(***************************************************************************)
EXTENDS BuddyAllocator, TLAPS

\* The root is a slot of the tree area, and NULL is none.
LEMMA SlotFacts == Root \in Slots /\ NULL \notin Slots /\ Slots \subseteq Nat
BY BuddyAssumption DEF Slots, Root, NULL

\* The nodes handed out by alloc_node are slots of the tree area.
LEMMA NodesAreSlots == HeapInv => Nodes \subseteq Slots
<1>1. HeapInv => used \in 0 .. PoolSlots /\ PoolSlots \in Nat
  BY BuddyAssumption DEF HeapInv, TypeOK
<1> QED BY <1>1 DEF Nodes, Slots

(***************************************************************************)
(* The part of the invariant about the tree depends on node and used only, *)
(* so a step that leaves both alone has to be checked for the rest.        *)
(***************************************************************************)
LEMMA TreeUnchanged ==
  ASSUME HeapInv, UNCHANGED treeVars
  PROVE  /\ Leaves' = Leaves /\ Allocated' = Allocated /\ Nodes' = Nodes
         /\ \A n : NodePages(n)' = NodePages(n)
         /\ TreeShape' /\ LeavesDisjoint'
BY DEF HeapInv, treeVars, Leaves, Allocated, Nodes, NodePages, TreeShape,
       LeavesDisjoint, IsLeaf

(***************************************************************************)
(* mm_alloc keeps the types of the memory state.                           *)
(***************************************************************************)
LEMMA MmAllocType ==
  ASSUME MmTypeOK, NEW v \in Blocks, NEW n \in Nat, NEW j \in Blocks,
         mm_alloc(v, n, j)
  PROVE  MmTypeOK'
<1>1. \A p \in Blocks : p - v \in Int /\ (j + (p - v)) % NBlocks \in Blocks
  BY MmAssumption DEF Blocks
<1>2. pageTable' \in [Blocks -> Pte]
  BY <1>1 DEF mm_alloc, arch_paging_map, MmTypeOK, Pte
<1> QED BY <1>2 DEF mm_alloc, MmTypeOK

\* The invariant holds before kmain allocates anything.
LEMMA InitHeapInv == Init => HeapInv
<1> SUFFICES ASSUME Init PROVE HeapInv
  OBVIOUS
<1>1. \A p \in Blocks :
        p \in KernelBase .. (KernelBase + KernelBlocks - 1) => p - KernelBase \in Blocks
  BY MmAssumption DEF Blocks
<1>2. MmTypeOK
  <2>1. pageTable \in [Blocks -> Pte]
    BY <1>1 DEF Init, MmInit, arch_paging_init_lower, Pte
  <2> QED BY <2>1, MmAssumption DEF Init, MmInit, MmTypeOK
<1>3. node \in [Slots -> Node]
  BY DEF Init, Node, FreshNode
<1>4. Nodes = {}
  BY DEF Init, Nodes
<1>5. TypeOK
  BY <1>2, <1>3, SlotFacts, BuddyAssumption DEF Init, TypeOK
<1>6. vmBitmap \cap HeapPages = {}
  BY LayoutAssumption DEF Init, MmInit
<1> QED
  BY <1>4, <1>5, <1>6
  DEF Init, HeapInv, TreeShape, LeavesDisjoint, FreeLeavesClear, MapLoop,
      HeapPagesOwned, Leaves, Allocated

-----------------------------------------------------------------------------
(***************************************************************************)
(* An mm_alloc outside the heap, with the tree untouched: the boot steps   *)
(* and the cluster buffer.                                                 *)
(***************************************************************************)
LEMMA MapOutside ==
  ASSUME HeapInv, NEW v \in Blocks \ HeapPages, NEW k \in Nat, NEW j \in Blocks,
         mm_alloc(v, k, j), UNCHANGED treeVars,
         UNCHANGED <<req, todo, cur, ret>>,
         pc \in {"stack", "table", "idle"},
         page' \in Nat,
         pc' = pc \/ (pc = "stack" /\ pc' = "table")
  PROVE  HeapInv'
<1>1. MmTypeOK'
  BY MmAllocType DEF HeapInv, TypeOK
<1>2. TypeOK'
  BY <1>1 DEF HeapInv, TypeOK, treeVars, Nodes
<1>3. vmBitmap' \cap HeapPages = vmBitmap \cap HeapPages
  BY DEF mm_alloc
<1>4. \A n \in Nodes : NodePages(n) \subseteq HeapPages
  BY DEF HeapInv, TreeShape
<1>5. FreeLeavesClear'
  BY <1>3, <1>4, TreeUnchanged
  DEF HeapInv, FreeLeavesClear, Mapping, Leaves
<1>6. HeapPagesOwned' /\ MapLoop'
  BY <1>3, TreeUnchanged DEF HeapInv, HeapPagesOwned, MapLoop
<1>7. used' = 0 <=> pc' \in {"stack", "table"}
  BY DEF HeapInv, treeVars
<1> QED BY <1>2, <1>5, <1>6, <1>7, TreeUnchanged DEF HeapInv

\* The stack kmain allocates lies outside the heap.
LEMMA StackInv == ASSUME HeapInv, kmain_stack PROVE HeapInv'
<1>1. StackBase \in StackPages
  BY BuddyAssumption DEF StackPages, Region
<1>2. StackBase \in Blocks \ HeapPages
  BY <1>1, LayoutAssumption
<1>3. StackBlocks \in Nat /\ TableBase \in Nat
  BY BuddyAssumption
<1>4. PICK j \in Blocks : mm_alloc(StackBase, StackBlocks, j)
  BY DEF kmain_stack
<1> QED BY <1>2, <1>3, <1>4, MapOutside DEF kmain_stack

\* Mapping the tree area touches no heap page.
LEMMA InitMapInv == ASSUME HeapInv, buddy_allocator__init_map PROVE HeapInv'
<1>1. page \in Blocks \ HeapPages
  BY LayoutAssumption DEF buddy_allocator__init_map
<1>2. page' \in Nat
  BY DEF buddy_allocator__init_map, HeapInv, TypeOK
<1>3. PICK j \in Blocks : mm_alloc(page, 1, j)
  BY DEF buddy_allocator__init_map
<1> QED BY <1>1, <1>2, <1>3, MapOutside DEF buddy_allocator__init_map

\* The cluster buffer of fat16_create_context lies outside the heap.
LEMMA BufferInv == ASSUME HeapInv, fat16_create_context PROVE HeapInv'
<1>1. PICK s \in BufferSizes, j \in Blocks :
        mm_alloc(BufferBase, size_in_blocks(s), j)
  BY DEF fat16_create_context
<1>2. size_in_blocks(s) \in Nat /\ size_in_blocks(s) >= 1
  <2>1. s \in Nat
    BY BuddyAssumption
  <2>2. s \div PageSize \in Nat
    BY <2>1, BuddyAssumption
  <2> QED BY <2>2 DEF size_in_blocks
<1>3. BufferBase \in Region(BufferBase, size_in_blocks(s))
  BY <1>2, BuddyAssumption DEF Region
<1>4. BufferBase \in BufferPages
  BY <1>3 DEF BufferPages
<1>5. BufferBase \in Blocks \ HeapPages
  BY <1>4, LayoutAssumption
<1>6. page' \in Nat
  BY DEF fat16_create_context, ctlVars, HeapInv, TypeOK
<1> QED BY <1>1, <1>2, <1>5, <1>6, MapOutside
        DEF fat16_create_context, ctlVars, treeVars

\* buddy_allocator__init leaves one leaf that spans the heap.
LEMMA InitRootInv == ASSUME HeapInv, buddy_allocator__init_root PROVE HeapInv'
<1> USE SlotFacts DEF buddy_allocator__init_root
<1>1. HeapBase \in Nat /\ HeapBlocks \in Nat /\ HeapBlocks >= 1
  BY BuddyAssumption
<1>2. node' \in [Slots -> Node]
  BY <1>1 DEF HeapInv, TypeOK, Node, FreshNode
<1>3. node'[Root] = FreshNode(HeapBase, HeapBlocks)
  BY DEF HeapInv, TypeOK
<1>4. Nodes' = {Root} /\ Leaves' = {Root} /\ Allocated' = {}
  BY <1>3 DEF Nodes, Leaves, Allocated, IsLeaf, FreshNode, Root
<1>5. NodePages(Root)' = HeapPages
  BY <1>3 DEF NodePages, HeapPages, FreshNode
<1>6. vmBitmap' \cap HeapPages = {}
  <2>1. used = 0
    BY DEF HeapInv
  <2>2. Allocated = {}
    BY <2>1 DEF Allocated, Nodes
  <2> QED BY <2>2 DEF HeapInv, HeapPagesOwned, mmVars
<1>7. TypeOK'
  <2>1. todo' \in Seq(Nodes')
    <3>1. Nodes \subseteq Nodes'
      BY DEF HeapInv, Nodes
    <3> QED BY <3>1 DEF HeapInv, TypeOK
  <2>2. used' \in 0 .. PoolSlots
    BY BuddyAssumption
  <2> QED BY <1>2, <2>1, <2>2 DEF HeapInv, TypeOK, MmTypeOK, mmVars
<1>8. TreeShape'
  BY <1>1, <1>3, <1>4, <1>5 DEF TreeShape, FreshNode
<1> QED
  BY <1>4, <1>5, <1>6, <1>7, <1>8
  DEF HeapInv, LeavesDisjoint, FreeLeavesClear, MapLoop, HeapPagesOwned

-----------------------------------------------------------------------------
(***************************************************************************)
(* Steps of find_space that move the search on without touching the tree   *)
(* or memory.                                                              *)
(***************************************************************************)
LEMMA SearchMoves ==
  ASSUME HeapInv, UNCHANGED <<mmVars, treeVars, cur, page>>,
         pc \in {"idle", "find"},
         pc' \in {"idle", "find", "halt", "undefined"},
         req' \in Nat, todo' \in Seq(Nodes),
         ret' \in {"NO_ERROR", "MEM_ALLOC_ERROR", "NOT_FOUND"}
  PROVE  HeapInv'
<1>1. TypeOK'
  BY DEF HeapInv, TypeOK, MmTypeOK, mmVars, treeVars, Nodes
<1>2. FreeLeavesClear' /\ HeapPagesOwned' /\ MapLoop'
  BY TreeUnchanged
  DEF HeapInv, FreeLeavesClear, HeapPagesOwned, MapLoop, Mapping, mmVars
<1>3. used' = 0 <=> pc' \in {"stack", "table"}
  BY DEF HeapInv, treeVars
<1> QED BY <1>1, <1>2, <1>3, TreeUnchanged DEF HeapInv

\* Entering buddy_allocator__alloc starts the search at the root.
LEMMA AllocCallInv ==
  ASSUME HeapInv, NEW len \in Lens, AllocTooLong(len) \/ AllocStart(len)
  PROVE  HeapInv'
<1>1. len \in Nat
  BY BuddyAssumption
<1>2. CASE AllocTooLong(len)
  BY <1>2, SearchMoves DEF AllocTooLong, Return, HeapInv, TypeOK
<1>3. CASE AllocStart(len)
  <2>1. Root \in Nodes
    BY <1>3 DEF AllocStart, HeapInv, TypeOK, Nodes, Root
  <2>2. <<Root>> \in Seq(Nodes)
    BY <2>1
  <2> QED BY <1>1, <1>3, <2>2, SearchMoves DEF AllocStart, HeapInv, TypeOK
<1> QED BY <1>2, <1>3

\* The steps of find_space that only move on keep the invariant.
LEMMA FindMovesInv ==
  ASSUME HeapInv, NEW n \in Slots,
         FindSkip(n) \/ FindDescend(n) \/ PoolFault(n) \/ PoolClobbered(n)
  PROVE  HeapInv'
<1>1. n \in Nodes /\ Tail(todo) \in Seq(Nodes)
  BY DEF FindSkip, FindDescend, PoolFault, PoolClobbered, Searching, HeapInv, TypeOK
<1>2. CASE FindSkip(n)
  BY <1>1, <1>2, SearchMoves DEF FindSkip, Searching, HeapInv, TypeOK
<1>3. CASE FindDescend(n)
  <2>1. node[n].left \in Nodes /\ node[n].right \in Nodes
    BY <1>1, <1>3 DEF FindDescend, HeapInv, TreeShape, Leaves
  <2>2. todo' \in Seq(Nodes)
    BY <1>1, <1>3, <2>1 DEF FindDescend
  <2> QED BY <1>3, <2>2, SearchMoves DEF FindDescend, Searching, HeapInv, TypeOK
<1>4. CASE PoolFault(n)
  BY <1>4, SearchMoves DEF PoolFault, Searching, HeapInv, TypeOK
<1>5. CASE PoolClobbered(n)
  BY <1>5, SearchMoves DEF PoolClobbered, Searching, HeapInv, TypeOK
<1> QED BY <1>2, <1>3, <1>4, <1>5

\* Giving up leaves the tree as it is.
LEMMA FindFailedInv == ASSUME HeapInv, FindFailed PROVE HeapInv'
BY SearchMoves DEF FindFailed, Return, HeapInv, TypeOK

(***************************************************************************)
(* The leaf find_space chooses has no page marked, so mapping starts clean.*)
(***************************************************************************)
LEMMA AcceptInv ==
  ASSUME HeapInv, NEW n \in Slots, FindAccept(n)
  PROVE  HeapInv'
<1>1. n \in Nodes
  BY DEF FindAccept, Searching, HeapInv, TypeOK
<1>2. n \in Leaves \ Allocated
  BY <1>1 DEF FindAccept, Accepts, Leaves, Allocated
<1>3. UNCHANGED treeVars
  BY DEF FindAccept
<1>4. node[n].vaddr \in Nat /\ node[n].len \in Nat
  BY DEF HeapInv, TypeOK, Node
<1>5. TypeOK'
  BY <1>3, <1>4, SMTT(30), ZenonT(30) DEF FindAccept, Searching, HeapInv, TypeOK, MmTypeOK, mmVars,
                    treeVars, Nodes
<1>6. MapLoop'
  BY <1>2, <1>3, <1>4, TreeUnchanged DEF FindAccept, MapLoop, treeVars
<1>7. \A m \in Leaves \ Allocated : NodePages(m) \cap vmBitmap = {}
  BY DEF FindAccept, Searching, HeapInv, FreeLeavesClear, Mapping
<1>8. FreeLeavesClear'
  BY <1>3, <1>7, TreeUnchanged, SMTT(30), ZenonT(30) DEF FindAccept, FreeLeavesClear, mmVars
<1>9. HeapPagesOwned'
  BY <1>3, TreeUnchanged
  DEF FindAccept, Searching, HeapInv, HeapPagesOwned, mmVars
<1>10. used' = 0 <=> pc' \in {"stack", "table"}
  BY <1>3 DEF FindAccept, Searching, HeapInv, treeVars
<1> QED BY <1>3, <1>5, <1>6, <1>8, <1>9, <1>10, TreeUnchanged DEF HeapInv

-----------------------------------------------------------------------------
(***************************************************************************)
(* split_node puts two adjacent halves in the place of a leaf of at least  *)
(* two pages.                                                              *)
(***************************************************************************)
LEMMA Halves ==
  ASSUME NEW v \in Nat, NEW len \in Nat, len >= 2
  PROVE  LET half == len \div 2
         IN /\ half \in Nat /\ half >= 1 /\ len - half \in Nat /\ len - half >= 1
            /\ Region(v, half) \cup Region(v + half, len - half) = Region(v, len)
            /\ Region(v, half) \cap Region(v + half, len - half) = {}
BY DEF Region

\* What split_node does to the tree: the leaf n becomes the parent of two halves.
SplitFacts(n, left, right) ==
  /\ used \in Nat /\ n \in Leaves \ Allocated /\ n \in Nodes /\ node[n].len \in Nat
  /\ node[n].len >= 2
  /\ left \in Slots \ Nodes /\ right \in Slots \ Nodes /\ left # right
  /\ Nodes' = Nodes \cup {left, right}
  /\ Leaves' = (Leaves \ {n}) \cup {left, right} /\ Allocated' = Allocated
  /\ node' \in [Slots -> Node]
  /\ node'[n].left = left /\ node'[n].right = right
  /\ \A m \in Nodes : node'[m].vaddr = node[m].vaddr /\ node'[m].len = node[m].len
  /\ \A m \in Nodes \ {n} : node'[m] = node[m]
  /\ node'[left].len = node[n].len \div 2
  /\ node'[right].len = node[n].len - (node[n].len \div 2)
  /\ \A m \in Nodes : NodePages(m)' = NodePages(m)
  /\ NodePages(left)' \cup NodePages(right)' = NodePages(n)
  /\ NodePages(left)' \cap NodePages(right)' = {}

LEMMA SplitTree ==
  ASSUME HeapInv, NEW n \in Slots, FindSplit(n)
  PROVE  SplitFacts(n, used + 1, used + 2)
<1>0. PICK left, right, half :
        left = used + 1 /\ right = used + 2 /\ half = node[n].len \div 2
  OBVIOUS
<1>1. n \in Nodes /\ Tail(todo) \in Seq(Nodes)
  BY DEF FindSplit, Searching, HeapInv, TypeOK
<1>2. node[n].vaddr \in Nat /\ node[n].len \in Nat
  BY DEF HeapInv, TypeOK, Node
<1>3. node[n].len >= 2
  <2>1. node[n].len * PageSize > PageSize
    BY DEF FindSplit, Splits, Bytes
  <2>2. node[n].len # 1
    BY <2>1, BuddyAssumption
  <2> QED BY <1>1, <1>2, <2>2 DEF HeapInv, TreeShape
<1>4. /\ half \in Nat /\ half >= 1
      /\ node[n].len - half \in Nat /\ node[n].len - half >= 1
      /\ Region(node[n].vaddr, half)
           \cup Region(node[n].vaddr + half, node[n].len - half) = NodePages(n)
      /\ Region(node[n].vaddr, half)
           \cap Region(node[n].vaddr + half, node[n].len - half) = {}
  BY <1>0, <1>2, <1>3, Halves DEF NodePages
<1>5. used \in Nat /\ left \in Slots /\ right \in Slots /\ left # right
      /\ n # left /\ n # right /\ left \notin Nodes /\ right \notin Nodes
  <2>1. used \in Nat /\ right <= PoolSlots /\ PoolSlots \in Nat
    BY <1>0, BuddyAssumption DEF FindSplit, HeapInv, TypeOK
  <2> QED BY <1>0, <1>1, <2>1 DEF Slots, Nodes
<1>6. Nodes' = Nodes \cup {left, right}
  BY <1>0, <1>5 DEF FindSplit, Nodes
<1>7. node' = [node EXCEPT
          ![n].left = left, ![n].right = right,
          ![left] = FreshNode(node[n].vaddr, half),
          ![right] = FreshNode(node[n].vaddr + half, node[n].len - half)]
  BY <1>0 DEF FindSplit
<1>8. /\ node'[left] = FreshNode(node[n].vaddr, half)
      /\ node'[right] = FreshNode(node[n].vaddr + half, node[n].len - half)
      /\ node'[n] = [node[n] EXCEPT !.left = left, !.right = right]
      /\ \A m \in Slots \ {n, left, right} : node'[m] = node[m]
  <2>1. node \in [Slots -> Node]
    BY DEF HeapInv, TypeOK
  <2> QED BY <1>5, <1>7, <2>1
<1>9. /\ node'[n].left = left /\ node'[n].right = right
      /\ node'[n].vaddr = node[n].vaddr /\ node'[n].len = node[n].len
      /\ node'[n].is_allocated = node[n].is_allocated
  <2>1. node[n] \in Node
    BY DEF HeapInv, TypeOK
  <2> QED BY <1>8, <2>1 DEF Node
<1>10. node' \in [Slots -> Node]
  <2>1. FreshNode(node[n].vaddr, half) \in Node
        /\ FreshNode(node[n].vaddr + half, node[n].len - half) \in Node
    BY <1>2, <1>4 DEF FreshNode, Node
  <2>2. node'[n] \in Node
    BY <1>5, <1>8, ZenonT(30), SMTT(30) DEF HeapInv, TypeOK, Node
  <2>3. node' = [m \in Slots |-> node'[m]]
    BY <1>7 DEF HeapInv, TypeOK
  <2> QED BY <1>8, <2>1, <2>2, <2>3 DEF HeapInv, TypeOK
<1>11. Nodes \subseteq Slots /\ NULL \notin Slots
  BY NodesAreSlots, SlotFacts
<1>12. n \in Leaves \ Allocated
  BY <1>1 DEF FindSplit, Splits, Leaves, Allocated
<1>13. /\ \A m \in Nodes \ {n} : node'[m] = node[m]
       /\ node'[left].left = NULL /\ node'[left].right = NULL
       /\ node'[right].left = NULL /\ node'[right].right = NULL
       /\ ~node'[left].is_allocated /\ ~node'[right].is_allocated
  BY <1>5, <1>8, <1>11 DEF FreshNode
<1>14. Leaves' = (Leaves \ {n}) \cup {left, right} /\ Allocated' = Allocated
  <2>1. ~IsLeaf(n)' /\ IsLeaf(left)' /\ IsLeaf(right)'
    BY <1>5, <1>9, <1>11, <1>13 DEF IsLeaf
  <2>2. \A m \in Nodes \ {n} : IsLeaf(m)' <=> IsLeaf(m)
    BY <1>13 DEF IsLeaf
  <2>3. Leaves' = {m \in Nodes' : IsLeaf(m)'}
    BY DEF Leaves
  <2>4. Leaves' = (Leaves \ {n}) \cup {left, right}
    BY <1>1, <1>6, <2>1, <2>2, <2>3 DEF Leaves
  <2>5. Allocated' = Allocated
    BY <1>1, <1>6, <1>9, <1>12, <1>13 DEF Allocated
  <2> QED BY <2>4, <2>5
<1>15. /\ \A m \in Nodes : NodePages(m)' = NodePages(m)
       /\ NodePages(left)' = Region(node[n].vaddr, half)
       /\ NodePages(right)' = Region(node[n].vaddr + half, node[n].len - half)
  <2>1. \A m \in Nodes : node'[m].vaddr = node[m].vaddr /\ node'[m].len = node[m].len
    BY <1>9, <1>13
  <2>2. /\ node'[left].vaddr = node[n].vaddr /\ node'[left].len = half
        /\ node'[right].vaddr = node[n].vaddr + half
        /\ node'[right].len = node[n].len - half
    BY <1>8 DEF FreshNode
  <2> QED BY <2>1, <2>2 DEF NodePages, Region
<1>16. NodePages(left)' \cup NodePages(right)' = NodePages(n)
       /\ NodePages(left)' \cap NodePages(right)' = {}
  BY <1>4, <1>15
<1>17. /\ node'[left].len = node[n].len \div 2
       /\ node'[right].len = node[n].len - (node[n].len \div 2)
  BY <1>0, <1>8, SMTT(30), ZenonT(30) DEF FreshNode
<1>18. \A m \in Nodes : node'[m].vaddr = node[m].vaddr /\ node'[m].len = node[m].len
  BY <1>9, <1>13
<1>19. SplitFacts(n, left, right)
  BY <1>1, <1>2, <1>3, <1>5, <1>6, <1>9, <1>10, <1>12, <1>13, <1>14, <1>15, <1>16, <1>17,
     <1>18
  DEF SplitFacts
<1> QED BY <1>0, <1>19

\* split_node replaces a leaf by two disjoint halves of it.
LEMMA SplitInv ==
  ASSUME HeapInv, NEW n \in Slots, FindSplit(n)
  PROVE  HeapInv'
<1>0. PICK left, right : left = used + 1 /\ right = used + 2
  OBVIOUS
<1>1. Tail(todo) \in Seq(Nodes)
  BY DEF FindSplit, Searching, HeapInv, TypeOK
<1>2. SplitFacts(n, left, right)
  BY <1>0, SplitTree
<1>5. used \in Nat /\ left \in Slots /\ right \in Slots /\ left # right
      /\ n \in Nodes /\ left \notin Nodes /\ right \notin Nodes
  BY <1>2 DEF SplitFacts
<1>6. Nodes' = Nodes \cup {left, right}
  BY <1>2 DEF SplitFacts
<1>8. /\ node'[left].len >= 1 /\ node'[right].len >= 1
      /\ \A m \in Nodes : node'[m].vaddr = node[m].vaddr /\ node'[m].len = node[m].len
      /\ \A m \in Nodes \ {n} : node'[m] = node[m]
  BY <1>2 DEF SplitFacts
<1>9. node'[n].left = left /\ node'[n].right = right
  BY <1>2 DEF SplitFacts
<1>10. node' \in [Slots -> Node]
  BY <1>2 DEF SplitFacts
<1>12. n \in Leaves \ Allocated
  BY <1>2 DEF SplitFacts
<1>14. Leaves' = (Leaves \ {n}) \cup {left, right} /\ Allocated' = Allocated
  BY <1>2 DEF SplitFacts
<1>15. \A m \in Nodes : NodePages(m)' = NodePages(m)
  BY <1>2 DEF SplitFacts
<1>16. /\ NodePages(left)' \subseteq NodePages(n)
       /\ NodePages(right)' \subseteq NodePages(n)
       /\ NodePages(left)' \cap NodePages(right)' = {}
  BY <1>2 DEF SplitFacts
<1>17. TypeOK'
  <2>1. todo' \in Seq(Nodes')
    <3>1. Tail(todo) \in Seq(Nodes')
      BY <1>1, <1>6
    <3> QED BY <3>1, <1>0, <1>6 DEF FindSplit
  <2>2. used' \in 0 .. PoolSlots
    BY <1>5 DEF FindSplit
  <2>3. used' >= 1
    BY <1>5 DEF FindSplit
  <2> QED BY <1>10, <2>1, <2>2, <2>3
          DEF FindSplit, HeapInv, TypeOK, MmTypeOK, mmVars
<1>18. TreeShape'
  <2>1. used >= 1
    BY DEF FindSplit, Searching, HeapInv, TypeOK
  <2>2. node'[Root].vaddr = HeapBase /\ node'[Root].len = HeapBlocks
    <3>1. Root \in Nodes
      BY <2>1, <1>5 DEF Nodes, Root
    <3> QED BY <2>1, <3>1, <1>8 DEF HeapInv, TreeShape
  <2>3. ASSUME NEW m \in Nodes'
        PROVE  node'[m].len >= 1 /\ NodePages(m)' \subseteq HeapPages
    <3>1. CASE m \in Nodes
      <4>1. node'[m].len = node[m].len
        BY <3>1, <1>8
      <4> QED BY <3>1, <4>1, <1>15 DEF HeapInv, TreeShape
    <3>2. CASE m \in {left, right}
      BY <3>2, <1>5, <1>8, <1>16 DEF HeapInv, TreeShape
    <3> QED BY <3>1, <3>2, <1>6
  <2>4. ASSUME NEW m \in Nodes' \ Leaves'
        PROVE  node'[m].left \in Nodes' /\ node'[m].right \in Nodes'
    <3>1. m = n \/ m \in Nodes \ Leaves
      BY <1>6, <1>14
    <3>2. CASE m = n
      BY <3>2, <1>6, <1>9
    <3>3. CASE m # n /\ m \in Nodes \ Leaves
      <4>1. node'[m] = node[m]
        BY <3>3, <1>8
      <4> QED BY <3>3, <4>1, <1>6 DEF HeapInv, TreeShape
    <3> QED BY <3>1, <3>2, <3>3
  <2>5. Allocated' \subseteq Leaves'
    BY <1>12, <1>14 DEF HeapInv, TreeShape
  <2> QED BY <2>2, <2>3, <2>4, <2>5 DEF TreeShape
<1>19. LeavesDisjoint'
  <2>1. \A m \in Leaves \ {n} : m \in Nodes /\ NodePages(m) \cap NodePages(n) = {}
    BY <1>12 DEF HeapInv, LeavesDisjoint, Leaves
  <2> SUFFICES ASSUME NEW l \in Leaves', NEW m \in Leaves', l # m
               PROVE  NodePages(l)' \cap NodePages(m)' = {}
    BY DEF LeavesDisjoint
  <2>2. CASE l \in Leaves \ {n} /\ m \in Leaves \ {n}
    BY <2>1, <2>2, <1>15 DEF HeapInv, LeavesDisjoint
  <2>3. CASE l \in {left, right} /\ m \in Leaves \ {n}
    BY <2>1, <2>3, <1>15, <1>16
  <2>4. CASE l \in Leaves \ {n} /\ m \in {left, right}
    BY <2>1, <2>4, <1>15, <1>16
  <2>5. CASE l \in {left, right} /\ m \in {left, right}
    BY <2>5, <1>16
  <2> QED BY <2>2, <2>3, <2>4, <2>5, <1>14
<1>20. FreeLeavesClear'
  <2>1. \A m \in Leaves \ Allocated : NodePages(m) \cap vmBitmap = {}
    BY DEF FindSplit, Searching, HeapInv, FreeLeavesClear, Mapping
  <2>2. \A m \in Leaves' \ Allocated' : NodePages(m)' \cap vmBitmap = {}
    <3> SUFFICES ASSUME NEW m \in Leaves' \ Allocated'
                 PROVE  NodePages(m)' \cap vmBitmap = {}
      OBVIOUS
    <3>1. CASE m \in Leaves \ {n}
      BY <2>1, <3>1, <1>14, <1>15 DEF Leaves
    <3>2. CASE m \in {left, right}
      BY <2>1, <3>2, <1>12, <1>16
    <3> QED BY <3>1, <3>2, <1>14
  <2> QED BY <2>2 DEF FindSplit, FreeLeavesClear, mmVars
<1>21. HeapPagesOwned'
  <2>1. Allocated \subseteq Nodes
    BY DEF Allocated
  <2> QED BY <2>1, <1>14, <1>15
          DEF FindSplit, Searching, HeapInv, HeapPagesOwned, mmVars
<1>22. MapLoop' /\ (used' = 0 <=> pc' \in {"stack", "table"})
  BY <1>5 DEF FindSplit, Searching, MapLoop
<1> QED BY <1>17, <1>18, <1>19, <1>20, <1>21, <1>22 DEF HeapInv

-----------------------------------------------------------------------------
(***************************************************************************)
(* The mapping loop: mm_alloc is called for pages of the chosen leaf, from *)
(* the first on, and refuses none of them.                                 *)
(***************************************************************************)
LEMMA MapPageInv == ASSUME HeapInv, MapPage PROVE HeapInv'
<1>1. cur \in Leaves \ Allocated /\ cur \in Nodes /\ NodePages(cur) \subseteq HeapPages
  BY DEF MapPage, HeapInv, MapLoop, TreeShape, Leaves
<1>2. page \notin vmBitmap
  BY <1>1 DEF MapPage, HeapInv, FreeLeavesClear, TypeOK
<1>3. PICK j \in Blocks : mm_alloc(page, 1, j)
  BY <1>2 DEF MapPage
<1>4. page \in Blocks /\ page \in Nat /\ page \in NodePages(cur)
  BY <1>1, LayoutAssumption DEF MapPage, HeapInv, TypeOK
<1>5. /\ page' = page + 1 /\ pc = "map" /\ pc' = "map"
      /\ UNCHANGED <<treeVars, req, todo, cur, ret>>
  BY <1>2 DEF MapPage
<1>6. vmBitmap' = vmBitmap \cup {page}
  BY <1>3 DEF mm_alloc
<1>7. TypeOK'
  <2>1. MmTypeOK'
    BY <1>3, <1>4, MmAllocType DEF HeapInv, TypeOK
  <2> QED BY <2>1, <1>4, <1>5 DEF HeapInv, TypeOK, treeVars, Nodes
<1>8. FreeLeavesClear'
  <2> SUFFICES ASSUME NEW m \in Leaves \ Allocated, NEW p \in NodePages(m),
                      p \in vmBitmap'
               PROVE  m = cur /\ p < page + 1
    BY <1>5, TreeUnchanged DEF FreeLeavesClear, Mapping
  <2>1. CASE p = page
    <3>1. m = cur
      BY <2>1, <1>1, <1>4 DEF HeapInv, LeavesDisjoint
    <3> QED BY <2>1, <3>1, <1>4
  <2>2. CASE p \in vmBitmap
    <3>1. m = cur /\ p < page
      BY <2>2 DEF HeapInv, FreeLeavesClear, Mapping
    <3>2. p \in Int
      BY <2>2 DEF HeapInv, TypeOK, MmTypeOK, Blocks
    <3> QED BY <3>1, <3>2, <1>4
  <2> QED BY <2>1, <2>2, <1>6
<1>9. MapLoop'
  <2>1. node[cur].vaddr \in Nat /\ node[cur].len \in Nat
    BY DEF HeapInv, TypeOK, Node
  <2>2. page + 1 >= node[cur].vaddr /\ page + 1 <= node[cur].vaddr + node[cur].len
    BY <2>1, <1>4 DEF NodePages, Region
  <2> QED BY <2>2, <1>1, <1>5, TreeUnchanged DEF MapLoop, treeVars
<1>10. HeapPagesOwned'
  <2> SUFFICES ASSUME NEW p \in (vmBitmap \cup {page}) \cap HeapPages
               PROVE  \/ \E m \in Allocated : p \in NodePages(m)
                      \/ p \in NodePages(cur) /\ p < page + 1
    BY <1>5, <1>6, TreeUnchanged DEF HeapPagesOwned
  <2>1. CASE p = page
    BY <2>1, <1>4
  <2>2. CASE p \in vmBitmap
    <3>1. \/ \E m \in Allocated : p \in NodePages(m)
          \/ p \in NodePages(cur) /\ p < page
      BY <2>2 DEF HeapInv, HeapPagesOwned
    <3>2. p \in Int
      BY <2>2 DEF HeapInv, TypeOK, MmTypeOK, Blocks
    <3> QED BY <3>1, <3>2, <1>4
  <2> QED BY <2>1, <2>2
<1>11. used' = 0 <=> pc' \in {"stack", "table"}
  BY <1>5 DEF HeapInv, treeVars
<1> QED BY <1>5, <1>7, <1>8, <1>9, <1>10, <1>11, TreeUnchanged DEF HeapInv

(***************************************************************************)
(* A page fault stops the kernel with the bitmaps as they are.             *)
(***************************************************************************)
LEMMA FaultInv == ASSUME HeapInv, BufferFault \/ MapFault PROVE HeapInv'
<1>1. UNCHANGED <<pageBitmap, vmBitmap, pageTable, treeVars, req, todo, cur,
                  page, ret>> /\ exhausted' = TRUE /\ pc' = "halt"
      /\ pc \in {"idle", "map"}
  BY DEF BufferFault, MapFault
<1>2. TypeOK'
  BY <1>1 DEF HeapInv, TypeOK, MmTypeOK, treeVars, Nodes
<1>3. FreeLeavesClear' /\ HeapPagesOwned' /\ MapLoop'
  BY <1>1, TreeUnchanged
  DEF HeapInv, FreeLeavesClear, HeapPagesOwned, MapLoop, Mapping
<1>4. used' = 0 <=> pc' \in {"stack", "table"}
  BY <1>1 DEF HeapInv, treeVars
<1> QED BY <1>1, <1>2, <1>3, <1>4, TreeUnchanged DEF HeapInv

(***************************************************************************)
(* Marking a node allocated, or the root free, moves no node.              *)
(***************************************************************************)
LEMMA SetAllocated ==
  ASSUME HeapInv, NEW n \in Leaves \cup {Root}, NEW b \in BOOLEAN,
         n \in Nodes,
         node' = [node EXCEPT ![n].is_allocated = b], used' = used
  PROVE  /\ node' \in [Slots -> Node] /\ Nodes' = Nodes /\ Leaves' = Leaves
         /\ \A m \in Nodes : NodePages(m)' = NodePages(m)
         /\ \A m \in Nodes : /\ node'[m].len = node[m].len
                             /\ node'[m].left = node[m].left
                             /\ node'[m].right = node[m].right
         /\ Allocated' = IF b THEN Allocated \cup {n} ELSE Allocated \ {n}
         /\ b /\ n \in Leaves => TreeShape'
         /\ ~b => TreeShape'
<1>1. Nodes \subseteq Slots /\ node \in [Slots -> Node]
  BY NodesAreSlots DEF HeapInv, TypeOK
<1>2. node'[n] = [node[n] EXCEPT !.is_allocated = b]
      /\ \A m \in Slots \ {n} : node'[m] = node[m]
  BY <1>1
<1>3. node[n] \in Node
  BY <1>1
<1>4. /\ node'[n].vaddr = node[n].vaddr /\ node'[n].len = node[n].len
      /\ node'[n].left = node[n].left /\ node'[n].right = node[n].right
      /\ node'[n].is_allocated = b /\ node'[n] \in Node
  BY <1>2, <1>3 DEF Node
<1>5. node' \in [Slots -> Node]
  <2>1. node' = [m \in Slots |-> node'[m]]
    BY <1>1
  <2> QED BY <2>1, <1>1, <1>2, <1>4
<1>6. \A m \in Slots : /\ node'[m].vaddr = node[m].vaddr
                       /\ node'[m].len = node[m].len
                       /\ node'[m].left = node[m].left
                       /\ node'[m].right = node[m].right
  BY <1>2, <1>4
<1>7. Nodes' = Nodes
  BY DEF Nodes
<1>8. Leaves' = Leaves /\ \A m \in Slots : NodePages(m)' = NodePages(m)
  <2>1. \A m \in Nodes : IsLeaf(m)' <=> IsLeaf(m)
    BY <1>1, <1>6 DEF IsLeaf
  <2>2. Leaves' = Leaves
    BY <2>1, <1>7 DEF Leaves
  <2> QED BY <2>2, <1>6 DEF NodePages, Region
<1>9. Allocated' = IF b THEN Allocated \cup {n} ELSE Allocated \ {n}
  <2>1. \A m \in Nodes : node'[m].is_allocated <=> (m # n /\ node[m].is_allocated)
                                                 \/ (m = n /\ b)
    BY <1>1, <1>2, <1>4
  <2> QED BY <2>1, <1>7 DEF Allocated
<1>10. (Allocated' \subseteq Leaves) => TreeShape'
  <2>1. Root \in Slots
    BY SlotFacts
  <2> QED BY <2>1, <1>1, <1>6, <1>7, <1>8 DEF HeapInv, TreeShape
<1>11. Allocated \subseteq Leaves
  BY DEF HeapInv, TreeShape
<1> QED BY <1>1, <1>5, <1>6, <1>7, <1>8, <1>9, <1>10, <1>11

\* Marking the mapped block allocated makes its pages owned.
LEMMA MapDoneInv == ASSUME HeapInv, MapDone PROVE HeapInv'
<1>1. cur \in Leaves \ Allocated /\ cur \in Nodes
  BY DEF MapDone, HeapInv, MapLoop, Leaves
<1>2. /\ node' \in [Slots -> Node] /\ Nodes' = Nodes /\ Leaves' = Leaves
      /\ \A m \in Nodes : NodePages(m)' = NodePages(m)
      /\ Allocated' = Allocated \cup {cur} /\ TreeShape'
  <2>1. node' = [node EXCEPT ![cur].is_allocated = TRUE] /\ used' = used
    BY DEF MapDone
  <2> QED BY <1>1, <2>1, SetAllocated
<1>3. Leaves \subseteq Nodes /\ Allocated \subseteq Nodes
  BY DEF Leaves, Allocated
<1>4. TypeOK'
  BY <1>2 DEF MapDone, Return, HeapInv, TypeOK, MmTypeOK, mmVars
<1>5. LeavesDisjoint'
  BY <1>2, <1>3 DEF HeapInv, LeavesDisjoint
<1>6. FreeLeavesClear'
  BY <1>2, <1>3
  DEF MapDone, HeapInv, FreeLeavesClear, Mapping, mmVars
<1>7. HeapPagesOwned' /\ MapLoop'
  BY <1>1, <1>2, <1>3 DEF MapDone, Return, HeapInv, HeapPagesOwned, MapLoop, mmVars
<1>8. used' = 0 <=> pc' \in {"stack", "table"}
  BY DEF MapDone, Return, HeapInv
<1> QED BY <1>2, <1>4, <1>5, <1>6, <1>7, <1>8 DEF HeapInv

(***************************************************************************)
(* free of the root's address unmaps the whole heap, so no page of it is   *)
(* marked afterwards.                                                      *)
(***************************************************************************)
LEMMA FreeInv ==
  ASSUME HeapInv, NEW addr \in HeapPages, buddy_allocator__free(addr)
  PROVE  HeapInv'
<1>1. CASE addr # node[Root].vaddr
  <2>1. UNCHANGED <<mmVars, treeVars, cur, page, req, todo>>
        /\ pc = "idle" /\ pc' = "idle" /\ ret' = "NOT_FOUND"
    BY <1>1 DEF buddy_allocator__free, Return, treeVars
  <2> QED BY <2>1, SearchMoves DEF HeapInv, TypeOK
<1>2. CASE addr = node[Root].vaddr
  <2>1. used >= 1 /\ used \in Nat /\ pc = "idle"
    BY DEF buddy_allocator__free, HeapInv, TypeOK
  <2>2. Root \in Nodes
    BY <2>1 DEF Nodes, Root
  <2>3. /\ node' = [node EXCEPT ![Root].is_allocated = FALSE]
        /\ mm_free(NodePages(Root)) /\ pc' = "idle" /\ ret' = "NO_ERROR"
        /\ UNCHANGED <<used, req, todo, cur, page>>
    BY <1>2 DEF buddy_allocator__free, Return
  <2>4. /\ node' \in [Slots -> Node] /\ Nodes' = Nodes /\ Leaves' = Leaves
        /\ \A m \in Nodes : NodePages(m)' = NodePages(m)
        /\ Allocated' = Allocated \ {Root} /\ TreeShape'
    BY <2>2, <2>3, SetAllocated
  <2>5. NodePages(Root) = HeapPages
    BY <2>1 DEF HeapInv, TreeShape, NodePages, HeapPages
  <2>6. vmBitmap' \cap HeapPages = {}
    BY <2>3, <2>5 DEF mm_free
  <2>7. MmTypeOK'
    <3>1. 0 \in Blocks
      BY MmAssumption DEF Blocks
    <3>2. pageTable' \in [Blocks -> Pte]
      BY <2>3, <3>1 DEF mm_free, arch_paging_unmap, HeapInv, TypeOK, MmTypeOK, Pte
    <3> QED BY <2>3, <3>2 DEF mm_free, HeapInv, TypeOK, MmTypeOK
  <2>8. TypeOK'
    <3>1. used' = used /\ req' = req /\ todo' = todo /\ cur' = cur /\ page' = page
      BY <2>3
    <3>2. todo' \in Seq(Nodes')
      BY <3>1, <2>4 DEF HeapInv, TypeOK
    <3> QED BY <2>1, <2>3, <2>4, <2>7, <3>1, <3>2 DEF HeapInv, TypeOK
  <2>9. Leaves \subseteq Nodes /\ \A m \in Nodes : NodePages(m) \subseteq HeapPages
    BY DEF Leaves, HeapInv, TreeShape
  <2>10. LeavesDisjoint'
    BY <2>4, <2>9 DEF HeapInv, LeavesDisjoint
  <2>11. FreeLeavesClear' /\ HeapPagesOwned' /\ MapLoop'
    BY <2>3, <2>4, <2>6, <2>9 DEF FreeLeavesClear, HeapPagesOwned, MapLoop
  <2>12. used' = 0 <=> pc' \in {"stack", "table"}
    BY <2>1, <2>3
  <2> QED BY <2>4, <2>8, <2>10, <2>11, <2>12 DEF HeapInv
<1> QED BY <1>1, <1>2

-----------------------------------------------------------------------------
\* Every step of the kernel and of callers that free keeps the invariant.
LEMMA HeapStep == HeapInv /\ [Next]_vars => HeapInv'
<1> SUFFICES ASSUME HeapInv, [Next]_vars PROVE HeapInv'
  OBVIOUS
<1>1. CASE UNCHANGED vars
  <2>1. UNCHANGED <<mmVars, treeVars, pc, req, todo, cur, page, ret>>
    BY <1>1 DEF vars, ctlVars
  <2>2. TypeOK'
    BY <2>1, SMTT(30), ZenonT(30) DEF HeapInv, TypeOK, MmTypeOK, mmVars, treeVars, Nodes
  <2>3. FreeLeavesClear' /\ HeapPagesOwned' /\ MapLoop'
    BY <2>1, TreeUnchanged DEF HeapInv, FreeLeavesClear, HeapPagesOwned,
                               MapLoop, Mapping, mmVars, treeVars
  <2> QED BY <2>1, <2>2, <2>3, TreeUnchanged DEF HeapInv, treeVars
<1>2. CASE kmain_stack \/ buddy_allocator__init_map \/ buddy_allocator__init_root
           \/ fat16_create_context \/ BufferFault
  BY <1>2, StackInv, InitMapInv, InitRootInv, BufferInv, FaultInv
<1>3. CASE \E len \in Lens : AllocTooLong(len) \/ AllocStart(len)
  BY <1>3, AllocCallInv
<1>4. CASE FindStep
  BY <1>4, FindFailedInv, FindMovesInv, AcceptInv, SplitInv DEF FindStep
<1>5. CASE MapStep
  BY <1>5, MapPageInv, FaultInv, MapDoneInv DEF MapStep
<1>6. CASE \E addr \in HeapPages : buddy_allocator__free(addr)
  BY <1>6, FreeInv
<1> QED BY <1>1, <1>2, <1>3, <1>4, <1>5, <1>6 DEF Next, KernelNext, Stopped

(***************************************************************************)
(* The invariants of the tree and the VM bitmap follow from HeapInv.       *)
(***************************************************************************)
LEMMA HeapConsequences ==
  HeapInv => TypeOK /\ HeapSound
<1> SUFFICES ASSUME HeapInv PROVE BlocksDisjoint /\ MapNeverRefused
  BY DEF HeapInv, HeapSound
<1>1. BlocksDisjoint
  BY DEF HeapInv, TreeShape, LeavesDisjoint, BlocksDisjoint
<1>2. MapNeverRefused
  <2> SUFFICES ASSUME pc = "map", NEW p \in NodePages(cur), p >= page,
                      p \in vmBitmap
               PROVE  FALSE
    BY DEF MapNeverRefused
  <2>1. p < page
    BY DEF HeapInv, MapLoop, FreeLeavesClear
  <2>2. p \in Int /\ page \in Int
    BY DEF HeapInv, TypeOK, MmTypeOK, Blocks
  <2> QED BY <2>1, <2>2
<1> QED BY <1>1, <1>2

(***************************************************************************)
(* The heap with its whole interface: blocks handed out are disjoint, the  *)
(* VM bitmap marks no heap page that is in none of them, and mm_alloc      *)
(* refuses no page of the block being mapped.                              *)
(***************************************************************************)
THEOREM HeapSafe ==
  FullSpec => [](TypeOK /\ HeapSound)
BY InitHeapInv, HeapStep, HeapConsequences, PTL DEF FullSpec

-----------------------------------------------------------------------------
(***************************************************************************)
(* The refinement.  Only the end of a call changes the set of blocks       *)
(* handed out: MapDone grants one, free of an allocated root releases it.  *)
(***************************************************************************)
granted == {NodePages(n) : n \in Allocated}

\* The end of buddy_allocator__alloc is a Grant of the abstract heap.
LEMMA AllocRefines ==
  ASSUME HeapInv, MapDone PROVE H!Grant(NodePages(cur))
<1>1. cur \in Leaves \ Allocated /\ cur \in Nodes
  BY DEF MapDone, HeapInv, MapLoop, Leaves
<1>2. /\ \A m \in Nodes : NodePages(m)' = NodePages(m)
      /\ Allocated' = Allocated \cup {cur}
  <2>1. node' = [node EXCEPT ![cur].is_allocated = TRUE] /\ used' = used
    BY DEF MapDone
  <2> QED BY <1>1, <2>1, SetAllocated
<1>3. NodePages(cur) # {} /\ NodePages(cur) \subseteq HeapPages
  <2>1. node[cur].vaddr \in Nat /\ node[cur].len \in Nat
    BY DEF HeapInv, TypeOK, Node
  <2>2. node[cur].vaddr \in NodePages(cur)
    BY <1>1, <2>1 DEF NodePages, Region, HeapInv, TreeShape
  <2> QED BY <1>1, <2>2 DEF HeapInv, TreeShape
<1>4. \A c \in granted : NodePages(cur) \cap c = {}
  BY <1>1 DEF granted, HeapInv, TreeShape, LeavesDisjoint
<1>5. granted' = granted \cup {NodePages(cur)}
  <2>1. Allocated \subseteq Nodes
    BY DEF Allocated
  <2> QED BY <1>1, <1>2, <2>1 DEF granted
<1> QED BY <1>3, <1>4, <1>5 DEF H!Grant, granted

\* buddy_allocator__free releases the root block, or changes nothing.
LEMMA FreeRefines ==
  ASSUME HeapInv, NEW addr \in HeapPages, buddy_allocator__free(addr)
  PROVE  H!Release(NodePages(Root)) \/ UNCHANGED granted
<1>1. CASE addr # node[Root].vaddr
  BY <1>1, TreeUnchanged DEF buddy_allocator__free, treeVars, granted
<1>2. CASE addr = node[Root].vaddr
  <2>1. Root \in Nodes
    BY DEF buddy_allocator__free, HeapInv, TypeOK, Nodes, Root
  <2>2. node' = [node EXCEPT ![Root].is_allocated = FALSE] /\ used' = used
    BY <1>2 DEF buddy_allocator__free
  <2>3. /\ \A m \in Nodes : NodePages(m)' = NodePages(m)
        /\ Allocated' = Allocated \ {Root}
    BY <2>1, <2>2, SetAllocated
  <2>4. Allocated \subseteq Nodes
    BY DEF Allocated
  <2>5. granted' = {NodePages(m) : m \in Allocated \ {Root}}
    BY <2>3, <2>4 DEF granted
  <2>6. CASE Root \notin Allocated
    BY <2>5, <2>6 DEF granted
  <2>7. CASE Root \in Allocated
    <3>1. \A m \in Allocated \ {Root} : NodePages(m) # NodePages(Root)
      <4> SUFFICES ASSUME NEW m \in Allocated \ {Root}
                   PROVE  NodePages(m) # NodePages(Root)
        OBVIOUS
      <4>1. node[m].vaddr \in NodePages(m)
        <5>1. m \in Nodes /\ m \in Slots
          BY <2>4, NodesAreSlots
        <5>2. node[m].vaddr \in Nat /\ node[m].len \in Nat
          BY <5>1 DEF HeapInv, TypeOK, Node
        <5> QED BY <5>1, <5>2 DEF HeapInv, TreeShape, NodePages, Region
      <4>2. NodePages(m) \cap NodePages(Root) = {}
        BY <2>7 DEF HeapInv, TreeShape, LeavesDisjoint
      <4> QED BY <4>1, <4>2
    <3>2. granted' = granted \ {NodePages(Root)} /\ NodePages(Root) \in granted
      BY <2>5, <2>7, <3>1 DEF granted
    <3> QED BY <3>2 DEF H!Release, granted
  <2> QED BY <2>6, <2>7
<1> QED BY <1>1, <1>2

\* A split hands out nothing.
LEMMA SplitRefines ==
  ASSUME HeapInv, NEW n \in Slots, FindSplit(n) PROVE UNCHANGED granted
<1>1. Allocated' = Allocated /\ \A m \in Nodes : NodePages(m)' = NodePages(m)
  BY SplitTree DEF SplitFacts
<1>2. Allocated \subseteq Nodes
  BY DEF Allocated
<1> QED BY <1>1, <1>2 DEF granted

(***************************************************************************)
(* buddy_allocator__alloc and _free implement the abstract heap, for every *)
(* layout and every sequence of calls.                                     *)
(***************************************************************************)
THEOREM HeapRefinement == FullSpec => ImplementsHeap
<1>1. Init => H!HeapInit
  BY DEF Init, H!HeapInit, Allocated, Nodes
<1>2. HeapInv /\ [Next]_vars => [H!HeapNext]_granted
  <2> SUFFICES ASSUME HeapInv, [Next]_vars
               PROVE  (\E b \in SUBSET HeapPages : H!Grant(b) \/ H!Release(b))
                      \/ UNCHANGED granted
    BY DEF H!HeapNext, granted
  <2>1. CASE UNCHANGED treeVars
    BY <2>1, TreeUnchanged DEF granted
  <2>2. CASE buddy_allocator__init_root
    <3>1. Allocated = {}
      BY <2>2 DEF buddy_allocator__init_root, HeapInv, Allocated, Nodes
    <3>2. Allocated' = {}
      <4>1. node'[Root] = FreshNode(HeapBase, HeapBlocks) /\ Nodes' = {Root}
        BY <2>2, SlotFacts
        DEF buddy_allocator__init_root, HeapInv, TypeOK, Nodes, Root
      <4> QED BY <4>1 DEF Allocated, FreshNode
    <3> QED BY <3>1, <3>2 DEF granted
  <2>3. CASE \E n \in Slots : FindSplit(n)
    BY <2>3, SplitRefines
  <2>4. CASE MapDone
    <3>1. H!Grant(NodePages(cur))
      BY <2>4, AllocRefines
    <3> QED BY <3>1 DEF H!Grant
  <2>5. CASE \E addr \in HeapPages : buddy_allocator__free(addr)
    <3>1. H!Release(NodePages(Root)) \/ UNCHANGED granted
      BY <2>5, FreeRefines
    <3>2. NodePages(Root) \subseteq HeapPages
      BY <2>5, SMTT(30), ZenonT(30) DEF buddy_allocator__free, HeapInv, TypeOK, TreeShape, NodePages,
                  HeapPages
    <3> QED BY <3>1, <3>2
  <2>6. \/ UNCHANGED treeVars \/ buddy_allocator__init_root
        \/ (\E n \in Slots : FindSplit(n)) \/ MapDone
        \/ \E addr \in HeapPages : buddy_allocator__free(addr)
    BY DEF Next, KernelNext, FindStep, MapStep, Stopped, vars, kmain_stack,
           buddy_allocator__init_map, fat16_create_context, BufferFault,
           AllocTooLong, AllocStart, FindFailed, FindSkip, FindAccept,
           FindDescend, PoolFault, PoolClobbered, MapPage, MapFault
  <2> QED BY <2>1, <2>2, <2>3, <2>4, <2>5, <2>6
<1> QED
  BY <1>1, <1>2, InitHeapInv, HeapStep, PTL
  DEF FullSpec, ImplementsHeap, H!HeapSpec, granted

-----------------------------------------------------------------------------
(***************************************************************************)
(* The sizes of nodes are a chain: each of two is at most half the other.  *)
(* A class is Low when every larger one is even and its half no smaller.   *)
(***************************************************************************)
Low(a) == \A c \in SizeClasses : c > a => c % 2 = 0 /\ c \div 2 >= a

LEMMA ClassTypes ==
  /\ HeapBlocks \in SizeClasses
  /\ \A s \in SizeClasses : s \in Nat /\ s >= 1 /\ s <= HeapBlocks
BY BuddyAssumption DEF SizeClasses, Halving

LEMMA ClassHalf ==
  ASSUME NEW s \in SizeClasses, s % 2 = 0
  PROVE  s \div 2 \in SizeClasses
<1>1. s \div 2 \in 1 .. HeapBlocks
  BY ClassTypes, BuddyAssumption
<1> QED
  BY <1>1 DEF SizeClasses, Halving

LEMMA LowSplits ==
  ASSUME NEW a \in SizeClasses, Low(a), NEW c \in SizeClasses
  PROVE  c >= a \/ (a % 2 = 0 /\ c <= a \div 2)
<1> DEFINE C == {d \in SizeClasses : d >= a \/ (a % 2 = 0 /\ d <= a \div 2)}
<1>1. C \in SUBSET (1 .. HeapBlocks)
  BY DEF SizeClasses
<1>2. HeapBlocks \in C
  BY ClassTypes
<1>3. ASSUME NEW d \in C, d % 2 = 0 PROVE d \div 2 \in C
  <2>1. d \in SizeClasses /\ d \in Nat /\ a \in Nat /\ d >= 1 /\ a >= 1
    BY ClassTypes
  <2>2. d \div 2 \in SizeClasses
    BY <1>3, <2>1, ClassHalf
  <2>3. d > a => d \div 2 >= a
    BY <2>1 DEF Low
  <2>4. d \div 2 >= a \/ (a % 2 = 0 /\ d \div 2 <= a \div 2)
    BY <1>3, <2>1, <2>3
  <2> QED
    BY <2>2, <2>4
<1>4. Halving(C)
  BY <1>2, <1>3 DEF Halving
<1>5. c \in C
  BY <1>1, <1>4 DEF SizeClasses
<1> QED
  BY <1>5

LEMMA ClassChain ==
  ASSUME NEW a \in SizeClasses, NEW b \in SizeClasses, a > b
  PROVE  a % 2 = 0 /\ a \div 2 \in SizeClasses /\ a \div 2 >= b
<1> DEFINE C == {d \in SizeClasses : Low(d)}
<1>1. C \in SUBSET (1 .. HeapBlocks)
  BY DEF SizeClasses
<1>2. HeapBlocks \in C
  BY ClassTypes, BuddyAssumption DEF Low
<1>3. ASSUME NEW d \in C, d % 2 = 0 PROVE d \div 2 \in C
  <2>1. d \in SizeClasses /\ Low(d) /\ d \in Nat /\ d >= 1
    BY ClassTypes
  <2>2. d \div 2 \in SizeClasses
    BY <1>3, <2>1, ClassHalf
  <2>3. ASSUME NEW c \in SizeClasses, c > d \div 2
        PROVE  c % 2 = 0 /\ c \div 2 >= d \div 2
    <3>1. c \in Nat
      BY ClassTypes
    <3>2. c >= d
      BY <2>1, <2>3, <3>1, LowSplits
    <3>3. c > d => c % 2 = 0 /\ c \div 2 >= d
      BY <2>1 DEF Low
    <3> QED
      BY <1>3, <2>1, <3>1, <3>2, <3>3
  <2> QED
    BY <2>2, <2>3 DEF Low
<1>4. Halving(C)
  BY <1>2, <1>3 DEF Halving
<1>5. b \in C
  BY <1>1, <1>4 DEF SizeClasses
<1>6. a % 2 = 0 /\ a \div 2 >= b
  BY <1>5 DEF Low
<1> QED
  BY <1>6, ClassHalf

\* The lengths find_space compares with: four times a request is at most twice
\* the double, the wrap-around of uint32_t included.
LEMMA DoubleWraps ==
  ASSUME NEW x \in Nat
  PROVE  (2 * x) % Word <= 2 * (x % Word) /\ x % Word \in Nat /\ (2 * x) % Word \in Nat
<1>0. Word \in Nat /\ Word > 0 /\ 2 * x \in Nat
  BY BuddyAssumption
<1>1. PICK q, r \in Nat : q = x \div Word /\ r = x % Word
  BY <1>0
<1>2. PICK p, s \in Nat : p = (2 * x) \div Word /\ s = (2 * x) % Word
  BY <1>0
<1>3. x = Word * q + r /\ r < Word
  BY <1>0, <1>1
<1>4. 2 * x = Word * p + s /\ s < Word
  BY <1>0, <1>2
<1>5. Word * (2 * q) = 2 * (Word * q)
  BY <1>0
<1>6. Word * (2 * q) + 2 * r = Word * p + s
  BY <1>0, <1>3, <1>4, <1>5
<1>7. p >= 2 * q
  <2> SUFFICES ASSUME p + 1 <= 2 * q PROVE FALSE
    OBVIOUS
  <2>1. \A a, b, c \in Nat : a <= b => c * a <= c * b
    OBVIOUS
  <2>2. Word * (p + 1) <= Word * (2 * q)
    BY <1>0, <2>1, p + 1 \in Nat, 2 * q \in Nat
  <2>3. Word * (p + 1) = Word * p + Word
    BY <1>0
  <2> QED
    BY <1>0, <1>4, <1>6, <2>2, <2>3
<1>8. Word * p >= Word * (2 * q)
  <2>1. \A a, b, c \in Nat : a <= b => c * a <= c * b
    OBVIOUS
  <2> QED
    BY <1>0, <1>7, <2>1, 2 * q \in Nat
<1>9. s <= 2 * r
  BY <1>0, <1>6, <1>8
<1> QED
  BY <1>1, <1>2, <1>9

-----------------------------------------------------------------------------
(***************************************************************************)
(* The search of find_space: ClassGranted and SearchComplete.              *)
(***************************************************************************)
Elems(q) == {q[i] : i \in DOMAIN q}
Push(a, b, q) == <<a, b>> \o q

LEMMA ElemsOf ==
  ASSUME NEW S, NEW q \in Seq(S)
  PROVE  /\ Elems(q) \subseteq S
         /\ q # <<>> => Head(q) \in S /\ Tail(q) \in Seq(S)
                       /\ Elems(q) = {Head(q)} \cup Elems(Tail(q))
<1>1. Elems(q) \subseteq S
  BY DEF Elems
<1>2. ASSUME q # <<>>
      PROVE  /\ Head(q) \in S /\ Tail(q) \in Seq(S)
             /\ Elems(q) = {Head(q)} \cup Elems(Tail(q))
  <2>1. /\ Len(q) \in Nat /\ Len(q) >= 1 /\ DOMAIN q = 1 .. Len(q)
        /\ Head(q) = q[1] /\ Head(q) \in S /\ Tail(q) \in Seq(S)
        /\ DOMAIN Tail(q) = 1 .. Len(q) - 1
        /\ \A i \in 1 .. Len(q) - 1 : Tail(q)[i] = q[i + 1]
    BY <1>2
  <2>2. \A i \in 1 .. Len(q) : i = 1 \/ (i - 1 \in DOMAIN Tail(q) /\ Tail(q)[i - 1] = q[i])
    BY <2>1
  <2>3. \A e \in Elems(q) : e = Head(q) \/ e \in Elems(Tail(q))
    <3> SUFFICES ASSUME NEW i \in 1 .. Len(q)
                 PROVE  q[i] = Head(q) \/ q[i] \in Elems(Tail(q))
      BY <2>1 DEF Elems
    <3> QED
      BY <2>1, <2>2, Zenon DEF Elems
  <2>4. \A e \in Elems(Tail(q)) : e \in Elems(q)
    BY <2>1, \A i \in 1 .. Len(q) - 1 : i + 1 \in 1 .. Len(q) DEF Elems
  <2>5. Head(q) \in Elems(q)
    BY <2>1 DEF Elems
  <2> QED
    BY <2>1, <2>3, <2>4, <2>5
<1> QED
  BY <1>1, <1>2

LEMMA ElemsPush ==
  ASSUME NEW S, NEW q \in Seq(S), NEW a \in S, NEW b \in S
  PROVE  Elems(Push(a, b, q)) = {a, b} \cup Elems(q)
<1> DEFINE t == Push(a, b, q)
<1>1. /\ Len(q) \in Nat /\ DOMAIN q = 1 .. Len(q) /\ DOMAIN t = 1 .. Len(q) + 2
      /\ t[1] = a /\ t[2] = b
      /\ \A i \in 1 .. Len(q) : t[i + 2] = q[i]
  BY DEF Push
<1> HIDE DEF t
<1>2. \A i \in 1 .. Len(q) + 2 :
        i = 1 \/ i = 2 \/ (i - 2 \in DOMAIN q /\ t[i] = q[i - 2])
  BY <1>1
<1>3. \A e \in Elems(t) : e \in {a, b} \/ e \in Elems(q)
  <2> SUFFICES ASSUME NEW i \in 1 .. Len(q) + 2
               PROVE  t[i] \in {a, b} \/ t[i] \in Elems(q)
    BY <1>1 DEF Elems
  <2> QED
    BY <1>1, <1>2, Zenon DEF Elems
<1>4. \A e \in Elems(q) : e \in Elems(t)
  BY <1>1, \A i \in 1 .. Len(q) : i + 2 \in 1 .. Len(q) + 2 DEF Elems
<1>5. a \in Elems(t) /\ b \in Elems(t)
  BY <1>1, 1 \in 1 .. Len(q) + 2, 2 \in 1 .. Len(q) + 2 DEF Elems
<1>6. Elems(t) = {a, b} \cup Elems(q)
  BY <1>3, <1>4, <1>5, SMTT(30), ZenonT(30)
<1> QED
  BY <1>6 DEF t

\* A step that leaves lengths, children and leaves alone keeps the halves.
LEMMA HalvesKept ==
  ASSUME HeapInv, TreeHalves, Nodes' = Nodes, Leaves' = Leaves,
         \A m \in Nodes : /\ node'[m].len = node[m].len
                          /\ node'[m].left = node[m].left
                          /\ node'[m].right = node[m].right,
         \A m \in Nodes : NodePages(m)' = NodePages(m)
  PROVE  TreeHalves'
<1>1. \A m \in Nodes \ Leaves : node[m].left \in Nodes /\ node[m].right \in Nodes
  BY SMTT(30), ZenonT(30) DEF HeapInv, TreeShape
<1>2. \A n \in Nodes' : node'[n].len \in SizeClasses
  BY ZenonT(30), SMTT(30) DEF TreeHalves
<1>3. ASSUME NEW n \in Nodes' \ Leaves'
      PROVE  /\ NodePages(n)' = NodePages(node[n].left)' \cup NodePages(node[n].right)'
             /\ node'[n].left = node[n].left /\ node'[n].right = node[n].right
             /\ node'[n].len = 2 * node'[node'[n].left].len
             /\ node'[n].len = 2 * node'[node'[n].right].len
  <2>1. n \in Nodes /\ n \in Nodes \ Leaves
    BY ZenonT(30), SMTT(30)
  <2>2. node[n].left \in Nodes /\ node[n].right \in Nodes
    BY <1>1, <2>1, ZenonT(30), SMTT(30)
  <2>3. /\ NodePages(n) = NodePages(node[n].left) \cup NodePages(node[n].right)
        /\ node[n].len = 2 * node[node[n].left].len
        /\ node[n].len = 2 * node[node[n].right].len
    BY <2>1, ZenonT(30), SMTT(30) DEF TreeHalves
  <2>4. /\ node'[n].left = node[n].left /\ node'[n].right = node[n].right
        /\ node'[n].len = node[n].len
    BY <2>1, ZenonT(30), SMTT(30)
  <2>5. /\ node'[node[n].left].len = node[node[n].left].len
        /\ node'[node[n].right].len = node[node[n].right].len
    BY <2>2, ZenonT(30), SMTT(30)
  <2>6. /\ NodePages(n)' = NodePages(n)
        /\ NodePages(node[n].left)' = NodePages(node[n].left)
        /\ NodePages(node[n].right)' = NodePages(node[n].right)
    BY <2>1, <2>2
  <2> QED BY <2>3, <2>4, <2>5, <2>6, ZenonT(30), SMTT(30)
<1>4. \A m \in Leaves', n \in Nodes' :
        NodePages(m)' \subseteq NodePages(n)' \/ NodePages(m)' \cap NodePages(n)' = {}
  <2>1. \A m \in Leaves, n \in Nodes :
          NodePages(m) \subseteq NodePages(n) \/ NodePages(m) \cap NodePages(n) = {}
    BY ZenonT(30), SMTT(30) DEF TreeHalves, Within
  <2>2. ASSUME NEW m \in Leaves', NEW n \in Nodes'
        PROVE  NodePages(m)' \subseteq NodePages(n)' \/ NodePages(m)' \cap NodePages(n)' = {}
    <3>1. m \in Leaves /\ n \in Nodes
      BY ZenonT(30), SMTT(30)
    <3>2. m \in Nodes
      BY <3>1, ZenonT(30), SMTT(30) DEF Leaves
    <3>3. NodePages(m)' = NodePages(m) /\ NodePages(n)' = NodePages(n)
      BY <3>1, <3>2
    <3>4. NodePages(m) \subseteq NodePages(n) \/ NodePages(m) \cap NodePages(n) = {}
      BY <2>1, <3>1, ZenonT(30), SMTT(30)
    <3> QED BY <3>3, <3>4, ZenonT(30), SMTT(30)
  <2> QED BY <2>2
<1> QED
  BY <1>2, <1>3, <1>4, ZenonT(30), SMTT(30) DEF TreeHalves, Within, NodePages, SizeClasses, Halving

LEMMA SameTree ==
  ASSUME HeapInv, TreeHalves, UNCHANGED treeVars
  PROVE  /\ TreeHalves'
         /\ \A m : Bytes(m)' = Bytes(m)
         /\ \A m, n : Within(m, n)' <=> Within(m, n)
<1>1. TreeHalves'
  BY HalvesKept, TreeUnchanged DEF treeVars
<1> QED
  BY <1>1, TreeUnchanged DEF Bytes, Within, treeVars

\* Neither search nor mapping is under way afterwards.
LEMMA SearchOver ==
  ASSUME TreeHalves', pc' \notin {"find", "map"}
  PROVE  SearchInv'
BY DEF SearchInv, ClassAhead, ClassGranted, LeavesSearched

LEMMA PagesOf ==
  ASSUME HeapInv, NEW n \in Nodes
  PROVE  /\ node[n].len \in Nat /\ node[n].len >= 1 /\ node[n].vaddr \in Nat
         /\ node[n].vaddr \in NodePages(n)
         /\ node[n].vaddr + node[n].len - 1 \in NodePages(n)
<1>1. n \in Slots
  BY NodesAreSlots
<1>2. node[n].vaddr \in Nat /\ node[n].len \in Nat /\ node[n].len >= 1
  BY <1>1, SMTT(30), ZenonT(30) DEF HeapInv, TypeOK, Node, TreeShape
<1> QED
  BY <1>2 DEF NodePages, Region

LEMMA WithinLen ==
  ASSUME HeapInv, NEW m \in Nodes, NEW n \in Nodes, Within(m, n)
  PROVE  node[m].len <= node[n].len
<1>1. /\ node[m].vaddr \in Region(node[n].vaddr, node[n].len)
      /\ node[m].vaddr + node[m].len - 1 \in Region(node[n].vaddr, node[n].len)
  BY PagesOf, SMTT(30), ZenonT(30) DEF Within, NodePages
<1> QED
  BY <1>1, PagesOf DEF Region

\* A leaf below a split node lies below one of its halves.
LEMMA LeafBelow ==
  ASSUME HeapInv, TreeHalves, NEW m \in Leaves, NEW n \in Nodes \ Leaves, Within(m, n)
  PROVE  /\ Within(m, node[n].left) \/ Within(m, node[n].right)
         /\ 2 * node[m].len <= node[n].len
<1>1. /\ m \in Nodes /\ node[n].left \in Nodes /\ node[n].right \in Nodes
      /\ NodePages(n) = NodePages(node[n].left) \cup NodePages(node[n].right)
      /\ node[n].len = 2 * node[node[n].left].len
      /\ node[n].len = 2 * node[node[n].right].len
  BY DEF Leaves, HeapInv, TreeShape, TreeHalves
<1>2. node[m].vaddr \in NodePages(m)
  BY <1>1, PagesOf, SMTT(30), ZenonT(30)
<1>3. Within(m, node[n].left) \/ Within(m, node[n].right)
  BY <1>1, <1>2, SMTT(30), ZenonT(30) DEF TreeHalves, Within
<1>4. node[m].len <= node[node[n].left].len \/ node[m].len <= node[node[n].right].len
  BY <1>1, <1>3, WithinLen, SMTT(30), ZenonT(30)
<1>5. /\ node[m].len \in Nat /\ node[node[n].left].len \in Nat
      /\ node[node[n].right].len \in Nat
  BY <1>1, PagesOf
<1> QED
  BY <1>1, <1>3, <1>4, <1>5, SMTT(30), ZenonT(30)

\* What lies below a node of the right size is too small.
LEMMA SmallBelow ==
  ASSUME NEW a \in Nat, NEW b \in Nat, 2 * a <= b, NEW len \in Nat,
         FitsLen(b * PageSize, len)
  PROVE  a * PageSize <= (2 * len) % Word
<1>1. PageSize \in Nat /\ 2 * len \in Nat /\ 2 * (2 * len) = 4 * len
  BY BuddyAssumption
<1>2. /\ (4 * len) % Word <= 2 * ((2 * len) % Word)
      /\ (2 * len) % Word \in Nat /\ (4 * len) % Word \in Nat
  BY <1>1, DoubleWraps
<1>3. b * PageSize < (4 * len) % Word
  BY DEF FitsLen
<1>4. \A x, y, z \in Nat : x <= y => x * z <= y * z
  OBVIOUS
<1>5. (2 * a) * PageSize <= b * PageSize
  BY <1>1, <1>4, 2 * a \in Nat
<1>6. (2 * a) * PageSize = 2 * (a * PageSize) /\ a * PageSize \in Nat /\ b * PageSize \in Nat
  BY <1>1
<1> QED
  BY <1>2, <1>3, <1>5, <1>6

-----------------------------------------------------------------------------
\* A call of buddy_allocator__alloc starts with the whole heap ahead of it.
LEMMA StartSearch ==
  ASSUME HeapInv, SearchInv, NEW len \in Lens, AllocStart(len)
  PROVE  SearchInv'
<1>1. UNCHANGED treeVars /\ pc' = "find" /\ todo' = <<Root>> /\ used >= 1 /\ used \in Nat
  BY DEF AllocStart, HeapInv, TypeOK
<1>2. TreeHalves' /\ (\A m, n : Within(m, n)' <=> Within(m, n))
      /\ Leaves' = Leaves /\ Allocated' = Allocated
  BY <1>1, SameTree, TreeUnchanged DEF SearchInv
<1>3. Pending' = {Root}
  BY <1>1, SMTT(30), ZenonT(30) DEF Pending
<1>4. NodePages(Root) = HeapPages /\ node'[Root].len = HeapBlocks
  BY <1>1, SMTT(30), ZenonT(30) DEF HeapInv, TreeShape, NodePages, HeapPages, treeVars
<1>5. ClassAhead'
  BY <1>3, <1>4, ClassTypes DEF ClassAhead
<1>6. LeavesSearched'
  <2>1. \A m \in Leaves : Within(m, Root)
    BY <1>4 DEF Leaves, HeapInv, TreeShape, Within
  <2> QED
    BY <1>2, <1>3, <2>1, SMTT(30), ZenonT(30) DEF LeavesSearched
<1>7. ClassGranted'
  BY <1>1 DEF ClassGranted
<1> QED
  BY <1>2, <1>5, <1>6, <1>7 DEF SearchInv

\* The head of the search, and what is left behind it.
LEMMA AtHead ==
  ASSUME HeapInv, NEW n \in Slots, Searching(n)
  PROVE  /\ n \in Nodes /\ Tail(todo) \in Seq(Nodes) /\ Pending \subseteq Nodes
         /\ Pending = {n} \cup Elems(Tail(todo)) /\ Pending = Elems(todo)
<1>1. todo \in Seq(Nodes) /\ todo # <<>> /\ n = Head(todo)
  BY DEF HeapInv, TypeOK, Searching
<1>2. Pending = Elems(todo)
  BY DEF Pending, Elems
<1> QED
  BY <1>1, <1>2, ElemsOf

\* A class that fits the request is still ahead when a node that does not fit
\* is divided.
LEMMA ClassBelow ==
  ASSUME HeapInv, SearchInv, NEW n \in Slots, Searching(n), ~Fits(n), n \in Nodes,
         NEW s \in SizeClasses, FitsLen(s * PageSize, req)
  PROVE  node[n].len % 2 = 0 /\ node[n].len \div 2 >= s
<1>1. node[n].len >= s /\ node[n].len \in SizeClasses
  BY AtHead, SMTT(30), ZenonT(30) DEF SearchInv, ClassAhead, TreeHalves, Searching
<1>2. node[n].len # s
  BY DEF Fits, Bytes
<1>3. node[n].len > s
  BY <1>1, <1>2, ClassTypes
<1> QED
  BY <1>1, <1>3, ClassChain, SMTT(30), ZenonT(30)

LEMMA SkipSearch ==
  ASSUME HeapInv, SearchInv, NEW n \in Slots, FindSkip(n)
  PROVE  SearchInv'
<1>1. /\ Searching(n) /\ UNCHANGED treeVars /\ pc' = "find" /\ todo' = Tail(todo)
      /\ req' = req
  BY DEF FindSkip, Searching
<1>2. /\ n \in Nodes /\ Tail(todo) \in Seq(Nodes) /\ Pending \subseteq Nodes
      /\ Pending = {n} \cup Elems(Tail(todo))
  BY <1>1, AtHead, SMTT(30), ZenonT(30)
<1>3. Pending' = Elems(Tail(todo))
  BY <1>1 DEF Pending, Elems
<1>4. TreeHalves' /\ (\A m : Bytes(m)' = Bytes(m)) /\ (\A l, m : Within(l, m)' <=> Within(l, m))
      /\ Leaves' = Leaves /\ Allocated' = Allocated /\ node' = node
  BY <1>1, SameTree, TreeUnchanged, SMTT(30), ZenonT(30) DEF SearchInv, treeVars
<1>5. ClassAhead'
  BY <1>1, <1>2, <1>3, <1>4 DEF SearchInv, ClassAhead, Searching
<1>6. ASSUME NEW m \in Leaves \ Allocated, Within(m, n)
      PROVE  HasClass(req) /\ Bytes(m) <= (2 * req) % Word
  <2>1. CASE n \in Leaves
    <3>1. n \in Allocated
      BY <1>2, <2>1 DEF FindSkip, Allocated, Leaves
    <3>2. NodePages(m) \cap NodePages(n) = {}
      BY <1>6, <2>1, <3>1 DEF HeapInv, LeavesDisjoint
    <3>3. m \in Nodes /\ node[m].vaddr \in NodePages(m)
      BY PagesOf DEF Leaves
    <3> QED
      BY <1>6, <3>2, <3>3 DEF Within
  <2>2. CASE n \notin Leaves
    <3>1. Fits(n) /\ n \in Nodes \ Leaves
      BY <1>2, <2>2, SMTT(30), ZenonT(30) DEF FindSkip, Leaves, Allocated, HeapInv, TreeShape
    <3>2. 2 * node[m].len <= node[n].len
      BY <1>6, <3>1, LeafBelow DEF SearchInv
    <3>3. m \in Nodes /\ node[m].len \in Nat /\ node[n].len \in Nat /\ req \in Nat
      BY <1>2, PagesOf, SMTT(30), ZenonT(30) DEF Leaves, HeapInv, TypeOK
    <3>4. Bytes(m) <= (2 * req) % Word
      BY <3>1, <3>2, <3>3, SmallBelow, SMTT(30), ZenonT(30) DEF Fits, Bytes
    <3>5. HasClass(req)
      BY <1>2, <3>1 DEF HasClass, Fits, Bytes, SearchInv, TreeHalves
    <3> QED
      BY <3>4, <3>5, SMTT(30), ZenonT(30)
  <2> QED
    BY <2>1, <2>2
<1>7. LeavesSearched'
  <2> SUFFICES ASSUME NEW m \in Leaves \ Allocated
               PROVE  \/ \E k \in Elems(Tail(todo)) : Within(m, k)
                      \/ HasClass(req) /\ Bytes(m) <= (2 * req) % Word
    BY <1>1, <1>3, <1>4 DEF LeavesSearched, HasClass
  <2>1. \/ \E k \in Pending : Within(m, k)
        \/ HasClass(req) /\ Bytes(m) <= (2 * req) % Word
    BY <1>1 DEF SearchInv, LeavesSearched, Searching
  <2> QED
    BY <1>2, <1>6, <2>1
<1>8. ClassGranted'
  BY <1>1 DEF ClassGranted
<1> QED
  BY <1>4, <1>5, <1>7, <1>8 DEF SearchInv

LEMMA DescendSearch ==
  ASSUME HeapInv, SearchInv, NEW n \in Slots, FindDescend(n)
  PROVE  SearchInv'
<1>0. PICK left, right : left = node[n].left /\ right = node[n].right
  OBVIOUS
<1>1. /\ Searching(n) /\ UNCHANGED treeVars /\ pc' = "find" /\ req' = req
      /\ todo' = Push(left, right, Tail(todo)) /\ ~Fits(n)
  BY <1>0 DEF FindDescend, Searching, Push
<1>2. /\ n \in Nodes /\ Tail(todo) \in Seq(Nodes) /\ Pending \subseteq Nodes
      /\ Pending = {n} \cup Elems(Tail(todo))
  BY <1>1, AtHead, SMTT(30), ZenonT(30)
<1>3. /\ n \in Nodes \ Leaves /\ left \in Nodes /\ right \in Nodes
      /\ node[n].len = 2 * node[left].len /\ node[n].len = 2 * node[right].len
  BY <1>0, <1>2 DEF FindDescend, Leaves, HeapInv, TreeShape, SearchInv, TreeHalves
<1>4. Pending' = {left, right} \cup Elems(Tail(todo))
  <2>1. Pending' = Elems(todo')
    BY DEF Pending, Elems
  <2>2. \A a, b \in Nodes : Elems(Push(a, b, Tail(todo))) = {a, b} \cup Elems(Tail(todo))
    BY <1>2, ElemsPush, ZenonT(30), SMTT(30)
  <2> QED
    BY <1>1, <1>3, <2>1, <2>2, Zenon
<1>5. TreeHalves' /\ (\A m : Bytes(m)' = Bytes(m)) /\ (\A l, m : Within(l, m)' <=> Within(l, m))
      /\ Leaves' = Leaves /\ Allocated' = Allocated /\ node' = node
  BY <1>1, SameTree, TreeUnchanged DEF SearchInv, treeVars
<1>6. ClassAhead'
  <2> SUFFICES ASSUME NEW m \in {left, right} \cup Elems(Tail(todo)), NEW s \in SizeClasses,
                      FitsLen(s * PageSize, req)
               PROVE  node[m].len >= s
    BY <1>1, <1>4, <1>5 DEF ClassAhead
  <2>1. CASE m \in Elems(Tail(todo))
    BY <1>1, <1>2, <2>1, ZenonT(30), SMTT(30) DEF SearchInv, ClassAhead, Searching
  <2>2. CASE m \in {left, right}
    <3>1. node[n].len \div 2 >= s
      BY <1>1, <1>2, ClassBelow, ZenonT(30), SMTT(30)
    <3>2. node[m].len \in Nat /\ node[n].len = 2 * node[m].len
      BY <1>3, <2>2, PagesOf
    <3> QED
      BY <3>1, <3>2, SMTT(30), ZenonT(30)
  <2> QED
    BY <2>1, <2>2, SMTT(30), ZenonT(30)
<1>7. LeavesSearched'
  <2> SUFFICES ASSUME NEW m \in Leaves \ Allocated
               PROVE  \/ \E k \in {left, right} \cup Elems(Tail(todo)) : Within(m, k)
                      \/ HasClass(req) /\ Bytes(m) <= (2 * req) % Word
    BY <1>1, <1>4, <1>5 DEF LeavesSearched, HasClass
  <2>1. \/ \E k \in Pending : Within(m, k)
        \/ HasClass(req) /\ Bytes(m) <= (2 * req) % Word
    BY <1>1, SMTT(30), ZenonT(30) DEF SearchInv, LeavesSearched, Searching
  <2>2. Within(m, n) => Within(m, left) \/ Within(m, right)
    BY <1>0, <1>3, LeafBelow DEF SearchInv
  <2> QED
    BY <1>2, <2>1, <2>2
<1>8. ClassGranted'
  BY <1>1 DEF ClassGranted
<1> QED
  BY <1>5, <1>6, <1>7, <1>8 DEF SearchInv

LEMMA SplitSearch ==
  ASSUME HeapInv, SearchInv, NEW n \in Slots, FindSplit(n)
  PROVE  SearchInv'
<1>0. PICK left, right : left = used + 1 /\ right = used + 2
  OBVIOUS
<1>1. /\ Searching(n) /\ pc' = "find" /\ req' = req
      /\ todo' = Push(left, right, Tail(todo)) /\ ~Fits(n)
  BY <1>0 DEF FindSplit, Searching, Splits, Push
<1>2. /\ n \in Nodes /\ Tail(todo) \in Seq(Nodes) /\ Pending \subseteq Nodes
      /\ Pending = {n} \cup Elems(Tail(todo))
  BY <1>1, AtHead
<1>3. SplitFacts(n, left, right)
  BY <1>0, SplitTree, SMTT(30), ZenonT(30)
<1>4. /\ n \in Leaves \ Allocated /\ node[n].len \in Nat /\ node[n].len >= 2
      /\ left \in Slots \ Nodes /\ right \in Slots \ Nodes
      /\ Nodes' = Nodes \cup {left, right} /\ Leaves' = (Leaves \ {n}) \cup {left, right}
      /\ Allocated' = Allocated
  BY <1>3, ZenonT(30), SMTT(30) DEF SplitFacts
<1>5. /\ node'[n].left = left /\ node'[n].right = right
      /\ \A m \in Nodes : node'[m].len = node[m].len
      /\ \A m \in Nodes \ {n} : node'[m] = node[m]
  BY <1>3, SMTT(30), ZenonT(30) DEF SplitFacts
<1>6. /\ \A m \in Nodes : NodePages(m)' = NodePages(m)
      /\ NodePages(left)' \cup NodePages(right)' = NodePages(n)
      /\ NodePages(left)' \cap NodePages(right)' = {}
  BY <1>3, ZenonT(30), SMTT(30) DEF SplitFacts
<1>7. /\ node[n].len % 2 = 0 /\ node[n].len \div 2 \in SizeClasses
      /\ node'[left].len = node[n].len \div 2 /\ node'[right].len = node[n].len \div 2
  <2>1. node[n].len \in SizeClasses /\ node[n].len > 1
    BY <1>2, <1>4, SMTT(30), ZenonT(30) DEF SearchInv, TreeHalves
  <2>2. node[n].len % 2 = 0 /\ node[n].len \div 2 \in SizeClasses
    BY <2>1, HeapSizeAssumption, ClassChain, SMTT(30), ZenonT(30)
  <2>3. /\ node'[left].len = node[n].len \div 2
        /\ node'[right].len = node[n].len - (node[n].len \div 2)
    BY <1>3 DEF SplitFacts
  <2> QED
    BY <1>4, <2>2, <2>3, SMTT(30), ZenonT(30)
<1>8. Leaves \subseteq Nodes /\ left # right /\ \A m \in Leaves \ {n} : NodePages(m) \cap NodePages(n) = {}
  BY <1>3, <1>4, ZenonT(30), SMTT(30) DEF Leaves, HeapInv, LeavesDisjoint, SplitFacts
<1>9. TreeHalves'
  <2>1. \A m \in Nodes' : node'[m].len \in SizeClasses
    BY <1>4, <1>5, <1>7, ZenonT(30), SMTT(30) DEF SearchInv, TreeHalves
  <2>2. ASSUME NEW m \in Nodes' \ Leaves'
        PROVE  /\ NodePages(m)' = NodePages(node[m].left)' \cup NodePages(node[m].right)'
               /\ node'[m].len = 2 * node'[node'[m].left].len
               /\ node'[m].len = 2 * node'[node'[m].right].len
    <3>1. CASE m = n
      <4>1. NodePages(node[n].left)' = NodePages(left)' /\ NodePages(node[n].right)' = NodePages(right)'
        BY <1>5 DEF NodePages
      <4>2. NodePages(n)' = NodePages(left)' \cup NodePages(right)'
        BY <1>2, <1>6, SMTT(30), ZenonT(30)
      <4>3. node'[n].len = 2 * (node[n].len \div 2)
        BY <1>2, <1>4, <1>5, <1>7, SMTT(30), ZenonT(30)
      <4> QED
        BY <1>5, <1>7, <3>1, <4>1, <4>2, <4>3, ZenonT(30), SMTT(30)
    <3>2. CASE m # n
      <4>1. m \in Nodes \ Leaves /\ node'[m] = node[m]
        BY <1>4, <1>5, <3>2
      <4>2. node[m].left \in Nodes /\ node[m].right \in Nodes
        BY <4>1, SMTT(30), ZenonT(30) DEF HeapInv, TreeShape
      <4>3. /\ NodePages(m) = NodePages(node[m].left) \cup NodePages(node[m].right)
            /\ node[m].len = 2 * node[node[m].left].len
            /\ node[m].len = 2 * node[node[m].right].len
        BY <4>1, ZenonT(30), SMTT(30) DEF SearchInv, TreeHalves
      <4>4. /\ NodePages(m)' = NodePages(m)
            /\ NodePages(node[m].left)' = NodePages(node[m].left)
            /\ NodePages(node[m].right)' = NodePages(node[m].right)
        <5>1. PICK l, r : l = node[m].left /\ r = node[m].right
          BY SMTT(30), ZenonT(30)
        <5>2. NodePages(l)' = NodePages(l) /\ NodePages(r)' = NodePages(r)
          BY <1>6, <4>2, <5>1, ZenonT(30), SMTT(30)
        <5>3. node'[m].left = l /\ node'[m].right = r
          BY <4>1, <5>1, ZenonT(30), SMTT(30)
        <5>4. NodePages(node[m].left)' = NodePages(l)' /\ NodePages(node[m].right)' = NodePages(r)'
          BY <5>3, ZenonT(30), SMTT(30) DEF NodePages
        <5> QED
          BY <1>6, <4>1, <5>1, <5>2, <5>4
      <4>5. /\ node'[node'[m].left].len = node[node[m].left].len
            /\ node'[node'[m].right].len = node[node[m].right].len
            /\ node'[m].len = node[m].len
        BY <1>5, <4>1, <4>2, SMTT(30), ZenonT(30)
      <4> QED
        BY <4>3, <4>4, <4>5, ZenonT(30), SMTT(30)
    <3> QED
      BY <3>1, <3>2, SMTT(30), ZenonT(30)
  <2>3. ASSUME NEW l \in Leaves', NEW m \in Nodes'
        PROVE  NodePages(l)' \subseteq NodePages(m)' \/ NodePages(l)' \cap NodePages(m)' = {}
    <3>1. \A k \in Leaves, j \in Nodes :
            NodePages(k) \subseteq NodePages(j) \/ NodePages(k) \cap NodePages(j) = {}
      BY DEF SearchInv, TreeHalves, Within
    <3>2. CASE l \in Leaves \ {n} /\ m \in Nodes
      BY <1>6, <1>8, <3>1, <3>2
    <3>3. CASE l \in Leaves \ {n} /\ m \in {left, right}
      BY <1>6, <1>8, <3>3
    <3>4. CASE l \in {left, right} /\ m \in Nodes
      <4>1. NodePages(n) \subseteq NodePages(m) \/ NodePages(n) \cap NodePages(m) = {}
        BY <1>4, <3>1, <3>4
      <4>2. NodePages(l)' \subseteq NodePages(n) /\ NodePages(m)' = NodePages(m)
        BY <1>6, <3>4
      <4> QED
        BY <4>1, <4>2, SMTT(30), ZenonT(30)
    <3>5. CASE l \in {left, right} /\ m \in {left, right}
      BY <1>6, <3>5
    <3> QED
      BY <1>4, <3>2, <3>3, <3>4, <3>5, SMTT(30), ZenonT(30)
  <2> QED
    BY <2>1, <2>2, <2>3, SMTT(30), ZenonT(30) DEF TreeHalves, Within
<1>10. Pending' = {left, right} \cup Elems(Tail(todo))
  <2>1. Pending' = Elems(todo')
    BY DEF Pending, Elems
  <2>2. Tail(todo) \in Seq(Nodes')
    BY <1>2, <1>4
  <2>3. \A a, b \in Nodes' : Elems(Push(a, b, Tail(todo))) = {a, b} \cup Elems(Tail(todo))
    BY <2>2, ElemsPush, ZenonT(30), SMTT(30)
  <2> QED
    BY <1>1, <1>4, <2>1, <2>3, Zenon
<1>11. ClassAhead'
  <2> SUFFICES ASSUME NEW m \in {left, right} \cup Elems(Tail(todo)), NEW s \in SizeClasses,
                      FitsLen(s * PageSize, req)
               PROVE  node'[m].len >= s
    BY <1>1, <1>10, ZenonT(30), SMTT(30) DEF ClassAhead
  <2>1. CASE m \in Elems(Tail(todo))
    BY <1>1, <1>2, <1>5, <2>1 DEF SearchInv, ClassAhead, Searching
  <2>2. CASE m \in {left, right}
    <3>1. node[n].len \div 2 >= s
      BY <1>1, <1>2, ClassBelow, SMTT(30), ZenonT(30)
    <3> QED
      BY <1>7, <2>2, <3>1, ZenonT(30), SMTT(30)
  <2> QED
    BY <2>1, <2>2, SMTT(30), ZenonT(30)
<1>12. LeavesSearched'
  <2> SUFFICES ASSUME NEW m \in Leaves' \ Allocated'
               PROVE  \/ \E k \in Pending' : NodePages(m)' \subseteq NodePages(k)'
                      \/ HasClass(req) /\ Bytes(m)' <= (2 * req) % Word
    BY <1>1 DEF LeavesSearched, HasClass, Within
  <2>1. CASE m \in {left, right}
    BY <1>10, <2>1
  <2>2. CASE m \in Leaves \ {n}
    <3>1. \/ \E k \in Pending : Within(m, k)
          \/ HasClass(req) /\ Bytes(m) <= (2 * req) % Word
      BY <1>1, <1>4, <2>2 DEF SearchInv, LeavesSearched, Searching
    <3>2. ~Within(m, n)
      <4>1. m \in Nodes /\ node[m].vaddr \in NodePages(m)
        BY <1>8, <2>2, PagesOf
      <4> QED
        BY <1>8, <2>2, <4>1, SMTT(30), ZenonT(30) DEF Within
    <3>3. CASE \E k \in Pending : Within(m, k)
      <4>1. PICK k \in Elems(Tail(todo)) : Within(m, k)
        BY <1>2, <3>2, <3>3
      <4>2. k \in Nodes /\ m \in Nodes /\ k \in Pending'
        BY <1>2, <1>8, <1>10, <2>2, SMTT(30), ZenonT(30)
      <4> QED
        BY <1>6, <4>1, <4>2 DEF Within
    <3>4. Bytes(m)' = Bytes(m)
      BY <1>5, <1>8, <2>2 DEF Bytes
    <3> QED
      BY <3>1, <3>3, <3>4, SMTT(30), ZenonT(30)
  <2> QED
    BY <1>4, <2>1, <2>2
<1>13. ClassGranted'
  BY <1>1, SMTT(30), ZenonT(30) DEF ClassGranted
<1> QED
  BY <1>9, <1>11, <1>12, <1>13 DEF SearchInv

\* The leaf that is chosen has the request's class if there is one: a leaf of
\* one page is only settled for when no larger class was ahead.
LEMMA AcceptSearch ==
  ASSUME HeapInv, SearchInv, NEW n \in Slots, FindAccept(n)
  PROVE  SearchInv'
<1>1. /\ Searching(n) /\ UNCHANGED treeVars /\ pc' = "map" /\ cur' = n /\ req' = req
      /\ Accepts(n)
  BY DEF FindAccept
<1>2. n \in Nodes /\ n \in Pending
  BY <1>1, AtHead
<1>3. TreeHalves' /\ \A m : Bytes(m)' = Bytes(m)
  BY <1>1, SameTree DEF SearchInv
<1>4. ASSUME HasClass(req) PROVE Fits(n)
  <2>1. PICK s \in SizeClasses : FitsLen(s * PageSize, req)
    BY <1>4, SMTT(30), ZenonT(30) DEF HasClass
  <2>2. node[n].len >= s /\ node[n].len \in Nat /\ s \in Nat /\ s >= 1
    BY <1>1, <1>2, <2>1, PagesOf, ClassTypes, SMTT(30), ZenonT(30) DEF SearchInv, ClassAhead, Searching
  <2>3. CASE Bytes(n) <= PageSize
    <3>1. PageSize \in Nat /\ PageSize > 0
      BY BuddyAssumption
    <3>2. \A x, y, z \in Nat : x <= y => x * z <= y * z
      OBVIOUS
    <3>3. node[n].len >= 2 => 2 * PageSize <= Bytes(n) /\ Bytes(n) \in Nat
      BY <2>2, <3>1, <3>2 DEF Bytes
    <3>4. node[n].len = 1
      BY <2>2, <2>3, <3>1, <3>3
    <3>5. node[n].len = s
      BY <2>2, <3>4
    <3> QED
      BY <2>1, <3>5 DEF Fits, Bytes
  <2> QED
    BY <1>1, <2>3 DEF Accepts
<1>5. ClassGranted'
  BY <1>1, <1>3, <1>4 DEF ClassGranted, HasClass, Fits
<1> QED
  BY <1>1, <1>3, <1>5 DEF SearchInv, ClassAhead, LeavesSearched

\* The rest of the kernel and of the allocator's interface.
LEMMA SearchStep ==
  ASSUME HeapInv, SearchInv, [Next]_vars
  PROVE  SearchInv'
<1>1. CASE UNCHANGED treeVars /\ pc' \notin {"find", "map"}
  BY <1>1, SameTree, SearchOver DEF SearchInv
<1>2. CASE UNCHANGED <<treeVars, pc, req, todo, cur>>
  <2>1. UNCHANGED treeVars /\ pc' = pc /\ req' = req /\ todo' = todo /\ cur' = cur /\ node' = node
    BY <1>2 DEF treeVars
  <2>2. TreeHalves' /\ (\A m : Bytes(m)' = Bytes(m)) /\ (\A l, m : Within(l, m)' <=> Within(l, m))
        /\ Leaves' = Leaves /\ Allocated' = Allocated
    BY <2>1, SameTree, TreeUnchanged DEF SearchInv
  <2>3. Pending' = Pending
    BY <2>1, SMTT(30), ZenonT(30) DEF Pending
  <2>4. ClassAhead' /\ ClassGranted'
    BY <2>1, <2>2, <2>3 DEF SearchInv, ClassAhead, ClassGranted, HasClass, Fits
  <2>5. LeavesSearched'
    BY <2>1, <2>2, <2>3 DEF SearchInv, LeavesSearched, HasClass
  <2> QED
    BY <2>2, <2>4, <2>5 DEF SearchInv
<1>3. CASE buddy_allocator__init_root
  <2>1. node'[Root] = FreshNode(HeapBase, HeapBlocks) /\ used' = 1 /\ pc' = "idle"
    BY <1>3, SlotFacts, SMTT(30), ZenonT(30) DEF buddy_allocator__init_root, HeapInv, TypeOK
  <2>2. Nodes' = {Root} /\ Leaves' = {Root}
    BY <2>1, SMTT(30), ZenonT(30) DEF Nodes, Leaves, IsLeaf, FreshNode, Root
  <2>3. node'[Root].len = HeapBlocks
    <3>1. FreshNode(HeapBase, HeapBlocks).len = HeapBlocks
      BY SMTT(30), ZenonT(30) DEF FreshNode
    <3> QED BY <2>1, <3>1, ZenonT(30), SMTT(30)
  <2>4. TreeHalves'
    BY <2>2, <2>3, ClassTypes DEF TreeHalves, Within
  <2> QED
    BY <2>1, <2>4, SearchOver
<1>4. CASE MapDone
  <2>1. cur \in Leaves /\ cur \in Nodes
    BY <1>4 DEF MapDone, HeapInv, MapLoop, Leaves
  <2>2. node' = [node EXCEPT ![cur].is_allocated = TRUE] /\ used' = used /\ pc' = "idle"
    BY <1>4 DEF MapDone, Return
  <2>3. TreeHalves'
    BY <2>1, <2>2, SetAllocated, HalvesKept DEF SearchInv
  <2> QED
    BY <2>2, <2>3, SearchOver
<1>5. ASSUME NEW addr \in HeapPages, buddy_allocator__free(addr) PROVE SearchInv'
  <2>1. pc' = "idle" /\ pc = "idle" /\ used' = used
    BY <1>5 DEF buddy_allocator__free, Return
  <2>2. CASE node' = node
    BY <1>1, <2>1, <2>2 DEF treeVars
  <2>3. CASE node' = [node EXCEPT ![Root].is_allocated = FALSE]
    <3>1. Root \in Nodes
      BY <2>1 DEF HeapInv, TypeOK, Nodes, Root
    <3>2. TreeHalves'
      BY <2>1, <2>3, <3>1, SetAllocated, HalvesKept DEF SearchInv
    <3> QED
      BY <2>1, <3>2, SearchOver
  <2> QED
    BY <1>5, <2>2, <2>3 DEF buddy_allocator__free
<1>6. CASE \E len \in Lens : AllocTooLong(len) \/ AllocStart(len)
  BY <1>1, <1>6, StartSearch DEF AllocTooLong, Return
<1>7. CASE FindStep
  <2>1. CASE FindFailed
    BY <1>1, <2>1 DEF FindFailed, Return
  <2>2. ASSUME NEW n \in Slots, PoolFault(n) \/ PoolClobbered(n) PROVE SearchInv'
    BY <1>1, <2>2, SMTT(30), ZenonT(30) DEF PoolFault, PoolClobbered
  <2> QED
    BY <1>7, <2>1, <2>2, SkipSearch, AcceptSearch, DescendSearch, SplitSearch DEF FindStep
<1>8. CASE MapPage \/ MapFault
  BY <1>1, <1>2, <1>8 DEF MapPage, MapFault, Return
<1>9. CASE kmain_stack \/ buddy_allocator__init_map \/ fat16_create_context \/ BufferFault
  <2>1. UNCHANGED treeVars /\ pc' \in {"table", "idle", "halt"}
    BY <1>9 DEF kmain_stack, buddy_allocator__init_map, fat16_create_context, BufferFault, ctlVars
  <2> QED
    BY <1>1, <2>1
<1>10. CASE UNCHANGED vars
  BY <1>2, <1>10, SMTT(30), ZenonT(30) DEF vars, ctlVars
<1> QED
  BY <1>3, <1>4, <1>5, <1>6, <1>7, <1>8, <1>9, <1>10 DEF Next, KernelNext, MapStep, Stopped

LEMMA SearchInit == Init => SearchInv
<1> SUFFICES ASSUME Init PROVE SearchInv
  OBVIOUS
<1>1. Nodes = {} /\ pc = "stack"
  BY DEF Init, Nodes
<1> QED
  BY <1>1 DEF SearchInv, TreeHalves, ClassAhead, ClassGranted, LeavesSearched, Leaves

LEMMA SearchInductive == FullSpec => [](HeapInv /\ SearchInv)
BY InitHeapInv, HeapStep, SearchInit, SearchStep, PTL DEF FullSpec

(***************************************************************************)
(* In a heap of any power of two pages, with callers that free included,   *)
(* find_space gives a request that has a class a block of that class.      *)
(***************************************************************************)
THEOREM ClassIsGranted == FullSpec => []ClassGranted
<1>1. SearchInv => ClassGranted
  BY DEF SearchInv
<1> QED
  BY <1>1, SearchInductive, PTL

(***************************************************************************)
(* In a heap of any power of two pages, with callers that free included,   *)
(* find_space gives up only when each free leaf is too small.              *)
(***************************************************************************)
THEOREM SearchMissesNothing == FullSpec => []SearchComplete
<1>1. SearchInv => SearchComplete
  BY DEF SearchInv, LeavesSearched, SearchComplete, Pending
<1> QED
  BY <1>1, SearchInductive, PTL

-----------------------------------------------------------------------------
(***************************************************************************)
(* The kernel as built: BlocksMapped.                                      *)
(***************************************************************************)
\* mm_alloc makes pages present and takes none away.
LEMMA MmAllocPresent ==
  ASSUME MmTypeOK, HeldPresent, NEW v \in Blocks, NEW k \in Nat, k >= 1, NEW j \in Blocks,
         mm_alloc(v, k, j)
  PROVE  HeldPresent' /\ vmBitmap \subseteq vmBitmap'
<1>1. v \in Nat /\ v \in v .. (v + k - 1)
  BY MmAssumption, SMTT(30), ZenonT(30) DEF Blocks
<1>2. pageTable' = [p \in Blocks |->
        IF p \in v .. (v + k - 1)
        THEN [present |-> TRUE, frame |-> (j + (p - v)) % NBlocks] ELSE pageTable[p]]
  BY DEF mm_alloc, arch_paging_map
<1>3. \A p \in Blocks : pageTable[p].present \/ p \in v .. (v + k - 1) => pageTable'[p].present
  BY <1>2
<1>4. vmBitmap' = vmBitmap \cup {v} /\ vmBitmap \subseteq Blocks
  BY DEF mm_alloc, MmTypeOK
<1> QED
  BY <1>1, <1>3, <1>4 DEF HeldPresent, Held

LEMMA MappedInit == Init => MappedInv
BY DEF Init, MmInit, MappedInv, PagesMarked, HeldPresent, Held, Allocated, Nodes

\* With no block being mapped and the tree as it is, marks may only be added.
LEMMA MappedKept ==
  ASSUME HeapInv, PagesMarked, UNCHANGED treeVars, vmBitmap \subseteq vmBitmap', pc' # "map"
  PROVE  PagesMarked'
BY TreeUnchanged DEF PagesMarked

LEMMA MappedStep ==
  ASSUME HeapInv, MappedInv, [KernelNext]_vars
  PROVE  MappedInv'
<1>1. ASSUME UNCHANGED <<vmBitmap, pageTable>> PROVE HeldPresent' /\ vmBitmap' = vmBitmap
  BY <1>1 DEF MappedInv, HeldPresent, Held
<1>2. CASE UNCHANGED <<vmBitmap, pageTable, treeVars>> /\ pc' # "map"
  BY <1>1, <1>2, MappedKept DEF MappedInv
<1>3. ASSUME NEW v \in Blocks, NEW k \in Nat, k >= 1, NEW j \in Blocks, mm_alloc(v, k, j)
      PROVE  HeldPresent' /\ vmBitmap \subseteq vmBitmap'
  BY <1>3, MmAllocPresent DEF HeapInv, TypeOK, MappedInv
<1>4. CASE kmain_stack
  <2>1. StackBase \in Blocks /\ StackBlocks \in Nat /\ StackBlocks >= 1
    BY BuddyAssumption, LayoutAssumption DEF StackPages, Region
  <2>2. HeldPresent' /\ vmBitmap \subseteq vmBitmap' /\ UNCHANGED treeVars /\ pc' # "map"
    BY <1>3, <1>4, <2>1 DEF kmain_stack
  <2> QED
    BY <2>2, MappedKept DEF MappedInv
<1>5. CASE buddy_allocator__init_map
  <2>1. page \in Blocks
    BY <1>5, LayoutAssumption DEF buddy_allocator__init_map
  <2>2. HeldPresent' /\ vmBitmap \subseteq vmBitmap' /\ UNCHANGED treeVars /\ pc' # "map"
    BY <1>3, <1>5, <2>1 DEF buddy_allocator__init_map
  <2> QED
    BY <2>2, MappedKept DEF MappedInv
<1>6. CASE fat16_create_context
  <2>1. PICK s \in BufferSizes, j \in Blocks : mm_alloc(BufferBase, size_in_blocks(s), j)
    BY <1>6 DEF fat16_create_context
  <2>2. s \in Nat /\ s \div PageSize \in Nat
    BY BuddyAssumption
  <2>3. size_in_blocks(s) \in Nat /\ size_in_blocks(s) >= 1
    BY <2>2 DEF size_in_blocks
  <2>4. BufferBase \in Region(BufferBase, size_in_blocks(s))
    BY <2>3, BuddyAssumption DEF Region
  <2>5. BufferBase \in Blocks
    BY <2>4, LayoutAssumption DEF BufferPages
  <2>6. HeldPresent' /\ vmBitmap \subseteq vmBitmap' /\ UNCHANGED treeVars /\ pc' # "map"
    BY <1>3, <1>6, <2>1, <2>3, <2>5 DEF fat16_create_context, ctlVars
  <2> QED
    BY <2>6, MappedKept DEF MappedInv
<1>7. CASE buddy_allocator__init_root
  <2>1. node'[Root] = FreshNode(HeapBase, HeapBlocks) /\ Nodes' = {Root} /\ pc' = "idle"
        /\ UNCHANGED mmVars
    BY <1>7, SlotFacts, SMTT(30), ZenonT(30) DEF buddy_allocator__init_root, HeapInv, TypeOK, Nodes, Root
  <2>2. Allocated' = {}
    BY <2>1, SMTT(30), ZenonT(30) DEF Allocated, FreshNode
  <2> QED
    BY <1>1, <2>1, <2>2 DEF MappedInv, PagesMarked, mmVars
<1>8. CASE \E n \in Slots : FindAccept(n)
  <2>1. PICK n \in Slots : FindAccept(n)
    BY <1>8
  <2>2. UNCHANGED <<vmBitmap, pageTable, treeVars>> /\ cur' = n /\ page' = node[n].vaddr
    BY <2>1 DEF FindAccept, mmVars
  <2>3. n \in Nodes
    BY <2>1, AtHead DEF FindAccept
  <2>4. \A q \in NodePages(n) : ~(q < node[n].vaddr)
    BY <2>3, PagesOf DEF NodePages, Region
  <2> QED
    BY <1>1, <2>2, <2>4, TreeUnchanged DEF MappedInv, PagesMarked
<1>9. CASE \E n \in Slots : FindSplit(n)
  <2>1. Allocated' = Allocated /\ \A m \in Nodes : NodePages(m)' = NodePages(m)
    BY <1>9, SplitTree DEF SplitFacts
  <2>2. UNCHANGED mmVars /\ pc' # "map" /\ Allocated \subseteq Nodes
    BY <1>9 DEF FindSplit, Searching, Allocated
  <2> QED
    BY <1>1, <2>1, <2>2, SMTT(30), ZenonT(30) DEF MappedInv, PagesMarked, mmVars
<1>10. CASE MapPage
  <2>1. cur \in Leaves \ Allocated /\ cur \in Nodes /\ NodePages(cur) \subseteq HeapPages
    BY <1>10 DEF MapPage, HeapInv, MapLoop, TreeShape, Leaves
  <2>2. page \notin vmBitmap
    BY <1>10, <2>1 DEF MapPage, HeapInv, FreeLeavesClear, TypeOK
  <2>3. PICK j \in Blocks : mm_alloc(page, 1, j)
    BY <1>10, <2>2 DEF MapPage
  <2>4. page \in Blocks /\ page \in Nat
    BY <1>10, <2>1, LayoutAssumption DEF MapPage, HeapInv, TypeOK
  <2>5. HeldPresent' /\ vmBitmap' = vmBitmap \cup {page}
    BY <1>3, <2>3, <2>4 DEF mm_alloc
  <2>6. UNCHANGED treeVars /\ cur' = cur /\ page' = page + 1 /\ pc = "map"
    BY <1>10, <2>2, SMTT(30), ZenonT(30) DEF MapPage
  <2>7. \A q \in NodePages(cur) : q < page + 1 => q < page \/ q = page
    BY <2>1, <2>4, PagesOf DEF NodePages, Region
  <2> QED
    BY <2>5, <2>6, <2>7, TreeUnchanged, SMTT(30), ZenonT(30) DEF MappedInv, PagesMarked
<1>11. CASE MapDone
  <2>1. cur \in Leaves /\ cur \in Nodes /\ page \in Nat
    BY <1>11 DEF MapDone, HeapInv, MapLoop, Leaves, TypeOK
  <2>2. node' = [node EXCEPT ![cur].is_allocated = TRUE] /\ used' = used /\ pc' = "idle"
        /\ UNCHANGED mmVars /\ pc = "map"
    BY <1>11 DEF MapDone, Return
  <2>3. /\ \A m \in Nodes : NodePages(m)' = NodePages(m)
        /\ Allocated' = Allocated \cup {cur}
    BY <2>1, <2>2, SetAllocated, ZenonT(30), SMTT(30)
  <2>4. page >= node[cur].vaddr /\ page \notin NodePages(cur)
    BY <1>11, SMTT(30), ZenonT(30) DEF MapDone, HeapInv, MapLoop
  <2>5. \A q \in NodePages(cur) : q < page
    BY <2>1, <2>4, PagesOf DEF NodePages, Region
  <2>6. NodePages(cur) \subseteq vmBitmap
    BY <2>2, <2>5 DEF MappedInv, PagesMarked
  <2>7. Allocated \subseteq Nodes
    BY DEF Allocated
  <2> QED
    BY <1>1, <2>1, <2>2, <2>3, <2>6, <2>7 DEF MappedInv, PagesMarked, mmVars
<1>12. CASE UNCHANGED vars
  BY <1>1, <1>12, TreeUnchanged, SMTT(30), ZenonT(30) DEF vars, ctlVars, mmVars, MappedInv, PagesMarked
<1>13. CASE BufferFault \/ MapFault \/ FindFailed
            \/ \E len \in Lens : AllocTooLong(len) \/ AllocStart(len)
  BY <1>2, <1>13, SMTT(30), ZenonT(30) DEF BufferFault, MapFault, FindFailed, AllocTooLong, AllocStart, Return, mmVars
<1>14. ASSUME NEW n \in Slots,
              FindSkip(n) \/ FindDescend(n) \/ PoolFault(n) \/ PoolClobbered(n)
       PROVE  MappedInv'
  BY <1>2, <1>14 DEF FindSkip, FindDescend, PoolFault, PoolClobbered, Searching, mmVars
<1> QED
  BY <1>4, <1>5, <1>6, <1>7, <1>8, <1>9, <1>10, <1>11, <1>12, <1>13, <1>14
  DEF KernelNext, FindStep, MapStep, Stopped

(***************************************************************************)
(* In the kernel as built, with any layout and any amount of memory, every *)
(* page of a block that buddy_allocator__alloc has handed out is marked in *)
(* the VM bitmap and present in the page tables from then on.              *)
(***************************************************************************)
THEOREM BlocksStayMapped == Spec => []BlocksMapped
<1>1. HeapInv /\ MappedInv /\ [KernelNext]_vars => HeapInv' /\ MappedInv'
  BY HeapStep, MappedStep DEF Next
<1>2. HeapInv /\ MappedInv => BlocksMapped
  <2> SUFFICES ASSUME HeapInv, MappedInv, NEW n \in Allocated, NEW q \in NodePages(n)
               PROVE  q \in vmBitmap /\ pageTable[q].present
    BY DEF BlocksMapped
  <2>1. q \in vmBitmap
    BY SMTT(30), ZenonT(30) DEF MappedInv, PagesMarked
  <2>2. q \in HeapPages
    BY DEF Allocated, HeapInv, TreeShape
  <2>3. q \in Held
    BY <2>1, <2>2, LayoutAssumption DEF Held
  <2> QED
    BY <2>1, <2>3 DEF MappedInv, HeldPresent
<1> QED
  BY <1>1, <1>2, InitHeapInv, MappedInit, PTL DEF Spec
=============================================================================
