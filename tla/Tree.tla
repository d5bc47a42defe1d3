-------------------------------- MODULE Tree --------------------------------
(***************************************************************************)
(* The binary tree of kernel/tree/tree.c.  Nodes belong to the caller, who *)
(* hands each one to binary_tree_insert once (as tree.test.c does); value  *)
(* is the integer a node's value pointer refers to.  A larger or equal     *)
(* value is kept to the left, a smaller one to the right.                  *)
(***************************************************************************)
EXTENDS Integers

CONSTANTS MaxNodes,  \* nodes the caller has
          Values

ASSUME TreeAssumption == MaxNodes \in Nat /\ Values \in (SUBSET Int) \ {{}}

NULL == 0
Nodes == 1 .. MaxNodes

VARIABLES root_node,  \* tree->root_node
          node,       \* the fields of each binary_tree_node_t
          inserted    \* nodes handed to the tree so far

treeVars == <<root_node, node, inserted>>

Ptr == Nodes \cup {NULL}

TreeInit ==
  /\ root_node = NULL
  /\ inserted = 0
  /\ node = [n \in Nodes |->
               [left |-> NULL, right |-> NULL, parent |-> NULL, is_left |-> FALSE,
                is_right |-> FALSE, value |-> CHOOSE v \in Values : TRUE]]

\* Faulty variant: the sides are swapped.
NodeFind_Swapped(from, v) ==
  LET find[n \in Ptr] ==
        IF n = NULL \/ node[n].value = v THEN n
        ELSE IF node[n].value > v THEN find[node[n].left] ELSE find[node[n].right]
  IN find[from]

(***************************************************************************)
(* __binary_tree_node_find, from node n on.                                *)
(***************************************************************************)
NodeFind(from, v) ==
  LET find[n \in Ptr] ==
        IF n = NULL \/ node[n].value = v THEN n
        ELSE IF node[n].value < v THEN find[node[n].left] ELSE find[node[n].right]
  IN find[from]

binary_tree_find(v) == NodeFind(root_node, v)

\* Faulty variant of the next definition: an equal value goes to the right.
InsertPlace_EqualRight(v) ==
  LET place[n \in Nodes] ==
        LET left == node[n].value < v
            child == IF left THEN node[n].left ELSE node[n].right
        IN IF child = NULL THEN [at |-> n, left |-> left] ELSE place[child]
  IN place[root_node]

(***************************************************************************)
(* Where the recursion of __binary_tree_node_insert ends.                  *)
(***************************************************************************)
InsertPlace(v) ==
  LET place[n \in Nodes] ==
        LET left == node[n].value <= v
            child == IF left THEN node[n].left ELSE node[n].right
        IN IF child = NULL THEN [at |-> n, left |-> left] ELSE place[child]
  IN place[root_node]

\* Faulty variant: the new node is linked to the root, over its child.
Attach_AtRoot(new, v, p) ==
  [node EXCEPT ![new].value = v,
               ![new].parent = root_node,
               ![new].is_left = p.left,
               ![new].is_right = ~p.left,
               ![root_node].left = IF p.left THEN new ELSE @,
               ![root_node].right = IF p.left THEN @ ELSE new]

Attach(new, v, p) ==
  [node EXCEPT ![new].value = v,
               ![new].parent = p.at,
               ![new].is_left = p.left,
               ![new].is_right = ~p.left,
               ![p.at].left = IF p.left THEN new ELSE @,
               ![p.at].right = IF p.left THEN @ ELSE new]

binary_tree_insert(v) ==
  LET new == inserted + 1
  IN /\ inserted < MaxNodes
     /\ inserted' = new
     /\ IF root_node = NULL
        THEN root_node' = new /\ node' = [node EXCEPT ![new].value = v]
        ELSE node' = Attach(new, v, InsertPlace(v)) /\ UNCHANGED root_node

(***************************************************************************)
(* Point the parent's link for node n at child.  The root is neither its   *)
(* parent's left nor right child: nothing happens.  The child's own parent *)
(* pointer and flags are not updated.                                      *)
(***************************************************************************)
Splice(n, child) ==
  LET p == node[n].parent
  IN CASE node[n].is_left  -> [node EXCEPT ![p].left = child]
       [] node[n].is_right -> [node EXCEPT ![p].right = child]
       [] OTHER            -> node

\* The leftmost node of the subtree at n.
Leftmost(n) ==
  LET walk[m \in Nodes] == IF node[m].left = NULL THEN m ELSE walk[node[m].left]
  IN walk[n]

Replace(n) ==
  LET cur == Leftmost(node[n].right)
  IN [node EXCEPT ![n].value = node[cur].value, ![n].right = node[cur].right]

(***************************************************************************)
(* __binary_tree_node_delete descends as find does, so it deletes the node *)
(* that find returns.                                                      *)
(***************************************************************************)
NodeDelete(n) ==
  CASE node[n].left = NULL  -> Splice(n, node[n].right)
    [] node[n].right = NULL -> Splice(n, node[n].left)
    [] OTHER                -> Replace(n)

binary_tree_delete(v) ==
  /\ binary_tree_find(v) # NULL
  /\ node' = NodeDelete(binary_tree_find(v))
  /\ UNCHANGED <<root_node, inserted>>

DeleteMissing(v) == binary_tree_find(v) = NULL /\ UNCHANGED treeVars

TreeNext ==
  \E v \in Values :
    binary_tree_insert(v) \/ binary_tree_delete(v) \/ DeleteMissing(v)

TreeSpec == TreeInit /\ [][TreeNext]_treeVars

-----------------------------------------------------------------------------
\* The nodes of the subtree at n.
Subtree(n) ==
  LET sub[m \in Ptr] ==
        IF m = NULL THEN {} ELSE {m} \cup sub[node[m].left] \cup sub[node[m].right]
  IN sub[n]

InTree == Subtree(root_node)
ValuesOf(ns) == {node[n].value : n \in ns}

(***************************************************************************)
(* The order insert establishes survives the deletions, which move values  *)
(* between nodes and leave parent pointers behind: it is what find relies  *)
(* on.  It also keeps a node out of two places: nothing is on both sides.  *)
(***************************************************************************)
Ordered ==
  \A n \in InTree :
    /\ \A m \in Subtree(node[n].left) : node[m].value >= node[n].value
    /\ \A m \in Subtree(node[n].right) : node[m].value < node[n].value

(***************************************************************************)
(* find reaches every value that is still linked into the tree.            *)
(***************************************************************************)
FindComplete ==
  \A v \in Values : binary_tree_find(v) # NULL <=> v \in ValuesOf(InTree)

(***************************************************************************)
(* After any insertions and deletions, binary_tree_find finds exactly what *)
(* is linked into the tree, and the order it relies on holds.              *)
(***************************************************************************)
FindsStored == Ordered /\ FindComplete

(***************************************************************************)
(* insert adds its node and loses none; delete loses, besides the value    *)
(* itself, only nodes of the right subtree of the node that held it, and   *)
(* brings no value back.                                                   *)
(***************************************************************************)
StepLoses ==
  [][\A v \in Values :
       /\ binary_tree_insert(v) => InTree' = InTree \cup {inserted'}
       /\ binary_tree_delete(v) =>
            LET n == binary_tree_find(v)
            IN /\ InTree' \subseteq InTree
               /\ InTree \ InTree' \subseteq {n} \cup Subtree(node[n].right)
               /\ ValuesOf(InTree)' \subseteq ValuesOf(InTree)]_treeVars

-----------------------------------------------------------------------------
(***************************************************************************)
(* The inductive invariant behind FindsStored and StepLoses.  Links lead   *)
(* to nodes inserted later.  A node of the tree is the child its flags say *)
(* of its parent, unless the parent pointer was left behind: then it is at *)
(* a node that is no longer in the tree.                                   *)
(***************************************************************************)
NodeFields ==
  [left : Ptr, right : Ptr, parent : Ptr, is_left : BOOLEAN, is_right : BOOLEAN, value : Values]

TreeInv ==
  /\ root_node \in Ptr /\ inserted \in 0 .. MaxNodes
  /\ root_node <= inserted /\ (root_node = NULL => inserted = 0)
  /\ node \in [Nodes -> NodeFields]
  /\ \A n \in Nodes :
       /\ {node[n].left, node[n].right} \subseteq {NULL} \cup n + 1 .. inserted
       /\ node[n].is_left \/ node[n].is_right =>
            /\ node[n].parent \in 1 .. n - 1
            /\ n \in 1 .. inserted /\ n # root_node
  /\ \A n \in InTree :
       /\ node[n].is_left => node[n].parent \notin InTree \/ node[node[n].parent].left = n
       /\ node[n].is_right => node[n].parent \notin InTree \/ node[node[n].parent].right = n
  /\ Ordered
=============================================================================
