----------------------------- MODULE TreeProofs -----------------------------
(***************************************************************************)
(* Two tables of the kernel: the process table, for every size of it, and  *)
(* the binary tree, for any number of nodes and any values: what find      *)
(* reaches and what insertions and deletions leave of it.                  *)
(***************************************************************************)
EXTENDS Tree, Proc, WellFoundedInduction, TLAPS

(***************************************************************************)
(* proc_create_process hands out every id at most once.                    *)
(***************************************************************************)
THEOREM UniqueIds == ProcSpec => [](TypeOK /\ IdsUnique)
<1>1. ProcInit => NextFree
  BY MaxProcAssumption DEF ProcInit, NextFree, TypeOK, Ids
<1>2. NextFree /\ [ProcNext]_procVars => NextFree'
  <2> SUFFICES ASSUME NextFree, [ProcNext]_procVars PROVE NextFree'
    OBVIOUS
  <2> USE DEF NextFree, TypeOK
  <2>1. CASE proc_create_process
    <3>1. /\ next_proc_id \in Ids /\ next_proc_id \notin exists
          /\ created[next_proc_id] = 0
      BY <2>1 DEF proc_create_process
    <3>2. created' = [created EXCEPT ![next_proc_id] = 1]
      BY <2>1, <3>1 DEF proc_create_process
    <3> QED BY <2>1, <3>1, <3>2 DEF proc_create_process
  <2>2. CASE ScanNext
    <3>1. NextId(current) \in Ids
      BY MaxProcAssumption DEF NextId, Ids
    <3> QED BY <2>2, <3>1 DEF ScanNext
  <2>3. CASE ScanFound
    BY <2>3 DEF ScanFound
  <2>4. CASE UNCHANGED procVars
    BY <2>4 DEF procVars
  <2> QED BY <2>1, <2>2, <2>3, <2>4 DEF ProcNext
<1>3. NextFree => TypeOK /\ IdsUnique
  BY DEF NextFree, IdsUnique
<1> QED BY <1>1, <1>2, <1>3, PTL DEF ProcSpec

-----------------------------------------------------------------------------
(***************************************************************************)
(* The binary tree.  Its links lead to later nodes, so the recursions over *)
(* it have solutions, and what they compute is proved from the last node   *)
(* for which it would be wrong.                                            *)
(***************************************************************************)
LEMMA LastExists ==
  ASSUME NEW T \in SUBSET (0 .. MaxNodes), T # {}
  PROVE  \E n \in T : \A m \in T : m <= n
<1> DEFINE U == {MaxNodes - m : m \in T}
           R == OpToRel(<, Nat)
<1>1. MaxNodes \in Nat /\ \A m \in T : m \in Nat /\ MaxNodes - m \in Nat
  BY TreeAssumption
<1>2. U \in SUBSET Nat /\ U # {}
  BY <1>1, ZenonT(30), SMTT(30)
<1>3. IsWellFoundedOn(R, Nat)
  BY NatLessThanWellFounded, ZenonT(30), SMTT(30)
<1>4. \A a, b \in Nat : b < a => <<b, a>> \in R
  BY DEF OpToRel
<1> HIDE DEF R, U
<1>5. PICK u \in U : \A w \in U : ~(<<w, u>> \in R)
  BY <1>2, <1>3, WFMin, ZenonT(30), SMTT(30)
<1>6. \A w \in U : ~(w < u)
  BY <1>2, <1>4, <1>5, ZenonT(30), SMTT(30)
<1>7. PICK n \in T : u = MaxNodes - n
  BY <1>5 DEF U
<1>8. ASSUME NEW m \in T PROVE m <= n
  <2>1. MaxNodes - m \in U
    BY DEF U
  <2>2. ~(MaxNodes - m < MaxNodes - n)
    BY <1>6, <1>7, <2>1, ZenonT(30), SMTT(30)
  <2> QED BY <1>1, <2>2
<1> QED
  BY <1>8

\* The links of f lead to later nodes.
Linked(f) ==
  \A n \in Nodes : \A m \in {f[n].left, f[n].right} : m \in Ptr /\ (m # NULL => n < m)

\* Subtree, for any fields of the nodes.
SubOf(f, n) ==
  LET sub[m \in Ptr] ==
        IF m = NULL THEN {} ELSE {m} \cup sub[f[m].left] \cup sub[f[m].right]
  IN sub[n]

LEMMA NodeFacts ==
  /\ NULL \in Ptr /\ NULL \notin Nodes /\ Nodes \subseteq Ptr /\ Ptr \subseteq Int
  /\ \A m \in Ptr : m # NULL => m \in Nodes
  /\ Nodes \in SUBSET (0 .. MaxNodes) /\ \A m \in Nodes : NULL < m
BY TreeAssumption DEF Nodes, Ptr, NULL

\* Induction from the last node on.
LEMMA LastNode ==
  ASSUME NEW T \in SUBSET Nodes, T # {}
  PROVE  \E n \in T : \A m \in Nodes : n < m => m \notin T
<1>1. T \in SUBSET (0 .. MaxNodes)
  BY NodeFacts
<1>2. PICK n \in T : \A m \in T : m <= n
  BY <1>1, LastExists
<1>3. \A m \in Nodes : n < m => m \notin T
  BY <1>2, NodeFacts
<1> QED
  BY <1>3

LEMMA LinkFacts ==
  ASSUME NEW f, Linked(f), NEW n \in Nodes
  PROVE  /\ f[n].left \in Ptr /\ (f[n].left # NULL => f[n].left \in Nodes /\ n < f[n].left)
         /\ f[n].right \in Ptr /\ (f[n].right # NULL => f[n].right \in Nodes /\ n < f[n].right)
BY NodeFacts, ZenonT(30), SMTT(30) DEF Linked

\* One step of the two recursions, from the nodes behind k on.
SubsFrom(g, f, k) ==
  /\ g = [m \in Ptr |-> g[m]] /\ g[NULL] = {}
  /\ \A m \in Nodes : m > k => g[m] = {m} \cup g[f[m].left] \cup g[f[m].right]

LEMMA SubsExist ==
  ASSUME NEW f, Linked(f)
  PROVE  \E g : SubsFrom(g, f, 0)
<1> DEFINE Bad == {k \in 0 .. MaxNodes : ~\E g : SubsFrom(g, f, k)}
<1> SUFFICES ASSUME 0 \in Bad PROVE FALSE
  BY TreeAssumption
<1>1. Bad \in SUBSET (0 .. MaxNodes) /\ Bad # {}
  OBVIOUS
<1>2. PICK k \in Bad : \A z \in Bad : z <= k
  BY <1>1, LastExists, ZenonT(30), SMTT(30)
<1>3. SubsFrom([m \in Ptr |-> {}], f, MaxNodes)
  <2>1. \A m \in Nodes : ~(m > MaxNodes)
    BY TreeAssumption DEF Nodes
  <2> QED BY <2>1, NodeFacts DEF SubsFrom
<1>4. k # MaxNodes
  BY <1>2, <1>3
<1>5. PICK n : n = k + 1
  OBVIOUS
<1>6. k \in Nat /\ n \in 0 .. MaxNodes /\ n \in Nodes /\ ~(n <= k) /\ n \notin Bad
  <2>1. k \in Nat /\ n \in 0 .. MaxNodes /\ n \in Nodes /\ ~(n <= k)
    BY <1>2, <1>4, <1>5, TreeAssumption DEF Nodes
  <2> QED BY <1>2, <2>1
<1>7. PICK g : SubsFrom(g, f, n)
  BY <1>6
<1> DEFINE new == {n} \cup g[f[n].left] \cup g[f[n].right]
           h == [m \in Ptr |-> IF m = n THEN new ELSE g[m]]
<1> HIDE DEF new
<1>8. h = [m \in Ptr |-> h[m]] /\ h[NULL] = {}
  BY <1>6, <1>7, NodeFacts DEF SubsFrom
<1>9. \A m \in Ptr : h[m] = IF m = n THEN new ELSE g[m]
  OBVIOUS
<1> HIDE DEF h
<1>10. ASSUME NEW m \in Nodes, m > k PROVE h[m] = {m} \cup h[f[m].left] \cup h[f[m].right]
  <2>1. m \in Int /\ n \in Int /\ (m = n \/ m > n)
    BY <1>5, <1>6, <1>10, NodeFacts
  <2>2. f[m].left \in Ptr /\ f[m].left # n /\ f[m].right \in Ptr /\ f[m].right # n
    <3>1. \A p \in Ptr : (p # NULL => m < p) => p # n
      BY <1>6, <2>1, NodeFacts
    <3> QED BY <3>1, LinkFacts
  <2>3. h[f[m].left] = g[f[m].left] /\ h[f[m].right] = g[f[m].right]
    BY <1>9, <2>2
  <2>4. CASE m = n
    <3>1. h[m] = new
      BY <1>6, <1>9, <2>4, NodeFacts
    <3> QED BY <2>3, <2>4, <3>1 DEF new
  <2>5. CASE m > n
    <3>1. h[m] = g[m]
      BY <1>9, <2>1, <2>5, NodeFacts
    <3>2. g[m] = {m} \cup g[f[m].left] \cup g[f[m].right]
      BY <1>7, <2>5 DEF SubsFrom
    <3> QED BY <2>3, <3>1, <3>2
  <2> QED BY <2>1, <2>4, <2>5
<1>11. SubsFrom(h, f, k)
  BY <1>8, <1>10 DEF SubsFrom
<1> QED
  BY <1>2, <1>11

LEMMA SubIs ==
  ASSUME NEW f, Linked(f)
  PROVE  /\ SubOf(f, NULL) = {}
         /\ \A m \in Nodes : SubOf(f, m) = {m} \cup SubOf(f, f[m].left) \cup SubOf(f, f[m].right)
<1> DEFINE Subs(g) == g = [m \in Ptr |-> IF m = NULL THEN {}
                                          ELSE {m} \cup g[f[m].left] \cup g[f[m].right]]
           F == CHOOSE g : Subs(g)
<1>1. \A n : SubOf(f, n) = F[n]
  BY DEF SubOf
<1>2. PICK g : SubsFrom(g, f, 0)
  BY SubsExist
<1>3. \A m \in Ptr : g[m] = IF m = NULL THEN {} ELSE {m} \cup g[f[m].left] \cup g[f[m].right]
  <2>1. \A m \in Nodes : m > 0
    BY DEF Nodes
  <2> QED BY <1>2, <2>1, NodeFacts DEF SubsFrom
<1>4. Subs(g)
  BY <1>2, <1>3 DEF SubsFrom
<1>5. Subs(F)
  BY <1>4, ZenonT(30), SMTT(30)
<1> HIDE DEF F
<1>6. \A m \in Ptr : F[m] = IF m = NULL THEN {} ELSE {m} \cup F[f[m].left] \cup F[f[m].right]
  BY <1>5, ZenonT(30), SMTT(30)
<1> QED
  BY <1>1, <1>6, NodeFacts, ZenonT(30), SMTT(30)

\* A walk over D that stops in stop and goes on at next.
Walks(h, D, stop, out, next) ==
  h = [n \in D |-> IF n \in stop THEN out[n] ELSE h[next[n]]]

LEMMA WalkExists ==
  ASSUME NEW D \in SUBSET (0 .. MaxNodes), NEW stop, NEW out, NEW next,
         \A n \in D \ stop : next[n] \in D /\ (next[n] \in stop \/ n < next[n])
  PROVE  \E h : Walks(h, D, stop, out, next)
<1> DEFINE Walk(h, k) ==
             /\ h = [n \in D |-> h[n]]
             /\ \A n \in D : /\ n \in stop => h[n] = out[n]
                             /\ n \notin stop /\ n >= k => h[n] = h[next[n]]
           Bad == {k \in 0 .. MaxNodes : ~\E h : Walk(h, k)}
<1>1. 0 \notin Bad
  <2> SUFFICES ASSUME 0 \in Bad PROVE FALSE
    OBVIOUS
  <2>1. Bad \in SUBSET (0 .. MaxNodes) /\ Bad # {}
    OBVIOUS
  <2>2. PICK k \in Bad : \A z \in Bad : z <= k
    BY <2>1, LastExists, ZenonT(30), SMTT(30)
  \* The walk from the nodes behind k on.
  <2>3. PICK g : /\ g = [n \in D |-> g[n]]
                 /\ \A n \in D : /\ n \in stop => g[n] = out[n]
                                 /\ n \notin stop /\ n > k => g[n] = g[next[n]]
    <3>1. CASE k = MaxNodes
      <4> DEFINE g == [n \in D |-> out[n]]
      <4>1. \A n \in D : ~(n > k) /\ g[n] = out[n]
        BY <3>1, TreeAssumption
      <4>2. g = [n \in D |-> g[n]]
        OBVIOUS
      <4> HIDE DEF g
      <4> QED BY <4>1, <4>2
    <3>2. CASE k # MaxNodes
      <4>1. k + 1 \in 0 .. MaxNodes /\ ~(k + 1 <= k)
        BY <2>2, <3>2, TreeAssumption
      <4>2. k + 1 \notin Bad
        BY <2>2, <4>1
      <4>3. PICK g : Walk(g, k + 1)
        BY <4>1, <4>2
      <4>4. \A n \in D : n > k => n >= k + 1
        BY <2>2
      <4> QED BY <4>3, <4>4
    <3> QED BY <3>1, <3>2
  <2> DEFINE h == [n \in D |-> IF n = k /\ k \notin stop THEN g[next[k]] ELSE g[n]]
  <2>4. /\ h = [n \in D |-> h[n]]
        /\ \A n \in D : h[n] = IF n = k /\ k \notin stop THEN g[next[k]] ELSE g[n]
    OBVIOUS
  <2> HIDE DEF h
  <2>5. ASSUME NEW n \in D, n \notin stop, n >= k PROVE h[n] = h[next[n]]
    <3>1. next[n] \in D /\ (next[n] \in stop \/ n < next[n])
      BY <2>5
    <3>2. n \in Int /\ next[n] \in Int /\ k \in Int
      BY <2>2, <3>1
    <3>3. ~(next[n] = k /\ k \notin stop)
      BY <2>5, <3>1, <3>2
    <3>4. h[next[n]] = g[next[n]]
      BY <2>4, <3>1, <3>3
    <3>5. CASE n = k
      BY <2>4, <2>5, <3>4, <3>5
    <3>6. CASE n # k
      <4>1. n > k
        BY <2>5, <3>2, <3>6
      <4>2. h[n] = g[n] /\ g[n] = g[next[n]]
        BY <2>3, <2>4, <2>5, <3>6, <4>1
      <4> QED BY <3>4, <4>2
    <3> QED BY <3>5, <3>6
  <2>6. \A n \in D : n \in stop => h[n] = out[n]
    BY <2>3, <2>4
  <2>7. Walk(h, k)
    BY <2>4, <2>5, <2>6
  <2> QED BY <2>2, <2>7
<1>2. PICK h : Walk(h, 0)
  BY <1>1, TreeAssumption
<1>3. \A n \in D : n >= 0
  OBVIOUS
<1>4. \A n \in D : h[n] = IF n \in stop THEN out[n] ELSE h[next[n]]
  BY <1>2, <1>3
<1> QED
  BY <1>2, <1>4 DEF Walks

-----------------------------------------------------------------------------
\* A subtree has its node and later ones.
LEMMA SubLater ==
  ASSUME NEW f, Linked(f)
  PROVE  \A m \in Nodes : m \in SubOf(f, m) /\ \A x \in SubOf(f, m) : x \in Nodes /\ m <= x
<1>1. \A m \in Nodes : m \in SubOf(f, m)
  BY SubIs
<1> DEFINE Bad == {m \in Nodes : ~\A x \in SubOf(f, m) : x \in Nodes /\ m <= x}
<1> SUFFICES ASSUME Bad # {} PROVE FALSE
  BY <1>1
<1>2. PICK m \in Bad : \A z \in Nodes : m < z => z \notin Bad
  BY LastNode, ZenonT(30), SMTT(30)
<1>3. \A p \in {f[m].left, f[m].right} : \A x \in SubOf(f, p) : x \in Nodes /\ m <= x
  <2> TAKE p \in {f[m].left, f[m].right}
  <2>1. p # NULL => p \in Nodes /\ m < p
    BY LinkFacts
  <2>2. CASE p = NULL
    BY <2>2, SubIs
  <2>3. CASE p # NULL
    <3>1. \A x \in SubOf(f, p) : x \in Nodes /\ p <= x
      BY <1>2, <2>1, <2>3
    <3> TAKE x \in SubOf(f, p)
    <3>2. x \in Nodes /\ p <= x /\ m < p
      BY <2>1, <2>3, <3>1
    <3>3. m \in Int /\ p \in Int /\ x \in Int
      BY <2>1, <2>3, <3>2, NodeFacts, ZenonT(30), SMTT(30)
    <3> QED BY <3>2, <3>3
  <2> QED BY <2>2, <2>3
<1>4. SubOf(f, m) = {m} \cup SubOf(f, f[m].left) \cup SubOf(f, f[m].right)
  BY SubIs
<1>5. m <= m /\ m \in Nodes
  BY NodeFacts
<1> QED
  BY <1>2, <1>3, <1>4, <1>5

\* The subtree of a node of a subtree is part of it.
LEMMA SubWithin ==
  ASSUME NEW f, Linked(f)
  PROVE  \A m \in Ptr : \A x \in SubOf(f, m) : x \in Nodes /\ SubOf(f, x) \subseteq SubOf(f, m)
<1> DEFINE Bad == {m \in Nodes : ~\A x \in SubOf(f, m) : SubOf(f, x) \subseteq SubOf(f, m)}
<1>1. Bad = {}
  <2> SUFFICES ASSUME Bad # {} PROVE FALSE
    OBVIOUS
  <2>1. PICK m \in Bad : \A z \in Nodes : m < z => z \notin Bad
    BY LastNode, ZenonT(30), SMTT(30)
  <2>2. SubOf(f, m) = {m} \cup SubOf(f, f[m].left) \cup SubOf(f, f[m].right)
    BY SubIs
  <2>3. \A p \in {f[m].left, f[m].right} : \A x \in SubOf(f, p) : SubOf(f, x) \subseteq SubOf(f, m)
    <3> TAKE p \in {f[m].left, f[m].right}
    <3>1. p # NULL => p \in Nodes /\ m < p
      BY LinkFacts
    <3>2. CASE p = NULL
      BY <3>2, SubIs
    <3>3. CASE p # NULL
      BY <2>1, <2>2, <3>1, <3>3
    <3> QED BY <3>2, <3>3
  <2> QED BY <2>1, <2>2, <2>3
<1>2. \A m \in Ptr : m = NULL \/ m \in Nodes
  BY NodeFacts
<1> QED
  BY <1>1, <1>2, SubLater, SubIs

\* Links lead from nodes of a subtree to nodes of it.
LEMMA SubClosed ==
  ASSUME NEW f, Linked(f), NEW m \in Ptr, NEW x \in SubOf(f, m)
  PROVE  /\ x \in Nodes
         /\ SubOf(f, f[x].left) \subseteq SubOf(f, m) /\ SubOf(f, f[x].right) \subseteq SubOf(f, m)
         /\ f[x].left # NULL => f[x].left \in SubOf(f, m)
         /\ f[x].right # NULL => f[x].right \in SubOf(f, m)
<1>1. x \in Nodes /\ SubOf(f, x) \subseteq SubOf(f, m)
  BY SubWithin
<1>2. SubOf(f, x) = {x} \cup SubOf(f, f[x].left) \cup SubOf(f, f[x].right)
  BY <1>1, SubIs
<1>3. /\ f[x].left # NULL => f[x].left \in SubOf(f, f[x].left)
      /\ f[x].right # NULL => f[x].right \in SubOf(f, f[x].right)
  BY <1>1, LinkFacts, SubLater
<1> QED
  BY <1>1, <1>2, <1>3

\* A set that links do not leave has the whole subtree of each of its nodes.
LEMMA SubLeast ==
  ASSUME NEW f, Linked(f), NEW C,
         \A x \in C : /\ x \in Nodes
                      /\ f[x].left # NULL => f[x].left \in C
                      /\ f[x].right # NULL => f[x].right \in C
  PROVE  \A m \in C : SubOf(f, m) \subseteq C
<1> DEFINE Bad == {m \in Nodes : m \in C /\ ~(SubOf(f, m) \subseteq C)}
<1>1. Bad = {}
  <2> SUFFICES ASSUME Bad # {} PROVE FALSE
    OBVIOUS
  <2>1. PICK m \in Bad : \A z \in Nodes : m < z => z \notin Bad
    BY LastNode, ZenonT(30), SMTT(30)
  <2>2. SubOf(f, m) = {m} \cup SubOf(f, f[m].left) \cup SubOf(f, f[m].right)
    BY SubIs
  <2>3. \A p \in {f[m].left, f[m].right} : SubOf(f, p) \subseteq C
    <3> TAKE p \in {f[m].left, f[m].right}
    <3>1. p # NULL => p \in Nodes /\ m < p /\ p \in C
      BY <2>1, LinkFacts
    <3>2. CASE p = NULL
      BY <3>2, SubIs
    <3>3. CASE p # NULL
      BY <2>1, <3>1, <3>3
    <3> QED BY <3>2, <3>3
  <2> QED BY <2>1, <2>2, <2>3
<1> QED
  BY <1>1

\* Every node of a subtree but its first is the child of one.
LEMMA SubParent ==
  ASSUME NEW f, Linked(f), NEW m \in Nodes, NEW x \in SubOf(f, m), x # m
  PROVE  \E p \in SubOf(f, m) : x \in {f[p].left, f[p].right}
<1> SUFFICES ASSUME ~\E p \in SubOf(f, m) : x \in {f[p].left, f[p].right} PROVE FALSE
  OBVIOUS
<1> DEFINE C == SubOf(f, m) \ {x}
<1>1. ASSUME NEW y \in C
      PROVE  /\ y \in Nodes
             /\ f[y].left # NULL => f[y].left \in C
             /\ f[y].right # NULL => f[y].right \in C
  <2>1. y \in SubOf(f, m) /\ m \in Ptr
    BY NodeFacts
  <2>2. /\ y \in Nodes
        /\ f[y].left # NULL => f[y].left \in SubOf(f, m)
        /\ f[y].right # NULL => f[y].right \in SubOf(f, m)
    BY <2>1, SubClosed
  <2> QED BY <2>1, <2>2
<1>2. m \in C
  BY SubLater
<1> HIDE DEF C
<1>3. SubOf(f, m) \subseteq C
  BY <1>1, <1>2, SubLeast
<1> QED
  BY <1>3 DEF C

\* Where two sets of links agree on a subtree it is the same.
LEMMA SubSame ==
  ASSUME NEW f, NEW g, Linked(f), Linked(g), NEW m \in Ptr,
         \A x \in SubOf(f, m) : g[x].left = f[x].left /\ g[x].right = f[x].right
  PROVE  SubOf(g, m) = SubOf(f, m)
<1> DEFINE Bad == {x \in Nodes : x \in SubOf(f, m) /\ SubOf(g, x) # SubOf(f, x)}
<1>1. Bad = {}
  <2> SUFFICES ASSUME Bad # {} PROVE FALSE
    OBVIOUS
  <2>1. PICK x \in Bad : \A z \in Nodes : x < z => z \notin Bad
    BY LastNode, ZenonT(30), SMTT(30)
  <2>2. \A p \in {f[x].left, f[x].right} : SubOf(g, p) = SubOf(f, p)
    <3> TAKE p \in {f[x].left, f[x].right}
    <3>1. p # NULL => p \in Nodes /\ x < p /\ p \in SubOf(f, m)
      BY <2>1, LinkFacts, SubClosed
    <3>2. CASE p = NULL
      BY <3>2, SubIs, ZenonT(30), SMTT(30)
    <3>3. CASE p # NULL
      BY <2>1, <3>1, <3>3
    <3> QED BY <3>2, <3>3
  <2>3. /\ SubOf(f, x) = {x} \cup SubOf(f, f[x].left) \cup SubOf(f, f[x].right)
        /\ SubOf(g, x) = {x} \cup SubOf(g, f[x].left) \cup SubOf(g, f[x].right)
    <3>1. SubOf(f, x) = {x} \cup SubOf(f, f[x].left) \cup SubOf(f, f[x].right)
      BY SubIs
    <3>2. SubOf(g, x) = {x} \cup SubOf(g, g[x].left) \cup SubOf(g, g[x].right)
      BY SubIs
    <3>3. g[x].left = f[x].left /\ g[x].right = f[x].right
      BY <2>1
    <3> QED BY <3>1, <3>2, <3>3
  <2> QED BY <2>1, <2>2, <2>3, ZenonT(30), SMTT(30)
<1>2. m = NULL \/ (m \in Nodes /\ m \in SubOf(f, m))
  BY NodeFacts, SubLater
<1> QED
  BY <1>1, <1>2, SubIs

\* Links that skip nodes of a subtree make it smaller.
LEMMA SubShrinks ==
  ASSUME NEW f, NEW g, Linked(f), Linked(g), NEW r \in Ptr,
         \A x \in SubOf(f, r) :
           /\ g[x].left # NULL => g[x].left \in SubOf(f, f[x].left)
           /\ g[x].right # NULL => g[x].right \in SubOf(f, f[x].right)
  PROVE  /\ SubOf(g, r) \subseteq SubOf(f, r)
         /\ \A x \in SubOf(f, r) : /\ SubOf(g, g[x].left) \subseteq SubOf(f, f[x].left)
                                   /\ SubOf(g, g[x].right) \subseteq SubOf(f, f[x].right)
<1> DEFINE Bad == {x \in Nodes : x \in SubOf(f, r) /\ ~(SubOf(g, x) \subseteq SubOf(f, x))}
<1>1. ASSUME NEW x \in SubOf(f, r), NEW p \in {f[x].left, f[x].right},
             NEW q, q # NULL => q \in SubOf(f, p), \A z \in Nodes : x < z => z \notin Bad
      PROVE  SubOf(g, q) \subseteq SubOf(f, p)
  <2>1. CASE q = NULL
    BY <2>1, SubIs
  <2>2. CASE q # NULL
    <3>1. x \in Nodes /\ p \in Ptr /\ SubOf(f, p) \subseteq SubOf(f, r)
      BY LinkFacts, SubClosed
    <3>2. q \in Nodes /\ q \in SubOf(f, r) /\ SubOf(f, q) \subseteq SubOf(f, p)
      BY <1>1, <2>2, <3>1, SubWithin
    <3>3. x < q
      <4>1. p # NULL /\ p \in Nodes /\ x < p
        BY <1>1, <2>2, <3>1, LinkFacts, SubIs
      <4>2. p <= q
        BY <1>1, <2>2, <4>1, SubLater
      <4> QED BY <3>1, <3>2, <4>1, <4>2, NodeFacts
    <3>4. SubOf(g, q) \subseteq SubOf(f, q)
      BY <1>1, <3>2, <3>3
    <3> QED BY <3>2, <3>4
  <2> QED BY <2>1, <2>2
<1>2. Bad = {}
  <2> SUFFICES ASSUME Bad # {} PROVE FALSE
    OBVIOUS
  <2>1. PICK x \in Bad : \A z \in Nodes : x < z => z \notin Bad
    BY LastNode, ZenonT(30), SMTT(30)
  <2>2. x \in SubOf(f, r) /\ x \in Nodes /\ ~(SubOf(g, x) \subseteq SubOf(f, x))
    BY <2>1
  <2> HIDE DEF Bad
  <2>3. SubOf(g, g[x].left) \subseteq SubOf(f, f[x].left)
    BY <1>1, <2>1, <2>2
  <2>4. SubOf(g, g[x].right) \subseteq SubOf(f, f[x].right)
    BY <1>1, <2>1, <2>2
  <2>5. /\ SubOf(f, x) = {x} \cup SubOf(f, f[x].left) \cup SubOf(f, f[x].right)
        /\ SubOf(g, x) = {x} \cup SubOf(g, g[x].left) \cup SubOf(g, g[x].right)
    BY <2>2, SubIs
  <2> QED BY <2>2, <2>3, <2>4, <2>5
<1>3. SubOf(g, r) \subseteq SubOf(f, r)
  <2>1. r = NULL \/ (r \in Nodes /\ r \in SubOf(f, r))
    BY NodeFacts, SubLater
  <2> QED BY <1>2, <2>1, SubIs
<1>4. ASSUME NEW x \in SubOf(f, r)
      PROVE  /\ SubOf(g, g[x].left) \subseteq SubOf(f, f[x].left)
             /\ SubOf(g, g[x].right) \subseteq SubOf(f, f[x].right)
  <2>1. \A z \in Nodes : x < z => z \notin Bad
    BY <1>2
  <2> HIDE DEF Bad
  <2>2. SubOf(g, g[x].left) \subseteq SubOf(f, f[x].left)
    BY <1>1, <2>1
  <2>3. SubOf(g, g[x].right) \subseteq SubOf(f, f[x].right)
    BY <1>1, <2>1
  <2> QED BY <2>2, <2>3
<1> QED
  BY <1>3, <1>4

-----------------------------------------------------------------------------
\* Ordered, for any fields of the nodes.
Ord(f, r) ==
  \A n \in SubOf(f, r) :
    /\ \A m \in SubOf(f, f[n].left) : f[m].value >= f[n].value
    /\ \A m \in SubOf(f, f[n].right) : f[m].value < f[n].value

\* In an ordered tree of integers no node is on both sides of another, and
\* none is the child of two.
InOrder(f, r) == Linked(f) /\ r \in Ptr /\ Ord(f, r) /\ \A n \in Nodes : f[n].value \in Int

LEMMA SidesDisjoint ==
  ASSUME NEW f, NEW r, InOrder(f, r), NEW n \in SubOf(f, r),
         NEW x \in SubOf(f, f[n].left), x \in SubOf(f, f[n].right)
  PROVE  FALSE
<1>1. n \in Nodes /\ x \in Nodes
  BY SubWithin, LinkFacts DEF InOrder
<1>2. f[x].value >= f[n].value /\ f[x].value < f[n].value
  BY DEF InOrder, Ord
<1> QED
  BY <1>1, <1>2 DEF InOrder

LEMMA OneParent ==
  ASSUME NEW f, NEW r, InOrder(f, r), NEW k \in SubOf(f, r), NEW p \in SubOf(f, r),
         NEW c \in Nodes, c \in {f[k].left, f[k].right}, c \in {f[p].left, f[p].right}
  PROVE  k = p
<1> DEFINE Bad == {m \in Nodes : /\ m \in SubOf(f, r)
                                 /\ k \in SubOf(f, m) /\ p \in SubOf(f, m)}
<1> SUFFICES ASSUME k # p PROVE FALSE
  OBVIOUS
<1>1. Linked(f) /\ r \in Ptr
  BY DEF InOrder
<1>2. r \in Bad
  <2>1. r # NULL
    BY <1>1, SubIs
  <2>2. r \in Nodes /\ r \in SubOf(f, r)
    BY <1>1, <2>1, NodeFacts, SubLater
  <2> QED BY <2>2
<1>3. PICK m \in Bad : \A z \in Nodes : m < z => z \notin Bad
  BY <1>2, LastNode, ZenonT(30), SMTT(30)
<1>4. m \in Nodes /\ m \in SubOf(f, r) /\ k \in SubOf(f, m) /\ p \in SubOf(f, m)
  BY <1>3
<1>5. SubOf(f, m) = {m} \cup SubOf(f, f[m].left) \cup SubOf(f, f[m].right)
  BY <1>1, <1>4, SubIs
\* The sides of m: never both nodes on one, nor one on each.
<1>6. ASSUME NEW s \in {f[m].left, f[m].right}
      PROVE  ~(k \in SubOf(f, s) /\ p \in SubOf(f, s))
  <2> SUFFICES ASSUME k \in SubOf(f, s), p \in SubOf(f, s) PROVE FALSE
    OBVIOUS
  <2>1. s # NULL
    BY <1>1, SubIs
  <2>2. s \in Nodes /\ m < s /\ s \in SubOf(f, r)
    BY <1>1, <1>4, <2>1, LinkFacts, SubClosed
  <2>3. s \in Bad
    BY <2>2
  <2> QED BY <1>3, <2>2, <2>3
\* The child of a node below s is there too, and is not s.
<1>7. ASSUME NEW s \in {f[m].left, f[m].right}, NEW q \in SubOf(f, s),
             c \in {f[q].left, f[q].right}
      PROVE  c \in SubOf(f, s) /\ c # s
  <2>1. s \in Ptr /\ s # NULL
    BY <1>1, <1>4, <1>7, LinkFacts, SubIs
  <2>2. s \in Nodes /\ q \in Nodes /\ s <= q
    BY <1>1, <2>1, NodeFacts, SubLater
  <2>3. c \in SubOf(f, s) /\ q < c
    BY <1>1, <1>7, <2>1, <2>2, LinkFacts, SubClosed, NodeFacts
  <2> QED BY <2>2, <2>3, NodeFacts
<1>8. ASSUME NEW s \in {f[m].left, f[m].right}, c = s PROVE c \in SubOf(f, s)
  BY <1>1, <1>8, SubLater
<1>9. ~(c \in SubOf(f, f[m].left) /\ c \in SubOf(f, f[m].right))
  BY <1>4, SidesDisjoint
<1>10. CASE k = m
  <2>1. PICK s \in {f[m].left, f[m].right} : p \in SubOf(f, s)
    BY <1>4, <1>5, <1>10
  <2>2. c \in SubOf(f, s) /\ c # s
    BY <1>7, <2>1
  <2>3. PICK t \in {f[m].left, f[m].right} : c = t /\ c \in SubOf(f, t)
    BY <1>8, <1>10
  <2> QED BY <1>9, <2>2, <2>3
<1>11. CASE p = m
  <2>1. PICK s \in {f[m].left, f[m].right} : k \in SubOf(f, s)
    BY <1>4, <1>5, <1>11
  <2>2. c \in SubOf(f, s) /\ c # s
    BY <1>7, <2>1
  <2>3. PICK t \in {f[m].left, f[m].right} : c = t /\ c \in SubOf(f, t)
    BY <1>8, <1>11
  <2> QED BY <1>9, <2>2, <2>3
<1>12. CASE k # m /\ p # m
  <2>1. PICK s \in {f[m].left, f[m].right} : k \in SubOf(f, s)
    BY <1>4, <1>5, <1>12
  <2>2. PICK t \in {f[m].left, f[m].right} : p \in SubOf(f, t)
    BY <1>4, <1>5, <1>12
  <2>3. c \in SubOf(f, s) /\ c \in SubOf(f, t)
    BY <1>7, <2>1, <2>2
  <2>4. s # t
    BY <1>6, <2>1, <2>2
  <2> QED BY <1>9, <2>3, <2>4
<1> QED
  BY <1>10, <1>11, <1>12

\* The trees of the states.
LEMMA TreeIs ==
  /\ \A n : Subtree(n) = SubOf(node, n) /\ Subtree(n)' = SubOf(node', n)
  /\ InTree = SubOf(node, root_node) /\ InTree' = SubOf(node', root_node')
  /\ Ordered <=> Ord(node, root_node)
  /\ Ordered' <=> Ord(node', root_node')
<1>1. \A n : Subtree(n) = SubOf(node, n)
  BY DEF Subtree, SubOf
<1>2. \A n : Subtree(n)' = SubOf(node', n)
  BY DEF Subtree, SubOf
<1>3. InTree = SubOf(node, root_node)
  BY <1>1 DEF InTree
<1>4. InTree' = SubOf(node', root_node')
  BY DEF InTree, Subtree, SubOf
<1>5. Ordered <=> Ord(node, root_node)
  BY <1>1, <1>3 DEF Ordered, Ord
<1>6. Ordered' <=> Ord(node', root_node')
  <2>1. Ordered' <=> \A n \in InTree' :
          /\ \A m \in Subtree(node[n].left)' : node'[m].value >= node'[n].value
          /\ \A m \in Subtree(node[n].right)' : node'[m].value < node'[n].value
    BY DEF Ordered
  <2>2. \A n : /\ Subtree(node[n].left)' = SubOf(node', node'[n].left)
               /\ Subtree(node[n].right)' = SubOf(node', node'[n].right)
    BY DEF Subtree, SubOf
  <2> QED BY <1>4, <2>1, <2>2 DEF Ord
<1> QED
  BY <1>1, <1>2, <1>3, <1>4, <1>5, <1>6

LEMMA InvFacts ==
  ASSUME TreeInv
  PROVE  /\ InOrder(node, root_node) /\ Linked(node) /\ root_node \in Ptr
         /\ inserted \in Nat
         /\ \A n \in Nodes : node[n].value \in Values /\ node[n].value \in Int
<1>1. /\ root_node \in Ptr /\ inserted \in Nat
      /\ \A n \in Nodes : /\ node[n].value \in Values /\ node[n].value \in Int
                          /\ node[n].left \in Ptr /\ node[n].right \in Ptr
  <2>1. root_node \in Ptr /\ inserted \in Nat /\ node \in [Nodes -> NodeFields]
    BY TreeAssumption DEF TreeInv
  <2>2. \A v \in Values : v \in Int
    BY TreeAssumption
  <2>3. \A n \in Nodes : node[n] \in NodeFields
    BY <2>1
  <2>4. \A x \in NodeFields : x.value \in Values /\ x.left \in Ptr /\ x.right \in Ptr
    BY DEF NodeFields
  <2> QED BY <2>1, <2>2, <2>3, <2>4
<1>2. Linked(node)
  <2> SUFFICES ASSUME NEW n \in Nodes, NEW m \in {node[n].left, node[n].right}
               PROVE  m \in Ptr /\ (m # NULL => n < m)
    BY DEF Linked
  <2>1. m \in {NULL} \cup n + 1 .. inserted
    BY DEF TreeInv
  <2>2. n \in Int /\ m \in Ptr
    BY <1>1, NodeFacts
  <2> QED BY <1>1, <2>1, <2>2
<1>3. Ord(node, root_node)
  BY TreeIs DEF TreeInv
<1> QED
  BY <1>1, <1>2, <1>3 DEF InOrder

-----------------------------------------------------------------------------
LEMMA FindIs ==
  ASSUME TreeInv, NEW v \in Values
  PROVE  /\ NodeFind(NULL, v) = NULL
         /\ \A n \in Nodes :
              NodeFind(n, v) = IF node[n].value = v THEN n
                               ELSE NodeFind(IF node[n].value < v THEN node[n].left
                                                                 ELSE node[n].right, v)
<1> DEFINE stop == {n \in Ptr : n = NULL \/ node[n].value = v}
           out == [n \in Ptr |-> n]
           next == [n \in Ptr |-> IF node[n].value < v THEN node[n].left ELSE node[n].right]
           Finds(h) == h = [n \in Ptr |-> IF n = NULL \/ node[n].value = v THEN n
                                          ELSE IF node[n].value < v THEN h[node[n].left]
                                                                    ELSE h[node[n].right]]
           F == CHOOSE h : Finds(h)
<1>1. \A n : NodeFind(n, v) = F[n]
  BY DEF NodeFind
<1>2. Ptr \in SUBSET (0 .. MaxNodes)
  BY NodeFacts, TreeAssumption DEF Ptr, NULL
<1>3. \A n \in Nodes : /\ next[n] \in Ptr /\ (next[n] = NULL \/ n < next[n])
                       /\ next[n] = IF node[n].value < v THEN node[n].left ELSE node[n].right
  BY NodeFacts, InvFacts, LinkFacts
<1>4. \A n \in Ptr \ stop : next[n] \in Ptr /\ (next[n] \in stop \/ n < next[n])
  <2>1. NULL \in stop
    BY NodeFacts
  <2>2. \A n \in Ptr \ stop : n \in Nodes
    BY NodeFacts
  <2> HIDE DEF stop, next
  <2> QED BY <1>3, <2>1, <2>2
<1>5. PICK h : h = [n \in Ptr |-> IF n \in stop THEN out[n] ELSE h[next[n]]]
  <2> HIDE DEF stop, out, next
  <2>1. \E h : Walks(h, Ptr, stop, out, next)
    BY <1>2, <1>4, WalkExists
  <2> QED BY <2>1 DEF Walks
<1>6. \A n \in Ptr : h[n] = IF n = NULL \/ node[n].value = v THEN n
                            ELSE IF node[n].value < v THEN h[node[n].left]
                                                      ELSE h[node[n].right]
  <2> TAKE n \in Ptr
  <2>1. h[n] = IF n \in stop THEN out[n] ELSE h[next[n]]
    BY <1>5
  <2>2. (n \in stop <=> n = NULL \/ node[n].value = v) /\ out[n] = n
    OBVIOUS
  <2>3. n \notin stop => h[next[n]] = IF node[n].value < v THEN h[node[n].left] ELSE h[node[n].right]
    OBVIOUS
  <2> HIDE DEF stop, out, next
  <2> QED BY <2>1, <2>2, <2>3
<1>7. h = [n \in Ptr |-> h[n]]
  <2> HIDE DEF stop, out, next
  <2> QED BY <1>5, SMTT(30), ZenonT(30)
<1>8. Finds(F)
  <2>1. Finds(h)
    BY <1>6, <1>7, SMTT(30), ZenonT(30)
  <2> QED BY <2>1, ZenonT(30), SMTT(30)
<1> HIDE DEF F
<1>9. \A n \in Ptr : F[n] = IF n = NULL \/ node[n].value = v THEN n
                            ELSE IF node[n].value < v THEN F[node[n].left] ELSE F[node[n].right]
  BY <1>8
<1> QED
  BY <1>1, <1>9, NodeFacts

\* What find returns from a node of the tree.
LEMMA FindRight ==
  ASSUME TreeInv, NEW v \in Values, NEW m \in Ptr, m = NULL \/ m \in SubOf(node, root_node)
  PROVE  /\ NodeFind(m, v) # NULL =>
              NodeFind(m, v) \in SubOf(node, m) /\ node[NodeFind(m, v)].value = v
         /\ NodeFind(m, v) = NULL => \A x \in SubOf(node, m) : node[x].value # v
<1> DEFINE Right(n) ==
             /\ NodeFind(n, v) # NULL =>
                  NodeFind(n, v) \in SubOf(node, n) /\ node[NodeFind(n, v)].value = v
             /\ NodeFind(n, v) = NULL => \A x \in SubOf(node, n) : node[x].value # v
           Bad == {n \in Nodes : n \in SubOf(node, root_node) /\ ~Right(n)}
<1>1. Linked(node) /\ root_node \in Ptr /\ v \in Int /\ InOrder(node, root_node)
  BY InvFacts, TreeAssumption
<1>2. Right(NULL)
  BY <1>1, FindIs, SubIs
<1>3. Bad = {}
  <2> SUFFICES ASSUME Bad # {} PROVE FALSE
    OBVIOUS
  <2>1. PICK n \in Bad : \A z \in Nodes : n < z => z \notin Bad
    BY LastNode, ZenonT(30), SMTT(30)
  <2>2. n \in Nodes /\ n \in SubOf(node, root_node) /\ ~Right(n)
    BY <2>1
  <2>3. SubOf(node, n) = {n} \cup SubOf(node, node[n].left) \cup SubOf(node, node[n].right)
    BY <1>1, <2>2, SubIs
  <2>4. \A p \in {node[n].left, node[n].right} : Right(p)
    <3> TAKE p \in {node[n].left, node[n].right}
    <3>1. p # NULL => p \in Nodes /\ n < p /\ p \in SubOf(node, root_node)
      BY <1>1, <2>2, LinkFacts, SubClosed
    <3>2. p # NULL => p \notin Bad
      BY <2>1, <3>1
    <3> QED BY <1>2, <3>1, <3>2
  <2>5. /\ \A x \in SubOf(node, node[n].left) : node[x].value >= node[n].value
        /\ \A x \in SubOf(node, node[n].right) : node[x].value < node[n].value
    BY <1>1, <2>2 DEF InOrder, Ord
  <2>6. node[n].value \in Int /\ \A x \in SubOf(node, n) : node[x].value \in Int
    <3>1. \A x \in SubOf(node, n) : x \in Nodes
      BY <1>1, <2>2, SubLater
    <3> QED BY <2>2, <3>1, InvFacts
  <2>7. NodeFind(n, v) = IF node[n].value = v THEN n
                         ELSE NodeFind(IF node[n].value < v THEN node[n].left
                                                           ELSE node[n].right, v)
    BY <2>2, FindIs
  <2>8. CASE node[n].value = v
    <3>1. NodeFind(n, v) = n /\ n # NULL /\ n \in SubOf(node, n)
      BY <2>2, <2>3, <2>7, <2>8, NodeFacts
    <3> QED BY <2>2, <2>8, <3>1
  <2>9. CASE node[n].value < v
    <3>1. NodeFind(n, v) = NodeFind(node[n].left, v) /\ node[n].value # v
      BY <1>1, <2>6, <2>7, <2>9
    <3>2. \A x \in SubOf(node, node[n].right) : node[x].value # v
      BY <1>1, <2>3, <2>5, <2>6, <2>9
    <3> QED BY <2>2, <2>3, <2>4, <3>1, <3>2
  <2>10. CASE node[n].value > v
    <3>1. NodeFind(n, v) = NodeFind(node[n].right, v) /\ node[n].value # v
      BY <1>1, <2>6, <2>7, <2>10
    <3>2. \A x \in SubOf(node, node[n].left) : node[x].value # v
      BY <1>1, <2>3, <2>5, <2>6, <2>10
    <3> QED BY <2>2, <2>3, <2>4, <3>1, <3>2
  <2> QED BY <1>1, <2>6, <2>8, <2>9, <2>10
<1>4. m # NULL => m \in Nodes
  BY NodeFacts
<1>5. Right(m)
  BY <1>2, <1>3, <1>4
<1> QED
  BY <1>5

\* InsertPlace, from any node on.
PlaceFrom(from, v) ==
  LET place[n \in Nodes] ==
        LET left == node[n].value <= v
            child == IF left THEN node[n].left ELSE node[n].right
        IN IF child = NULL THEN [at |-> n, left |-> left] ELSE place[child]
  IN place[from]

Side(n, v) == IF node[n].value <= v THEN node[n].left ELSE node[n].right

LEMMA PlaceIs ==
  ASSUME TreeInv, NEW v \in Values
  PROVE  \A n \in Nodes :
           PlaceFrom(n, v) = IF Side(n, v) = NULL THEN [at |-> n, left |-> node[n].value <= v]
                                                  ELSE PlaceFrom(Side(n, v), v)
<1> DEFINE stop == {n \in Nodes : Side(n, v) = NULL}
           out == [n \in Nodes |-> [at |-> n, left |-> node[n].value <= v]]
           next == [n \in Nodes |-> Side(n, v)]
           Places(h) == h = [n \in Nodes |-> IF Side(n, v) = NULL
                                               THEN [at |-> n, left |-> node[n].value <= v]
                                               ELSE h[Side(n, v)]]
           F == CHOOSE h : Places(h)
<1>1. \A n : PlaceFrom(n, v) = F[n]
  BY DEF PlaceFrom, Side
<1>2. Nodes \in SUBSET (0 .. MaxNodes)
  BY NodeFacts
<1>3. \A n \in Nodes \ stop : next[n] \in Nodes /\ n < next[n]
  <2> TAKE n \in Nodes \ stop
  <2>1. Side(n, v) \in {node[n].left, node[n].right} /\ Side(n, v) # NULL /\ next[n] = Side(n, v)
    BY DEF Side
  <2> HIDE DEF stop, next
  <2>2. n \in Nodes /\ Linked(node)
    BY InvFacts DEF stop
  <2> QED BY <2>1, <2>2, LinkFacts
<1>4. PICK h : h = [n \in Nodes |-> IF n \in stop THEN out[n] ELSE h[next[n]]]
  <2> HIDE DEF stop, out, next
  <2>1. \E h : Walks(h, Nodes, stop, out, next)
    BY <1>2, <1>3, WalkExists
  <2> QED BY <2>1 DEF Walks
<1>5. \A n \in Nodes : h[n] = IF Side(n, v) = NULL THEN [at |-> n, left |-> node[n].value <= v]
                                                   ELSE h[Side(n, v)]
  <2> TAKE n \in Nodes
  <2>1. h[n] = IF n \in stop THEN out[n] ELSE h[next[n]]
    BY <1>4
  <2>2. /\ n \in stop <=> Side(n, v) = NULL
        /\ out[n] = [at |-> n, left |-> node[n].value <= v] /\ next[n] = Side(n, v)
    OBVIOUS
  <2> HIDE DEF stop, out, next
  <2> QED BY <2>1, <2>2
<1>6. h = [n \in Nodes |-> h[n]]
  <2> HIDE DEF stop, out, next
  <2> QED BY <1>4
<1>7. Places(F)
  <2>1. Places(h)
    BY <1>5, <1>6
  <2> QED BY <2>1
<1> HIDE DEF F
<1>8. \A n \in Nodes : F[n] = IF Side(n, v) = NULL THEN [at |-> n, left |-> node[n].value <= v]
                                                   ELSE F[Side(n, v)]
  BY <1>7
<1> QED
  BY <1>1, <1>8, ZenonT(30), SMTT(30)

\* Where insert ends: a free side, right for the value at every node above.
LEMMA PlaceRight ==
  ASSUME TreeInv, NEW v \in Values, NEW m \in SubOf(node, root_node),
         NEW p, p = PlaceFrom(m, v)
  PROVE  /\ p.at \in SubOf(node, m) /\ p.left = (node[p.at].value <= v)
         /\ Side(p.at, v) = NULL
         /\ \A n \in SubOf(node, m) :
              /\ p.at \in SubOf(node, node[n].left) => node[n].value <= v
              /\ p.at \in SubOf(node, node[n].right) => ~(node[n].value <= v)
<1> DEFINE Free(n, a) ==
             /\ a \in SubOf(node, n) /\ Side(a, v) = NULL
             /\ \A x \in SubOf(node, n) :
                  /\ a \in SubOf(node, node[x].left) => node[x].value <= v
                  /\ a \in SubOf(node, node[x].right) => ~(node[x].value <= v)
           Right(n) == \E a \in Nodes : /\ PlaceFrom(n, v) = [at |-> a, left |-> node[a].value <= v]
                                        /\ Free(n, a)
           Bad == {n \in Nodes : n \in SubOf(node, root_node) /\ ~Right(n)}
<1>1. Linked(node) /\ root_node \in Ptr /\ InOrder(node, root_node)
  BY InvFacts
<1>2. Bad = {}
  <2> SUFFICES ASSUME Bad # {} PROVE FALSE
    OBVIOUS
  <2>1. PICK n \in Bad : \A z \in Nodes : n < z => z \notin Bad
    BY LastNode, ZenonT(30), SMTT(30)
  <2>2. n \in Nodes /\ n \in SubOf(node, root_node) /\ ~Right(n)
    BY <2>1
  <2>3. SubOf(node, n) = {n} \cup SubOf(node, node[n].left) \cup SubOf(node, node[n].right)
    BY <1>1, <2>2, SubIs
  <2>4. PlaceFrom(n, v) = IF Side(n, v) = NULL THEN [at |-> n, left |-> node[n].value <= v]
                                               ELSE PlaceFrom(Side(n, v), v)
    BY <2>2, PlaceIs
  <2>5. Side(n, v) \in {node[n].left, node[n].right}
    BY DEF Side
  <2>6. CASE Side(n, v) = NULL
    \* n is on no side of a node of its own subtree.
    <3>1. ASSUME NEW x \in SubOf(node, n), NEW s \in {node[x].left, node[x].right}
          PROVE  n \notin SubOf(node, s)
      <4> SUFFICES ASSUME n \in SubOf(node, s) PROVE FALSE
        BY SMTT(30), ZenonT(30)
      <4>1. x \in Nodes /\ n <= x
        BY <1>1, <2>2, SubLater
      <4>2. s # NULL
        BY <1>1, SubIs, SMTT(30), ZenonT(30)
      <4>3. s \in Nodes /\ x < s
        BY <1>1, <4>1, <4>2, LinkFacts, SMTT(30), ZenonT(30)
      <4>4. s <= n
        BY <1>1, <4>3, SubLater, SMTT(30), ZenonT(30)
      <4> QED BY <2>2, <4>1, <4>3, <4>4, NodeFacts, SMTT(30), ZenonT(30)
    <3>2. n \in SubOf(node, n)
      BY <2>3, SMTT(30), ZenonT(30)
    <3>3. Free(n, n)
      BY <2>6, <3>1, <3>2, SMTT(30), ZenonT(30)
    <3>4. PlaceFrom(n, v) = [at |-> n, left |-> node[n].value <= v]
      BY <2>4, <2>6
    <3> HIDE DEF Free
    <3> QED BY <2>2, <3>3, <3>4
  <2>7. CASE Side(n, v) # NULL
    <3> DEFINE s == Side(n, v)
    <3>1. s \in Nodes /\ n < s /\ s \in SubOf(node, root_node)
      BY <1>1, <2>2, <2>5, <2>7, LinkFacts, SubClosed, SMTT(30), ZenonT(30)
    <3>2. Right(s)
      BY <2>1, <3>1, SMTT(30), ZenonT(30)
    <3>3. PICK a \in Nodes : /\ PlaceFrom(s, v) = [at |-> a, left |-> node[a].value <= v]
                             /\ Free(s, a)
      BY <3>2, SMTT(30), ZenonT(30)
    <3> HIDE DEF s
    <3>4. a \in SubOf(node, s) /\ Side(a, v) = NULL
      BY <3>3
    <3>5. a \in SubOf(node, n)
      BY <2>3, <2>5, <3>4, SMTT(30), ZenonT(30) DEF s
    <3>6. ASSUME NEW x \in SubOf(node, n)
          PROVE  /\ a \in SubOf(node, node[x].left) => node[x].value <= v
                 /\ a \in SubOf(node, node[x].right) => ~(node[x].value <= v)
      <4>1. CASE x \in SubOf(node, s)
        BY <3>3, <4>1, SMTT(30), ZenonT(30)
      <4>2. CASE x = n
        <5>1. CASE node[n].value <= v
          <6>1. a \in SubOf(node, node[n].left)
            BY <3>4, <5>1, SMTT(30), ZenonT(30) DEF s, Side
          <6>2. a \notin SubOf(node, node[n].right)
            BY <1>1, <2>2, <6>1, SidesDisjoint, SMTT(30), ZenonT(30)
          <6> QED BY <4>2, <5>1, <6>2, SMTT(30), ZenonT(30)
        <5>2. CASE ~(node[n].value <= v)
          <6>1. a \in SubOf(node, node[n].right)
            BY <3>4, <5>2, SMTT(30), ZenonT(30) DEF s, Side
          <6>2. a \notin SubOf(node, node[n].left)
            BY <1>1, <2>2, <6>1, SidesDisjoint, SMTT(30), ZenonT(30)
          <6> QED BY <4>2, <5>2, <6>2, SMTT(30), ZenonT(30)
        <5> QED BY <5>1, <5>2, SMTT(30), ZenonT(30)
      <4>3. CASE x # n /\ x \notin SubOf(node, s)
        <5>1. PICK t \in {node[n].left, node[n].right} : t # s /\ x \in SubOf(node, t)
          BY <2>3, <4>3, SMTT(30), ZenonT(30)
        <5>2. t \in Ptr
          BY <1>1, <2>2, LinkFacts, SMTT(30), ZenonT(30)
        <5>3. SubOf(node, node[x].left) \subseteq SubOf(node, t)
              /\ SubOf(node, node[x].right) \subseteq SubOf(node, t)
          BY <1>1, <5>1, <5>2, SubClosed, SMTT(30), ZenonT(30)
        <5>4. a \notin SubOf(node, t)
          <6> SUFFICES ASSUME a \in SubOf(node, t) PROVE FALSE
            OBVIOUS
          <6>1. s \in {node[n].left, node[n].right}
            BY <2>5, SMTT(30), ZenonT(30) DEF s
          <6>2. a \in SubOf(node, node[n].left) /\ a \in SubOf(node, node[n].right)
            BY <3>4, <5>1, <6>1, SMTT(30), ZenonT(30)
          <6> QED BY <1>1, <2>2, <6>2, SidesDisjoint, SMTT(30), ZenonT(30)
        <5> QED BY <5>3, <5>4, SMTT(30), ZenonT(30)
      <4> QED BY <4>1, <4>2, <4>3, SMTT(30), ZenonT(30)
    <3>7. Free(n, a)
      BY <3>4, <3>5, <3>6, SMTT(30), ZenonT(30)
    <3>8. PlaceFrom(n, v) = [at |-> a, left |-> node[a].value <= v]
      BY <2>4, <2>7, <3>3 DEF s
    <3> HIDE DEF Free
    <3> QED BY <2>2, <3>7, <3>8, SMTT(30), ZenonT(30)
  <2> QED BY <2>6, <2>7
<1>3. m \in Nodes
  BY <1>1, SubWithin
<1>4. PICK a \in Nodes : /\ PlaceFrom(m, v) = [at |-> a, left |-> node[a].value <= v]
                         /\ Free(m, a)
  BY <1>2, <1>3
<1> HIDE DEF Free
<1>5. p.at = a /\ p.left = (node[a].value <= v)
  BY <1>4
<1>6. Free(m, p.at)
  BY <1>4, <1>5
<1> QED
  BY <1>5, <1>6 DEF Free

LEMMA LeftmostIs ==
  ASSUME TreeInv
  PROVE  \A n \in Nodes :
           Leftmost(n) = IF node[n].left = NULL THEN n ELSE Leftmost(node[n].left)
<1> DEFINE stop == {n \in Nodes : node[n].left = NULL}
           out == [n \in Nodes |-> n]
           next == [n \in Nodes |-> node[n].left]
           Goes(h) == h = [n \in Nodes |-> IF node[n].left = NULL THEN n ELSE h[node[n].left]]
           F == CHOOSE h : Goes(h)
<1>1. \A n : Leftmost(n) = F[n]
  BY DEF Leftmost
<1>2. Nodes \in SUBSET (0 .. MaxNodes)
  BY NodeFacts
<1>3. \A n \in Nodes \ stop : next[n] \in Nodes /\ n < next[n]
  BY InvFacts, LinkFacts
<1>4. PICK h : h = [n \in Nodes |-> IF n \in stop THEN out[n] ELSE h[next[n]]]
  <2> HIDE DEF stop, out, next
  <2>1. \E h : Walks(h, Nodes, stop, out, next)
    BY <1>2, <1>3, WalkExists
  <2> QED BY <2>1 DEF Walks
<1>5. \A n \in Nodes : h[n] = IF node[n].left = NULL THEN n ELSE h[node[n].left]
  <2> TAKE n \in Nodes
  <2>1. h[n] = IF n \in stop THEN out[n] ELSE h[next[n]]
    BY <1>4
  <2>2. (n \in stop <=> node[n].left = NULL) /\ out[n] = n /\ next[n] = node[n].left
    OBVIOUS
  <2> HIDE DEF stop, out, next
  <2> QED BY <2>1, <2>2
<1>6. h = [n \in Nodes |-> h[n]]
  <2> HIDE DEF stop, out, next
  <2> QED BY <1>4, SMTT(30), ZenonT(30)
<1>7. Goes(F)
  <2>1. Goes(h)
    BY <1>5, <1>6
  <2> QED BY <2>1, ZenonT(30), SMTT(30)
<1> HIDE DEF F
<1>8. \A n \in Nodes : F[n] = IF node[n].left = NULL THEN n ELSE F[node[n].left]
  BY <1>7
<1> QED
  BY <1>1, <1>8

LEMMA LeftmostIn ==
  ASSUME TreeInv, NEW m \in Nodes
  PROVE  Leftmost(m) \in SubOf(node, m)
<1> DEFINE Bad == {n \in Nodes : Leftmost(n) \notin SubOf(node, n)}
<1>1. Linked(node)
  BY InvFacts
<1>2. Bad = {}
  <2> SUFFICES ASSUME Bad # {} PROVE FALSE
    OBVIOUS
  <2>1. PICK n \in Bad : \A z \in Nodes : n < z => z \notin Bad
    BY LastNode, ZenonT(30), SMTT(30)
  <2>2. SubOf(node, n) = {n} \cup SubOf(node, node[n].left) \cup SubOf(node, node[n].right)
    BY <1>1, SubIs
  <2>3. Leftmost(n) = IF node[n].left = NULL THEN n ELSE Leftmost(node[n].left)
    BY LeftmostIs
  <2>4. node[n].left # NULL => node[n].left \in Nodes /\ n < node[n].left
    BY <1>1, LinkFacts
  <2>5. node[n].left # NULL => Leftmost(node[n].left) \in SubOf(node, node[n].left)
    BY <2>1, <2>4
  <2> QED BY <2>1, <2>2, <2>3, <2>5
<1> QED
  BY <1>2

-----------------------------------------------------------------------------
LEMMA InitTreeInv == TreeInit => TreeInv
<1> SUFFICES ASSUME TreeInit PROVE TreeInv
  OBVIOUS
<1> DEFINE any == CHOOSE v \in Values : TRUE
           blank == [left |-> NULL, right |-> NULL, parent |-> NULL, is_left |-> FALSE,
                     is_right |-> FALSE, value |-> any]
<1>1. root_node = NULL /\ inserted = 0 /\ node = [n \in Nodes |-> blank]
  BY DEF TreeInit
<1>2. any \in Values
  BY TreeAssumption
<1> HIDE DEF any
<1>3. blank \in NodeFields
  BY <1>2, NodeFacts DEF NodeFields
<1>4. \A n \in Nodes : /\ node[n].left = NULL /\ node[n].right = NULL
                       /\ node[n].is_left = FALSE /\ node[n].is_right = FALSE
  BY <1>1
<1>5. node \in [Nodes -> NodeFields]
  BY <1>1, <1>3
<1> HIDE DEF blank
<1>6. Linked(node)
  BY <1>4, NodeFacts DEF Linked
<1>7. InTree = {}
  BY <1>1, <1>6, SubIs, TreeIs
<1>8. Ordered
  BY <1>7 DEF Ordered
<1>9. \A n \in Nodes :
        /\ {node[n].left, node[n].right} \subseteq {NULL} \cup n + 1 .. inserted
        /\ node[n].is_left \/ node[n].is_right =>
             node[n].parent \in 1 .. n - 1 /\ n \in 1 .. inserted /\ n # root_node
  BY <1>4
<1>10. root_node \in Ptr /\ inserted \in 0 .. MaxNodes /\ root_node <= inserted
  BY <1>1, NodeFacts, TreeAssumption DEF NULL
<1> QED
  BY <1>1, <1>5, <1>7, <1>8, <1>9, <1>10 DEF TreeInv

LEMMA FindsStoredFromInv == TreeInv => FindsStored
<1> SUFFICES ASSUME TreeInv PROVE FindsStored
  OBVIOUS
<1>1. Ordered
  BY DEF TreeInv
<1>2. ASSUME NEW v \in Values PROVE binary_tree_find(v) # NULL <=> v \in ValuesOf(InTree)
  <2>1. Linked(node) /\ root_node \in Ptr /\ InTree = SubOf(node, root_node)
    BY InvFacts, TreeIs
  <2>2. root_node = NULL \/ root_node \in SubOf(node, root_node)
    BY <2>1, NodeFacts, SubLater
  <2>3. /\ NodeFind(root_node, v) # NULL =>
             /\ NodeFind(root_node, v) \in SubOf(node, root_node)
             /\ node[NodeFind(root_node, v)].value = v
        /\ NodeFind(root_node, v) = NULL => \A x \in SubOf(node, root_node) : node[x].value # v
    BY <2>1, <2>2, FindRight
  <2> QED BY <2>1, <2>3 DEF binary_tree_find, ValuesOf
<1> QED
  BY <1>1, <1>2 DEF FindsStored, FindComplete

\* The parts of the invariant behind a step.
LEMMA InvNext ==
  ASSUME root_node' \in Ptr, inserted' \in 0 .. MaxNodes, root_node' <= inserted',
         root_node' = NULL => inserted' = 0,
         node' \in [Nodes -> NodeFields],
         \A n \in Nodes :
           /\ {node'[n].left, node'[n].right} \subseteq {NULL} \cup n + 1 .. inserted'
           /\ node'[n].is_left \/ node'[n].is_right =>
                node'[n].parent \in 1 .. n - 1 /\ n \in 1 .. inserted' /\ n # root_node',
         \A n \in SubOf(node', root_node') :
           /\ node'[n].is_left => \/ node'[n].parent \notin SubOf(node', root_node')
                                  \/ node'[node'[n].parent].left = n
           /\ node'[n].is_right => \/ node'[n].parent \notin SubOf(node', root_node')
                                   \/ node'[node'[n].parent].right = n,
         Ord(node', root_node')
  PROVE  TreeInv'
<1>1. InTree' = SubOf(node', root_node') /\ Ordered'
  BY TreeIs
<1> QED
  BY <1>1 DEF TreeInv

\* Links to earlier and to later nodes.
LEMMA NextLinked ==
  ASSUME NEW g, NEW k, g \in [Nodes -> NodeFields],
         \A n \in Nodes : {g[n].left, g[n].right} \subseteq {NULL} \cup n + 1 .. k
  PROVE  Linked(g)
<1> SUFFICES ASSUME NEW n \in Nodes, NEW m \in {g[n].left, g[n].right}
             PROVE  m \in Ptr /\ (m # NULL => n < m)
  BY DEF Linked
<1>1. m \in {NULL} \cup n + 1 .. k
  OBVIOUS
<1>2. m \in Ptr
  <2>1. g[n] \in NodeFields
    OBVIOUS
  <2> QED BY <2>1 DEF NodeFields
<1>3. n \in Int
  BY NodeFacts
<1> QED
  BY <1>1, <1>2, <1>3

\* The first node is the tree.
LEMMA InsertFirst ==
  ASSUME TreeInv, NEW v \in Values, binary_tree_insert(v), root_node = NULL
  PROVE  TreeInv' /\ InTree' = InTree \cup {inserted'}
<1> DEFINE new == inserted + 1
<1>1. /\ inserted < MaxNodes /\ inserted' = new /\ root_node' = new
      /\ node' = [node EXCEPT ![new].value = v]
  BY DEF binary_tree_insert
<1>2. inserted = 0 /\ new = 1 /\ new \in Nodes /\ MaxNodes \in Nat
  BY <1>1, TreeAssumption DEF TreeInv, Nodes
<1>3. node \in [Nodes -> NodeFields]
  BY DEF TreeInv
<1>4. \A n \in Nodes : node[n].left = NULL /\ node[n].right = NULL
  <2>1. \A n \in Nodes : {node[n].left, node[n].right} \subseteq {NULL} \cup n + 1 .. inserted
    BY DEF TreeInv
  <2>2. \A n \in Nodes : n + 1 .. inserted = {}
    BY <1>2, NodeFacts DEF Nodes
  <2> QED BY <2>1, <2>2
<1>5. \A n \in Nodes : ~(node[n].is_left \/ node[n].is_right)
  <2>1. \A n \in Nodes : n \notin 1 .. inserted
    BY <1>2
  <2> QED BY <2>1 DEF TreeInv
<1> HIDE DEF new
<1>6. node' \in [Nodes -> NodeFields]
  BY <1>1, <1>2, <1>3 DEF NodeFields
<1>7. \A n \in Nodes : /\ node'[n].left = NULL /\ node'[n].right = NULL
                       /\ ~(node'[n].is_left \/ node'[n].is_right)
  <2> TAKE n \in Nodes
  <2>1. /\ node'[n].left = node[n].left /\ node'[n].right = node[n].right
        /\ node'[n].is_left = node[n].is_left /\ node'[n].is_right = node[n].is_right
    <3>1. node[n] \in NodeFields
      BY <1>3
    <3> QED BY <1>1, <1>2, <1>3, <3>1 DEF NodeFields
  <2> QED BY <1>4, <1>5, <2>1
<1>8. \A n \in Nodes : {node'[n].left, node'[n].right} \subseteq {NULL} \cup n + 1 .. inserted'
  BY <1>7
<1>9. Linked(node')
  BY <1>6, <1>8, NextLinked, ZenonT(30), SMTT(30)
<1>10. SubOf(node', new) = {new}
  BY <1>2, <1>7, <1>9, SubIs
<1>11. Ord(node', root_node')
  <2>1. SubOf(node', NULL) = {}
    BY <1>9, SubIs
  <2> QED BY <1>1, <1>2, <1>7, <1>10, <2>1, ZenonT(30), SMTT(30) DEF Ord
<1>12. InTree = {} /\ InTree' = {new}
  BY <1>1, <1>10, InvFacts, SubIs, TreeIs, ZenonT(30), SMTT(30)
<1>13. root_node' \in Ptr /\ inserted' \in 0 .. MaxNodes /\ root_node' <= inserted' /\ root_node' # NULL
  BY <1>1, <1>2, NodeFacts
<1>14. TreeInv'
  BY <1>1, <1>2, <1>6, <1>7, <1>8, <1>10, <1>11, <1>13, InvNext, ZenonT(30), SMTT(30)
<1> QED
  BY <1>1, <1>12, <1>14

\* The new node hangs below a: it is added to the subtrees that a is in.
LEMMA SubGrows ==
  ASSUME NEW f, NEW g, Linked(f), Linked(g), NEW a \in Nodes, NEW new \in Nodes, a # new,
         NEW s \in {f[a].left, f[a].right}, s = NULL,
         \A n \in Nodes : f[n].left # new /\ f[n].right # new,
         \A n \in Nodes \ {a} : g[n].left = f[n].left /\ g[n].right = f[n].right,
         f[new].left = NULL, f[new].right = NULL,
         \/ f[a].left = NULL /\ g[a].left = new /\ g[a].right = f[a].right
         \/ f[a].right = NULL /\ g[a].right = new /\ g[a].left = f[a].left
  PROVE  /\ SubOf(g, new) = {new}
         /\ \A m \in Ptr \ {new} :
              SubOf(g, m) = SubOf(f, m) \cup (IF a \in SubOf(f, m) THEN {new} ELSE {})
<1>1. SubOf(f, NULL) = {} /\ SubOf(g, NULL) = {}
  BY SubIs
<1>2. SubOf(g, new) = {new}
  <2>1. g[new].left = NULL /\ g[new].right = NULL
    OBVIOUS
  <2> QED BY <1>1, <2>1, SubIs
<1> DEFINE More(m) == SubOf(f, m) \cup (IF a \in SubOf(f, m) THEN {new} ELSE {})
           Bad == {m \in Nodes : m # new /\ SubOf(g, m) # More(m)}
<1>3. SubOf(g, NULL) = More(NULL)
  BY <1>1
<1>4. Bad = {}
  <2> SUFFICES ASSUME Bad # {} PROVE FALSE
    OBVIOUS
  <2>1. PICK m \in Bad : \A z \in Nodes : m < z => z \notin Bad
    BY LastNode, ZenonT(30), SMTT(30)
  <2>2. m \in Nodes /\ m # new /\ SubOf(g, m) # More(m)
    BY <2>1
  <2>3. SubOf(f, m) = {m} \cup SubOf(f, f[m].left) \cup SubOf(f, f[m].right)
    BY <2>2, SubIs
  <2>4. SubOf(g, m) = {m} \cup SubOf(g, g[m].left) \cup SubOf(g, g[m].right)
    BY <2>2, SubIs
  <2>5. \A p \in {f[m].left, f[m].right} : SubOf(g, p) = More(p)
    <3> TAKE p \in {f[m].left, f[m].right}
    <3>1. p # NULL => p \in Nodes /\ m < p /\ p # new
      BY <2>2, LinkFacts, SMTT(30), ZenonT(30)
    <3>2. p # NULL => p \notin Bad
      BY <2>1, <3>1, SMTT(30), ZenonT(30)
    <3> QED BY <1>3, <3>1, <3>2
  <2>6. CASE m # a
    <3>1. g[m].left = f[m].left /\ g[m].right = f[m].right
      BY <2>2, <2>6, SMTT(30), ZenonT(30)
    <3>2. SubOf(g, m) = {m} \cup More(f[m].left) \cup More(f[m].right)
      BY <2>4, <2>5, <3>1, SMTT(30), ZenonT(30)
    <3>3. {m} \cup More(f[m].left) \cup More(f[m].right) = More(m)
      BY <2>3, <2>6
    <3> QED BY <2>2, <3>2, <3>3
  <2>7. CASE m = a
    <3>1. a \in SubOf(f, m)
      BY <2>3, <2>7, SMTT(30), ZenonT(30)
    <3>2. PICK t \in {f[m].left, f[m].right} :
            /\ SubOf(g, m) = {m} \cup {new} \cup SubOf(g, t)
            /\ SubOf(f, m) = {m} \cup SubOf(f, t)
      <4>1. CASE f[a].left = NULL /\ g[a].left = new /\ g[a].right = f[a].right
        BY <1>1, <1>2, <2>3, <2>4, <2>7, <4>1, SMTT(30), ZenonT(30)
      <4>2. CASE f[a].right = NULL /\ g[a].right = new /\ g[a].left = f[a].left
        BY <1>1, <1>2, <2>3, <2>4, <2>7, <4>2, SMTT(30), ZenonT(30)
      <4> QED BY <4>1, <4>2, SMTT(30), ZenonT(30)
    <3>3. SubOf(g, t) = More(t)
      BY <2>5, <3>2, SMTT(30), ZenonT(30)
    <3>4. SubOf(g, m) = More(m)
      BY <3>1, <3>2, <3>3, SMTT(30), ZenonT(30)
    <3> QED BY <2>2, <3>4
  <2> QED BY <2>6, <2>7
<1>5. \A m \in Ptr \ {new} : m = NULL \/ m \in Nodes
  BY NodeFacts, SMTT(30), ZenonT(30)
<1> QED
  BY <1>2, <1>3, <1>4, <1>5

\* What linking the new node changes.
LEMMA AttachIs ==
  ASSUME node \in [Nodes -> NodeFields], NEW v \in Values, NEW new \in Nodes, NEW a \in Nodes,
         a # new, NEW p, p.at = a, NEW left \in BOOLEAN, p.left = left,
         NEW g, g = Attach(new, v, p)
  PROVE  /\ g \in [Nodes -> NodeFields]
         /\ \A n \in Nodes \ {new, a} : g[n] = node[n]
         /\ g[new].left = node[new].left /\ g[new].right = node[new].right
         /\ g[new].value = v /\ g[new].parent = a
         /\ g[new].is_left = left /\ g[new].is_right = ~left
         /\ g[a].left = (IF left THEN new ELSE node[a].left)
         /\ g[a].right = (IF left THEN node[a].right ELSE new)
         /\ g[a].value = node[a].value /\ g[a].parent = node[a].parent
         /\ g[a].is_left = node[a].is_left /\ g[a].is_right = node[a].is_right
<1> DEFINE x == [node[new] EXCEPT !.value = v, !.parent = a, !.is_left = left, !.is_right = ~left]
           y == [node[a] EXCEPT !.left = IF left THEN new ELSE @, !.right = IF left THEN @ ELSE new]
<1>1. node[new] \in NodeFields /\ node[a] \in NodeFields /\ new \in Ptr /\ a \in Ptr
  BY NodeFacts
<1>2. /\ x \in NodeFields /\ x.left = node[new].left /\ x.right = node[new].right
      /\ x.value = v /\ x.parent = a /\ x.is_left = left /\ x.is_right = ~left
  BY <1>1, ZenonT(30), SMTT(30) DEF NodeFields
<1>3. /\ y \in NodeFields
      /\ y.left = (IF left THEN new ELSE node[a].left)
      /\ y.right = (IF left THEN node[a].right ELSE new)
      /\ y.value = node[a].value /\ y.parent = node[a].parent
      /\ y.is_left = node[a].is_left /\ y.is_right = node[a].is_right
  BY <1>1, ZenonT(30), SMTT(30) DEF NodeFields
<1>4. g = [node EXCEPT ![new] = x, ![a] = y]
  BY ZenonT(30), SMTT(30) DEF Attach
<1> HIDE DEF x, y
<1>5. /\ g[new] = x /\ g[a] = y /\ \A n \in Nodes \ {new, a} : g[n] = node[n]
      /\ g \in [Nodes -> NodeFields]
  BY <1>2, <1>3, <1>4
<1> QED
  BY <1>2, <1>3, <1>5

LEMMA InsertBelow ==
  ASSUME TreeInv, NEW v \in Values, binary_tree_insert(v), root_node # NULL
  PROVE  TreeInv' /\ InTree' = InTree \cup {inserted'}
<1>1. PICK new, p : new = inserted + 1 /\ p = PlaceFrom(root_node, v)
  OBVIOUS
<1>2. InsertPlace(v) = p
  BY <1>1 DEF InsertPlace, PlaceFrom
<1>3. /\ inserted < MaxNodes /\ inserted' = new /\ root_node' = root_node
      /\ node' = Attach(new, v, p)
  BY <1>1, <1>2 DEF binary_tree_insert
<1>4. /\ node \in [Nodes -> NodeFields] /\ inserted \in 0 .. MaxNodes /\ root_node \in Ptr
      /\ Linked(node) /\ InOrder(node, root_node) /\ v \in Int
  BY InvFacts, TreeAssumption DEF TreeInv
<1>5. root_node \in Nodes /\ root_node \in SubOf(node, root_node)
  BY <1>4, NodeFacts, SubLater
<1>6. PICK a, left : a = p.at /\ left = p.left
  BY SMTT(30), ZenonT(30)
<1>7. /\ a \in SubOf(node, root_node) /\ left = (node[a].value <= v) /\ Side(a, v) = NULL
      /\ \A n \in SubOf(node, root_node) :
           /\ a \in SubOf(node, node[n].left) => node[n].value <= v
           /\ a \in SubOf(node, node[n].right) => ~(node[n].value <= v)
  BY <1>1, <1>5, <1>6, PlaceRight
\* The new node is behind all links.
<1>8. \A n \in Nodes : {node[n].left, node[n].right} \subseteq {NULL} \cup n + 1 .. inserted
  BY DEF TreeInv
<1>9. new \in Nodes /\ new \in Int /\ new > inserted /\ new \in 0 .. MaxNodes
  BY <1>1, <1>3, <1>4, TreeAssumption DEF Nodes
<1>10. \A n \in SubOf(node, root_node) : n \in Nodes /\ n <= inserted
  <2> DEFINE C == {n \in Nodes : n <= inserted}
  <2>1. root_node \in C
    BY <1>5 DEF TreeInv
  <2>2. \A n \in C : /\ n \in Nodes
                     /\ node[n].left # NULL => node[n].left \in C
                     /\ node[n].right # NULL => node[n].right \in C
    <3> TAKE n \in C
    <3>1. {node[n].left, node[n].right} \subseteq {NULL} \cup n + 1 .. inserted
      BY <1>8
    <3>2. /\ node[n].left # NULL => node[n].left \in Nodes
          /\ node[n].right # NULL => node[n].right \in Nodes
      BY <1>4, LinkFacts
    <3>3. n \in Int /\ inserted \in Int
      BY <1>4, NodeFacts
    <3> QED BY <3>1, <3>2, <3>3
  <2> HIDE DEF C
  <2>3. SubOf(node, root_node) \subseteq C
    BY <1>4, <2>1, <2>2, SubLeast
  <2> QED BY <2>3 DEF C
<1>11. a \in Nodes /\ a # new /\ a < new /\ a \in Int /\ new \notin SubOf(node, root_node)
  <2>1. \A n \in SubOf(node, root_node) : n \in Nodes /\ n \in Int /\ n <= inserted
    BY <1>10, NodeFacts, ZenonT(30), SMTT(30)
  <2>2. a \in SubOf(node, root_node) /\ inserted \in Int
    BY <1>4, <1>7
  <2>3. \A n \in SubOf(node, root_node) : n < new
    BY <1>9, <2>1, <2>2
  <2> QED BY <1>9, <2>1, <2>2, <2>3
<1>12. left \in BOOLEAN
  BY <1>7
<1>13. /\ node' \in [Nodes -> NodeFields]
       /\ \A n \in Nodes \ {new, a} : node'[n] = node[n]
       /\ node'[new].left = node[new].left /\ node'[new].right = node[new].right
       /\ node'[new].value = v /\ node'[new].parent = a
       /\ node'[new].is_left = left /\ node'[new].is_right = ~left
       /\ node'[a].left = (IF left THEN new ELSE node[a].left)
       /\ node'[a].right = (IF left THEN node[a].right ELSE new)
       /\ node'[a].value = node[a].value /\ node'[a].parent = node[a].parent
       /\ node'[a].is_left = node[a].is_left /\ node'[a].is_right = node[a].is_right
  <2>1. p.at = a /\ p.left = left
    BY <1>6, SMTT(30), ZenonT(30)
  <2> QED BY <1>3, <1>4, <1>9, <1>11, <1>12, <2>1, AttachIs
<1>14. /\ node[new].left = NULL /\ node[new].right = NULL
       /\ \A n \in Nodes : node[n].left # new /\ node[n].right # new
  <2>1. new + 1 .. inserted = {} /\ new # NULL
    BY <1>4, <1>9, NodeFacts
  <2>2. \A n \in Nodes : new \notin {NULL} \cup n + 1 .. inserted
    BY <1>4, <1>9, <2>1
  <2> QED BY <1>8, <1>9, <2>1, <2>2
<1>15. /\ left => node[a].left = NULL
       /\ ~left => node[a].right = NULL
  BY <1>7, ZenonT(30), SMTT(30) DEF Side
<1>16. \A n \in Nodes : {node'[n].left, node'[n].right} \subseteq {NULL} \cup n + 1 .. inserted'
  <2> TAKE n \in Nodes
  <2>1. {node[n].left, node[n].right} \subseteq {NULL} \cup n + 1 .. inserted
    BY <1>8
  <2>2. n + 1 .. inserted \subseteq n + 1 .. inserted'
    BY <1>1, <1>3, <1>4, NodeFacts
  <2>3. CASE n = a
    <3>1. new \in n + 1 .. inserted'
      BY <1>3, <1>9, <1>11, <2>3, SMTT(30), ZenonT(30)
    <3> QED BY <1>13, <2>1, <2>2, <2>3, <3>1
  <2>4. CASE n = new
    BY <1>13, <2>1, <2>2, <2>4, SMTT(30), ZenonT(30)
  <2>5. CASE n # a /\ n # new
    BY <1>13, <2>1, <2>2, <2>5, SMTT(30), ZenonT(30)
  <2> QED BY <2>3, <2>4, <2>5
<1>17. Linked(node')
  BY <1>13, <1>16, NextLinked, SMTT(30), ZenonT(30)
<1>18. /\ SubOf(node', new) = {new}
       /\ \A m \in Ptr \ {new} :
            SubOf(node', m) = SubOf(node, m) \cup (IF a \in SubOf(node, m) THEN {new} ELSE {})
  <2>1. \E s \in {node[a].left, node[a].right} : s = NULL
    BY <1>15, SMTT(30), ZenonT(30)
  <2>2. \A n \in Nodes \ {a} : node'[n].left = node[n].left /\ node'[n].right = node[n].right
    BY <1>13
  <2>3. \/ node[a].left = NULL /\ node'[a].left = new /\ node'[a].right = node[a].right
        \/ node[a].right = NULL /\ node'[a].right = new /\ node'[a].left = node[a].left
    BY <1>13, <1>15, SMTT(30), ZenonT(30)
  <2> QED BY <1>4, <1>9, <1>11, <1>14, <1>17, <2>1, <2>2, <2>3, SubGrows, SMTT(30), ZenonT(30)
<1>19. SubOf(node', root_node') = SubOf(node, root_node) \cup {new}
  <2>1. root_node # new
    BY <1>5, <1>11
  <2> QED BY <1>3, <1>4, <1>7, <1>18, <2>1
<1>20. Ord(node', root_node')
  <2> SUFFICES ASSUME NEW n \in SubOf(node', root_node')
               PROVE  /\ \A m \in SubOf(node', node'[n].left) : node'[m].value >= node'[n].value
                      /\ \A m \in SubOf(node', node'[n].right) : node'[m].value < node'[n].value
    BY DEF Ord
  <2>1. \A m \in Nodes \ {new} : node'[m].value = node[m].value
    BY <1>13
  <2>2. CASE n = new
    <3>1. node'[n].left = NULL /\ node'[n].right = NULL
      BY <1>13, <1>14, <2>2
    <3> QED BY <1>17, <3>1, SubIs, SMTT(30), ZenonT(30)
  <2>3. CASE n # new
    <3>1. n \in SubOf(node, root_node) /\ n \in Nodes /\ node'[n].value = node[n].value
      BY <1>10, <1>19, <2>1, <2>3, SMTT(30), ZenonT(30)
    <3>2. /\ node[n].value \in Int /\ node[n].left \in Ptr \ {new} /\ node[n].right \in Ptr \ {new}
      BY <1>4, <1>14, <3>1, InvFacts, LinkFacts, SMTT(30), ZenonT(30)
    <3>3. /\ \A m \in SubOf(node, node[n].left) : node[m].value >= node[n].value
          /\ \A m \in SubOf(node, node[n].right) : node[m].value < node[n].value
      BY <1>4, <3>1 DEF InOrder, Ord
    <3>4. /\ \A m \in SubOf(node, node[n].left) : m \in Nodes \ {new}
          /\ \A m \in SubOf(node, node[n].right) : m \in Nodes \ {new}
      BY <1>4, <1>10, <1>11, <3>1, SubClosed
    <3>5. ASSUME NEW m \in SubOf(node', node'[n].left) PROVE node'[m].value >= node'[n].value
      <4>1. CASE m \in SubOf(node, node[n].left)
        BY <2>1, <3>1, <3>3, <3>4, <4>1, SMTT(30), ZenonT(30)
      <4>2. CASE m \notin SubOf(node, node[n].left)
        <5>1. m = new /\ node[n].value <= v
          <6>1. CASE node'[n].left = node[n].left
            BY <1>7, <1>18, <3>1, <3>2, <4>2, <6>1, SMTT(30), ZenonT(30)
          <6>2. CASE node'[n].left # node[n].left
            <7>1. n = a /\ left /\ node'[n].left = new
              BY <1>13, <2>3, <3>1, <6>2
            <7> QED BY <1>7, <1>18, <7>1, ZenonT(30), SMTT(30)
          <6> QED BY <6>1, <6>2
        <5>2. node'[m].value = v
          BY <1>13, <5>1
        <5> QED BY <1>4, <3>1, <3>2, <5>1, <5>2, SMTT(30), ZenonT(30)
      <4> QED BY <4>1, <4>2
    <3>6. ASSUME NEW m \in SubOf(node', node'[n].right) PROVE node'[m].value < node'[n].value
      <4>1. CASE m \in SubOf(node, node[n].right)
        BY <2>1, <3>1, <3>3, <3>4, <4>1, SMTT(30), ZenonT(30)
      <4>2. CASE m \notin SubOf(node, node[n].right)
        <5>1. m = new /\ ~(node[n].value <= v)
          <6>1. CASE node'[n].right = node[n].right
            BY <1>7, <1>18, <3>1, <3>2, <4>2, <6>1, SMTT(30), ZenonT(30)
          <6>2. CASE node'[n].right # node[n].right
            <7>1. n = a /\ ~left /\ node'[n].right = new
              BY <1>13, <2>3, <3>1, <6>2
            <7> QED BY <1>7, <1>18, <7>1, ZenonT(30), SMTT(30)
          <6> QED BY <6>1, <6>2
        <5>2. node'[m].value = v
          BY <1>13, <5>1
        <5> QED BY <1>4, <3>1, <3>2, <5>1, <5>2
      <4> QED BY <4>1, <4>2
    <3> QED BY <3>5, <3>6
  <2> QED BY <2>2, <2>3
\* The flags and parents.
<1>21. \A n \in Nodes \ {new} : /\ node'[n].is_left = node[n].is_left
                                /\ node'[n].is_right = node[n].is_right
                                /\ node'[n].parent = node[n].parent
  BY <1>13
<1>22. \A n \in Nodes :
         node'[n].is_left \/ node'[n].is_right =>
           node'[n].parent \in 1 .. n - 1 /\ n \in 1 .. inserted' /\ n # root_node'
  <2> TAKE n \in Nodes
  <2>1. CASE n = new
    <3>1. a \in 1 .. new - 1 /\ new \in 1 .. new
      BY <1>9, <1>11 DEF Nodes
    <3>2. new # root_node
      BY <1>5, <1>11, SMTT(30), ZenonT(30)
    <3> QED BY <1>3, <1>13, <2>1, <3>1, <3>2
  <2>2. CASE n # new
    <3>1. node[n].is_left \/ node[n].is_right =>
            node[n].parent \in 1 .. n - 1 /\ n \in 1 .. inserted /\ n # root_node
      BY DEF TreeInv
    <3>2. n \in 1 .. inserted => n \in 1 .. inserted'
      BY <1>1, <1>3, <1>4, SMTT(30), ZenonT(30)
    <3> QED BY <1>3, <1>21, <2>2, <3>1, <3>2
  <2> QED BY <2>1, <2>2
<1>23. ASSUME NEW n \in SubOf(node', root_node')
       PROVE  /\ node'[n].is_left => \/ node'[n].parent \notin SubOf(node', root_node')
                                     \/ node'[node'[n].parent].left = n
              /\ node'[n].is_right => \/ node'[n].parent \notin SubOf(node', root_node')
                                      \/ node'[node'[n].parent].right = n
  <2>1. CASE n = new
    BY <1>12, <1>13, <2>1, ZenonT(30), SMTT(30)
  <2>2. CASE n # new
    <3>1. n \in SubOf(node, root_node) /\ n \in Nodes /\ n # NULL
      BY <1>10, <1>19, <2>2, NodeFacts
    <3> DEFINE q == node[n].parent
    <3>2. /\ node[n].is_left => q \notin SubOf(node, root_node) \/ node[q].left = n
          /\ node[n].is_right => q \notin SubOf(node, root_node) \/ node[q].right = n
      BY <3>1, TreeIs DEF TreeInv
    <3>3. node[n].is_left \/ node[n].is_right => q # new
      <4>1. node[n].is_left \/ node[n].is_right => q \in 1 .. n - 1
        BY <3>1 DEF TreeInv
      <4>2. n <= inserted /\ n \in Int
        BY <1>10, <3>1, NodeFacts
      <4> HIDE DEF q
      <4> QED BY <1>4, <1>9, <4>1, <4>2
    <3>4. /\ node'[n].is_left = node[n].is_left /\ node'[n].is_right = node[n].is_right
          /\ node'[n].parent = q
      BY <1>21, <2>2, <3>1, SMTT(30), ZenonT(30)
    <3> HIDE DEF q
    \* The side of a that was free had no child.
    <3>5. /\ q \in SubOf(node, root_node) /\ node[q].left = n => node'[q].left = n
          /\ q \in SubOf(node, root_node) /\ node[q].right = n => node'[q].right = n
      <4>1. q \in SubOf(node, root_node) => q \in Nodes /\ q # new
        BY <1>10, <1>11
      <4> QED BY <1>13, <1>15, <3>1, <4>1
    <3>6. (node[n].is_left \/ node[n].is_right) /\ q \in SubOf(node', root_node')
             => q \in SubOf(node, root_node)
      BY <1>19, <3>3
    <3> QED BY <3>2, <3>4, <3>5, <3>6
  <2> QED BY <2>1, <2>2, SMTT(30), ZenonT(30)
<1>24. root_node' \in Ptr /\ inserted' \in 0 .. MaxNodes /\ root_node' <= inserted' /\ root_node' # NULL
  <2>1. root_node <= inserted /\ root_node \in Int /\ inserted \in Int
    BY <1>4, NodeFacts, SMTT(30), ZenonT(30) DEF TreeInv
  <2> QED BY <1>1, <1>3, <1>4, <1>9, <2>1
<1>25. TreeInv'
  BY <1>13, <1>16, <1>20, <1>22, <1>23, <1>24, InvNext, SMTT(30), ZenonT(30)
<1> QED
  BY <1>3, <1>19, <1>25, TreeIs

\* Cutting node n out: the link of its parent p to it leads to its child c.
CutOut(f, g, r, n, p, c) ==
  /\ r \in Nodes /\ InOrder(f, r) /\ Linked(g)
  /\ n \in SubOf(f, r) /\ n # r /\ p \in SubOf(f, r) /\ c \in {f[n].left, f[n].right}
  /\ \A y \in {f[n].left, f[n].right} : y = NULL \/ y = c
  /\ \A x \in Nodes \ {p} : g[x].left = f[x].left /\ g[x].right = f[x].right
  /\ \/ f[p].left = n /\ g[p].left = c /\ g[p].right = f[p].right
     \/ f[p].right = n /\ g[p].right = c /\ g[p].left = f[p].left

LEMMA SpliceLinks ==
  ASSUME NEW f, NEW g, NEW r, NEW n, NEW p, NEW c, CutOut(f, g, r, n, p, c)
  PROVE  /\ SubOf(g, r) \subseteq SubOf(f, r) /\ SubOf(f, r) \subseteq SubOf(g, r) \cup {n}
         /\ \A x \in SubOf(f, r) : /\ SubOf(g, g[x].left) \subseteq SubOf(f, f[x].left)
                                   /\ SubOf(g, g[x].right) \subseteq SubOf(f, f[x].right)
         /\ n \notin SubOf(g, r)
<1> SUFFICES
      ASSUME r \in Nodes, InOrder(f, r), Linked(g), n \in SubOf(f, r), n # r,
             p \in SubOf(f, r), c \in {f[n].left, f[n].right},
             \A y \in {f[n].left, f[n].right} : y = NULL \/ y = c,
             \A x \in Nodes \ {p} : g[x].left = f[x].left /\ g[x].right = f[x].right,
             \/ f[p].left = n /\ g[p].left = c /\ g[p].right = f[p].right
             \/ f[p].right = n /\ g[p].right = c /\ g[p].left = f[p].left
      PROVE  /\ SubOf(g, r) \subseteq SubOf(f, r) /\ SubOf(f, r) \subseteq SubOf(g, r) \cup {n}
             /\ \A x \in SubOf(f, r) : /\ SubOf(g, g[x].left) \subseteq SubOf(f, f[x].left)
                                       /\ SubOf(g, g[x].right) \subseteq SubOf(f, f[x].right)
             /\ n \notin SubOf(g, r)
  BY SMTT(30), ZenonT(30) DEF CutOut
<1>1. Linked(f) /\ r \in Ptr /\ n \in Nodes /\ p \in Nodes
  BY SubWithin, SMTT(30), ZenonT(30) DEF InOrder
<1>2. /\ c \in Ptr /\ (c # NULL => c \in Nodes /\ n < c) /\ n # NULL
      /\ p < n /\ n \in Int /\ p \in Int
  BY <1>1, LinkFacts, NodeFacts, SMTT(30), ZenonT(30)
<1>3. n \in SubOf(f, n) /\ (c # NULL => c \in SubOf(f, n))
  <2>1. n \in SubOf(f, n)
    BY <1>1, SubLater, SMTT(30), ZenonT(30)
  <2>2. n \in Ptr
    BY <1>1, NodeFacts, SMTT(30), ZenonT(30)
  <2> QED BY <1>1, <2>1, <2>2, SubClosed, SMTT(30), ZenonT(30)
<1>4. ASSUME NEW x \in SubOf(f, r)
      PROVE  /\ g[x].left # NULL => g[x].left \in SubOf(f, f[x].left)
             /\ g[x].right # NULL => g[x].right \in SubOf(f, f[x].right)
  <2>1. x \in Nodes
    BY <1>1, SubWithin, SMTT(30), ZenonT(30)
  <2>2. /\ f[x].left # NULL => f[x].left \in SubOf(f, f[x].left)
        /\ f[x].right # NULL => f[x].right \in SubOf(f, f[x].right)
    BY <1>1, <2>1, LinkFacts, SubLater, SMTT(30), ZenonT(30)
  <2> QED BY <1>3, <2>1, <2>2, SMTT(30), ZenonT(30)
<1>5. /\ SubOf(g, r) \subseteq SubOf(f, r)
      /\ \A x \in SubOf(f, r) : /\ SubOf(g, g[x].left) \subseteq SubOf(f, f[x].left)
                                /\ SubOf(g, g[x].right) \subseteq SubOf(f, f[x].right)
  BY <1>1, <1>4, SubShrinks, ZenonT(30), SMTT(30)
<1>6. ~(f[p].left = n /\ f[p].right = n)
  BY <1>3, SidesDisjoint
<1>7. ASSUME n \in SubOf(g, r) PROVE FALSE
  <2>1. PICK q \in SubOf(g, r) : n \in {g[q].left, g[q].right}
    BY <1>7, SubParent, SMTT(30), ZenonT(30)
  <2>2. q \in SubOf(f, r) /\ q \in Nodes
    BY <1>1, <1>5, <2>1, SubWithin, SMTT(30), ZenonT(30)
  <2>3. CASE q # p
    <3>1. n \in {f[q].left, f[q].right} /\ n \in {f[p].left, f[p].right}
      BY <2>1, <2>2, <2>3, SMTT(30), ZenonT(30)
    <3>2. q = p
      BY <1>1, <2>2, <3>1, OneParent, SMTT(30), ZenonT(30)
    <3> QED BY <2>3, <3>2, SMTT(30), ZenonT(30)
  <2>4. CASE q = p
    <3>1. n # c
      BY <1>2, SMTT(30), ZenonT(30)
    <3> QED BY <1>6, <2>1, <2>4, <3>1, SMTT(30), ZenonT(30)
  <2> QED BY <2>3, <2>4, SMTT(30), ZenonT(30)
<1>8. r \in SubOf(g, r)
  BY SubLater, SMTT(30), ZenonT(30)
\* Everything is still there, or in the subtree of n; p is not in that one.
<1>9. p \in SubOf(g, r)
  <2> DEFINE C == SubOf(g, r) \cup SubOf(f, n)
  <2>1. ASSUME NEW x \in C
        PROVE  /\ x \in Nodes
               /\ f[x].left # NULL => f[x].left \in C
               /\ f[x].right # NULL => f[x].right \in C
    <3>1. CASE x \in SubOf(f, n)
      <4>1. n \in Ptr
        BY <1>1, NodeFacts, SMTT(30), ZenonT(30)
      <4> QED BY <1>1, <3>1, <4>1, SubClosed, SMTT(30), ZenonT(30)
    <3>2. CASE x \in SubOf(g, r)
      <4>1. /\ x \in Nodes
            /\ g[x].left # NULL => g[x].left \in SubOf(g, r)
            /\ g[x].right # NULL => g[x].right \in SubOf(g, r)
        BY <1>1, <3>2, SubClosed, SMTT(30), ZenonT(30)
      <4> QED BY <1>3, <4>1, SMTT(30), ZenonT(30)
    <3> QED BY <3>1, <3>2, SMTT(30), ZenonT(30)
  <2>2. r \in C
    BY <1>8, SMTT(30), ZenonT(30)
  <2> HIDE DEF C
  <2>3. SubOf(f, r) \subseteq C
    BY <1>1, <2>1, <2>2, SubLeast, SMTT(30), ZenonT(30)
  <2>4. p \notin SubOf(f, n)
    <3>1. p \in SubOf(f, n) => n <= p
      BY <1>1, SubLater, SMTT(30), ZenonT(30)
    <3> QED BY <1>2, <3>1, SMTT(30), ZenonT(30)
  <2> QED BY <2>3, <2>4, SMTT(30), ZenonT(30) DEF C
<1>10. c # NULL => c \in SubOf(g, r)
  <2>1. /\ g[p].left # NULL => g[p].left \in SubOf(g, r)
        /\ g[p].right # NULL => g[p].right \in SubOf(g, r)
    BY <1>1, <1>9, SubClosed, SMTT(30), ZenonT(30)
  <2> QED BY <2>1, SMTT(30), ZenonT(30)
<1>11. SubOf(f, r) \subseteq SubOf(g, r) \cup {n}
  <2> DEFINE C == SubOf(g, r) \cup {n}
  <2>1. ASSUME NEW x \in C
        PROVE  /\ x \in Nodes
               /\ f[x].left # NULL => f[x].left \in C
               /\ f[x].right # NULL => f[x].right \in C
    <3>1. CASE x = n
      BY <1>1, <1>10, <3>1, SMTT(30), ZenonT(30)
    <3>2. CASE x \in SubOf(g, r)
      <4>1. /\ x \in Nodes
            /\ g[x].left # NULL => g[x].left \in SubOf(g, r)
            /\ g[x].right # NULL => g[x].right \in SubOf(g, r)
        BY <1>1, <3>2, SubClosed, SMTT(30), ZenonT(30)
      <4> QED BY <4>1, SMTT(30), ZenonT(30)
    <3> QED BY <3>1, <3>2, SMTT(30), ZenonT(30)
  <2>2. r \in C
    BY <1>8, SMTT(30), ZenonT(30)
  <2> HIDE DEF C
  <2>3. SubOf(f, r) \subseteq C
    BY <1>1, <2>1, <2>2, SubLeast
  <2> QED BY <2>3, SMTT(30), ZenonT(30) DEF C
<1> QED
  BY <1>5, <1>7, <1>11, SMTT(30), ZenonT(30)

\* Replacing node n: its right link leads to the right child of a node cur of
\* its right subtree.
MovedUp(f, g, r, n, R, cur) ==
  /\ r \in Nodes /\ InOrder(f, r) /\ Linked(g)
  /\ n \in SubOf(f, r) /\ R \in Nodes /\ f[n].right = R /\ cur \in SubOf(f, R)
  /\ \A x \in Nodes \ {n} : g[x].left = f[x].left /\ g[x].right = f[x].right
  /\ g[n].left = f[n].left /\ g[n].right = f[cur].right

LEMMA ReplaceLinks ==
  ASSUME NEW f, NEW g, NEW r, NEW n, NEW R, NEW cur, MovedUp(f, g, r, n, R, cur)
  PROVE  /\ SubOf(g, r) \subseteq SubOf(f, r) /\ SubOf(f, r) \subseteq SubOf(g, r) \cup SubOf(f, R)
         /\ \A x \in SubOf(f, r) : /\ SubOf(g, g[x].left) \subseteq SubOf(f, f[x].left)
                                   /\ SubOf(g, g[x].right) \subseteq SubOf(f, f[x].right)
         /\ R \notin SubOf(g, r)
         /\ SubOf(g, g[n].right) = SubOf(f, f[cur].right)
<1> SUFFICES
      ASSUME r \in Nodes, InOrder(f, r), Linked(g), n \in SubOf(f, r),
             R \in Nodes, f[n].right = R, cur \in SubOf(f, R),
             \A x \in Nodes \ {n} : g[x].left = f[x].left /\ g[x].right = f[x].right,
             g[n].left = f[n].left, g[n].right = f[cur].right
      PROVE  /\ SubOf(g, r) \subseteq SubOf(f, r) /\ SubOf(f, r) \subseteq SubOf(g, r) \cup SubOf(f, R)
             /\ \A x \in SubOf(f, r) : /\ SubOf(g, g[x].left) \subseteq SubOf(f, f[x].left)
                                       /\ SubOf(g, g[x].right) \subseteq SubOf(f, f[x].right)
             /\ R \notin SubOf(g, r)
             /\ SubOf(g, g[n].right) = SubOf(f, f[cur].right)
  BY SMTT(30), ZenonT(30) DEF MovedUp
<1>1. Linked(f) /\ r \in Ptr /\ R \in Ptr /\ n \in Nodes /\ cur \in Nodes
  BY SubWithin, NodeFacts, SMTT(30), ZenonT(30) DEF InOrder
<1>2. /\ R # NULL /\ n < R /\ R <= cur /\ r <= n
      /\ n \in Int /\ R \in Int /\ cur \in Int /\ r \in Int
  BY <1>1, LinkFacts, NodeFacts, SubLater, SMTT(30), ZenonT(30)
<1>3. /\ f[cur].right \in Ptr
      /\ f[cur].right # NULL => /\ f[cur].right \in Nodes /\ cur < f[cur].right
                                /\ f[cur].right \in Int /\ f[cur].right \in SubOf(f, R)
  BY <1>1, LinkFacts, NodeFacts, SubClosed, ZenonT(30), SMTT(30)
<1>4. ASSUME NEW x \in SubOf(f, r)
      PROVE  /\ g[x].left # NULL => g[x].left \in SubOf(f, f[x].left)
             /\ g[x].right # NULL => g[x].right \in SubOf(f, f[x].right)
  <2>1. x \in Nodes
    BY <1>1, SubWithin
  <2>2. /\ f[x].left # NULL => f[x].left \in SubOf(f, f[x].left)
        /\ f[x].right # NULL => f[x].right \in SubOf(f, f[x].right)
    BY <1>1, <2>1, LinkFacts, SubLater, SMTT(30), ZenonT(30)
  <2> QED BY <1>3, <2>1, <2>2
<1>5. /\ SubOf(g, r) \subseteq SubOf(f, r)
      /\ \A x \in SubOf(f, r) : /\ SubOf(g, g[x].left) \subseteq SubOf(f, f[x].left)
                                /\ SubOf(g, g[x].right) \subseteq SubOf(f, f[x].right)
  BY <1>1, <1>4, SubShrinks, ZenonT(30), SMTT(30)
<1>6. f[n].left # R
  <2>1. R \in SubOf(f, R)
    BY <1>1, SubLater
  <2> QED BY <2>1, SidesDisjoint
<1>7. ASSUME R \in SubOf(g, r) PROVE FALSE
  <2>1. R # r
    BY <1>2, SMTT(30), ZenonT(30)
  <2>2. PICK q \in SubOf(g, r) : R \in {g[q].left, g[q].right}
    BY <1>7, <2>1, SubParent, SMTT(30), ZenonT(30)
  <2>3. q \in SubOf(f, r) /\ q \in Nodes
    BY <1>1, <1>5, <2>2, SubWithin, SMTT(30), ZenonT(30)
  <2>4. CASE q # n
    <3>1. R \in {f[q].left, f[q].right} /\ R \in {f[n].left, f[n].right}
      BY <2>2, <2>3, <2>4, SMTT(30), ZenonT(30)
    <3>2. q = n
      BY <2>3, <3>1, OneParent, SMTT(30), ZenonT(30)
    <3> QED BY <2>4, <3>2, SMTT(30), ZenonT(30)
  <2>5. CASE q = n
    <3>1. f[cur].right # R
      BY <1>2, <1>3, SMTT(30), ZenonT(30)
    <3> QED BY <1>6, <2>2, <2>5, <3>1, SMTT(30), ZenonT(30)
  <2> QED BY <2>4, <2>5
<1>8. SubOf(f, r) \subseteq SubOf(g, r) \cup SubOf(f, R)
  <2> DEFINE C == SubOf(g, r) \cup SubOf(f, R)
  <2>1. ASSUME NEW x \in C
        PROVE  /\ x \in Nodes
               /\ f[x].left # NULL => f[x].left \in C
               /\ f[x].right # NULL => f[x].right \in C
    <3>1. CASE x \in SubOf(f, R)
      BY <1>1, <3>1, SubClosed, SMTT(30), ZenonT(30)
    <3>2. CASE x \in SubOf(g, r)
      <4>1. /\ x \in Nodes
            /\ g[x].left # NULL => g[x].left \in SubOf(g, r)
            /\ g[x].right # NULL => g[x].right \in SubOf(g, r)
        BY <1>1, <3>2, SubClosed, SMTT(30), ZenonT(30)
      <4>2. R \in SubOf(f, R)
        BY <1>1, SubLater, SMTT(30), ZenonT(30)
      <4> QED BY <4>1, <4>2, SMTT(30), ZenonT(30)
    <3> QED BY <3>1, <3>2, SMTT(30), ZenonT(30)
  <2>2. r \in C
    BY SubLater, SMTT(30), ZenonT(30)
  <2> HIDE DEF C
  <2>3. SubOf(f, r) \subseteq C
    BY <1>1, <2>1, <2>2, SubLeast, SMTT(30), ZenonT(30)
  <2> QED BY <2>3, SMTT(30), ZenonT(30) DEF C
<1>9. SubOf(g, f[cur].right) = SubOf(f, f[cur].right)
  <2>1. ASSUME NEW x \in SubOf(f, f[cur].right) PROVE x \in Nodes \ {n}
    <3>1. f[cur].right # NULL
      BY <1>1, SubIs, SMTT(30), ZenonT(30)
    <3>2. x \in Nodes /\ f[cur].right <= x /\ x \in Int
      BY <1>1, <1>3, <3>1, SubLater, NodeFacts, SMTT(30), ZenonT(30)
    <3> QED BY <1>2, <1>3, <3>1, <3>2, SMTT(30), ZenonT(30)
  <2>2. \A x \in SubOf(f, f[cur].right) : g[x].left = f[x].left /\ g[x].right = f[x].right
    BY <2>1, SMTT(30), ZenonT(30)
  <2> QED BY <1>1, <1>3, <2>2, SubSame, SMTT(30), ZenonT(30)
<1> QED
  BY <1>5, <1>7, <1>8, <1>9, SMTT(30), ZenonT(30)

\* A step that only takes nodes out of the tree and leaves parents and flags
\* alone: a child whose link changed is not in the tree any more.
LEMMA Kept ==
  ASSUME TreeInv, root_node' = root_node, inserted' = inserted, root_node # NULL,
         node' \in [Nodes -> NodeFields],
         \A n \in Nodes :
           /\ {node'[n].left, node'[n].right} \subseteq {NULL} \cup n + 1 .. inserted
           /\ node'[n].is_left = node[n].is_left /\ node'[n].is_right = node[n].is_right
           /\ node'[n].parent = node[n].parent,
         SubOf(node', root_node) \subseteq SubOf(node, root_node),
         \A q \in SubOf(node, root_node) :
           /\ node'[q].left = node[q].left \/ node[q].left \notin SubOf(node', root_node)
           /\ node'[q].right = node[q].right \/ node[q].right \notin SubOf(node', root_node),
         Ord(node', root_node)
  PROVE  TreeInv'
<1>1. \A n \in Nodes :
        /\ {node'[n].left, node'[n].right} \subseteq {NULL} \cup n + 1 .. inserted'
        /\ node'[n].is_left \/ node'[n].is_right =>
             node'[n].parent \in 1 .. n - 1 /\ n \in 1 .. inserted' /\ n # root_node'
  <2> TAKE n \in Nodes
  <2>1. node[n].is_left \/ node[n].is_right =>
          node[n].parent \in 1 .. n - 1 /\ n \in 1 .. inserted /\ n # root_node
    BY SMTT(30), ZenonT(30) DEF TreeInv
  <2> QED BY <2>1
<1>2. ASSUME NEW n \in SubOf(node', root_node')
      PROVE  /\ node'[n].is_left => \/ node'[n].parent \notin SubOf(node', root_node')
                                    \/ node'[node'[n].parent].left = n
             /\ node'[n].is_right => \/ node'[n].parent \notin SubOf(node', root_node')
                                     \/ node'[node'[n].parent].right = n
  <2>1. n \in SubOf(node, root_node) /\ n \in Nodes
    BY InvFacts, SubWithin, SMTT(30), ZenonT(30)
  <2>2. /\ node[n].is_left => \/ node[n].parent \notin SubOf(node, root_node)
                              \/ node[node[n].parent].left = n
        /\ node[n].is_right => \/ node[n].parent \notin SubOf(node, root_node)
                               \/ node[node[n].parent].right = n
    BY <2>1, TreeIs DEF TreeInv
  <2>3. PICK q : q = node[n].parent
    OBVIOUS
  <2>4. /\ node'[n].is_left = node[n].is_left /\ node'[n].is_right = node[n].is_right
        /\ node'[n].parent = q
    BY <2>1, <2>3
  <2>5. q \in SubOf(node', root_node) => q \in SubOf(node, root_node)
    BY SMTT(30), ZenonT(30)
  <2>6. q \in SubOf(node, root_node) => /\ node[q].left = n => node'[q].left = n
                                        /\ node[q].right = n => node'[q].right = n
    OBVIOUS
  <2> QED BY <2>2, <2>3, <2>4, <2>5, <2>6
<1>3. /\ root_node' \in Ptr /\ inserted' \in 0 .. MaxNodes /\ root_node' <= inserted'
      /\ root_node' = NULL => inserted' = 0
  BY DEF TreeInv
<1>4. Ord(node', root_node')
  OBVIOUS
<1> QED
  BY <1>1, <1>2, <1>3, <1>4, InvNext, SMTT(30), ZenonT(30)

\* A link of node p is set: what else it changes.
LEMMA LinkSet ==
  ASSUME TreeInv, NEW p \in Nodes, NEW c \in {NULL} \cup p + 1 .. inserted, NEW g,
         \/ g = [node EXCEPT ![p].left = c]
         \/ g = [node EXCEPT ![p].right = c]
  PROVE  /\ g \in [Nodes -> NodeFields]
         /\ \A n \in Nodes :
              /\ {g[n].left, g[n].right} \subseteq {NULL} \cup n + 1 .. inserted
              /\ g[n].is_left = node[n].is_left /\ g[n].is_right = node[n].is_right
              /\ g[n].parent = node[n].parent /\ g[n].value = node[n].value
              /\ n # p => g[n].left = node[n].left /\ g[n].right = node[n].right
         /\ g = [node EXCEPT ![p].left = c] => g[p].left = c /\ g[p].right = node[p].right
         /\ g = [node EXCEPT ![p].right = c] => g[p].right = c /\ g[p].left = node[p].left
<1>1. /\ node \in [Nodes -> NodeFields] /\ inserted \in 0 .. MaxNodes
      /\ \A n \in Nodes : {node[n].left, node[n].right} \subseteq {NULL} \cup n + 1 .. inserted
  BY DEF TreeInv
<1>2. c \in Ptr
  BY <1>1, NodeFacts, TreeAssumption DEF Ptr, Nodes
<1>3. node[p] \in NodeFields
  BY <1>1
<1> DEFINE l == [node[p] EXCEPT !.left = c]
           r == [node[p] EXCEPT !.right = c]
<1>4. /\ l \in NodeFields /\ l.left = c /\ l.right = node[p].right /\ l.value = node[p].value
      /\ l.is_left = node[p].is_left /\ l.is_right = node[p].is_right
      /\ l.parent = node[p].parent
  BY <1>2, <1>3 DEF NodeFields
<1>5. /\ r \in NodeFields /\ r.right = c /\ r.left = node[p].left /\ r.value = node[p].value
      /\ r.is_left = node[p].is_left /\ r.is_right = node[p].is_right
      /\ r.parent = node[p].parent
  BY <1>2, <1>3 DEF NodeFields
<1>6. /\ [node EXCEPT ![p].left = c] = [node EXCEPT ![p] = l]
      /\ [node EXCEPT ![p].right = c] = [node EXCEPT ![p] = r]
  OBVIOUS
<1> HIDE DEF l, r
<1>7. ASSUME NEW y \in NodeFields, g = [node EXCEPT ![p] = y]
      PROVE  g \in [Nodes -> NodeFields] /\ g[p] = y /\ \A n \in Nodes \ {p} : g[n] = node[n]
  BY <1>1, <1>7
<1>8. /\ g = [node EXCEPT ![p] = l] =>
           g \in [Nodes -> NodeFields] /\ g[p] = l /\ \A n \in Nodes \ {p} : g[n] = node[n]
      /\ g = [node EXCEPT ![p] = r] =>
           g \in [Nodes -> NodeFields] /\ g[p] = r /\ \A n \in Nodes \ {p} : g[n] = node[n]
  BY <1>4, <1>5, <1>7
<1>9. {node[p].left, node[p].right} \subseteq {NULL} \cup p + 1 .. inserted
  BY <1>1
<1>10. CASE g = [node EXCEPT ![p].left = c]
  <2>1. g \in [Nodes -> NodeFields] /\ g[p] = l /\ \A n \in Nodes \ {p} : g[n] = node[n]
    BY <1>6, <1>8, <1>10
  <2>2. g[p].left = c /\ g[p].right = node[p].right
    BY <1>4, <2>1
  <2>3. ASSUME NEW n \in Nodes
        PROVE  /\ {g[n].left, g[n].right} \subseteq {NULL} \cup n + 1 .. inserted
               /\ g[n].is_left = node[n].is_left /\ g[n].is_right = node[n].is_right
               /\ g[n].parent = node[n].parent /\ g[n].value = node[n].value
               /\ n # p => g[n].left = node[n].left /\ g[n].right = node[n].right
    <3>1. CASE n = p
      BY <1>4, <1>9, <2>1, <3>1
    <3>2. CASE n # p
      BY <1>1, <2>1, <3>2
    <3> QED BY <3>1, <3>2
  <2>4. g = [node EXCEPT ![p].right = c] => g[p].right = c /\ g[p].left = node[p].left
    BY <1>5, <1>6, <1>8
  <2> QED BY <2>1, <2>2, <2>3, <2>4
<1>11. CASE g = [node EXCEPT ![p].right = c]
  <2>1. g \in [Nodes -> NodeFields] /\ g[p] = r /\ \A n \in Nodes \ {p} : g[n] = node[n]
    BY <1>6, <1>8, <1>11
  <2>2. g[p].right = c /\ g[p].left = node[p].left
    BY <1>5, <2>1
  <2>3. ASSUME NEW n \in Nodes
        PROVE  /\ {g[n].left, g[n].right} \subseteq {NULL} \cup n + 1 .. inserted
               /\ g[n].is_left = node[n].is_left /\ g[n].is_right = node[n].is_right
               /\ g[n].parent = node[n].parent /\ g[n].value = node[n].value
               /\ n # p => g[n].left = node[n].left /\ g[n].right = node[n].right
    <3>1. CASE n = p
      BY <1>5, <1>9, <2>1, <3>1
    <3>2. CASE n # p
      BY <1>1, <2>1, <3>2
    <3> QED BY <3>1, <3>2
  <2>4. g = [node EXCEPT ![p].left = c] => g[p].left = c /\ g[p].right = node[p].right
    BY <1>4, <1>6, <1>8, SMTT(30), ZenonT(30)
  <2> QED BY <2>1, <2>2, <2>3, <2>4
<1> QED
  BY <1>10, <1>11

\* What a deletion of node n may do to the tree.
Loses(n) ==
  /\ TreeInv' /\ InTree' \subseteq InTree
  /\ InTree \ InTree' \subseteq {n} \cup Subtree(node[n].right)
  /\ ValuesOf(InTree)' \subseteq ValuesOf(InTree)

\* Values of the nodes that stay do not change when a node is cut out.
LEMMA OrdKept ==
  ASSUME NEW f, NEW g, NEW r \in Ptr, Linked(f), Linked(g), Ord(f, r),
         \A n \in Nodes : g[n].value = f[n].value,
         SubOf(g, r) \subseteq SubOf(f, r),
         \A x \in SubOf(f, r) : /\ SubOf(g, g[x].left) \subseteq SubOf(f, f[x].left)
                                /\ SubOf(g, g[x].right) \subseteq SubOf(f, f[x].right)
  PROVE  Ord(g, r)
<1> SUFFICES ASSUME NEW n \in SubOf(g, r)
             PROVE  /\ \A m \in SubOf(g, g[n].left) : g[m].value >= g[n].value
                    /\ \A m \in SubOf(g, g[n].right) : g[m].value < g[n].value
  BY SMTT(30), ZenonT(30) DEF Ord
<1>1. n \in SubOf(f, r) /\ n \in Nodes
  BY SubWithin, SMTT(30), ZenonT(30)
<1>2. /\ \A m \in SubOf(g, g[n].left) : m \in SubOf(f, f[n].left) /\ m \in Nodes
      /\ \A m \in SubOf(g, g[n].right) : m \in SubOf(f, f[n].right) /\ m \in Nodes
  BY <1>1, LinkFacts, SubWithin, ZenonT(30), SMTT(30)
<1>3. /\ \A m \in SubOf(f, f[n].left) : f[m].value >= f[n].value
      /\ \A m \in SubOf(f, f[n].right) : f[m].value < f[n].value
  BY <1>1 DEF Ord
<1> QED
  BY <1>1, <1>2, <1>3, SMTT(30), ZenonT(30)

LEMMA DeleteSplice ==
  ASSUME TreeInv, root_node' = root_node, inserted' = inserted,
         NEW n \in SubOf(node, root_node), NEW c \in {node[n].left, node[n].right},
         \A y \in {node[n].left, node[n].right} : y = NULL \/ y = c,
         node' = Splice(n, c)
  PROVE  Loses(n)
<1>1. /\ Linked(node) /\ InOrder(node, root_node) /\ root_node \in Ptr
      /\ node \in [Nodes -> NodeFields] /\ inserted \in Int
  BY InvFacts DEF TreeInv
<1>2. root_node # NULL /\ root_node \in Nodes /\ n \in Nodes /\ n \in Int
  BY <1>1, SubIs, SubWithin, NodeFacts, ZenonT(30), SMTT(30)
<1>3. /\ InTree = SubOf(node, root_node) /\ InTree' = SubOf(node', root_node)
      /\ Ord(node, root_node) /\ Subtree(node[n].right) = SubOf(node, node[n].right)
  BY <1>1, TreeIs DEF InOrder
<1>4. ValuesOf(InTree) = {node[x].value : x \in SubOf(node, root_node)}
      /\ ValuesOf(InTree)' = {node'[x].value : x \in SubOf(node', root_node)}
  BY <1>3 DEF ValuesOf
<1>5. CASE node' = node
  <2>1. TreeInv'
    <3>1. \A x \in Nodes : {node[x].left, node[x].right} \subseteq {NULL} \cup x + 1 .. inserted
      BY SMTT(30), ZenonT(30) DEF TreeInv
    <3> QED BY <1>1, <1>2, <1>3, <1>5, <3>1, Kept, SMTT(30), ZenonT(30)
  <2>2. InTree' = InTree /\ ValuesOf(InTree)' = ValuesOf(InTree)
    BY <1>3, <1>4, <1>5, SMTT(30), ZenonT(30)
  <2> QED BY <2>1, <2>2, SMTT(30), ZenonT(30) DEF Loses
<1>6. CASE node' # node
  <2>1. PICK p : p = node[n].parent
    OBVIOUS
  <2>2. \/ node[n].is_left /\ node' = [node EXCEPT ![p].left = c]
        \/ node[n].is_right /\ node' = [node EXCEPT ![p].right = c]
    BY <1>6, <2>1 DEF Splice
  <2>3. p \in 1 .. n - 1 /\ n \in 1 .. inserted /\ n # root_node
    BY <1>2, <2>1, <2>2, SMTT(30), ZenonT(30) DEF TreeInv
  <2>4. p \in Nodes /\ p \in Int /\ p < n
    <3>1. MaxNodes \in Nat /\ inserted \in 0 .. MaxNodes
      BY TreeAssumption DEF TreeInv
    <3> QED BY <1>1, <2>3, <3>1, SMTT(30), ZenonT(30) DEF Nodes
  <2>5. c \in {NULL} \cup p + 1 .. inserted
    <3>1. c \in {NULL} \cup n + 1 .. inserted
      BY <1>2 DEF TreeInv
    <3> QED BY <1>1, <1>2, <2>4, <3>1, SMTT(30), ZenonT(30)
  <2>6. /\ node' \in [Nodes -> NodeFields]
        /\ \A x \in Nodes :
             /\ {node'[x].left, node'[x].right} \subseteq {NULL} \cup x + 1 .. inserted
             /\ node'[x].is_left = node[x].is_left /\ node'[x].is_right = node[x].is_right
             /\ node'[x].parent = node[x].parent /\ node'[x].value = node[x].value
             /\ x # p => node'[x].left = node[x].left /\ node'[x].right = node[x].right
        /\ node' = [node EXCEPT ![p].left = c] => node'[p].left = c /\ node'[p].right = node[p].right
        /\ node' = [node EXCEPT ![p].right = c] => node'[p].right = c /\ node'[p].left = node[p].left
    <3>1. \/ node' = [node EXCEPT ![p].left = c]
          \/ node' = [node EXCEPT ![p].right = c]
      BY <2>2
    <3> QED BY <2>4, <2>5, <3>1, LinkSet
  <2>7. Linked(node')
    BY <2>6, NextLinked, ZenonT(30), SMTT(30)
  \* Whether the old parent is still in the tree or not.
  <2>8. /\ SubOf(node', root_node) \subseteq SubOf(node, root_node)
        /\ SubOf(node, root_node) \subseteq SubOf(node', root_node) \cup {n}
        /\ \A x \in SubOf(node, root_node) :
             /\ SubOf(node', node'[x].left) \subseteq SubOf(node, node[x].left)
             /\ SubOf(node', node'[x].right) \subseteq SubOf(node, node[x].right)
        /\ \A q \in SubOf(node, root_node) :
             /\ node'[q].left = node[q].left \/ node[q].left \notin SubOf(node', root_node)
             /\ node'[q].right = node[q].right \/ node[q].right \notin SubOf(node', root_node)
    <3>1. CASE p \notin SubOf(node, root_node)
      <4>1. \A x \in SubOf(node, root_node) :
              /\ x \in Nodes
              /\ node'[x].left = node[x].left /\ node'[x].right = node[x].right
        BY <1>1, <2>6, <3>1, SubWithin, SMTT(30), ZenonT(30)
      <4>2. SubOf(node', root_node) = SubOf(node, root_node)
        BY <1>1, <2>7, <4>1, SubSame, SMTT(30), ZenonT(30)
      <4>3. ASSUME NEW x \in SubOf(node, root_node), NEW m \in {node[x].left, node[x].right}
            PROVE  SubOf(node', m) = SubOf(node, m)
        <5>1. m \in Ptr /\ SubOf(node, m) \subseteq SubOf(node, root_node)
          BY <1>1, <4>1, LinkFacts, SubClosed, SMTT(30), ZenonT(30)
        <5>2. \A z \in SubOf(node, m) : node'[z].left = node[z].left /\ node'[z].right = node[z].right
          BY <4>1, <5>1, SMTT(30), ZenonT(30)
        <5> QED BY <1>1, <2>7, <5>1, <5>2, SubSame, SMTT(30), ZenonT(30)
      <4> QED BY <4>1, <4>2, <4>3
    <3>2. CASE p \in SubOf(node, root_node)
      <4>1. /\ node[n].is_left => node[p].left = n
            /\ node[n].is_right => node[p].right = n
        BY <1>3, <2>1, <3>2 DEF TreeInv
      <4>2. \/ node[p].left = n /\ node'[p].left = c /\ node'[p].right = node[p].right
            \/ node[p].right = n /\ node'[p].right = c /\ node'[p].left = node[p].left
        BY <2>2, <2>6, <4>1
      <4>3. \A x \in Nodes \ {p} : node'[x].left = node[x].left /\ node'[x].right = node[x].right
        BY <2>6, SMTT(30), ZenonT(30)
      <4>4. /\ SubOf(node', root_node) \subseteq SubOf(node, root_node)
            /\ SubOf(node, root_node) \subseteq SubOf(node', root_node) \cup {n}
            /\ \A x \in SubOf(node, root_node) :
                 /\ SubOf(node', node'[x].left) \subseteq SubOf(node, node[x].left)
                 /\ SubOf(node', node'[x].right) \subseteq SubOf(node, node[x].right)
            /\ n \notin SubOf(node', root_node)
        <5>1. CutOut(node, node', root_node, n, p, c)
          BY <1>1, <1>2, <2>3, <2>7, <3>2, <4>2, <4>3, SMTT(30), ZenonT(30) DEF CutOut
        <5> QED BY <5>1, SpliceLinks, SMTT(30), ZenonT(30)
      <4>5. \A q \in SubOf(node, root_node) : q \in Nodes
        BY <1>1, SubWithin
      <4> QED BY <4>2, <4>3, <4>4, <4>5, SMTT(30), ZenonT(30)
    <3> QED BY <3>1, <3>2, SMTT(30), ZenonT(30)
  <2>9. Ord(node', root_node)
    BY <1>1, <1>3, <2>6, <2>7, <2>8, OrdKept, ZenonT(30), SMTT(30)
  <2>10. TreeInv'
    BY <1>2, <2>6, <2>8, <2>9, Kept
  <2>11. ValuesOf(InTree)' \subseteq ValuesOf(InTree)
    <3>1. \A x \in SubOf(node', root_node) :
            x \in SubOf(node, root_node) /\ x \in Nodes /\ node'[x].value = node[x].value
      BY <1>1, <2>6, <2>8, SubWithin
    <3> QED BY <1>4, <3>1
  <2> QED BY <1>3, <2>8, <2>10, <2>11 DEF Loses
<1> QED
  BY <1>5, <1>6

LEMMA DeleteReplace ==
  ASSUME TreeInv, root_node' = root_node, inserted' = inserted,
         NEW n \in SubOf(node, root_node), node[n].right # NULL, node' = Replace(n)
  PROVE  Loses(n)
<1>1. /\ Linked(node) /\ InOrder(node, root_node) /\ root_node \in Ptr
      /\ node \in [Nodes -> NodeFields] /\ inserted \in Int
      /\ \A x \in Nodes : node[x].value \in Values /\ node[x].value \in Int
  BY InvFacts DEF TreeInv
<1>2. root_node # NULL /\ root_node \in Nodes /\ n \in Nodes /\ n \in Int
  BY <1>1, SubIs, SubWithin, NodeFacts, ZenonT(30), SMTT(30)
<1>3. /\ InTree = SubOf(node, root_node) /\ InTree' = SubOf(node', root_node)
      /\ Ord(node, root_node) /\ Subtree(node[n].right) = SubOf(node, node[n].right)
  BY <1>1, TreeIs DEF InOrder
<1>4. ValuesOf(InTree) = {node[x].value : x \in SubOf(node, root_node)}
      /\ ValuesOf(InTree)' = {node'[x].value : x \in SubOf(node', root_node)}
  BY <1>3 DEF ValuesOf
<1>5. PICK R, cur : R = node[n].right /\ cur = Leftmost(R)
  OBVIOUS
<1>6. R \in Nodes /\ n < R /\ R \in Int /\ cur \in SubOf(node, R) /\ cur \in Nodes
  <2>1. R \in Nodes /\ n < R
    BY <1>1, <1>2, <1>5, LinkFacts, SMTT(30), ZenonT(30)
  <2>2. cur \in SubOf(node, R)
    BY <1>5, <2>1, LeftmostIn
  <2> QED BY <1>1, <2>1, <2>2, SubWithin, NodeFacts
<1>7. cur \in SubOf(node, root_node) /\ R <= cur /\ cur \in Int
  <2>1. SubOf(node, R) \subseteq SubOf(node, root_node)
    BY <1>1, <1>5, SubClosed
  <2> QED BY <1>1, <1>6, <2>1, SubLater, NodeFacts, SMTT(30), ZenonT(30)
<1>8. PICK k : k = node[cur].right
  OBVIOUS
<1>9. k \in {NULL} \cup n + 1 .. inserted /\ k \in Ptr
  <2>1. k \in {NULL} \cup cur + 1 .. inserted
    BY <1>6, <1>8 DEF TreeInv
  <2> QED BY <1>1, <1>2, <1>6, <1>7, <1>8, <2>1, LinkFacts, SMTT(30), ZenonT(30)
<1> DEFINE y == [node[n] EXCEPT !.value = node[cur].value, !.right = k]
<1>10. /\ y \in NodeFields /\ y.left = node[n].left /\ y.right = k /\ y.value = node[cur].value
       /\ y.is_left = node[n].is_left /\ y.is_right = node[n].is_right
       /\ y.parent = node[n].parent
  <2>1. node[n] \in NodeFields /\ node[cur].value \in Values
    BY <1>1, <1>2, <1>6
  <2> QED BY <1>9, <2>1, ZenonT(30), SMTT(30) DEF NodeFields
<1>11. node' = [node EXCEPT ![n] = y]
  BY <1>5, <1>8, ZenonT(30), SMTT(30) DEF Replace
<1> HIDE DEF y
<1>12. /\ node' \in [Nodes -> NodeFields] /\ \A x \in Nodes \ {n} : node'[x] = node[x]
       /\ node'[n].left = node[n].left /\ node'[n].right = k /\ node'[n].value = node[cur].value
       /\ node'[n].is_left = node[n].is_left /\ node'[n].is_right = node[n].is_right
       /\ node'[n].parent = node[n].parent
  BY <1>1, <1>2, <1>10, <1>11
<1>13. \A x \in Nodes :
         /\ {node'[x].left, node'[x].right} \subseteq {NULL} \cup x + 1 .. inserted
         /\ node'[x].is_left = node[x].is_left /\ node'[x].is_right = node[x].is_right
         /\ node'[x].parent = node[x].parent
  <2> TAKE x \in Nodes
  <2>1. {node[x].left, node[x].right} \subseteq {NULL} \cup x + 1 .. inserted
    BY SMTT(30), ZenonT(30) DEF TreeInv
  <2>2. CASE x = n
    BY <1>9, <1>12, <2>1, <2>2, SMTT(30), ZenonT(30)
  <2>3. CASE x # n
    BY <1>12, <2>1, <2>3, SMTT(30), ZenonT(30)
  <2> QED BY <2>2, <2>3
<1>14. Linked(node')
  BY <1>12, <1>13, NextLinked, ZenonT(30), SMTT(30)
<1>15. /\ SubOf(node', root_node) \subseteq SubOf(node, root_node)
       /\ SubOf(node, root_node) \subseteq SubOf(node', root_node) \cup SubOf(node, R)
       /\ \A x \in SubOf(node, root_node) :
            /\ SubOf(node', node'[x].left) \subseteq SubOf(node, node[x].left)
            /\ SubOf(node', node'[x].right) \subseteq SubOf(node, node[x].right)
       /\ R \notin SubOf(node', root_node)
       /\ SubOf(node', node'[n].right) = SubOf(node, node[cur].right)
  <2>1. \A x \in Nodes \ {n} : node'[x].left = node[x].left /\ node'[x].right = node[x].right
    BY <1>12
  <2>2. MovedUp(node, node', root_node, n, R, cur)
    BY <1>1, <1>2, <1>5, <1>6, <1>8, <1>12, <1>14, <2>1, SMTT(30), ZenonT(30) DEF MovedUp
  <2> QED BY <2>2, ReplaceLinks
<1>16. Ord(node', root_node)
  <2> SUFFICES ASSUME NEW x \in SubOf(node', root_node)
               PROVE  /\ \A m \in SubOf(node', node'[x].left) : node'[m].value >= node'[x].value
                      /\ \A m \in SubOf(node', node'[x].right) : node'[m].value < node'[x].value
    BY SMTT(30), ZenonT(30) DEF Ord
  <2>1. x \in SubOf(node, root_node) /\ x \in Nodes
    BY <1>1, <1>15, SubWithin, SMTT(30), ZenonT(30)
  <2>2. /\ node[x].left \in Ptr /\ node[x].right \in Ptr
        /\ \A m \in SubOf(node, node[x].left) : /\ m \in Nodes /\ x < m /\ m # x
                                                /\ node[m].value >= node[x].value
        /\ \A m \in SubOf(node, node[x].right) : /\ m \in Nodes /\ x < m /\ m # x
                                                 /\ node[m].value < node[x].value
    <3>1. /\ node[x].left \in Ptr /\ (node[x].left # NULL => node[x].left \in Nodes /\ x < node[x].left)
          /\ node[x].right \in Ptr /\ (node[x].right # NULL => node[x].right \in Nodes /\ x < node[x].right)
      BY <1>1, <2>1, LinkFacts
    <3>2. ASSUME NEW t \in {node[x].left, node[x].right}, NEW m \in SubOf(node, t)
          PROVE  m \in Nodes /\ x < m /\ m # x
      <4>1. t \in Nodes /\ x < t
        BY <1>1, <3>1, <3>2, SubIs, SMTT(30), ZenonT(30)
      <4>2. m \in Nodes /\ t <= m
        BY <1>1, <3>2, <4>1, SubLater
      <4>3. x \in Int /\ t \in Int /\ m \in Int
        BY <2>1, <4>1, <4>2, NodeFacts, SMTT(30), ZenonT(30)
      <4> QED BY <4>1, <4>2, <4>3, SMTT(30), ZenonT(30)
    <3>3. /\ \A m \in SubOf(node, node[x].left) : node[m].value >= node[x].value
          /\ \A m \in SubOf(node, node[x].right) : node[m].value < node[x].value
      BY <1>3, <2>1 DEF Ord
    <3> QED BY <3>1, <3>2, <3>3, SMTT(30), ZenonT(30)
  \* The value n takes is one of its subtree: it was on the same side of x.
  <2>3. cur \in SubOf(node, n)
    <3>1. n \in SubOf(node, n) /\ n \in Ptr
      BY <1>1, <1>2, SubLater, NodeFacts, SMTT(30), ZenonT(30)
    <3>2. SubOf(node, R) \subseteq SubOf(node, n)
      BY <1>1, <1>5, <3>1, SubClosed, SMTT(30), ZenonT(30)
    <3> QED BY <1>6, <3>2
  <2>4. ASSUME NEW t \in {node[x].left, node[x].right}, n \in SubOf(node, t) PROVE cur \in SubOf(node, t)
    <3>1. t \in Ptr
      BY <2>2, <2>4, SMTT(30), ZenonT(30)
    <3>2. SubOf(node, n) \subseteq SubOf(node, t)
      BY <1>1, <2>4, <3>1, SubWithin, SMTT(30), ZenonT(30)
    <3> QED BY <2>3, <3>2, SMTT(30), ZenonT(30)
  <2>5. \A m \in Nodes \ {n} : node'[m].value = node[m].value
    BY <1>12
  <2>6. CASE x # n
    <3>1. node'[x].value = node[x].value
      BY <2>1, <2>5, <2>6
    <3>2. ASSUME NEW m \in SubOf(node', node'[x].left) PROVE node'[m].value >= node'[x].value
      <4>1. m \in SubOf(node, node[x].left)
        BY <1>15, <2>1, <3>2, SMTT(30), ZenonT(30)
      <4>2. CASE m = n
        <5>1. cur \in SubOf(node, node[x].left)
          BY <2>4, <4>1, <4>2, SMTT(30), ZenonT(30)
        <5> QED BY <1>12, <2>2, <3>1, <4>2, <5>1, SMTT(30), ZenonT(30)
      <4>3. CASE m # n
        BY <2>2, <2>5, <3>1, <4>1, <4>3, SMTT(30), ZenonT(30)
      <4> QED BY <4>2, <4>3, SMTT(30), ZenonT(30)
    <3>3. ASSUME NEW m \in SubOf(node', node'[x].right) PROVE node'[m].value < node'[x].value
      <4>1. m \in SubOf(node, node[x].right)
        BY <1>15, <2>1, <3>3, SMTT(30), ZenonT(30)
      <4>2. CASE m = n
        <5>1. cur \in SubOf(node, node[x].right)
          BY <2>4, <4>1, <4>2, SMTT(30), ZenonT(30)
        <5> QED BY <1>12, <2>2, <3>1, <4>2, <5>1, SMTT(30), ZenonT(30)
      <4>3. CASE m # n
        BY <2>2, <2>5, <3>1, <4>1, <4>3, SMTT(30), ZenonT(30)
      <4> QED BY <4>2, <4>3, SMTT(30), ZenonT(30)
    <3> QED BY <3>2, <3>3
  <2>7. CASE x = n
    <3>1. node'[x].value = node[cur].value
      BY <1>12, <2>7, SMTT(30), ZenonT(30)
    <3>2. node[cur].value < node[x].value /\ node[cur].value \in Int /\ node[x].value \in Int
      BY <1>1, <1>5, <1>6, <2>1, <2>2, <2>7, SMTT(30), ZenonT(30)
    <3>3. ASSUME NEW m \in SubOf(node', node'[x].left) PROVE node'[m].value >= node'[x].value
      <4>1. m \in SubOf(node, node[x].left)
        BY <1>15, <2>1, <3>3
      <4>2. m \in Nodes \ {n} /\ node[m].value >= node[x].value
        BY <2>2, <2>7, <4>1, SMTT(30), ZenonT(30)
      <4>3. node'[m].value = node[m].value /\ node[m].value \in Int
        BY <1>1, <2>5, <4>2, SMTT(30), ZenonT(30)
      <4> QED BY <3>1, <3>2, <4>2, <4>3, SMTT(30), ZenonT(30)
    <3>4. ASSUME NEW m \in SubOf(node', node'[x].right) PROVE node'[m].value < node'[x].value
      <4>1. m \in SubOf(node, node[cur].right) /\ m \in SubOf(node, node[x].right)
        BY <1>15, <2>1, <2>7, <3>4, SMTT(30), ZenonT(30)
      <4>2. node[m].value < node[cur].value
        BY <1>3, <1>7, <4>1, SMTT(30), ZenonT(30) DEF Ord
      <4>3. node'[m].value = node[m].value
        BY <2>2, <2>5, <2>7, <4>1, SMTT(30), ZenonT(30)
      <4> QED BY <3>1, <4>2, <4>3, SMTT(30), ZenonT(30)
    <3> QED BY <3>3, <3>4
  <2> QED BY <2>6, <2>7
<1>17. \A q \in SubOf(node, root_node) :
         /\ node'[q].left = node[q].left \/ node[q].left \notin SubOf(node', root_node)
         /\ node'[q].right = node[q].right \/ node[q].right \notin SubOf(node', root_node)
  <2>1. \A q \in SubOf(node, root_node) : q \in Nodes
    BY <1>1, SubWithin, SMTT(30), ZenonT(30)
  <2> QED BY <1>5, <1>12, <1>15, <2>1
<1>18. TreeInv'
  BY <1>2, <1>12, <1>13, <1>15, <1>16, <1>17, Kept, SMTT(30), ZenonT(30)
<1>19. ValuesOf(InTree)' \subseteq ValuesOf(InTree)
  <2> SUFFICES ASSUME NEW x \in SubOf(node', root_node)
               PROVE  \E z \in SubOf(node, root_node) : node[z].value = node'[x].value
    BY <1>4, SMTT(30), ZenonT(30)
  <2>1. x \in SubOf(node, root_node) /\ x \in Nodes
    BY <1>1, <1>15, SubWithin
  <2>2. CASE x = n
    BY <1>7, <1>12, <2>2, SMTT(30), ZenonT(30)
  <2>3. CASE x # n
    BY <1>12, <2>1, <2>3, SMTT(30), ZenonT(30)
  <2> QED BY <2>2, <2>3
<1> QED
  BY <1>3, <1>5, <1>15, <1>18, <1>19 DEF Loses

LEMMA DeleteNext ==
  ASSUME TreeInv, NEW v \in Values, binary_tree_delete(v)
  PROVE  Loses(binary_tree_find(v))
<1>1. PICK n : n = binary_tree_find(v)
  OBVIOUS
<1>2. n # NULL /\ node' = NodeDelete(n) /\ root_node' = root_node /\ inserted' = inserted
  BY <1>1 DEF binary_tree_delete
<1>3. n \in SubOf(node, root_node)
  <2>1. n = NodeFind(root_node, v) /\ root_node \in Ptr /\ Linked(node)
    BY <1>1, InvFacts DEF binary_tree_find
  <2>2. root_node = NULL \/ root_node \in SubOf(node, root_node)
    BY <2>1, SubLater, NodeFacts
  <2> QED BY <1>2, <2>1, <2>2, FindRight, SMTT(30), ZenonT(30)
<1>4. CASE node[n].left = NULL
  <2>1. node' = Splice(n, node[n].right)
    BY <1>2, <1>4 DEF NodeDelete
  <2>2. \A y \in {node[n].left, node[n].right} : y = NULL \/ y = node[n].right
    BY <1>4, SMTT(30), ZenonT(30)
  <2>3. Loses(n)
    BY <1>2, <1>3, <2>1, <2>2, DeleteSplice
  <2> QED BY <1>1, <2>3
<1>5. CASE node[n].left # NULL /\ node[n].right = NULL
  <2>1. node' = Splice(n, node[n].left)
    BY <1>2, <1>5 DEF NodeDelete
  <2>2. \A y \in {node[n].left, node[n].right} : y = NULL \/ y = node[n].left
    BY <1>5, SMTT(30), ZenonT(30)
  <2>3. Loses(n)
    BY <1>2, <1>3, <2>1, <2>2, DeleteSplice
  <2> QED BY <1>1, <2>3
<1>6. CASE node[n].left # NULL /\ node[n].right # NULL
  <2>1. node' = Replace(n)
    BY <1>2, <1>6, SMTT(30), ZenonT(30) DEF NodeDelete
  <2>2. Loses(n)
    BY <1>2, <1>3, <1>6, <2>1, DeleteReplace
  <2> QED BY <1>1, <2>2
<1> QED
  BY <1>4, <1>5, <1>6

LEMMA InsertNext ==
  ASSUME TreeInv, NEW v \in Values, binary_tree_insert(v)
  PROVE  TreeInv' /\ InTree' = InTree \cup {inserted'}
BY InsertFirst, InsertBelow

LEMMA StepTreeInv == TreeInv /\ [TreeNext]_treeVars => TreeInv'
<1> SUFFICES ASSUME TreeInv, [TreeNext]_treeVars PROVE TreeInv'
  OBVIOUS
<1>1. ASSUME NEW v \in Values, binary_tree_insert(v) PROVE TreeInv'
  BY <1>1, InsertNext
<1>2. ASSUME NEW v \in Values, binary_tree_delete(v) PROVE TreeInv'
  BY <1>2, DeleteNext, SMTT(30), ZenonT(30) DEF Loses
<1>3. CASE UNCHANGED treeVars
  <2>1. root_node' = root_node /\ inserted' = inserted /\ node' = node
    BY <1>3, SMTT(30), ZenonT(30) DEF treeVars
  <2>2. /\ root_node \in Ptr /\ inserted \in 0 .. MaxNodes
        /\ root_node <= inserted /\ (root_node = NULL => inserted = 0)
        /\ node \in [Nodes -> NodeFields]
        /\ \A n \in Nodes :
             /\ {node[n].left, node[n].right} \subseteq {NULL} \cup n + 1 .. inserted
             /\ node[n].is_left \/ node[n].is_right =>
                  node[n].parent \in 1 .. n - 1 /\ n \in 1 .. inserted /\ n # root_node
        /\ \A n \in SubOf(node, root_node) :
             /\ node[n].is_left => \/ node[n].parent \notin SubOf(node, root_node)
                                   \/ node[node[n].parent].left = n
             /\ node[n].is_right => \/ node[n].parent \notin SubOf(node, root_node)
                                    \/ node[node[n].parent].right = n
        /\ Ord(node, root_node)
    BY TreeIs DEF TreeInv
  <2> QED BY <2>1, <2>2, InvNext
<1>4. CASE \E v \in Values : DeleteMissing(v)
  BY <1>3, <1>4 DEF DeleteMissing
<1> QED
  BY <1>1, <1>2, <1>3, <1>4 DEF TreeNext

(***************************************************************************)
(* However many values are inserted and deleted, __binary_tree_node_find   *)
(* finds exactly the values linked into the tree, and every node has its   *)
(* equal or greater values on the left: for every number of nodes and      *)
(* every set of values.                                                    *)
(***************************************************************************)
THEOREM TreeFinds == TreeSpec => []FindsStored
<1>1. TreeSpec => []TreeInv
  BY InitTreeInv, StepTreeInv, PTL DEF TreeSpec
<1> QED
  BY <1>1, FindsStoredFromInv, PTL

(***************************************************************************)
(* What __binary_tree_node_insert adds and __binary_tree_node_delete takes *)
(* out: the insertion links its node and loses none, and the deletion      *)
(* loses at most the deleted node and nodes of its right subtree.          *)
(***************************************************************************)
THEOREM TreeStepLoses == TreeSpec => StepLoses
<1>1. TreeSpec => []TreeInv
  BY InitTreeInv, StepTreeInv, PTL DEF TreeSpec
<1> DEFINE Does(v) == /\ binary_tree_insert(v) => InTree' = InTree \cup {inserted'}
                      /\ binary_tree_delete(v) =>
                           LET n == binary_tree_find(v)
                           IN /\ InTree' \subseteq InTree
                              /\ InTree \ InTree' \subseteq {n} \cup Subtree(node[n].right)
                              /\ ValuesOf(InTree)' \subseteq ValuesOf(InTree)
<1>2. TreeInv /\ [TreeNext]_treeVars => [\A v \in Values : Does(v)]_treeVars
  <2>1. ASSUME TreeInv, NEW v \in Values PROVE Does(v)
    <3>1. binary_tree_insert(v) => InTree' = InTree \cup {inserted'}
      BY <2>1, InsertNext
    <3>2. binary_tree_delete(v) => Loses(binary_tree_find(v))
      BY <2>1, DeleteNext
    <3> QED BY <3>1, <3>2 DEF Loses
  <2> HIDE DEF Does
  <2> QED BY <2>1
<1> QED
  BY <1>1, <1>2, PTL DEF TreeSpec, StepLoses
=============================================================================
