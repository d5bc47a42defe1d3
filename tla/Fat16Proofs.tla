---------------------------- MODULE Fat16Proofs -----------------------------
(***************************************************************************)
(* What fat16_read_file stores, for every volume, path and buffer length   *)
(* and every size of a cluster, and which directory entry its lookup       *)
(* finds.  The reference chain of a file and the reference lookup are      *)
(* recursive functions; what they compute is proved from the least number  *)
(* of links, or of components, for which it would be wrong.                *)
(***************************************************************************)
EXTENDS Fat16, WellFoundedInduction, TLAPS

(***************************************************************************)
(* A set of natural numbers has a least one.                               *)
(***************************************************************************)
LEMMA LeastExists ==
  ASSUME NEW T \in SUBSET Nat, T # {}
  PROVE  \E n \in T : \A m \in T : n <= m
<1> DEFINE R == OpToRel(<, Nat)
<1>1. IsWellFoundedOn(R, Nat)
  BY NatLessThanWellFounded
<1>2. \A n, m \in Nat : m < n => <<m, n>> \in R
  BY DEF OpToRel
<1> HIDE DEF R
<1>3. PICK n \in T : \A m \in T : ~(<<m, n>> \in R)
  BY <1>1, WFMin
<1>4. \A m \in T : ~(m < n)
  BY <1>2, <1>3
<1> QED
  BY <1>4

\* s follows the FAT from cluster c on, for as long as n links take it.
Follows(s, c, n) ==
  /\ \E S : s \in Seq(S)
  /\ Len(s) \in 1 .. n + 1 /\ s[1] = c
  /\ \A k \in 1 .. Len(s) - 1 : s[k + 1] = volume.fat[s[k]] /\ s[k + 1] # EndOfChain
  /\ volume.fat[s[Len(s)]] = EndOfChain \/ Len(s) = n + 1

\* One more link.
Link(s) ==
  IF volume.fat[s[Len(s)]] = EndOfChain THEN s ELSE Append(s, volume.fat[s[Len(s)]])

LEMMA LinkFollows ==
  ASSUME NEW s, NEW c, NEW n \in Nat, Follows(s, c, n)
  PROVE  Follows(Link(s), c, n + 1)
<1> DEFINE x == volume.fat[s[Len(s)]]
<1>1. PICK S : s \in Seq(S)
  BY DEF Follows
<1>2. Len(s) \in Nat \ {0}
  BY <1>1 DEF Follows
<1>3. CASE x = EndOfChain
  BY <1>1, <1>2, <1>3 DEF Follows, Link
<1>4. CASE x # EndOfChain
  <2>1. s \in Seq(S \cup {x}) /\ x \in S \cup {x}
    BY <1>1
  <2>2. /\ Append(s, x) \in Seq(S \cup {x})
        /\ Len(Append(s, x)) = Len(s) + 1
        /\ Append(s, x)[Len(s) + 1] = x
        /\ \A k \in 1 .. Len(s) : Append(s, x)[k] = s[k]
    BY <2>1
  <2>3. Len(s) = n + 1
    BY <1>2, <1>4 DEF Follows
  <2>4. Link(s) = Append(s, x)
    BY <1>4 DEF Link
  <2> HIDE DEF x
  <2> DEFINE t == Append(s, x)
  <2>5. \A k \in 1 .. Len(s) - 1 : t[k + 1] = s[k + 1] /\ t[k] = s[k]
    BY <1>2, <2>2
  <2>6. t[Len(s) + 1] = volume.fat[t[Len(s)]]
    BY <1>2, <2>2 DEF x
  <2>7. \A k \in 1 .. Len(t) - 1 : t[k + 1] = volume.fat[t[k]] /\ t[k + 1] # EndOfChain
    <3> TAKE k \in 1 .. Len(t) - 1
    <3>1. CASE k = Len(s) BY <1>4, <2>2, <2>6, <3>1
    <3>2. CASE k # Len(s)
      <4>1. k \in 1 .. Len(s) - 1 BY <1>2, <2>2, <3>2
      <4> QED BY <2>5, <4>1, SMTT(30), ZenonT(30) DEF Follows
    <3> QED BY <3>1, <3>2
  <2>8. t[1] = c
    BY <1>2, <2>2 DEF Follows
  <2>9. Len(t) = (n + 1) + 1 /\ Len(t) \in 1 .. (n + 1) + 1
    BY <2>2, <2>3
  <2> QED
    BY <2>2, <2>4, <2>7, <2>8, <2>9 DEF Follows
<1> QED
  BY <1>3, <1>4

\* The recursion that TrueChain is defined by has a solution.
Upto(f, c, m) ==
  f = [n \in 0 .. m |-> IF n = 0 THEN <<c>> ELSE Link(f[n - 1])]

LEMMA UptoExists ==
  ASSUME NEW c, NEW N \in Nat
  PROVE  \E f : Upto(f, c, N) /\ \A n \in 0 .. N : Follows(f[n], c, n)
<1> DEFINE Good(f, m) == Upto(f, c, m) /\ \A n \in 0 .. m : Follows(f[n], c, n)
           Bad == {m \in Nat : ~\E f : Good(f, m)}
<1> SUFFICES ASSUME Bad # {} PROVE FALSE
  OBVIOUS
<1>1. PICK m \in Bad : \A j \in Bad : m <= j
  BY LeastExists
<1>2. \E f : Good(f, 0)
  <2> DEFINE f == [n \in 0 .. 0 |-> <<c>>]
  <2>1. \A n \in 0 .. 0 : n = 0 /\ f[n] = <<c>>
    OBVIOUS
  <2>2. Upto(f, c, 0)
    <3>1. f = [n \in 0 .. 0 |-> f[n]]
      OBVIOUS
    <3> HIDE DEF f
    <3>2. \A n \in 0 .. 0 : f[n] = IF n = 0 THEN <<c>> ELSE Link(f[n - 1])
      BY <2>1
    <3> QED BY <3>1, <3>2 DEF Upto
  <2>3. <<c>> \in Seq({c}) /\ Len(<<c>>) = 1 /\ <<c>>[1] = c
    OBVIOUS
  <2>4. Follows(<<c>>, c, 0)
    <3> DEFINE s == <<c>>
    <3>1. (\E S : s \in Seq(S)) /\ Len(s) = 1 /\ s[1] = c
      BY <2>3
    <3> HIDE DEF s
    <3>2. Follows(s, c, 0)
      BY <3>1 DEF Follows
    <3> QED BY <3>2 DEF s
  <2> HIDE DEF f
  <2>5. Good(f, 0)
    BY <2>1, <2>2, <2>4
  <2> QED BY <2>5
<1>3. m \in Nat \ {0} /\ m - 1 \in Nat
  BY <1>1, <1>2
<1>4. PICK f : Good(f, m - 1)
  <2>1. m - 1 \notin Bad
    BY <1>1, <1>3
  <2> QED BY <1>3, <2>1
<1> DEFINE g == [n \in 0 .. m |-> IF n = m THEN Link(f[m - 1]) ELSE f[n]]
<1>5. \A n \in 0 .. m - 1 : g[n] = f[n] /\ n \in 0 .. m
  BY <1>3
<1>6. g[m] = Link(f[m - 1])
  BY <1>3
<1>7. \A n \in 0 .. m : n # m => n \in 0 .. m - 1
  BY <1>3
<1>8. \A n \in 0 .. m : g[n] = IF n = 0 THEN <<c>> ELSE Link(g[n - 1])
  <2> TAKE n \in 0 .. m
  <2>1. CASE n = m
    BY <1>3, <1>5, <1>6, <2>1
  <2>2. CASE n # m
    <3>1. n \in 0 .. m - 1 BY <1>7, <2>2
    <3>2. f[n] = IF n = 0 THEN <<c>> ELSE Link(f[n - 1])
      BY <1>4, <3>1 DEF Upto
    <3>3. n # 0 => n - 1 \in 0 .. m - 1
      BY <1>3, <3>1
    <3> QED BY <1>5, <3>1, <3>2, <3>3
  <2> QED BY <2>1, <2>2
<1>9. Upto(g, c, m)
  <2>1. g = [n \in 0 .. m |-> g[n]]
    OBVIOUS
  <2> HIDE DEF g
  <2> QED BY <1>8, <2>1 DEF Upto
<1>10. \A n \in 0 .. m : Follows(g[n], c, n)
  <2> TAKE n \in 0 .. m
  <2>1. CASE n = m
    <3>1. m - 1 \in 0 .. m - 1 BY <1>3
    <3>2. Follows(f[m - 1], c, m - 1) BY <1>4, <3>1
    <3>3. Follows(Link(f[m - 1]), c, (m - 1) + 1) BY <1>3, <3>2, LinkFollows
    <3>4. (m - 1) + 1 = m BY <1>3
    <3> QED BY <1>6, <2>1, <3>3, <3>4
  <2>2. CASE n # m
    BY <1>4, <1>5, <1>7, <2>2
  <2> QED BY <2>1, <2>2
<1>11. Good(g, m)
  BY <1>9, <1>10
<1> HIDE DEF g
<1> QED
  BY <1>1, <1>11

(***************************************************************************)
(* The chain of a cluster: it begins there, the FAT links each of its      *)
(* clusters to the next, and the last one to the end, unless the links go  *)
(* in a circle.                                                            *)
(***************************************************************************)
LEMMA TrueChainFollows ==
  ASSUME NEW c, Len(volume.fat) \in Nat
  PROVE  Follows(TrueChain(c), c, Len(volume.fat))
<1> DEFINE N == Len(volume.fat)
           F == CHOOSE f : Upto(f, c, N)
<1>1. TrueChain(c) = F[N]
  BY DEF TrueChain, Upto, Link
<1>2. PICK f : Upto(f, c, N) /\ \A n \in 0 .. N : Follows(f[n], c, n)
  BY UptoExists
<1>3. Upto(F, c, N)
  BY <1>2
<1> HIDE DEF F
\* A solution of the recursion is the only one.
<1>4. \A n \in 0 .. N : F[n] = f[n]
  <2> DEFINE Differ == {n \in 0 .. N : F[n] # f[n]}
  <2> SUFFICES ASSUME Differ # {} PROVE FALSE
    OBVIOUS
  <2>1. Differ \in SUBSET Nat
    OBVIOUS
  <2>2. PICK n \in Differ : \A j \in Differ : n <= j
    BY <2>1, LeastExists
  <2>3. /\ F[n] = IF n = 0 THEN <<c>> ELSE Link(F[n - 1])
        /\ f[n] = IF n = 0 THEN <<c>> ELSE Link(f[n - 1])
    BY <1>2, <1>3, <2>2 DEF Upto
  <2>4. n # 0 => n - 1 \in 0 .. N /\ n - 1 \notin Differ
    BY <2>2
  <2> QED BY <2>2, <2>3, <2>4
<1>5. N \in 0 .. N
  OBVIOUS
<1> QED
  BY <1>1, <1>2, <1>4, <1>5

-----------------------------------------------------------------------------
\* What the scans look at are directory entries.
LEMMA ClusterEntriesType ==
  ASSUME volume \in Volumes, NEW c
  PROVE  ClusterEntries(c) \in Seq(FileEntries)
<1>1. /\ volume.data \in Seq(Seq(FileEntries)) /\ Len(volume.data) = Len(volume.fat)
      /\ volume.fat \in Seq(Nat) /\ volume.fat # <<>>
  BY Fat16Assumption
<1>2. Len(volume.fat) \in Nat \ {0}
  BY <1>1
<1>3. \A k \in 1 .. Len(volume.data) : volume.data[k] \in Seq(FileEntries)
  BY <1>1
<1>4. (IF InDevice(c) THEN c ELSE Len(volume.fat)) \in 1 .. Len(volume.fat)
  BY <1>2 DEF InDevice
<1> QED
  BY <1>1, <1>3, <1>4 DEF ClusterEntries

LEMMA RootEntriesType ==
  ASSUME volume \in Volumes, NEW k \in Nat
  PROVE  RootEntries(k) \in Seq(FileEntries)
<1>1. /\ volume.root \in Seq(FileEntries) /\ EntriesPerCluster \in Nat \ {0}
      /\ Len(volume.root) \in Nat
  BY Fat16Assumption
<1>2. CASE k < RootClusters
  <2> DEFINE E == EntriesPerCluster
             N == Len(volume.root)
  <2>1. \A n, e \in Nat : e > 0 /\ k < n \div e => (k + 1) * e <= n
    <3> SUFFICES ASSUME NEW n \in Nat, NEW e \in Nat, e > 0, k < n \div e
                 PROVE  (k + 1) * e <= n
      OBVIOUS
    <3>1. n \div e \in Nat /\ e * (n \div e) <= n
      OBVIOUS
    <3>2. \A a, b \in Nat : a <= b => a * e <= e * b
      OBVIOUS
    <3>3. (k + 1) * e <= e * (n \div e)
      BY <3>1, <3>2
    <3> QED BY <3>1, <3>3
  <2>2. (k + 1) * E <= N
    <3>1. E \in Nat /\ E > 0 /\ N \in Nat
      BY <1>1
    <3>2. k < N \div E
      BY <1>2, Zenon DEF RootClusters
    <3> HIDE DEF E, N
    <3> QED BY <2>1, <3>1, <3>2, Zenon
  <2>3. k * E \in Nat /\ (k + 1) * E = k * E + E /\ E \in Nat
    BY <1>1
  <2>4. \A i \in 1 .. N : volume.root[i] \in FileEntries
    BY <1>1
  <2>5. \A j \in 1 .. E : k * E + j \in 1 .. N
    <3>1. PICK m : m = k * E
      OBVIOUS
    <3> HIDE DEF E, N
    <3>2. m \in Nat /\ m + E <= N /\ N \in Nat /\ E \in Nat
      BY <1>1, <2>2, <2>3, <3>1 DEF N
    <3>3. \A j \in 1 .. E : m + j \in 1 .. N
      BY <3>2
    <3> QED BY <3>1, <3>3
  <2>6. [j \in 1 .. E |-> volume.root[k * E + j]] \in [1 .. E -> FileEntries]
    BY <2>4, <2>5, Zenon
  <2>7. \A s : s \in [1 .. E -> FileEntries] => s \in Seq(FileEntries)
    BY <1>1
  <2> QED BY <1>2, <2>6, <2>7, Zenon DEF RootEntries
<1>3. CASE ~(k < RootClusters)
  BY <1>3, ClusterEntriesType DEF RootEntries
<1> QED
  BY <1>2, <1>3

LEMMA FirstStopEntry ==
  ASSUME NEW es \in Seq(FileEntries), NEW w, Stops(es, w) # {}
  PROVE  es[FirstStop(es, w)] \in FileEntries
<1>1. Stops(es, w) \in SUBSET Nat /\ Stops(es, w) \subseteq DOMAIN es
  BY DEF Stops
<1>2. \E k \in Stops(es, w) : \A j \in Stops(es, w) : k <= j
  BY <1>1, LeastExists, SMTT(30), ZenonT(30)
<1>3. FirstStop(es, w) \in Stops(es, w)
  BY <1>2 DEF FirstStop
<1> QED
  BY <1>1, <1>3

-----------------------------------------------------------------------------
\* The steps of a lookup leave the read that follows it alone.
LEMMA LookupKeeps ==
  ASSUME ReadInv, at \notin {"copy", "read"},
         UNCHANGED <<volume, len, buffer, copied>>,
         dir_entry' \in FileEntries, current_cluster' \in Nat, chain' \in Seq(Nat),
         at' \notin {"file_chain", "copy", "read"},
         at' = "dir_chain" => chain' # <<>>
  PROVE  ReadInv'
<1>1. buffer' = <<>> /\ copied' = 0 /\ volume' \in Volumes /\ len' \in Nat
  BY DEF ReadInv
<1>2. DOMAIN buffer' = {}
  BY <1>1
<1>3. OverrunBounded'
  BY <1>2 DEF OverrunBounded
<1>4. ReadsContent'
  BY DEF ReadsContent
<1> QED
  BY <1>1, <1>3, <1>4 DEF ReadInv

LEMMA RootInv ==
  ASSUME ReadInv, fat16_find_in_root_dir
  PROVE  ReadInv'
<1> DEFINE es == RootEntries(current_cluster)
           k == FirstStop(es, Wanted)
<1>1. es \in Seq(FileEntries) /\ current_cluster \in Nat /\ dir_entry \in FileEntries /\ chain \in Seq(Nat)
  BY RootEntriesType DEF ReadInv
<1>2. /\ at = "root" /\ UNCHANGED <<volume, len, chain, buffer, copied>>
      /\ \/ /\ current_cluster' \in {current_cluster, current_cluster + 1}
            /\ UNCHANGED <<at, dir_entry>>
         \/ /\ Stops(es, Wanted) # {}
            /\ dir_entry' \in {es[k], dir_entry} /\ at' \in {"subdir", "not_found"}
            /\ UNCHANGED current_cluster
  BY <1>1 DEF fat16_find_in_root_dir, RootAnswer
<1>3. dir_entry' \in FileEntries /\ current_cluster' \in Nat
  <2> HIDE DEF es
  <2>1. CASE UNCHANGED <<at, dir_entry>> /\ current_cluster' \in {current_cluster, current_cluster + 1}
    BY <1>1, <2>1
  <2>2. CASE Stops(es, Wanted) # {} /\ dir_entry' \in {es[k], dir_entry} /\ current_cluster' = current_cluster
    BY <1>1, <2>2, FirstStopEntry
  <2> QED BY <1>2, <2>1, <2>2
<1>4. at' \in {"root", "subdir", "not_found"} /\ chain' \in Seq(Nat)
  BY <1>1, <1>2
<1> QED
  BY <1>2, <1>3, <1>4, LookupKeeps

LEMMA EnterInv ==
  ASSUME ReadInv, EnterSubdir
  PROVE  ReadInv'
<1>1. /\ dir_entry \in FileEntries /\ dir_entry.cluster \in Nat /\ chain \in Seq(Nat)
      /\ current_cluster \in Nat
  BY DEF ReadInv, FileEntries
<1>2. /\ at = "subdir" /\ UNCHANGED <<volume, len, dir_entry, buffer, copied>>
      /\ \/ at' = "dir_chain" /\ chain' = <<dir_entry.cluster>> /\ current_cluster' = 0
         \/ at' \in {"found", "not_found"} /\ UNCHANGED <<chain, current_cluster>>
  BY DEF EnterSubdir, DirAnswer
<1>3. <<dir_entry.cluster>> \in Seq(Nat) /\ <<dir_entry.cluster>> # <<>>
  BY <1>1
<1>4. dir_entry' \in FileEntries /\ chain' \in Seq(Nat) /\ current_cluster' \in Nat
  <2>1. CASE chain' = <<dir_entry.cluster>> /\ current_cluster' = 0
    BY <1>1, <1>2, <1>3, <2>1
  <2>2. CASE UNCHANGED <<chain, current_cluster>>
    BY <1>1, <1>2, <2>2
  <2> QED BY <1>2, <2>1, <2>2
<1>5. at' = "dir_chain" => chain' # <<>>
  BY <1>2, <1>3
<1>6. at' \in {"dir_chain", "found", "not_found"}
  BY <1>2
<1> QED
  BY <1>2, <1>4, <1>5, <1>6, LookupKeeps

LEMMA FindInDirInv ==
  ASSUME ReadInv, fat16_find_in_dir
  PROVE  ReadInv'
<1> DEFINE es == ClusterEntries(chain[current_cluster + 1])
           k == FirstStop(es, Wanted)
<1>1. /\ es \in Seq(FileEntries) /\ dir_entry \in FileEntries /\ chain \in Seq(Nat)
      /\ current_cluster \in Nat
  BY ClusterEntriesType DEF ReadInv
<1>2. /\ at = "dir" /\ UNCHANGED <<volume, len, chain, buffer, copied>>
      /\ current_cluster' \in {current_cluster, current_cluster + 1}
      /\ at' \in {"dir", "found", "subdir", "not_found"}
      /\ dir_entry' = dir_entry \/ (Stops(es, Wanted) # {} /\ dir_entry' = es[k])
  BY DEF fat16_find_in_dir, DirAnswer
<1>3. dir_entry' \in FileEntries
  <2> HIDE DEF es
  <2> QED BY <1>1, <1>2, FirstStopEntry
<1>4. current_cluster' \in Nat /\ chain' \in Seq(Nat)
  BY <1>1, <1>2
<1> QED
  BY <1>2, <1>3, <1>4, LookupKeeps

-----------------------------------------------------------------------------
\* A chain is read from the FAT, which does not change.
LEMMA Unmoved ==
  ASSUME UNCHANGED <<volume, dir_entry>>
  PROVE  /\ TrueChain(dir_entry.cluster)' = TrueChain(dir_entry.cluster)
         /\ Readable(dir_entry.cluster)' <=> Readable(dir_entry.cluster)
<1>1. TrueChain(dir_entry.cluster)' = TrueChain(dir_entry.cluster)
  BY DEF TrueChain
<1> QED
  BY <1>1 DEF Readable, InBuffer

\* The file's chain as the proofs use it.
LEMMA FileChain ==
  ASSUME volume \in Volumes, NEW T, T = TrueChain(dir_entry.cluster)
  PROVE  /\ Len(volume.fat) \in Nat /\ Len(T) \in Nat \ {0} /\ DOMAIN T = 1 .. Len(T)
         /\ T[1] = dir_entry.cluster
         /\ \A k \in 1 .. Len(T) - 1 : T[k + 1] = volume.fat[T[k]] /\ T[k + 1] # EndOfChain
         /\ volume.fat[T[Len(T)]] = EndOfChain \/ Len(T) = Len(volume.fat) + 1
<1>1. Len(volume.fat) \in Nat
  BY Fat16Assumption
<1>2. Follows(T, dir_entry.cluster, Len(volume.fat))
  BY <1>1, TrueChainFollows
<1>3. DOMAIN T = 1 .. Len(T) /\ Len(T) \in Nat \ {0}
  BY <1>1, <1>2 DEF Follows
<1> QED
  BY <1>1, <1>2, <1>3 DEF Follows

LEMMA StartInv ==
  ASSUME ReadInv, StartRead
  PROVE  ReadInv'
<1> DEFINE T == TrueChain(dir_entry.cluster)
<1>1. /\ at = "found" /\ UNCHANGED <<volume, len, dir_entry, current_cluster, buffer, copied>>
      /\ chain' = <<dir_entry.cluster>> /\ at' \in {"malformed", "read", "file_chain"}
      /\ at' = "read" => length = 0
      /\ at' = "file_chain" => length # 0
  BY DEF StartRead
<1>2. /\ volume \in Volumes /\ len \in Nat /\ dir_entry \in FileEntries /\ current_cluster \in Nat
      /\ dir_entry.cluster \in Nat /\ dir_entry.file_size \in Nat
      /\ buffer = <<>> /\ copied = 0
  BY <1>1 DEF ReadInv, FileEntries
<1>3. length \in Nat /\ length' = length
  BY <1>1, <1>2 DEF length
<1>4. chain' \in Seq(Nat) /\ chain' # <<>> /\ Len(chain') = 1 /\ chain'[1] = dir_entry.cluster
  BY <1>1, <1>2
<1>5. Len(T) \in Nat \ {0} /\ T[1] = dir_entry.cluster
  BY <1>2, FileChain
<1>6. OnChain(Len(chain))'
  <2>1. TrueChain(dir_entry.cluster)' = T
    BY <1>1, Unmoved
  <2> HIDE DEF T
  <2>2. 1 <= Len(T) /\ \A k \in 1 .. 1 : chain'[k] = T[k]
    BY <1>4, <1>5
  <2> QED BY <1>4, <2>1, <2>2 DEF OnChain
<1>7. DOMAIN buffer' = {}
  BY <1>1, <1>2
<1>8. OverrunBounded'
  BY <1>7 DEF OverrunBounded
<1>9. ReadsContent'
  <2>1. at' = "read" => 0 .. length' - 1 = {}
    BY <1>1, <1>3
  <2> QED BY <2>1 DEF ReadsContent, HoldsFile
<1>10. at' = "file_chain" => length' > 0
  BY <1>1, <1>3
<1> QED
  BY <1>1, <1>2, <1>4, <1>6, <1>8, <1>9, <1>10 DEF ReadInv

LEMMA ChainInv ==
  ASSUME ReadInv, fat16_read_cluster_fat_chain
  PROVE  ReadInv'
<1> DEFINE T == TrueChain(dir_entry.cluster)
<1>1. PICK next \in FatEntry(chain[Len(chain)]) :
        /\ chain' = Append(chain, next)
        /\ at' = CASE next = EndOfChain /\ at = "dir_chain" -> "dir"
                   [] next = EndOfChain /\ at = "file_chain" -> "copy"
                   [] next # EndOfChain /\ (next = 0 \/ Len(chain) > Len(volume.fat)) -> "hung"
                   [] OTHER -> at
  BY DEF fat16_read_cluster_fat_chain
<1>2. /\ at \in {"dir_chain", "file_chain"}
      /\ UNCHANGED <<volume, len, dir_entry, current_cluster, buffer, copied>>
  BY DEF fat16_read_cluster_fat_chain
<1>3. /\ volume \in Volumes /\ len \in Nat /\ dir_entry \in FileEntries /\ current_cluster \in Nat
      /\ chain \in Seq(Nat) /\ chain # <<>> /\ buffer = <<>> /\ copied = 0
      /\ dir_entry.file_size \in Nat
  BY <1>2 DEF ReadInv, FileEntries
<1>4. volume.fat \in Seq(Nat) /\ Len(volume.fat) \in Nat
  BY <1>3, Fat16Assumption
<1>5. next \in Nat
  BY <1>1, <1>4 DEF FatEntry, InBuffer, EndOfChain
<1>6. /\ chain' \in Seq(Nat) /\ chain' # <<>> /\ Len(chain) \in Nat \ {0}
      /\ Len(chain') = Len(chain) + 1 /\ chain'[Len(chain) + 1] = next
      /\ \A k \in 1 .. Len(chain) : chain'[k] = chain[k]
  BY <1>1, <1>3, <1>5, SMTT(30), ZenonT(30)
<1>7. \/ at = "dir_chain" /\ at' \in {"dir", "dir_chain", "hung"}
      \/ at = "file_chain" /\ at' = "hung"
      \/ at = "file_chain" /\ at' = "copy" /\ next = EndOfChain
      \/ at = "file_chain" /\ at' = "file_chain" /\ next # EndOfChain
           /\ Len(chain) <= Len(volume.fat)
  BY <1>1, <1>2, <1>4, <1>6
<1>8. CASE at' \in {"dir", "dir_chain", "hung"}
  BY <1>2, <1>3, <1>6, <1>8, LookupKeeps
<1>9. /\ length \in Nat /\ length' = length /\ DOMAIN buffer' = {}
      /\ at = "file_chain" => length > 0
  BY <1>2, <1>3 DEF length, ReadInv
<1>10. OverrunBounded'
  BY <1>9 DEF OverrunBounded
<1>11. /\ TrueChain(dir_entry.cluster)' = T
       /\ Readable(dir_entry.cluster)' <=> Readable(dir_entry.cluster)
  BY <1>2, Unmoved
\* The FAT links the last cluster of the chain to the next.
<1>12. ASSUME at = "file_chain", Readable(dir_entry.cluster)
       PROVE  /\ Len(chain) <= Len(T) /\ next = volume.fat[T[Len(chain)]]
              /\ \A k \in 1 .. Len(chain) : chain'[k] = T[k]
              /\ Len(T) \in Nat
  <2>1. OnChain(Len(chain))
    BY <1>12 DEF ReadInv
  <2>2. Len(T) \in Nat /\ DOMAIN T = 1 .. Len(T)
    BY <1>3, FileChain
  <2>3. \A k \in DOMAIN T : InBuffer(T[k])
    BY <1>12 DEF Readable
  <2>4. Len(chain) <= Len(T) /\ \A k \in 1 .. Len(chain) : chain[k] = T[k]
    BY <2>1 DEF OnChain
  <2> HIDE DEF T
  <2>5. chain[Len(chain)] = T[Len(chain)] /\ InBuffer(chain[Len(chain)])
    BY <1>6, <2>2, <2>3, <2>4
  <2>6. next = volume.fat[T[Len(chain)]]
    BY <1>1, <2>5 DEF FatEntry
  <2> QED BY <1>6, <2>2, <2>4, <2>6
<1>13. CASE at = "file_chain" /\ at' = "copy" /\ next = EndOfChain
  <2>1. ASSUME Readable(dir_entry.cluster) PROVE OnChain(Len(TrueChain(dir_entry.cluster)))'
    <3>1. Len(chain) = Len(T)
      <4>1. Len(chain) < Len(T) => T[Len(chain) + 1] = next /\ T[Len(chain) + 1] # EndOfChain
        <5>1. Len(chain) < Len(T) => Len(chain) \in 1 .. Len(T) - 1
          BY <1>6, <1>12, <1>13, <2>1
        <5> QED BY <1>3, <1>12, <1>13, <2>1, <5>1, FileChain, SMTT(30), ZenonT(30)
      <4> QED BY <1>6, <1>12, <1>13, <2>1, <4>1
    <3> QED BY <1>11, <1>12, <1>13, <2>1, <3>1 DEF OnChain
  <2>2. HoldsFile(copied)'
    <3>1. 0 .. copied' - 1 = {} BY <1>2, <1>3
    <3> QED BY <3>1 DEF HoldsFile
  <2>3. /\ copied' % cluster_size = 0 /\ copied' < length' + cluster_size
        /\ DOMAIN buffer' = 0 .. copied' - 1 /\ copied' \in Nat
    BY <1>2, <1>3, <1>9, Fat16Assumption
  <2>4. ReadsContent'
    BY <1>13 DEF ReadsContent
  <2>5. length' > 0
    BY <1>9, <1>13
  <2> QED BY <1>2, <1>3, <1>6, <1>10, <1>11, <1>13, <2>1, <2>2, <2>3, <2>4, <2>5 DEF ReadInv
<1>14. CASE at = "file_chain" /\ at' = "file_chain" /\ next # EndOfChain
             /\ Len(chain) <= Len(volume.fat)
  <2>1. ASSUME Readable(dir_entry.cluster) PROVE OnChain(Len(chain))'
    <3>1. Len(chain) < Len(T) /\ T[Len(chain) + 1] = next
      <4>1. Len(chain) # Len(T)
        BY <1>3, <1>4, <1>6, <1>12, <1>14, <2>1, FileChain, SMTT(30), ZenonT(30)
      <4>2. Len(chain) \in 1 .. Len(T) - 1
        BY <1>6, <1>12, <1>14, <2>1, <4>1
      <4>3. T[Len(chain) + 1] = volume.fat[T[Len(chain)]]
        BY <1>3, <4>2, FileChain
      <4> QED BY <1>6, <1>12, <1>14, <2>1, <4>2, <4>3
    <3>2. \A k \in 1 .. Len(chain) + 1 : chain'[k] = T[k]
      BY <1>6, <1>12, <1>14, <2>1, <3>1, SMTT(30), ZenonT(30)
    <3> HIDE DEF T
    <3> QED BY <1>6, <1>11, <1>12, <1>14, <2>1, <3>1, <3>2 DEF OnChain
  <2>2. ReadsContent'
    BY <1>14 DEF ReadsContent
  <2>3. length' > 0
    BY <1>9, <1>14
  <2> QED BY <1>2, <1>3, <1>6, <1>10, <1>11, <1>14, <2>1, <2>2, <2>3 DEF ReadInv
<1> QED
  BY <1>7, <1>8, <1>13, <1>14

-----------------------------------------------------------------------------
\* Two multiples of n less than n apart are the same, and the numbers from
\* a multiple on share its quotient.
LEMMA Multiples ==
  ASSUME NEW n \in Nat \ {0}, NEW a \in Int, NEW b \in Int,
         a % n = 0, b % n = 0, a - b < n, b - a < n
  PROVE  a = b
<1> DEFINE p == a \div n
           q == b \div n
<1>1. p \in Int /\ q \in Int /\ a = n * p /\ b = n * q
  OBVIOUS
<1> HIDE DEF p, q
<1>2. n * (p - q) = a - b /\ n * (q - p) = b - a
  BY <1>1
<1>3. \A d \in Int : d >= 1 => n * d >= n
  OBVIOUS
<1>4. ~(p - q >= 1) /\ ~(q - p >= 1)
  BY <1>1, <1>2, <1>3
<1>5. p = q
  BY <1>1, <1>4
<1> QED
  BY <1>1, <1>5

LEMMA SameQuotient ==
  ASSUME NEW n \in Nat \ {0}, NEW a \in Nat, a % n = 0, NEW o \in a .. a + n - 1
  PROVE  o \div n = a \div n /\ o % n = o - a
<1> DEFINE p == a \div n
           q == o \div n
           r == o % n
<1>1. p \in Nat /\ a = n * p /\ o \in Nat
  OBVIOUS
<1>2. q \in Nat /\ r \in 0 .. n - 1 /\ o = n * q + r
  BY <1>1
<1> HIDE DEF p, q, r
<1>3. n * (p - q) = a - (o - r) /\ n * (q - p) = (o - r) - a
  BY <1>1, <1>2
<1>4. \A d \in Int : d >= 1 => n * d >= n
  OBVIOUS
<1>5. a - (o - r) < n /\ (o - r) - a < n
  BY <1>1, <1>2
<1>6. ~(p - q >= 1) /\ ~(q - p >= 1)
  BY <1>1, <1>2, <1>3, <1>4, <1>5
<1>7. p = q
  BY <1>1, <1>2, <1>6
<1>8. r = o - a
  BY <1>1, <1>2, <1>7
<1> QED
  BY <1>7, <1>8 DEF p, q, r

LEMMA MultipleOf ==
  ASSUME NEW n \in Nat \ {0}, NEW q \in Int, NEW x \in Int, x = n * q
  PROVE  x % n = 0
<1> DEFINE p == x \div n
           r == x % n
<1>1. p \in Int /\ r \in 0 .. n - 1 /\ x = n * p + r
  OBVIOUS
<1> HIDE DEF p, r
<1>2. n * (q - p) = r
  BY <1>1
<1>3. \A d \in Int : (d >= 1 => n * d >= n) /\ (d <= -1 => n * d <= -n)
  OBVIOUS
<1>4. ~(q - p >= 1) /\ ~(q - p <= -1)
  BY <1>1, <1>2, <1>3
<1>5. q - p = 0
  BY <1>1, <1>4
<1> QED
  BY <1>1, <1>2, <1>5 DEF r

LEMMA Within ==
  ASSUME NEW n \in Nat \ {0}, NEW l \in Nat, NEW end \in Nat,
         end <= l + n, l % n = 0 => end <= l
  PROVE  \A o \in 0 .. end - 1 : o < l \/ (l % n # 0 /\ o < l + n)
<1> TAKE o \in 0 .. end - 1
<1>1. o \in Int /\ o < end /\ o < l + n
  OBVIOUS
<1>2. CASE l % n = 0 BY <1>1, <1>2
<1>3. CASE l % n # 0 BY <1>1, <1>3
<1> QED BY <1>2, <1>3

\* A round of the loop with l bytes to read and c of them stored.
LEMMA Round ==
  ASSUME NEW n \in Nat \ {0}, NEW l \in Nat, NEW c \in Nat, c % n = 0, c < l
  PROVE  /\ (c + n) % n = 0
         /\ l % n = 0 => c + n <= l
<1> DEFINE p == c \div n
<1>1. p \in Int /\ c = n * p
  OBVIOUS
<1> HIDE DEF p
<1>2. c + n = n * (p + 1)
  BY <1>1
<1>3. (c + n) % n = 0
  BY <1>1, <1>2, MultipleOf
<1>4. ASSUME l % n = 0, c + n > l PROVE FALSE
  <2>1. c + n = l
    <3>1. (c + n) - l < n /\ l - (c + n) < n
      BY <1>4
    <3> QED BY <1>3, <1>4, <3>1, Multiples, SMTT(30), ZenonT(30)
  <2> QED BY <1>4, <2>1
<1> QED
  BY <1>3, <1>4

\* The end of the loop: the tail goes up to the next cluster's end.
LEMMA TailEnd ==
  ASSUME NEW n \in Nat \ {0}, NEW l \in Nat, NEW c \in Nat,
         c % n = 0, l <= c, c < l + n,
         NEW end, end = c + (l % n)
  PROVE  end <= l + n /\ (l % n = 0 => end <= l)
<1>0. PICK r : r = l % n
  OBVIOUS
<1>1. r \in 0 .. n - 1 /\ end = c + r
  BY <1>0
<1>2. CASE r = 0
  <2>1. /\ c \in Int /\ l \in Int /\ l % n = 0 /\ c - l < n /\ l - c < n
    BY <1>0, <1>2
  <2>2. c = l
    BY <2>1, Multiples, Zenon
  <2> QED BY <1>0, <1>1, <1>2, <2>2
<1>3. CASE r # 0
  <2> DEFINE q == l \div n
             b == l - r + n
  <2>1. q \in Int /\ l = n * q + r
    BY <1>0
  <2> HIDE DEF q
  <2>2. b \in Int /\ b = n * (q + 1) /\ q + 1 \in Int
    BY <1>1, <2>1
  <2>3. c \in Int /\ c - b < n /\ b - c < n
    BY <1>1, <1>3
  <2> HIDE DEF b
  <2>4. b % n = 0
    BY <2>2, MultipleOf, Zenon
  <2>5. c = b
    BY <2>2, <2>3, <2>4, Multiples, Zenon
  <2> QED BY <1>0, <1>1, <1>3, <2>5 DEF b
<1> QED
  BY <1>2, <1>3

\* What is known while the file is copied.
LEMMA InCopy ==
  ASSUME ReadInv, at = "copy"
  PROVE  /\ cluster_size \in Nat \ {0} /\ length \in Nat \ {0} /\ copied \in Nat
         /\ volume \in Volumes /\ copied % cluster_size = 0
         /\ copied < length + cluster_size /\ DOMAIN buffer = 0 .. copied - 1
         /\ Readable(dir_entry.cluster) =>
              OnChain(Len(TrueChain(dir_entry.cluster))) /\ HoldsFile(copied)
         /\ length % cluster_size \in 0 .. cluster_size - 1
<1>1. cluster_size \in Nat \ {0}
  BY Fat16Assumption
<1>2. length \in Nat \ {0}
  <2>1. dir_entry.file_size \in Nat /\ len \in Nat BY DEF ReadInv, FileEntries
  <2>2. length > 0 BY DEF ReadInv
  <2> QED BY <2>1, <2>2 DEF length
<1>3. length % cluster_size \in 0 .. cluster_size - 1
  BY <1>1, <1>2
<1> QED
  BY <1>1, <1>2, <1>3 DEF ReadInv

LEMMA CopyInv ==
  ASSUME ReadInv, CopyCluster
  PROVE  ReadInv'
<1> DEFINE T == TrueChain(dir_entry.cluster)
           c == chain[copied \div cluster_size + 1]
<1>1. /\ at = "copy" /\ copied < length
      /\ buffer' = Store(copied, c, cluster_size) /\ copied' = copied + cluster_size
      /\ UNCHANGED <<volume, len, at, dir_entry, current_cluster, chain>>
  BY DEF CopyCluster
<1>2. /\ cluster_size \in Nat \ {0} /\ length \in Nat \ {0} /\ copied \in Nat
      /\ volume \in Volumes /\ copied % cluster_size = 0
      /\ copied < length + cluster_size /\ DOMAIN buffer = 0 .. copied - 1
      /\ length % cluster_size \in 0 .. cluster_size - 1
  BY <1>1, InCopy
<1>3. length' = length
  BY <1>1 DEF length
<1>4. copied' \in Nat /\ copied' < length + cluster_size /\ copied' % cluster_size = 0
  <2>1. (copied + cluster_size) % cluster_size = 0
    BY <1>1, <1>2, Round
  <2>2. copied + cluster_size \in Nat /\ copied + cluster_size < length + cluster_size
    BY <1>1, <1>2
  <2> QED BY <1>1, <2>1, <2>2
<1>5. /\ DOMAIN buffer' = 0 .. copied' - 1
      /\ \A o \in 0 .. copied' - 1 :
           buffer'[o] = IF o < copied THEN buffer[o] ELSE <<c, o - copied>>
  <2> HIDE DEF c
  <2>1. PICK end : end = copied' - 1 /\ end = copied + cluster_size - 1
    BY <1>1, <1>2
  <2>2. buffer' = [o \in 0 .. end |-> IF o < copied THEN buffer[o] ELSE <<c, o - copied>>]
    BY <1>1, <2>1 DEF Store
  <2> QED BY <2>1, <2>2
<1>6. OverrunBounded'
  <2>1. PICK l, end : l = length /\ end = copied' /\ l \in Nat /\ end \in Nat
    BY <1>2, <1>4
  <2>2. (l % cluster_size = 0 => end <= l) /\ end <= l + cluster_size
    <3>1. copied \in Nat /\ copied % cluster_size = 0 /\ copied < l /\ end = copied + cluster_size
      BY <1>1, <1>2, <2>1
    <3>2. l % cluster_size = 0 => copied + cluster_size <= l
      BY <1>2, <2>1, <3>1, Round
    <3> QED BY <1>2, <2>1, <3>1, <3>2
  <2>3. \A o \in 0 .. end - 1 : o < l \/ (l % cluster_size # 0 /\ o < l + cluster_size)
    BY <1>2, <2>1, <2>2, Within
  <2> QED BY <1>3, <1>5, <2>1, <2>3 DEF OverrunBounded
<1>7. /\ TrueChain(dir_entry.cluster)' = T
      /\ Readable(dir_entry.cluster)' <=> Readable(dir_entry.cluster)
  BY <1>1, Unmoved
<1>8. ASSUME Readable(dir_entry.cluster) PROVE HoldsFile(copied)'
  <2>1. OnChain(Len(T)) /\ HoldsFile(copied)
    BY <1>1, <1>8, InCopy
  <2>2. ASSUME NEW o \in 0 .. copied' - 1, o \div cluster_size < Len(T)
        PROVE  buffer'[o] = <<T[o \div cluster_size + 1], o % cluster_size>>
    <3>1. CASE o < copied
      <4>1. o \in 0 .. copied - 1 BY <1>2, <1>4, <3>1
      <4>2. buffer[o] = <<T[o \div cluster_size + 1], o % cluster_size>>
        BY <2>1, <2>2, <4>1 DEF HoldsFile
      <4> QED BY <1>5, <3>1, <4>2
    <3>2. CASE ~(o < copied)
      <4>1. o \in copied .. copied + cluster_size - 1 BY <1>1, <1>2, <1>4, <3>2
      <4>2. o \div cluster_size = copied \div cluster_size /\ o % cluster_size = o - copied
        BY <1>2, <4>1, SameQuotient
      <4>3. o \div cluster_size \in Nat /\ Len(T) \in Nat
        <5>1. o \in Nat BY <1>2, <4>1
        <5>2. o \div cluster_size \in Nat BY <1>2, <5>1
        <5>3. Len(T) \in Nat BY <1>2, FileChain
        <5> QED BY <5>2, <5>3
      <4>4. o \div cluster_size + 1 \in 1 .. Len(T)
        BY <2>2, <4>3
      <4>5. c = T[o \div cluster_size + 1]
        BY <2>1, <4>2, <4>4 DEF OnChain
      <4> HIDE DEF c
      <4> QED BY <1>5, <3>2, <4>2, <4>5
    <3> QED BY <3>1, <3>2
  <2> HIDE DEF T
  <2> QED BY <1>7, <2>2 DEF HoldsFile
<1>9. Readable(dir_entry.cluster) => OnChain(Len(TrueChain(dir_entry.cluster)))'
  <2>1. Readable(dir_entry.cluster) => OnChain(Len(T))
    BY <1>1, InCopy
  <2> HIDE DEF T
  <2> QED BY <1>1, <1>7, <2>1 DEF OnChain, T
<1>10. ReadsContent'
  BY <1>1 DEF ReadsContent
<1>11. volume' \in Volumes /\ len' \in Nat /\ dir_entry' \in FileEntries /\ current_cluster' \in Nat
       /\ chain' \in Seq(Nat)
  BY <1>1 DEF ReadInv
<1> QED
  BY <1>1, <1>2, <1>3, <1>4, <1>5, <1>6, <1>7, <1>8, <1>9, <1>10, <1>11 DEF ReadInv

LEMMA TailInv ==
  ASSUME ReadInv, CopyTail
  PROVE  ReadInv'
<1> DEFINE T == TrueChain(dir_entry.cluster)
           r == length % cluster_size
<1>1. /\ at = "copy" /\ copied >= length /\ at' = "read"
      /\ buffer' = Store(copied, 0, r)
      /\ UNCHANGED <<volume, len, dir_entry, current_cluster, chain, copied>>
  BY DEF CopyTail
<1>2. /\ cluster_size \in Nat \ {0} /\ length \in Nat \ {0} /\ copied \in Nat
      /\ volume \in Volumes /\ copied % cluster_size = 0
      /\ copied < length + cluster_size /\ r \in 0 .. cluster_size - 1
  BY <1>1, InCopy
<1> HIDE DEF r
<1>3. length' = length
  BY <1>1 DEF length
<1>4. /\ DOMAIN buffer' = 0 .. copied + r - 1
      /\ \A o \in 0 .. copied + r - 1 : o < copied => buffer'[o] = buffer[o]
  BY <1>1 DEF Store
<1>5. OverrunBounded'
  <2>1. PICK l, end : l = length /\ end = copied + r /\ l \in Nat /\ end \in Nat
    BY <1>2
  <2>2. (l % cluster_size = 0 => end <= l) /\ end <= l + cluster_size
    <3>1. /\ copied \in Nat /\ copied % cluster_size = 0 /\ l <= copied
          /\ copied < l + cluster_size /\ end = copied + (l % cluster_size)
      BY <1>1, <1>2, <2>1 DEF r
    <3> QED BY <1>2, <2>1, <3>1, TailEnd
  <2>3. \A o \in 0 .. end - 1 : o < l \/ (l % cluster_size # 0 /\ o < l + cluster_size)
    BY <1>2, <2>1, <2>2, Within
  <2>4. DOMAIN buffer' = 0 .. end - 1
    BY <1>2, <1>4, <2>1
  <2> QED BY <1>3, <2>1, <2>3, <2>4 DEF OverrunBounded
<1>6. /\ TrueChain(dir_entry.cluster)' = T
      /\ Readable(dir_entry.cluster)' <=> Readable(dir_entry.cluster)
  BY <1>1, Unmoved
<1>7. ASSUME Readable(dir_entry.cluster) PROVE HoldsFile(length)'
  <2>1. HoldsFile(copied)
    BY <1>1, <1>7, InCopy
  <2>2. \A o \in 0 .. length - 1 : o \in 0 .. copied - 1 /\ buffer'[o] = buffer[o]
    BY <1>1, <1>2, <1>4
  <2> HIDE DEF T
  <2> QED BY <1>3, <1>6, <2>1, <2>2 DEF HoldsFile, T
<1>8. ReadsContent'
  BY <1>6, <1>7 DEF ReadsContent
<1>9. /\ volume' \in Volumes /\ len' \in Nat /\ dir_entry' \in FileEntries /\ current_cluster' \in Nat
      /\ chain' \in Seq(Nat) /\ copied' \in Nat
  BY <1>1 DEF ReadInv
<1> QED
  BY <1>1, <1>5, <1>8, <1>9 DEF ReadInv

LEMMA InitReadInv == FatInit => ReadInv
<1> SUFFICES ASSUME FatInit PROVE ReadInv
  OBVIOUS
<1>1. /\ at = "root" /\ dir_entry = NoEntry /\ current_cluster = 0 /\ chain = <<>> /\ buffer = <<>>
      /\ copied = 0 /\ volume \in Volumes /\ len \in Nat
  BY Fat16Assumption DEF FatInit
<1>2. NoEntry \in FileEntries
  <2>1. EndMark \in Names
    BY Fat16Assumption
  <2>2. "file" \in {"file", "dir"} /\ 0 \in Nat
    OBVIOUS
  <2> QED BY <2>1, <2>2, Zenon DEF NoEntry, FileEntries
<1>3. DOMAIN buffer = {} /\ chain \in Seq(Nat)
  BY <1>1
<1>4. OverrunBounded
  BY <1>3 DEF OverrunBounded
<1>5. ReadsContent
  BY <1>1 DEF ReadsContent
<1> QED
  BY <1>1, <1>2, <1>3, <1>4, <1>5 DEF ReadInv

LEMMA StepReadInv == ReadInv /\ [FatNext]_fatVars => ReadInv'
<1> SUFFICES ASSUME ReadInv, [FatNext]_fatVars PROVE ReadInv'
  OBVIOUS
<1>1. CASE fat16_find_in_root_dir BY <1>1, RootInv
<1>2. CASE EnterSubdir BY <1>2, EnterInv
<1>3. CASE fat16_read_cluster_fat_chain BY <1>3, ChainInv
<1>4. CASE fat16_find_in_dir BY <1>4, FindInDirInv
<1>5. CASE StartRead BY <1>5, StartInv
<1>6. CASE CopyCluster BY <1>6, CopyInv
<1>7. CASE CopyTail BY <1>7, TailInv
<1>8. CASE UNCHANGED fatVars
  <2>1. UNCHANGED <<volume, len, at, dir_entry, current_cluster, chain, buffer, copied>>
    BY <1>8 DEF fatVars
  <2>2. /\ TrueChain(dir_entry.cluster)' = TrueChain(dir_entry.cluster)
        /\ Readable(dir_entry.cluster)' <=> Readable(dir_entry.cluster)
    BY <2>1, Unmoved
  <2>3. length' = length
    BY <2>1 DEF length
  <2>4. /\ OverrunBounded' <=> OverrunBounded
        /\ \A n : HoldsFile(n)' <=> HoldsFile(n)
        /\ \A n : OnChain(n)' <=> OnChain(n)
    BY <2>1, <2>2, <2>3 DEF OverrunBounded, HoldsFile, OnChain
  <2>5. ReadsContent' <=> ReadsContent
    BY <2>1, <2>2, <2>3 DEF ReadsContent, HoldsFile
  <2> QED BY <2>1, <2>2, <2>3, <2>4, <2>5 DEF ReadInv, OnChain, HoldsFile
<1> QED
  BY <1>1, <1>2, <1>3, <1>4, <1>5, <1>6, <1>7, <1>8 DEF FatNext, Rest

(***************************************************************************)
(* fat16_read_file gives the file, for every volume, path and length: the  *)
(* bytes of its chain in their order, however many clusters it takes.      *)
(***************************************************************************)
THEOREM FileReadRight == FatSpec => []ReadsContent
<1>1. ReadInv => ReadsContent
  BY DEF ReadInv
<1> QED
  BY InitReadInv, StepReadInv, <1>1, PTL DEF FatSpec

(***************************************************************************)
(* What fat16_read_file stores behind the bytes asked for is never more    *)
(* than a cluster, and nothing at all after whole clusters.                *)
(***************************************************************************)
THEOREM ReadOverrun == FatSpec => []OverrunBounded
<1>1. ReadInv => OverrunBounded
  BY DEF ReadInv
<1> QED
  BY InitReadInv, StepReadInv, <1>1, PTL DEF FatSpec

-----------------------------------------------------------------------------
(***************************************************************************)
(* The lookup.  A scan of a directory, cluster by cluster, finds what the  *)
(* whole directory has under the name.                                     *)
(***************************************************************************)
LEMMA MarksDiffer == EndMark # Deleted
<1>1. EndMark.stem = "end" /\ Deleted.stem = "deleted"
  BY DEF EndMark, Deleted
<1> QED
  BY <1>1

LEMMA NamedFirst ==
  ASSUME NEW es, NEW n \in Nat, DOMAIN es = 1 .. n, NEW w, w # EndMark,
         NEW p \in Stops(es, w), \A i \in Stops(es, w) : p <= i
  PROVE  Named(es, w) = IF es[p].name = w THEN {es[p]} ELSE {}
<1> DEFINE live == {k \in DOMAIN es : /\ es[k].name = w /\ w # Deleted
                                      /\ \A j \in 1 .. k : es[j].name # EndMark}
           first == {j \in live : \A i \in live : j <= i}
<1>1. Named(es, w) = {es[k] : k \in first}
  BY DEF Named
<1>2. p \in 1 .. n /\ es[p].name \in {EndMark, w} \ {Deleted}
  BY DEF Stops
<1>3. \A k \in live : k \in Stops(es, w) /\ k \in 1 .. n
  BY DEF Stops
<1>4. CASE es[p].name = w
  <2>1. \A j \in 1 .. p : es[j].name # EndMark
    <3> SUFFICES ASSUME NEW j \in 1 .. p, es[j].name = EndMark PROVE FALSE
      OBVIOUS
    <3>1. j \in 1 .. n
      BY <1>2
    <3>2. j \in Stops(es, w)
      BY <3>1, MarksDiffer DEF Stops
    <3>3. p <= j
      BY <3>2
    <3>4. p = j
      BY <1>2, <3>3
    <3> QED BY <1>4, <3>4
  <2>2. p \in live
    BY <1>2, <1>4, <2>1
  <2>3. \A i \in live : p <= i
    BY <1>3
  <2> HIDE DEF live
  <2>4. first = {p}
    <3>1. p \in first
      BY <2>2, <2>3
    <3>2. ASSUME NEW j \in first PROVE j = p
      <4>1. j \in live /\ j <= p
        BY <2>2
      <4>2. p <= j /\ j \in 1 .. n
        BY <1>3, <4>1
      <4> QED BY <1>2, <4>1, <4>2
    <3> QED BY <3>1, <3>2
  <2> HIDE DEF first
  <2> QED BY <1>1, <1>4, <2>4
<1>5. CASE es[p].name # w
  <2>1. es[p].name = EndMark
    BY <1>2, <1>5
  <2>2. live = {}
    <3> SUFFICES ASSUME NEW k \in live PROVE FALSE
      OBVIOUS
    <3>1. p <= k /\ k \in 1 .. n
      BY <1>3
    <3>2. p \in 1 .. k
      BY <1>2, <3>1
    <3> QED BY <2>1, <3>2
  <2> HIDE DEF live
  <2>3. first = {}
    BY <2>2
  <2> HIDE DEF first
  <2> QED BY <1>1, <1>5, <2>3
<1> QED
  BY <1>4, <1>5

LEMMA NamedNone ==
  ASSUME NEW es, NEW w, Stops(es, w) = {}
  PROVE  Named(es, w) = {}
<1> DEFINE live == {k \in DOMAIN es : /\ es[k].name = w /\ w # Deleted
                                      /\ \A j \in 1 .. k : es[j].name # EndMark}
<1>1. live = {}
  BY DEF Stops
<1>2. Named(es, w) = {es[k] : k \in {j \in live : \A i \in live : j <= i}}
  BY DEF Named
<1> HIDE DEF live
<1> QED
  BY <1>1, <1>2

LEMMA NamedOne ==
  ASSUME NEW es, DOMAIN es \subseteq Int, NEW w, NEW x \in Named(es, w), NEW y \in Named(es, w)
  PROVE  x = y
<1> DEFINE live == {k \in DOMAIN es : /\ es[k].name = w /\ w # Deleted
                                      /\ \A j \in 1 .. k : es[j].name # EndMark}
<1>1. Named(es, w) = {es[k] : k \in {j \in live : \A i \in live : j <= i}}
  BY DEF Named
<1>2. \A k \in live : k \in Int
  OBVIOUS
<1> HIDE DEF live
<1>3. PICK j \in live : x = es[j] /\ \A i \in live : j <= i
  BY <1>1
<1>4. PICK k \in live : y = es[k] /\ \A i \in live : k <= i
  BY <1>1
<1>5. j <= k /\ k <= j /\ j \in Int /\ k \in Int
  BY <1>2, <1>3, <1>4
<1>6. j = k
  BY <1>5
<1> QED
  BY <1>3, <1>4, <1>6

\* The places of a directory of m clusters of e entries.
LEMMA Place ==
  ASSUME NEW e \in Nat \ {0}, NEW m \in Nat
  PROVE  /\ \A b \in 0 .. m - 1, k \in 1 .. e : b * e + k \in 1 .. e * m
         /\ \A p \in 1 .. e * m : \E b \in 0 .. m - 1, k \in 1 .. e : p = b * e + k
         /\ \A b, c \in Nat, j, k \in 1 .. e :
              b * e + j < c * e + k => b < c \/ (b = c /\ j < k)
<1>1. ASSUME NEW b \in Nat, NEW c \in Nat, b < c PROVE b * e + e <= c * e
  <2>1. \A x \in Nat : x >= 1 => x * e >= e
    OBVIOUS
  <2>2. c - b \in Nat /\ c - b >= 1 /\ (c - b) * e = c * e - b * e
    BY <1>1
  <2>3. b * e \in Int /\ c * e \in Int /\ (c - b) * e >= e
    BY <2>1, <2>2
  <2> QED BY <2>2, <2>3
<1>2. ASSUME NEW b \in 0 .. m - 1, NEW k \in 1 .. e PROVE b * e + k \in 1 .. e * m
  <2>1. b \in Nat /\ b < m /\ m * e = e * m
    OBVIOUS
  <2>2. b * e + e <= e * m
    BY <1>1, <2>1
  <2>3. PICK x, y : x = b * e /\ y = e * m
    OBVIOUS
  <2>4. x \in Nat /\ y \in Nat /\ x + e <= y
    BY <2>1, <2>2, <2>3
  <2>5. x + k \in 1 .. y
    BY <2>4
  <2> QED BY <2>3, <2>5
<1>3. ASSUME NEW p \in 1 .. e * m PROVE \E b \in 0 .. m - 1, k \in 1 .. e : p = b * e + k
  <2> DEFINE q == (p - 1) \div e
             r == (p - 1) % e
  <2>1. q \in Nat /\ r \in 0 .. e - 1 /\ p - 1 = e * q + r
    OBVIOUS
  <2> HIDE DEF q, r
  <2>2. q < m
    <3> SUFFICES ASSUME q >= m PROVE FALSE
      BY <2>1
    <3>1. \A x \in Nat : e * x >= 0
      OBVIOUS
    <3>2. q - m \in Nat /\ e * (q - m) = e * q - e * m
      BY <2>1
    <3>3. e * q >= e * m
      BY <2>1, <3>1, <3>2
    <3> QED BY <2>1, <3>3
  <2>3. q \in 0 .. m - 1 /\ r + 1 \in 1 .. e /\ p = q * e + (r + 1)
    BY <2>1, <2>2
  <2> QED BY <2>3
<1>4. ASSUME NEW b \in Nat, NEW c \in Nat, NEW j \in 1 .. e, NEW k \in 1 .. e,
             b * e + j < c * e + k
      PROVE  b < c \/ (b = c /\ j < k)
  <2>1. PICK x, y : x = b * e /\ y = c * e /\ x \in Nat /\ y \in Nat
    OBVIOUS
  <2>2. x + j < y + k
    BY <1>4, <2>1
  <2>3. ~(c < b)
    <3> SUFFICES ASSUME c < b PROVE FALSE
      OBVIOUS
    <3>1. y + e <= x
      BY <1>1, <2>1
    <3> QED BY <2>1, <2>2, <3>1
  <2>4. CASE b = c
    BY <2>1, <2>2, <2>4
  <2> QED BY <2>3, <2>4
<1> QED
  BY <1>2, <1>3, <1>4

\* es is the m clusters cl, one after the other.
Clustered(es, cl, m) ==
  /\ DOMAIN es = 1 .. EntriesPerCluster * m
  /\ \A b \in 0 .. m - 1 :
       /\ DOMAIN cl[b] = 1 .. EntriesPerCluster
       /\ \A k \in 1 .. EntriesPerCluster : es[b * EntriesPerCluster + k] = cl[b][k]

LEMMA StopOfCluster ==
  ASSUME NEW es, NEW cl, NEW m \in Nat, Clustered(es, cl, m), NEW w, NEW i \in Stops(es, w)
  PROVE  \E b \in 0 .. m - 1, k \in 1 .. EntriesPerCluster :
           i = b * EntriesPerCluster + k /\ k \in Stops(cl[b], w)
<1>1. EntriesPerCluster \in Nat \ {0}
  BY Fat16Assumption
<1>2. i \in 1 .. EntriesPerCluster * m /\ es[i].name \in {EndMark, w} \ {Deleted}
  BY DEF Stops, Clustered
<1>3. PICK b \in 0 .. m - 1, k \in 1 .. EntriesPerCluster : i = b * EntriesPerCluster + k
  <2>1. \A p \in 1 .. EntriesPerCluster * m :
          \E b \in 0 .. m - 1, k \in 1 .. EntriesPerCluster : p = b * EntriesPerCluster + k
    BY <1>1, Place
  <2> QED BY <1>2, <2>1
<1>4. es[i] = cl[b][k] /\ k \in DOMAIN cl[b]
  BY <1>3 DEF Clustered
<1>5. k \in Stops(cl[b], w)
  BY <1>2, <1>4 DEF Stops
<1> QED
  BY <1>3, <1>5

LEMMA ScanPasses ==
  ASSUME NEW es, NEW cl, NEW m \in Nat, Clustered(es, cl, m), NEW w,
         \A b \in 0 .. m - 1 : Stops(cl[b], w) = {}
  PROVE  Stops(es, w) = {}
<1> SUFFICES ASSUME NEW i \in Stops(es, w) PROVE FALSE
  OBVIOUS
<1>1. PICK b \in 0 .. m - 1, k \in 1 .. EntriesPerCluster :
        i = b * EntriesPerCluster + k /\ k \in Stops(cl[b], w)
  BY StopOfCluster
<1> QED
  BY <1>1

LEMMA FirstStopIs ==
  ASSUME NEW es, DOMAIN es \subseteq Nat, NEW w, Stops(es, w) # {}
  PROVE  FirstStop(es, w) \in Stops(es, w) /\ \A j \in Stops(es, w) : FirstStop(es, w) <= j
<1>1. Stops(es, w) \in SUBSET Nat
  BY DEF Stops
<1>2. \E k \in Stops(es, w) : \A j \in Stops(es, w) : k <= j
  BY <1>1, LeastExists
<1> QED
  BY <1>2 DEF FirstStop

LEMMA ScanFinds ==
  ASSUME NEW es, NEW cl, NEW m \in Nat, Clustered(es, cl, m), NEW w, w # EndMark,
         NEW c \in 0 .. m - 1, \A b \in 0 .. c - 1 : Stops(cl[b], w) = {},
         NEW f, f = cl[c], Stops(f, w) # {}
  PROVE  Named(es, w) = IF f[FirstStop(f, w)].name = w THEN {f[FirstStop(f, w)]} ELSE {}
<1> DEFINE k == FirstStop(f, w)
           p == c * EntriesPerCluster + k
<1>1. EntriesPerCluster \in Nat \ {0} /\ c \in Nat
  BY Fat16Assumption
<1>2. DOMAIN f = 1 .. EntriesPerCluster
  BY DEF Clustered
<1>3. k \in Stops(f, w) /\ \A j \in Stops(f, w) : k <= j
  <2>1. DOMAIN f \subseteq Nat
    BY <1>1, <1>2
  <2> QED BY <2>1, FirstStopIs
<1> HIDE DEF k
<1>4. k \in 1 .. EntriesPerCluster /\ f[k].name \in {EndMark, w} \ {Deleted}
  BY <1>2, <1>3 DEF Stops
<1>5. p \in 1 .. EntriesPerCluster * m
  BY <1>1, <1>4, Place
<1>6. es[p] = f[k]
  BY <1>4 DEF Clustered
<1>7. DOMAIN es = 1 .. EntriesPerCluster * m /\ EntriesPerCluster * m \in Nat
  BY <1>1 DEF Clustered
<1> HIDE DEF p
<1>8. p \in Stops(es, w)
  BY <1>4, <1>5, <1>6, <1>7 DEF Stops
<1>9. ASSUME NEW i \in Stops(es, w) PROVE p <= i
  <2>1. PICK b \in 0 .. m - 1, j \in 1 .. EntriesPerCluster :
          i = b * EntriesPerCluster + j /\ j \in Stops(cl[b], w)
    BY StopOfCluster
  <2>2. b \in Nat /\ i \in Int /\ p \in Int
    BY <1>5, <1>7, <2>1 DEF Stops
  <2>3. ~(i < p)
    <3> SUFFICES ASSUME i < p PROVE FALSE
      OBVIOUS
    <3>1. b < c \/ (b = c /\ j < k)
      BY <1>1, <1>4, <2>1, <2>2, Place DEF p
    <3>2. CASE b < c
      <4>1. b \in 0 .. c - 1
        BY <1>1, <2>2, <3>2
      <4> QED BY <2>1, <4>1
    <3>3. CASE b = c /\ j < k
      <4>1. k <= j
        BY <1>3, <2>1, <3>3
      <4> QED BY <1>4, <3>3, <4>1
    <3> QED BY <3>1, <3>2, <3>3
  <2> QED BY <2>2, <2>3
<1>10. Named(es, w) = IF es[p].name = w THEN {es[p]} ELSE {}
  BY <1>7, <1>8, <1>9, NamedFirst
<1> QED
  BY <1>6, <1>10 DEF k

LEMMA RootClustered ==
  ASSUME volume \in Volumes, Len(volume.root) % EntriesPerCluster = 0,
         NEW cl, cl = [b \in 0 .. RootClusters - 1 |-> RootEntries(b)]
  PROVE  RootClusters \in Nat /\ Clustered(volume.root, cl, RootClusters)
<1>1. /\ EntriesPerCluster \in Nat \ {0} /\ volume.root \in Seq(FileEntries)
      /\ Len(volume.root) \in Nat
  BY Fat16Assumption
<1>2. RootClusters \in Nat /\ Len(volume.root) = EntriesPerCluster * RootClusters
  <2> DEFINE n == Len(volume.root)
             e == EntriesPerCluster
             q == n \div e
  <2>1. n \in Nat /\ e \in Nat \ {0} /\ n % e = 0
    BY <1>1
  <2>2. RootClusters = q
    BY DEF RootClusters
  <2> HIDE DEF n, e
  <2>3. q \in Nat /\ n = e * q
    BY <2>1
  <2> QED BY <2>2, <2>3 DEF n, e
<1>3. DOMAIN volume.root = 1 .. EntriesPerCluster * RootClusters
  BY <1>1, <1>2
<1>4. ASSUME NEW b \in 0 .. RootClusters - 1
      PROVE  cl[b] = [k \in 1 .. EntriesPerCluster |-> volume.root[b * EntriesPerCluster + k]]
  <2>1. b < RootClusters
    BY <1>2
  <2>2. cl[b] = RootEntries(b)
    OBVIOUS
  <2> QED BY <2>1, <2>2 DEF RootEntries
<1>5. \A b \in 0 .. RootClusters - 1 :
        /\ DOMAIN cl[b] = 1 .. EntriesPerCluster
        /\ \A k \in 1 .. EntriesPerCluster :
             volume.root[b * EntriesPerCluster + k] = cl[b][k]
  <2> TAKE b \in 0 .. RootClusters - 1
  <2>1. cl[b] = [k \in 1 .. EntriesPerCluster |-> volume.root[b * EntriesPerCluster + k]]
    BY <1>4
  <2> QED BY <2>1
<1> QED
  BY <1>2, <1>3, <1>5 DEF Clustered

LEMMA DirClustered ==
  ASSUME volume \in Volumes, NEW d, NEW T, T = TrueChain(d.cluster),
         \A k \in DOMAIN T : InDevice(T[k]),
         NEW cl, cl = [b \in 0 .. Len(T) - 1 |-> ClusterEntries(T[b + 1])]
  PROVE  /\ Len(T) \in Nat \ {0} /\ DOMAIN T = 1 .. Len(T)
         /\ Clustered(DirEntries(d), cl, Len(T))
<1>1. EntriesPerCluster \in Nat \ {0} /\ Len(volume.fat) \in Nat
  BY Fat16Assumption
<1>2. DOMAIN T = 1 .. Len(T) /\ Len(T) \in Nat \ {0}
  <2>1. Follows(T, d.cluster, Len(volume.fat))
    BY <1>1, TrueChainFollows
  <2> QED BY <1>1, <2>1 DEF Follows
<1> DEFINE es == DirEntries(d)
<1>3. es = [p \in 1 .. EntriesPerCluster * Len(T) |->
              volume.data[T[(p - 1) \div EntriesPerCluster + 1]]
                         [((p - 1) % EntriesPerCluster) + 1]]
  BY DEF DirEntries
<1>4. ASSUME NEW b \in 0 .. Len(T) - 1
      PROVE  /\ DOMAIN cl[b] = 1 .. EntriesPerCluster
             /\ \A k \in 1 .. EntriesPerCluster : es[b * EntriesPerCluster + k] = cl[b][k]
  <2>1. b + 1 \in DOMAIN T /\ b \in Nat
    BY <1>2
  <2>2. InDevice(T[b + 1]) /\ T[b + 1] \in 2 .. Len(volume.fat)
    BY <2>1 DEF InDevice
  <2>3. cl[b] = volume.data[T[b + 1]]
    BY <2>2 DEF ClusterEntries
  <2>4. DOMAIN cl[b] = 1 .. EntriesPerCluster
    <3>1. /\ volume.data \in Seq(Seq(FileEntries)) /\ Len(volume.data) = Len(volume.fat)
          /\ \A c \in 2 .. Len(volume.fat) : Len(volume.data[c]) = EntriesPerCluster
      BY Fat16Assumption
    <3>2. T[b + 1] \in 1 .. Len(volume.data)
      BY <1>1, <2>2, <3>1
    <3>3. volume.data[T[b + 1]] \in Seq(FileEntries)
      BY <3>1, <3>2
    <3> QED BY <2>2, <2>3, <3>1, <3>3
  <2>5. ASSUME NEW k \in 1 .. EntriesPerCluster
        PROVE  es[b * EntriesPerCluster + k] = cl[b][k]
    <3> DEFINE p == b * EntriesPerCluster + k
    <3>1. p \in 1 .. EntriesPerCluster * Len(T)
      BY <1>1, <1>2, Place
    <3>2. (p - 1) \div EntriesPerCluster = b /\ (p - 1) % EntriesPerCluster = k - 1
      <4> DEFINE a == b * EntriesPerCluster
      <4>1. a \in Nat /\ a = EntriesPerCluster * b /\ b \in Int
        BY <1>1, <2>1
      <4>2. a % EntriesPerCluster = 0
        <5> HIDE DEF a
        <5>1. EntriesPerCluster \in Nat \ {0} /\ a \in Int /\ b \in Int /\ a = EntriesPerCluster * b
          BY <1>1, <4>1
        <5> QED BY <5>1, MultipleOf, ZenonT(30)
      <4>3. a \div EntriesPerCluster = b
        <5>1. PICK e : e = EntriesPerCluster /\ e \in Nat \ {0}
          BY <1>1
        <5>2. (e * b) \div e = b
          BY <2>1, <5>1
        <5> QED BY <4>1, <5>1, <5>2
      <4> HIDE DEF a
      <4>4. PICK o : o = p - 1
        OBVIOUS
      <4>5. o \in a .. a + EntriesPerCluster - 1 /\ o - a = k - 1
        BY <1>1, <4>1, <4>4 DEF a
      <4>6. o \div EntriesPerCluster = a \div EntriesPerCluster /\ o % EntriesPerCluster = o - a
        BY <1>1, <4>1, <4>2, <4>5, SameQuotient
      <4> QED BY <4>3, <4>4, <4>5, <4>6
    <3>3. es[p] = volume.data[T[(p - 1) \div EntriesPerCluster + 1]]
                             [((p - 1) % EntriesPerCluster) + 1]
      BY <1>3, <3>1
    <3>4. (k - 1) + 1 = k
      OBVIOUS
    <3> HIDE DEF p, es
    <3>5. es[p] = volume.data[T[b + 1]][k]
      BY <3>2, <3>3, <3>4
    <3> QED BY <2>3, <3>5 DEF p
  <2> QED BY <2>4, <2>5
<1>5. DOMAIN es = 1 .. EntriesPerCluster * Len(T)
  BY <1>3
<1> HIDE DEF es
<1>6. Clustered(es, cl, Len(T))
  BY <1>4, <1>5 DEF Clustered
<1> QED
  BY <1>2, <1>6 DEF es

-----------------------------------------------------------------------------
\* The recursion that Resolve is defined by has a solution.
Resolves(f, m) ==
  f = [k \in 1 .. m |-> IF k = 1 THEN Named(volume.root, path[1])
                                 ELSE Inside(f[k - 1], path[k])]

LEMMA ResolvesExists ==
  ASSUME NEW N \in Nat
  PROVE  \E f : Resolves(f, N)
<1> DEFINE Bad == {m \in Nat : ~\E f : Resolves(f, m)}
<1> SUFFICES ASSUME Bad # {} PROVE FALSE
  OBVIOUS
<1>1. PICK m \in Bad : \A j \in Bad : m <= j
  BY LeastExists
<1>2. \E f : Resolves(f, 0)
  <2> DEFINE f == [k \in 1 .. 0 |-> 0]
  <2>1. 1 .. 0 = {}
    OBVIOUS
  <2>2. Resolves(f, 0)
    BY <2>1 DEF Resolves
  <2> QED BY <2>2
<1>3. m \in Nat \ {0} /\ m - 1 \in Nat
  BY <1>1, <1>2
<1>4. PICK f : Resolves(f, m - 1)
  <2>1. m - 1 \notin Bad
    BY <1>1, <1>3
  <2> QED BY <1>3, <2>1
<1> DEFINE last == IF m = 1 THEN Named(volume.root, path[1]) ELSE Inside(f[m - 1], path[m])
           g == [k \in 1 .. m |-> IF k = m THEN last ELSE f[k]]
<1> HIDE DEF last
<1>5. /\ \A k \in 1 .. m - 1 : g[k] = f[k] /\ k \in 1 .. m
      /\ g[m] = last /\ g = [k \in 1 .. m |-> g[k]]
      /\ \A k \in 1 .. m : k # m => k \in 1 .. m - 1
  BY <1>3
<1> HIDE DEF g
<1>6. \A k \in 1 .. m : g[k] = IF k = 1 THEN Named(volume.root, path[1])
                                        ELSE Inside(g[k - 1], path[k])
  <2> TAKE k \in 1 .. m
  <2>1. k # 1 => k - 1 \in 1 .. m - 1
    BY <1>3
  <2>2. k # 1 => g[k - 1] = f[k - 1]
    BY <1>5, <2>1
  <2>3. CASE k = m
    BY <1>5, <2>2, <2>3 DEF last
  <2>4. CASE k # m
    <3>1. k \in 1 .. m - 1 /\ g[k] = f[k]
      BY <1>5, <2>4
    <3>2. f[k] = IF k = 1 THEN Named(volume.root, path[1]) ELSE Inside(f[k - 1], path[k])
      BY <1>4, <3>1 DEF Resolves
    <3> QED BY <2>2, <3>1, <3>2
  <2> QED BY <2>3, <2>4
<1>7. Resolves(g, m)
  BY <1>5, <1>6 DEF Resolves
<1> QED
  BY <1>1, <1>7

LEMMA ResolveIs ==
  ASSUME Len(path) \in Nat \ {0}
  PROVE  /\ Resolve(1) = Named(volume.root, path[1])
         /\ \A n \in 2 .. Len(path) : Resolve(n) = Inside(Resolve(n - 1), path[n])
<1> DEFINE F == CHOOSE f : Resolves(f, Len(path))
<1>1. \A n : Resolve(n) = F[n]
  BY DEF Resolve, Resolves
<1>2. Resolves(F, Len(path))
  BY ResolvesExists
<1> HIDE DEF F
<1>3. \A n \in 1 .. Len(path) : F[n] = IF n = 1 THEN Named(volume.root, path[1])
                                              ELSE Inside(F[n - 1], path[n])
  BY <1>2 DEF Resolves
<1>4. 1 \in 1 .. Len(path) /\ \A n \in 2 .. Len(path) : n \in 1 .. Len(path) /\ n # 1
  OBVIOUS
<1> QED
  BY <1>1, <1>3, <1>4

LEMMA InsideOne ==
  ASSUME NEW S, NEW d \in S, \A x \in S : x = d, NEW w
  PROVE  Inside(S, w) = IF d.attributes = "dir" THEN Named(DirEntries(d), w) ELSE {}
<1>1. CASE d.attributes = "dir"
  <2>1. {e \in S : e.attributes = "dir"} = {d}
    BY <1>1
  <2>2. Inside(S, w) = UNION {Named(DirEntries(x), w) : x \in {d}}
    BY <2>1 DEF Inside
  <2> QED BY <1>1, <2>2
<1>2. CASE d.attributes # "dir"
  <2>1. {e \in S : e.attributes = "dir"} = {}
    BY <1>2
  <2>2. Inside(S, w) = UNION {Named(DirEntries(x), w) : x \in {}}
    BY <2>1 DEF Inside
  <2> QED BY <1>2, <2>2
<1> QED
  BY <1>1, <1>2

LEMMA InsideNone ==
  ASSUME NEW w
  PROVE  Inside({}, w) = {}
BY DEF Inside

\* A path names one entry or none, and none behind a missing one.
LEMMA ResolveOne ==
  ASSUME volume \in Volumes, Len(path) \in Nat \ {0}
  PROVE  \A n \in 1 .. Len(path) : \A x, y \in Resolve(n) : x = y
<1> DEFINE Bad == {n \in 1 .. Len(path) : \E x, y \in Resolve(n) : x # y}
<1> SUFFICES ASSUME Bad # {} PROVE FALSE
  OBVIOUS
<1>1. Bad \in SUBSET Nat
  OBVIOUS
<1>2. PICK n \in Bad : \A j \in Bad : n <= j
  BY <1>1, LeastExists
<1>3. PICK x \in Resolve(n), y \in Resolve(n) : x # y
  BY <1>2
<1>4. n \in 1 .. Len(path)
  BY <1>2
<1>5. CASE n = 1
  <2>1. DOMAIN volume.root \subseteq Int
    <3>1. volume.root \in Seq(FileEntries)
      BY Fat16Assumption
    <3> QED BY <3>1
  <2>2. x \in Named(volume.root, path[1]) /\ y \in Named(volume.root, path[1])
    BY <1>3, <1>5, ResolveIs
  <2> QED BY <1>3, <2>1, <2>2, NamedOne
<1>6. CASE n # 1
  <2>1. n \in 2 .. Len(path) /\ n - 1 \in 1 .. Len(path) /\ n - 1 < n
    BY <1>4, <1>6
  <2>2. n - 1 \notin Bad
    <3>1. \A j \in Bad : n <= j /\ j \in Int
      BY <1>2
    <3> QED BY <2>1, <3>1
  <2>3. \A a, b \in Resolve(n - 1) : a = b
    BY <2>1, <2>2
  <2>4. x \in Inside(Resolve(n - 1), path[n]) /\ y \in Inside(Resolve(n - 1), path[n])
    BY <1>3, <2>1, ResolveIs
  <2>5. PICK d \in Resolve(n - 1) : x \in Named(DirEntries(d), path[n])
    BY <2>4 DEF Inside
  <2>6. Inside(Resolve(n - 1), path[n]) =
          IF d.attributes = "dir" THEN Named(DirEntries(d), path[n]) ELSE {}
    BY <2>3, <2>5, InsideOne
  <2>7. x \in Named(DirEntries(d), path[n]) /\ y \in Named(DirEntries(d), path[n])
    BY <2>4, <2>6
  <2>8. DOMAIN DirEntries(d) \subseteq Int
    BY DEF DirEntries
  <2> QED BY <1>3, <2>7, <2>8, NamedOne
<1> QED
  BY <1>5, <1>6

LEMMA NothingBehind ==
  ASSUME Len(path) \in Nat \ {0}, NEW j \in 1 .. Len(path), Resolve(j) = {}
  PROVE  Resolve(Len(path)) = {}
<1> DEFINE Bad == {n \in j .. Len(path) : Resolve(n) # {}}
<1> SUFFICES ASSUME Bad # {} PROVE FALSE
  OBVIOUS
<1>1. Bad \in SUBSET Nat
  OBVIOUS
<1>2. PICK n \in Bad : \A i \in Bad : n <= i
  BY <1>1, LeastExists
<1>3. n \in j .. Len(path) /\ n # j /\ Resolve(n) # {}
  BY <1>2
<1>4. n \in 2 .. Len(path) /\ n - 1 \in j .. Len(path) /\ n - 1 < n
  BY <1>3
<1>5. n - 1 \notin Bad
  <2>1. \A i \in Bad : n <= i /\ i \in Int
    BY <1>2
  <2> QED BY <1>4, <2>1
<1>6. Resolve(n - 1) = {}
  BY <1>4, <1>5
<1>7. Resolve(n) = Inside(Resolve(n - 1), path[n])
  BY <1>4, ResolveIs
<1> QED
  BY <1>3, <1>6, <1>7, InsideNone

-----------------------------------------------------------------------------
\* Volume and path stay as they are, and so does what they say.
LEMMA SamePath ==
  ASSUME UNCHANGED <<volume, path>>
  PROVE  /\ \A n : Resolve(n)' = Resolve(n)
         /\ PlainPath' <=> PlainPath
         /\ Astray' <=> Astray
         /\ RootClusters' = RootClusters
         /\ \A k : RootEntries(k)' = RootEntries(k)
         /\ \A c : ClusterEntries(c)' = ClusterEntries(c)
         /\ \A es, w : Stops(es, w)' = Stops(es, w)
<1>1. volume' = volume /\ path' = path
  OBVIOUS
<1>2. \A n : Resolve(n)' = Resolve(n)
  BY <1>1 DEF Resolve, Inside, Named, DirEntries, TrueChain
<1>3. \A c : /\ TrueChain(c)' = TrueChain(c)
             /\ Readable(c)' <=> Readable(c)
             /\ InDevice(c)' <=> InDevice(c)
  <2>1. \A c : TrueChain(c)' = TrueChain(c)
    BY <1>1 DEF TrueChain
  <2> QED BY <1>1, <2>1 DEF Readable, InBuffer, InDevice
<1>4. PlainPath' <=> PlainPath
  BY <1>1, <1>2, <1>3 DEF PlainPath, fat16_convert_filename
<1>5. Astray' <=> Astray
  BY <1>1, <1>2 DEF Astray, RootHasEnd
<1>6. RootClusters' = RootClusters /\ \A c : ClusterEntries(c)' = ClusterEntries(c)
  BY <1>1 DEF RootClusters, ClusterEntries, InDevice
<1>7. \A k : RootEntries(k)' = RootEntries(k)
  BY <1>1, <1>6 DEF RootEntries
<1>8. \A es, w : Stops(es, w)' = Stops(es, w)
  BY DEF Stops
<1> QED
  BY <1>2, <1>4, <1>5, <1>6, <1>7, <1>8

LEMMA PathType ==
  ASSUME LookupInv
  PROVE  /\ Len(path) \in Nat \ {0} /\ DOMAIN path = 1 .. Len(path)
         /\ \A n \in 1 .. Len(path) : path[n] # EndMark
         /\ frag \in Nat
<1>1. path \in Seq((Names \cup {Blank}) \ {EndMark}) \ {<<>>} /\ frag \in Nat
  BY Fat16Assumption DEF LookupInv
<1> QED
  BY <1>1

\* The places a step may lead to, in terms of the state before it.
Searching == {"subdir", "dir_chain", "dir"}

RightAnswer(e) ==
  \/ Astray \/ e \in Resolve(Len(path))
  \/ Resolve(Len(path)) = {} /\ Len(path) > 1 /\ e \in Resolve(Len(path) - 1)

LEMMA LookupNext ==
  ASSUME path \in Paths, UNCHANGED <<volume, path>>, frag' \in Nat,
         at' = "root" => frag' = 1,
         at' \in Searching =>
           frag' > 1 /\ (frag' <= Len(path) \/ (frag' = 2 /\ Len(path) = 1)),
         at' \in {"dir_chain", "dir"} => dir_entry'.attributes = "dir",
         at' = "dir_chain" => current_cluster' = 0,
         PlainPath =>
           /\ PassedInRoot' /\ PassedInDir'
           /\ at' \in Searching => Astray \/ dir_entry' \in Resolve(frag' - 1)
           /\ at' = "dir_chain" /\ OnPath' => OnChain(Len(chain))'
           /\ at' = "not_found" => Resolve(Len(path)) = {}
           /\ Answered' => RightAnswer(dir_entry')
  PROVE  LookupInv'
<1>1. /\ \A n : Resolve(n)' = Resolve(n)
      /\ PlainPath' <=> PlainPath
      /\ Astray' <=> Astray
      /\ path' = path
  BY SamePath
<1>2. ASSUME PlainPath'
      PROVE  /\ PassedInRoot' /\ PassedInDir'
             /\ at' \in Searching => Astray' \/ dir_entry' \in Resolve(frag - 1)'
             /\ at' = "dir_chain" /\ OnPath' => OnChain(Len(chain))'
             /\ at' = "not_found" => Resolve(Len(path))' = {}
             /\ Answered' =>
                  \/ Astray' \/ dir_entry' \in Resolve(Len(path))'
                  \/ /\ Resolve(Len(path))' = {} /\ Len(path') > 1
                     /\ dir_entry' \in Resolve(Len(path) - 1)'
  BY <1>1, <1>2 DEF RightAnswer
<1>3. at' \in Searching => Descending'
  BY <1>1 DEF Descending
<1> QED
  BY <1>1, <1>2, <1>3 DEF LookupInv, Searching

\* The fragment is not there: what fat16_find_file_entry answers then.
LEMMA Missed ==
  ASSUME LookupInv, PlainPath, at \in Searching,
         Astray \/ (OnPath => Resolve(frag) = {})
  PROVE  /\ frag < Len(path) => Resolve(Len(path)) = {}
         /\ ~(frag < Len(path)) => RightAnswer(dir_entry)
<1>1. Len(path) \in Nat \ {0} /\ frag \in Nat
  BY PathType
<1>2. frag > 1 /\ (frag <= Len(path) \/ (frag = 2 /\ Len(path) = 1))
  BY DEF LookupInv, Descending, Searching
<1>3. Astray \/ dir_entry \in Resolve(frag - 1)
  BY DEF LookupInv, Searching
<1>4. CASE Astray
  <2>1. Resolve(1) = {} /\ 1 \in 1 .. Len(path)
    BY <1>1, <1>4 DEF Astray
  <2>2. Resolve(Len(path)) = {}
    BY <1>1, <2>1, NothingBehind
  <2> QED BY <1>4, <2>2 DEF RightAnswer
<1>5. CASE ~Astray /\ dir_entry \in Resolve(frag - 1) /\ frag <= Len(path)
  <2>1. Resolve(frag) = {} /\ frag \in 1 .. Len(path)
    BY <1>1, <1>2, <1>5 DEF OnPath
  <2>2. Resolve(Len(path)) = {}
    BY <1>1, <2>1, NothingBehind
  <2>3. ~(frag < Len(path)) => frag = Len(path) /\ Len(path) > 1
    BY <1>1, <1>2, <1>5
  <2> QED BY <1>5, <2>2, <2>3 DEF RightAnswer
<1>6. CASE dir_entry \in Resolve(frag - 1) /\ ~(frag <= Len(path))
  <2>1. frag = 2 /\ Len(path) = 1 /\ frag - 1 = 1
    BY <1>1, <1>2, <1>6
  <2>2. dir_entry \in Resolve(Len(path)) /\ ~(frag < Len(path))
    BY <1>6, <2>1
  <2> QED BY <2>2 DEF RightAnswer
<1> QED
  BY <1>3, <1>4, <1>5, <1>6

LEMMA RootLookup ==
  ASSUME ReadInv, LookupInv, fat16_find_in_root_dir
  PROVE  LookupInv'
<1> DEFINE es == RootEntries(current_cluster)
           k == FirstStop(es, Wanted)
<1>0. current_cluster \in Nat
  BY DEF ReadInv
<1>1. /\ at = "root" /\ UNCHANGED <<volume, path>>
      /\ \/ /\ Stops(es, Wanted) = {} /\ UNCHANGED <<at, frag, dir_entry>>
            /\ current_cluster' = current_cluster \/ current_cluster' = current_cluster + 1
         \/ /\ Stops(es, Wanted) # {} /\ es[k].name = Wanted
            /\ dir_entry' = es[k] /\ frag' = 2 /\ at' = "subdir"
         \/ /\ Stops(es, Wanted) # {} /\ es[k].name # Wanted
            /\ at' = "not_found" /\ UNCHANGED <<dir_entry, frag>>
  BY <1>0 DEF fat16_find_in_root_dir, RootAnswer
<1>2. /\ volume \in Volumes /\ current_cluster \in Nat /\ path \in Paths /\ frag = 1
  BY <1>1 DEF ReadInv, LookupInv
<1>3. Len(path) \in Nat \ {0} /\ DOMAIN path = 1 .. Len(path) /\ path[1] # EndMark
  <2>1. /\ Len(path) \in Nat \ {0} /\ DOMAIN path = 1 .. Len(path)
        /\ \A n \in 1 .. Len(path) : path[n] # EndMark
    BY PathType
  <2> QED BY <2>1
<1>4. PlainPath => Wanted = path[1]
  BY <1>2, <1>3 DEF PlainPath, Wanted
<1> HIDE DEF es, k
<1>5. CASE Stops(es, Wanted) = {}
  <2>1. PlainPath => PassedInRoot'
    <3> SUFFICES ASSUME PlainPath, NEW j \in 0 .. RootClusters - 1, j < current_cluster'
                 PROVE  Stops(RootEntries(j), path[1]) = {}
      BY <1>1, SamePath DEF PassedInRoot
    <3>1. CASE j < current_cluster
      BY <1>1, <3>1 DEF LookupInv, PassedInRoot
    <3>2. CASE j = current_cluster
      BY <1>4, <1>5, <3>2 DEF es
    <3>3. j \in Int
      OBVIOUS
    <3> QED BY <1>1, <1>2, <1>5, <3>1, <3>2, <3>3
  <2>2. at' = "root" /\ frag' = 1 /\ PassedInDir'
    BY <1>1, <1>2, <1>5 DEF PassedInDir
  <2>3. ~Answered' /\ at' \notin Searching
    BY <2>2 DEF Answered, Searching
  <2> QED BY <1>1, <1>2, <2>1, <2>2, <2>3, LookupNext
\* What the root directory has under the name, once the scan stops.
<1>6. ASSUME PlainPath, Stops(es, Wanted) # {}
      PROVE  \/ Resolve(1) = IF es[k].name = Wanted THEN {es[k]} ELSE {}
             \/ Astray
  <2> DEFINE cl == [b \in 0 .. RootClusters - 1 |-> RootEntries(b)]
  <2>1. Len(volume.root) % EntriesPerCluster = 0
    BY <1>6 DEF PlainPath
  <2>2. RootClusters \in Nat /\ Clustered(volume.root, cl, RootClusters)
    BY <1>2, <2>1, RootClustered
  <2>3. \A b \in 0 .. RootClusters - 1 :
          cl[b] = RootEntries(b) /\ (b < current_cluster => Stops(cl[b], path[1]) = {})
    BY <1>1, <1>6 DEF LookupInv, PassedInRoot
  <2> HIDE DEF cl
  <2>4. Resolve(1) = Named(volume.root, path[1])
    BY <1>3, ResolveIs
  <2>5. CASE current_cluster < RootClusters
    <3>1. current_cluster \in 0 .. RootClusters - 1
      BY <1>2, <2>2, <2>5
    <3>2. \A b \in 0 .. current_cluster - 1 : Stops(cl[b], path[1]) = {}
      <4> TAKE b \in 0 .. current_cluster - 1
      <4>1. b \in 0 .. RootClusters - 1 /\ b < current_cluster
        BY <1>2, <2>2, <2>5
      <4> QED BY <2>3, <4>1
    <3>3. cl[current_cluster] = es
      BY <2>3, <3>1 DEF es
    <3>4. Stops(es, path[1]) # {} /\ k = FirstStop(es, path[1])
      BY <1>4, <1>6 DEF k
    <3>5. PICK m, c, w, r : m = RootClusters /\ c = current_cluster /\ w = path[1] /\ r = volume.root
      OBVIOUS
    <3>6. /\ m \in Nat /\ Clustered(r, cl, m) /\ w # EndMark /\ c \in 0 .. m - 1
          /\ \A b \in 0 .. c - 1 : Stops(cl[b], w) = {}
          /\ es = cl[c] /\ Stops(es, w) # {}
      BY <1>3, <2>2, <3>1, <3>2, <3>3, <3>4, <3>5
    <3>7. Named(r, w) = IF es[FirstStop(es, w)].name = w THEN {es[FirstStop(es, w)]} ELSE {}
      BY <3>6, ScanFinds, SMTT(30), ZenonT(30)
    <3> QED BY <1>4, <1>6, <2>4, <3>4, <3>5, <3>7
  <2>6. CASE ~(current_cluster < RootClusters)
    <3>1. \A b \in 0 .. RootClusters - 1 : Stops(cl[b], path[1]) = {}
      <4> TAKE b \in 0 .. RootClusters - 1
      <4>1. b < current_cluster
        BY <1>2, <2>2, <2>6
      <4> QED BY <2>3, <4>1
    <3>2. Stops(volume.root, path[1]) = {}
      BY <2>2, <3>1, ScanPasses
    <3>3. Resolve(1) = {}
      BY <2>4, <3>2, NamedNone
    <3>4. ~RootHasEnd
      BY <3>2, MarksDiffer DEF Stops, RootHasEnd
    <3> QED BY <3>3, <3>4 DEF Astray
  <2> QED BY <2>5, <2>6
<1>7. CASE Stops(es, Wanted) # {} /\ es[k].name = Wanted
  <2>1. at' = "subdir" /\ frag' = 2 /\ dir_entry' = es[k] /\ frag' - 1 = 1
    BY <1>1, <1>7
  <2>2. PlainPath => Astray \/ dir_entry' \in Resolve(frag' - 1)
    BY <1>6, <1>7, <2>1
  <2>3. PassedInRoot' /\ PassedInDir' /\ ~Answered'
    BY <2>1 DEF PassedInRoot, PassedInDir, Answered
  <2>4. frag' > 1 /\ (frag' <= Len(path) \/ (frag' = 2 /\ Len(path) = 1)) /\ frag' \in Nat
    BY <1>3, <2>1
  <2> QED BY <1>1, <1>2, <2>1, <2>2, <2>3, <2>4, LookupNext
<1>8. CASE Stops(es, Wanted) # {} /\ es[k].name # Wanted
  <2>1. at' = "not_found" /\ frag' = 1
    BY <1>1, <1>2, <1>8
  <2>2. PlainPath => Resolve(Len(path)) = {}
    <3> SUFFICES ASSUME PlainPath PROVE Resolve(Len(path)) = {}
      OBVIOUS
    <3>1. Resolve(1) = {}
      BY <1>6, <1>8 DEF Astray
    <3>2. 1 \in 1 .. Len(path)
      BY <1>3
    <3> QED BY <1>3, <3>1, <3>2, NothingBehind
  <2>3. PassedInRoot' /\ PassedInDir' /\ ~Answered' /\ at' \notin Searching
    BY <2>1 DEF PassedInRoot, PassedInDir, Answered, Searching
  <2> QED BY <1>1, <1>2, <2>1, <2>2, <2>3, LookupNext
<1> QED
  BY <1>1, <1>5, <1>7, <1>8

\* The answer for a fragment behind the first.
LEMMA AnswerLookup ==
  ASSUME LookupInv, at \in Searching, UNCHANGED <<volume, path>>,
         NEW hit \in BOOLEAN, NEW e, DirAnswer(hit, e),
         PlainPath => \/ Astray
                      \/ frag <= Len(path) /\ Resolve(frag) = IF hit THEN {e} ELSE {}
                      \/ ~(frag <= Len(path)) /\ ~hit
  PROVE  LookupInv'
<1>1. Len(path) \in Nat \ {0} /\ frag \in Nat /\ path \in Paths
  BY PathType DEF LookupInv
<1>2. frag > 1 /\ (frag <= Len(path) \/ (frag = 2 /\ Len(path) = 1))
  BY DEF LookupInv, Descending, Searching
<1>3. /\ dir_entry' = IF hit THEN e ELSE dir_entry
      /\ frag' = frag + 1
      /\ \/ at' = "found" /\ ~(frag < Len(path))
         \/ at' = "subdir" /\ frag < Len(path) /\ hit
         \/ at' = "not_found" /\ frag < Len(path) /\ ~hit
  BY DEF DirAnswer, is_subdir
<1>4. frag' \in Nat /\ frag' - 1 = frag
  BY <1>1, <1>3
<1>5. PassedInRoot' /\ PassedInDir' /\ at' \notin {"root", "dir_chain", "dir"}
  BY <1>3 DEF PassedInRoot, PassedInDir
<1>6. ASSUME PlainPath, ~hit
      PROVE  /\ frag < Len(path) => Resolve(Len(path)) = {}
             /\ ~(frag < Len(path)) => RightAnswer(dir_entry)
  <2>1. Astray \/ (OnPath => Resolve(frag) = {})
    BY <1>6 DEF OnPath
  <2> QED BY <1>6, <2>1, Missed
<1>7. CASE at' = "found"
  <2>1. PlainPath => RightAnswer(dir_entry')
    <3> SUFFICES ASSUME PlainPath PROVE RightAnswer(dir_entry')
      OBVIOUS
    <3>1. CASE ~hit
      BY <1>3, <1>6, <1>7, <3>1
    <3>2. CASE hit /\ Astray
      BY <3>2 DEF RightAnswer
    <3>3. CASE hit /\ frag <= Len(path) /\ Resolve(frag) = {e}
      <4>1. frag = Len(path)
        BY <1>1, <1>3, <1>7, <3>3
      <4>2. dir_entry' \in Resolve(Len(path))
        BY <1>3, <3>3, <4>1
      <4> QED BY <4>2 DEF RightAnswer
    <3> QED BY <3>1, <3>2, <3>3
  <2>2. at' \notin Searching
    BY <1>7 DEF Searching
  <2> QED BY <1>1, <1>4, <1>5, <1>7, <2>1, <2>2, LookupNext
<1>8. CASE at' = "subdir"
  <2>1. PlainPath => Astray \/ dir_entry' \in Resolve(frag' - 1)
    BY <1>1, <1>3, <1>4, <1>8
  <2>2. frag' > 1 /\ frag' <= Len(path)
    BY <1>1, <1>2, <1>3, <1>8
  <2>3. ~Answered'
    BY <1>8 DEF Answered
  <2> QED BY <1>1, <1>4, <1>5, <1>8, <2>1, <2>2, <2>3, LookupNext
<1>9. CASE at' = "not_found"
  <2>1. PlainPath => Resolve(Len(path)) = {}
    BY <1>3, <1>6, <1>9
  <2>2. ~Answered' /\ at' \notin Searching
    BY <1>9 DEF Answered, Searching
  <2> QED BY <1>1, <1>4, <1>5, <1>9, <2>1, <2>2, LookupNext
<1> QED
  BY <1>3, <1>7, <1>8, <1>9

\* A directory of the path can be followed, and what it holds is next.
LEMMA PathDir ==
  ASSUME LookupInv, PlainPath, volume \in Volumes, at \in Searching, OnPath
  PROVE  /\ Wanted = path[frag] /\ path[frag] # EndMark
         /\ Resolve(frag) = IF dir_entry.attributes = "dir"
                              THEN Named(DirEntries(dir_entry), path[frag]) ELSE {}
         /\ dir_entry.attributes = "dir" =>
              /\ Readable(dir_entry.cluster)
              /\ \A k \in DOMAIN TrueChain(dir_entry.cluster) :
                   InDevice(TrueChain(dir_entry.cluster)[k])
<1>1. /\ Len(path) \in Nat \ {0} /\ frag \in Nat /\ DOMAIN path = 1 .. Len(path)
      /\ \A n \in 1 .. Len(path) : path[n] # EndMark
  BY PathType
<1>2. frag > 1 /\ frag <= Len(path) /\ dir_entry \in Resolve(frag - 1)
  BY DEF LookupInv, Descending, Searching, OnPath
<1>3. /\ frag \in 1 .. Len(path) /\ frag \in 2 .. Len(path)
      /\ frag - 1 \in 1 .. Len(path) /\ frag - 1 \in 1 .. Len(path) - 1
  BY <1>1, <1>2
<1>4. Wanted = path[frag] /\ path[frag] # EndMark
  BY <1>1, <1>2, <1>3 DEF PlainPath, Wanted
<1>5. \A x \in Resolve(frag - 1) : x = dir_entry
  BY <1>1, <1>2, <1>3, ResolveOne
<1>6. Resolve(frag) = Inside(Resolve(frag - 1), path[frag])
  BY <1>1, <1>3, ResolveIs
<1>7. Inside(Resolve(frag - 1), path[frag]) =
        IF dir_entry.attributes = "dir" THEN Named(DirEntries(dir_entry), path[frag]) ELSE {}
  BY <1>2, <1>5, InsideOne
<1>8. dir_entry.attributes = "dir" =>
        /\ Readable(dir_entry.cluster)
        /\ \A k \in DOMAIN TrueChain(dir_entry.cluster) :
             InDevice(TrueChain(dir_entry.cluster)[k])
  BY <1>2, <1>3 DEF PlainPath
<1> QED
  BY <1>4, <1>6, <1>7, <1>8

LEMMA EnterLookup ==
  ASSUME ReadInv, LookupInv, EnterSubdir
  PROVE  LookupInv'
<1>1. /\ at = "subdir" /\ at \in Searching /\ UNCHANGED <<volume, path>>
      /\ volume \in Volumes /\ path \in Paths /\ frag \in Nat
  BY DEF EnterSubdir, Searching, ReadInv, LookupInv
<1>2. CASE dir_entry.attributes = "dir"
  <2>1. /\ at' = "dir_chain" /\ chain' = <<dir_entry.cluster>> /\ current_cluster' = 0
        /\ UNCHANGED <<dir_entry, frag>>
    BY <1>2 DEF EnterSubdir
  <2>2. OnChain(Len(chain))'
    <3> DEFINE T == TrueChain(dir_entry.cluster)
    <3>1. TrueChain(dir_entry.cluster)' = T
      BY <1>1, <2>1, Unmoved
    <3>2. Len(T) \in Nat \ {0} /\ T[1] = dir_entry.cluster
      BY <1>1, FileChain
    <3> HIDE DEF T
    <3>3. Len(chain') = 1 /\ chain'[1] = T[1]
      BY <2>1, <3>2
    <3>4. 1 <= Len(T) /\ \A k \in 1 .. 1 : chain'[k] = T[k]
      BY <3>2, <3>3
    <3> QED BY <3>1, <3>3, <3>4 DEF OnChain
  <2>3. frag' > 1 /\ (frag' <= Len(path) \/ (frag' = 2 /\ Len(path) = 1))
    BY <1>1, <2>1 DEF LookupInv, Descending
  <2>4. PassedInRoot' /\ PassedInDir' /\ ~Answered'
    BY <2>1 DEF PassedInRoot, PassedInDir, Answered
  <2>5. PlainPath => Astray \/ dir_entry' \in Resolve(frag' - 1)
    BY <1>1, <2>1 DEF LookupInv
  <2> QED BY <1>1, <1>2, <2>1, <2>2, <2>3, <2>4, <2>5, LookupNext
<1>3. CASE dir_entry.attributes # "dir"
  <2>1. DirAnswer(FALSE, NoEntry)
    BY <1>3 DEF EnterSubdir
  <2>2. PlainPath => \/ Astray
                     \/ frag <= Len(path) /\ Resolve(frag) = {}
                     \/ ~(frag <= Len(path))
    <3>1. PlainPath /\ OnPath => Resolve(frag) = {}
      BY <1>1, <1>3, PathDir
    <3>2. PlainPath => Astray \/ dir_entry \in Resolve(frag - 1)
      BY <1>1 DEF LookupInv
    <3> QED BY <3>1, <3>2 DEF OnPath
  <2> QED BY <1>1, <2>1, <2>2, AnswerLookup
<1> QED
  BY <1>2, <1>3

\* The FAT links the last cluster of a chain followed to the next.
LEMMA ChainGrows ==
  ASSUME volume \in Volumes, chain \in Seq(Nat), chain # <<>>,
         Readable(dir_entry.cluster), OnChain(Len(chain)),
         NEW T, T = TrueChain(dir_entry.cluster), NEW next \in FatEntry(chain[Len(chain)])
  PROVE  /\ next = EndOfChain => Len(chain) = Len(T)
         /\ next # EndOfChain /\ Len(chain) <= Len(volume.fat) =>
              Len(chain) < Len(T) /\ T[Len(chain) + 1] = next
<1>1. /\ Len(volume.fat) \in Nat /\ Len(T) \in Nat \ {0} /\ DOMAIN T = 1 .. Len(T)
      /\ \A k \in 1 .. Len(T) - 1 : T[k + 1] = volume.fat[T[k]] /\ T[k + 1] # EndOfChain
      /\ volume.fat[T[Len(T)]] = EndOfChain \/ Len(T) = Len(volume.fat) + 1
  BY FileChain
<1>2. \A k \in DOMAIN T : InBuffer(T[k])
  BY DEF Readable
<1>3. PICK n : n = Len(chain) /\ n \in Nat \ {0}
  OBVIOUS
<1>4. n <= Len(T) /\ \A k \in 1 .. n : chain[k] = T[k]
  BY <1>3 DEF OnChain
<1>5. chain[n] = T[n] /\ n \in DOMAIN T
  BY <1>1, <1>3, <1>4
<1>6. next = volume.fat[T[n]]
  BY <1>2, <1>3, <1>5 DEF FatEntry
<1>7. n # Len(T) => n \in 1 .. Len(T) - 1 /\ n < Len(T)
  BY <1>1, <1>3, <1>4
<1>8. n # Len(T) => T[n + 1] = next /\ T[n + 1] # EndOfChain
  BY <1>1, <1>6, <1>7
<1>9. n = Len(T) /\ n <= Len(volume.fat) => next = EndOfChain
  BY <1>1, <1>3, <1>6
<1> QED
  BY <1>3, <1>7, <1>8, <1>9

\* Behind the answer the lookup is over.
LEMMA AnswerStays ==
  ASSUME LookupInv, UNCHANGED <<volume, path, frag, dir_entry>>,
         at' \notin {"root", "not_found"}, at' \notin Searching, Answered' => Answered
  PROVE  LookupInv'
<1>1. path \in Paths /\ frag' \in Nat
  BY DEF LookupInv
<1>2. PassedInRoot' /\ PassedInDir' /\ at' \notin {"dir_chain", "dir"}
  BY DEF PassedInRoot, PassedInDir, Searching
<1>3. PlainPath /\ Answered' => RightAnswer(dir_entry')
  BY DEF LookupInv, RightAnswer
<1> QED
  BY <1>1, <1>2, <1>3, LookupNext

LEMMA ChainLookup ==
  ASSUME ReadInv, LookupInv, fat16_read_cluster_fat_chain
  PROVE  LookupInv'
<1>1. PICK next \in FatEntry(chain[Len(chain)]) :
        /\ chain' = Append(chain, next)
        /\ at' = CASE next = EndOfChain /\ at = "dir_chain" -> "dir"
                   [] next = EndOfChain /\ at = "file_chain" -> "copy"
                   [] next # EndOfChain /\ (next = 0 \/ Len(chain) > Len(volume.fat)) -> "hung"
                   [] OTHER -> at
  BY DEF fat16_read_cluster_fat_chain
<1>2. /\ at \in {"dir_chain", "file_chain"}
      /\ UNCHANGED <<volume, path, frag, dir_entry, current_cluster>>
  BY DEF fat16_read_cluster_fat_chain
<1>3. /\ volume \in Volumes /\ chain \in Seq(Nat) /\ chain # <<>> /\ path \in Paths /\ frag \in Nat
  BY <1>2 DEF ReadInv, LookupInv
<1>4. volume.fat \in Seq(Nat) /\ Len(volume.fat) \in Nat
  BY <1>3, Fat16Assumption
<1>5. next \in Nat
  BY <1>1, <1>4 DEF FatEntry, InBuffer, EndOfChain
<1>6. /\ Len(chain) \in Nat \ {0} /\ Len(chain') = Len(chain) + 1
      /\ chain'[Len(chain) + 1] = next
      /\ \A k \in 1 .. Len(chain) : chain'[k] = chain[k]
  BY <1>1, <1>3, <1>5
<1>7. \/ at' = "hung"
      \/ at = "file_chain" /\ at' \in {"copy", "file_chain"}
      \/ at = "dir_chain" /\ at' = "dir" /\ next = EndOfChain
      \/ at = "dir_chain" /\ at' = "dir_chain" /\ next # EndOfChain
           /\ Len(chain) <= Len(volume.fat)
  BY <1>1, <1>2, <1>4, <1>6
<1>8. CASE at' = "hung" \/ (at = "file_chain" /\ at' \in {"copy", "file_chain"})
  <2>1. at' \notin {"root", "not_found"} /\ at' \notin Searching /\ (Answered' => Answered)
    BY <1>8 DEF Searching, Answered
  <2> QED BY <1>2, <2>1, AnswerStays
<1>9. ASSUME at = "dir_chain"
      PROVE  /\ at \in Searching /\ dir_entry'.attributes = "dir" /\ current_cluster' = 0
             /\ frag' > 1 /\ (frag' <= Len(path) \/ (frag' = 2 /\ Len(path) = 1))
             /\ frag' \in Nat
             /\ PlainPath => Astray \/ dir_entry' \in Resolve(frag' - 1)
  BY <1>2, <1>3, <1>9 DEF LookupInv, Searching, Descending
\* The chain of a directory of the path is followed as the FAT has it.
<1> DEFINE T == TrueChain(dir_entry.cluster)
<1>10. ASSUME at = "dir_chain", PlainPath, OnPath'
       PROVE  /\ TrueChain(dir_entry.cluster)' = T /\ Len(T) \in Nat \ {0}
              /\ Len(chain) <= Len(T) /\ \A k \in 1 .. Len(chain) : chain'[k] = T[k]
              /\ next = EndOfChain => Len(chain) = Len(T)
              /\ next # EndOfChain /\ Len(chain) <= Len(volume.fat) =>
                   Len(chain) < Len(T) /\ T[Len(chain) + 1] = next
  <2>1. OnPath
    BY <1>2, <1>10, SamePath DEF OnPath
  <2>2. OnChain(Len(chain)) /\ dir_entry.attributes = "dir"
    BY <1>10, <2>1 DEF LookupInv
  <2>3. Readable(dir_entry.cluster)
    BY <1>3, <1>9, <1>10, <2>1, <2>2, PathDir
  <2>4. TrueChain(dir_entry.cluster)' = T
    BY <1>2, Unmoved
  <2>5. Len(T) \in Nat \ {0}
    BY <1>3, FileChain
  <2>6. Len(chain) <= Len(T) /\ \A k \in 1 .. Len(chain) : chain[k] = T[k]
    BY <2>2 DEF OnChain
  <2> HIDE DEF T
  <2>7. /\ next = EndOfChain => Len(chain) = Len(T)
        /\ next # EndOfChain /\ Len(chain) <= Len(volume.fat) =>
             Len(chain) < Len(T) /\ T[Len(chain) + 1] = next
    BY <1>1, <1>3, <2>2, <2>3, ChainGrows DEF T
  <2>8. \A k \in 1 .. Len(chain) : chain'[k] = T[k]
    BY <1>6, <2>6
  <2> QED BY <2>4, <2>5, <2>6, <2>7, <2>8
<1> HIDE DEF T
<1>11. CASE at = "dir_chain" /\ at' = "dir" /\ next = EndOfChain
  <2>1. PlainPath => PassedInDir'
    <3> SUFFICES ASSUME PlainPath, OnPath'
                 PROVE  /\ OnChain(Len(TrueChain(dir_entry.cluster)))'
                        /\ chain'[Len(TrueChain(dir_entry.cluster)') + 1] = EndOfChain
                        /\ current_cluster' < Len(TrueChain(dir_entry.cluster)')
                        /\ 1 .. current_cluster' = {}
      BY DEF PassedInDir
    <3>1. /\ TrueChain(dir_entry.cluster)' = T /\ Len(T) \in Nat \ {0} /\ Len(chain) = Len(T)
          /\ \A k \in 1 .. Len(T) : chain'[k] = T[k]
      BY <1>10, <1>11
    <3>2. current_cluster' = 0
      BY <1>9, <1>11
    <3>3. OnChain(Len(TrueChain(dir_entry.cluster)))'
      BY <3>1 DEF OnChain
    <3>4. chain'[Len(T) + 1] = EndOfChain
      BY <1>6, <1>11, <3>1
    <3>5. current_cluster' < Len(T) /\ 1 .. current_cluster' = {}
      BY <3>1, <3>2
    <3> QED BY <3>1, <3>3, <3>4, <3>5
  <2>2. PassedInRoot' /\ ~Answered'
    BY <1>11 DEF PassedInRoot, Answered
  <2> QED BY <1>2, <1>3, <1>9, <1>11, <2>1, <2>2, LookupNext
<1>12. CASE at = "dir_chain" /\ at' = "dir_chain" /\ next # EndOfChain
             /\ Len(chain) <= Len(volume.fat)
  <2>1. PlainPath /\ OnPath' => OnChain(Len(chain))'
    <3> SUFFICES ASSUME PlainPath, OnPath' PROVE OnChain(Len(chain))'
      OBVIOUS
    <3>1. /\ TrueChain(dir_entry.cluster)' = T /\ Len(T) \in Nat \ {0}
          /\ \A k \in 1 .. Len(chain) : chain'[k] = T[k]
          /\ Len(chain) < Len(T) /\ T[Len(chain) + 1] = next
      BY <1>10, <1>12
    <3>2. Len(chain') <= Len(T)
      BY <1>6, <3>1
    <3>3. \A k \in 1 .. Len(chain') : chain'[k] = T[k]
      <4> TAKE k \in 1 .. Len(chain')
      <4>1. k \in 1 .. Len(chain) \/ k = Len(chain) + 1
        BY <1>6
      <4> QED BY <1>6, <3>1, <4>1
    <3> QED BY <3>1, <3>2, <3>3 DEF OnChain
  <2>2. PassedInRoot' /\ PassedInDir' /\ ~Answered'
    BY <1>12 DEF PassedInRoot, PassedInDir, Answered
  <2> QED BY <1>2, <1>3, <1>9, <1>12, <2>1, <2>2, LookupNext
<1> QED
  BY <1>7, <1>8, <1>11, <1>12

LEMMA DirLookup ==
  ASSUME ReadInv, LookupInv, fat16_find_in_dir
  PROVE  LookupInv'
<1> DEFINE es == ClusterEntries(chain[current_cluster + 1])
           k == FirstStop(es, Wanted)
           hit == es[k].name = Wanted
<1>1. /\ at = "dir" /\ UNCHANGED <<volume, path, chain>>
      /\ \/ Stops(es, Wanted) # {} /\ DirAnswer(hit, es[k])
         \/ /\ Stops(es, Wanted) = {} /\ current_cluster' = current_cluster + 1
            /\ chain[current_cluster + 2] = EndOfChain /\ DirAnswer(FALSE, NoEntry)
         \/ /\ Stops(es, Wanted) = {} /\ current_cluster' = current_cluster + 1
            /\ chain[current_cluster + 2] # EndOfChain /\ UNCHANGED <<at, frag, dir_entry>>
  BY DEF fat16_find_in_dir
<1>2. /\ volume \in Volumes /\ current_cluster \in Nat /\ path \in Paths /\ frag \in Nat
      /\ dir_entry.attributes = "dir" /\ at \in Searching
  BY <1>1 DEF ReadInv, LookupInv, Searching
<1>3. Len(path) \in Nat \ {0}
  BY PathType
<1>4. PlainPath => Astray \/ dir_entry \in Resolve(frag - 1)
  BY <1>1 DEF LookupInv
<1>5. es \in Seq(FileEntries)
  BY <1>2, ClusterEntriesType
<1> HIDE DEF es
\* A directory of the path: the scan is that of its clusters.
<1> DEFINE T == TrueChain(dir_entry.cluster)
           cl == [b \in 0 .. Len(T) - 1 |-> ClusterEntries(T[b + 1])]
<1>6. ASSUME PlainPath, OnPath
      PROVE  /\ Wanted = path[frag] /\ path[frag] # EndMark
             /\ Resolve(frag) = Named(DirEntries(dir_entry), path[frag])
             /\ Len(T) \in Nat \ {0} /\ Clustered(DirEntries(dir_entry), cl, Len(T))
             /\ current_cluster \in 0 .. Len(T) - 1 /\ cl[current_cluster] = es
             /\ \A b \in 0 .. current_cluster - 1 : Stops(cl[b], path[frag]) = {}
             /\ \A j \in 1 .. Len(T) : chain[j] = T[j]
             /\ chain[Len(T) + 1] = EndOfChain
             /\ \A j \in 1 .. Len(T) - 1 : T[j + 1] # EndOfChain
  <2>1. /\ Wanted = path[frag] /\ path[frag] # EndMark
        /\ Resolve(frag) = Named(DirEntries(dir_entry), path[frag])
        /\ \A j \in DOMAIN T : InDevice(T[j])
    BY <1>2, <1>6, PathDir
  <2>2. Len(T) \in Nat \ {0} /\ \A j \in 1 .. Len(T) - 1 : T[j + 1] # EndOfChain
    BY <1>2, FileChain
  <2>3. Clustered(DirEntries(dir_entry), cl, Len(T))
    BY <1>2, <2>1, DirClustered
  <2>4. PassedInDir
    BY <1>6 DEF LookupInv
  <2>5. /\ OnChain(Len(T)) /\ chain[Len(T) + 1] = EndOfChain /\ current_cluster < Len(T)
        /\ \A j \in 1 .. current_cluster : Stops(ClusterEntries(chain[j]), path[frag]) = {}
    BY <1>1, <1>6, <2>4 DEF PassedInDir
  <2>6. \A j \in 1 .. Len(T) : chain[j] = T[j]
    BY <2>5 DEF OnChain
  <2> HIDE DEF T
  <2>7. current_cluster \in 0 .. Len(T) - 1 /\ current_cluster + 1 \in 1 .. Len(T)
    BY <1>2, <2>2, <2>5
  <2>8. cl[current_cluster] = es
    <3>1. cl[current_cluster] = ClusterEntries(T[current_cluster + 1])
      BY <2>7
    <3>2. T[current_cluster + 1] = chain[current_cluster + 1]
      BY <2>6, <2>7
    <3> QED BY <3>1, <3>2 DEF es
  <2>9. ASSUME NEW b \in 0 .. current_cluster - 1 PROVE Stops(cl[b], path[frag]) = {}
    <3>1. b \in 0 .. Len(T) - 1 /\ b + 1 \in 1 .. Len(T) /\ b + 1 \in 1 .. current_cluster
      BY <1>2, <2>2, <2>5
    <3>2. cl[b] = ClusterEntries(T[b + 1]) /\ T[b + 1] = chain[b + 1]
      BY <2>6, <3>1
    <3> HIDE DEF cl
    <3> QED BY <2>5, <3>1, <3>2
  <2> HIDE DEF cl
  <2> QED BY <2>1, <2>2, <2>3, <2>5, <2>6, <2>7, <2>8, <2>9
<1> HIDE DEF T, cl
<1>7. CASE Stops(es, Wanted) # {} /\ DirAnswer(hit, es[k])
  <2>1. PlainPath /\ OnPath => Resolve(frag) = IF hit THEN {es[k]} ELSE {}
    <3> SUFFICES ASSUME PlainPath, OnPath
                 PROVE  Resolve(frag) = IF hit THEN {es[k]} ELSE {}
      OBVIOUS
    <3>1. Stops(es, path[frag]) # {} /\ k = FirstStop(es, path[frag])
      BY <1>6, <1>7
    <3> HIDE DEF k
    <3>2. PICK m, c, w, r : m = Len(T) /\ c = current_cluster /\ w = path[frag] /\ r = DirEntries(dir_entry)
      OBVIOUS
    <3>3. /\ m \in Nat /\ Clustered(r, cl, m) /\ w # EndMark /\ c \in 0 .. m - 1
          /\ \A b \in 0 .. c - 1 : Stops(cl[b], w) = {}
          /\ es = cl[c] /\ Stops(es, w) # {}
      BY <1>6, <3>1, <3>2
    <3>4. Named(r, w) = IF es[FirstStop(es, w)].name = w THEN {es[FirstStop(es, w)]} ELSE {}
      BY <3>3, ScanFinds, SMTT(30), ZenonT(30)
    <3> QED BY <1>6, <3>1, <3>2, <3>4
  \* Behind the path the name looked for is blank, and no entry has it.
  <2>2. ~(frag <= Len(path)) => ~hit
    <3> SUFFICES ASSUME ~(frag <= Len(path)), hit PROVE FALSE
      OBVIOUS
    <3>1. es[k] \in FileEntries
      BY <1>5, <1>7, FirstStopEntry
    <3>2. es[k].name \in Names /\ es[k].name = Blank
      BY <3>1 DEF FileEntries, Wanted
    <3> QED BY <3>2, Fat16Assumption
  <2>3. PlainPath => \/ Astray
                     \/ frag <= Len(path) /\ Resolve(frag) = IF hit THEN {es[k]} ELSE {}
                     \/ ~(frag <= Len(path)) /\ ~hit
    BY <1>4, <2>1, <2>2 DEF OnPath
  <2>4. hit \in BOOLEAN
    OBVIOUS
  <2> HIDE DEF hit, k
  <2> QED BY <1>1, <1>2, <1>7, <2>3, <2>4, AnswerLookup
<1>8. CASE /\ Stops(es, Wanted) = {} /\ chain[current_cluster + 2] = EndOfChain
           /\ DirAnswer(FALSE, NoEntry)
  <2>1. PlainPath /\ OnPath => Resolve(frag) = {}
    <3> SUFFICES ASSUME PlainPath, OnPath PROVE Resolve(frag) = {}
      OBVIOUS
    <3>1. Len(T) = current_cluster + 1
      <4> SUFFICES ASSUME Len(T) # current_cluster + 1 PROVE FALSE
        OBVIOUS
      <4>1. /\ Len(T) \in Nat \ {0} /\ current_cluster \in 0 .. Len(T) - 1
            /\ \A j \in 1 .. Len(T) : chain[j] = T[j]
            /\ \A j \in 1 .. Len(T) - 1 : T[j + 1] # EndOfChain
        BY <1>6
      <4>2. /\ current_cluster + 1 \in 1 .. Len(T) - 1 /\ current_cluster + 2 \in 1 .. Len(T)
            /\ (current_cluster + 1) + 1 = current_cluster + 2
        BY <1>2, <4>1
      <4>3. T[current_cluster + 2] # EndOfChain /\ chain[current_cluster + 2] = T[current_cluster + 2]
        BY <4>1, <4>2
      <4> QED BY <1>8, <4>3
    <3>2. \A b \in 0 .. Len(T) - 1 : Stops(cl[b], path[frag]) = {}
      <4> TAKE b \in 0 .. Len(T) - 1
      <4>1. b = current_cluster \/ b \in 0 .. current_cluster - 1
        BY <1>2, <3>1
      <4> QED BY <1>6, <1>8, <4>1
    <3>3. Stops(DirEntries(dir_entry), path[frag]) = {}
      BY <1>6, <3>2, ScanPasses
    <3> QED BY <1>6, <3>3, NamedNone
  <2>2. PlainPath => \/ Astray
                     \/ frag <= Len(path) /\ Resolve(frag) = {}
                     \/ ~(frag <= Len(path))
    BY <1>4, <2>1 DEF OnPath
  <2> QED BY <1>1, <1>2, <1>8, <2>2, AnswerLookup
<1>9. CASE /\ Stops(es, Wanted) = {} /\ current_cluster' = current_cluster + 1
           /\ chain[current_cluster + 2] # EndOfChain /\ UNCHANGED <<at, frag, dir_entry>>
  <2>1. PlainPath => PassedInDir'
    <3> SUFFICES ASSUME PlainPath, OnPath'
                 PROVE  /\ OnChain(Len(TrueChain(dir_entry.cluster)))'
                        /\ chain'[Len(TrueChain(dir_entry.cluster)') + 1] = EndOfChain
                        /\ current_cluster' < Len(TrueChain(dir_entry.cluster)')
                        /\ \A j \in 1 .. current_cluster' :
                             Stops(ClusterEntries(chain[j])', path[frag]') = {}
      BY DEF PassedInDir, Stops
    <3>1. OnPath
      BY <1>1, <1>9, SamePath DEF OnPath
    <3>2. TrueChain(dir_entry.cluster)' = T /\ chain' = chain
      BY <1>1, <1>9, Unmoved DEF T
    <3>3. /\ Len(T) \in Nat \ {0} /\ current_cluster \in 0 .. Len(T) - 1
          /\ \A j \in 1 .. Len(T) : chain[j] = T[j]
          /\ chain[Len(T) + 1] = EndOfChain /\ Wanted = path[frag]
      BY <1>6, <3>1
    <3>4. OnChain(Len(TrueChain(dir_entry.cluster)))'
      BY <3>2, <3>3 DEF OnChain
    <3>5. current_cluster' < Len(T)
      <4>1. current_cluster + 1 # Len(T)
        <5> SUFFICES ASSUME current_cluster + 1 = Len(T) PROVE FALSE
          OBVIOUS
        <5>1. current_cluster + 2 = Len(T) + 1
          BY <1>2, <3>3
        <5> QED BY <1>9, <3>3, <5>1
      <4> QED BY <1>2, <1>9, <3>3, <4>1
    <3>6. ASSUME NEW j \in 1 .. current_cluster'
          PROVE  Stops(ClusterEntries(chain[j])', path[frag]') = {}
      <4>1. ClusterEntries(chain[j])' = ClusterEntries(chain[j]) /\ path[frag]' = path[frag]
        BY <1>1, <1>9 DEF ClusterEntries, InDevice
      <4>2. j \in 1 .. current_cluster \/ j = current_cluster + 1
        BY <1>2, <1>9
      <4>3. CASE j = current_cluster + 1
        BY <1>9, <3>3, <4>1, <4>3 DEF es
      <4>4. CASE j \in 1 .. current_cluster
        BY <1>1, <3>1, <4>1, <4>4 DEF LookupInv, PassedInDir
      <4> QED BY <4>2, <4>3, <4>4
    <3> QED BY <3>2, <3>3, <3>4, <3>5, <3>6
  <2>2. PassedInRoot' /\ ~Answered' /\ at' = "dir"
    BY <1>1, <1>9 DEF PassedInRoot, Answered
  <2>3. frag' > 1 /\ (frag' <= Len(path) \/ (frag' = 2 /\ Len(path) = 1)) /\ frag' \in Nat
    BY <1>1, <1>2, <1>9 DEF LookupInv, Descending
  <2>4. PlainPath => Astray \/ dir_entry' \in Resolve(frag' - 1)
    BY <1>4, <1>9
  <2>5. dir_entry'.attributes = "dir"
    BY <1>2, <1>9
  <2> QED BY <1>1, <1>2, <2>1, <2>2, <2>3, <2>4, <2>5, LookupNext
<1> QED
  BY <1>1, <1>7, <1>8, <1>9

LEMMA InitLookupInv == FatInit => LookupInv
<1> SUFFICES ASSUME FatInit PROVE LookupInv
  OBVIOUS
<1>1. at = "root" /\ frag = 1 /\ current_cluster = 0 /\ path \in Paths
  BY DEF FatInit
<1>2. PassedInRoot
  BY <1>1 DEF PassedInRoot
<1>3. PassedInDir /\ ~Answered
  BY <1>1 DEF PassedInDir, Answered
<1> QED
  BY <1>1, <1>2, <1>3 DEF LookupInv

LEMMA StepLookupInv == ReadInv /\ LookupInv /\ [FatNext]_fatVars => LookupInv'
<1> SUFFICES ASSUME ReadInv, LookupInv, [FatNext]_fatVars PROVE LookupInv'
  OBVIOUS
<1>1. CASE fat16_find_in_root_dir BY <1>1, RootLookup
<1>2. CASE EnterSubdir BY <1>2, EnterLookup
<1>3. CASE fat16_read_cluster_fat_chain BY <1>3, ChainLookup
<1>4. CASE fat16_find_in_dir BY <1>4, DirLookup
<1>5. CASE StartRead \/ CopyCluster \/ CopyTail
  <2>1. /\ at \in {"found", "copy"} /\ at' \in {"malformed", "read", "file_chain", "copy"}
        /\ UNCHANGED <<volume, path, frag, dir_entry>>
    BY <1>5 DEF StartRead, CopyCluster, CopyTail
  <2>2. at' \notin {"root", "not_found"} /\ at' \notin Searching /\ Answered
    BY <2>1 DEF Searching, Answered
  <2> QED BY <2>1, <2>2, AnswerStays
<1>6. CASE UNCHANGED fatVars
  <2>1. UNCHANGED <<volume, path, at, frag, dir_entry, current_cluster, chain>>
    BY <1>6 DEF fatVars
  <2>2. /\ RootClusters' = RootClusters
        /\ \A n : Resolve(n)' = Resolve(n)
        /\ \A c : ClusterEntries(c)' = ClusterEntries(c)
        /\ \A j : RootEntries(j)' = RootEntries(j)
    BY <2>1, SamePath
  <2>3. TrueChain(dir_entry.cluster)' = TrueChain(dir_entry.cluster)
    BY <2>1, Unmoved
  <2>4. \A n : OnChain(n)' <=> OnChain(n)
    BY <2>1, <2>3 DEF OnChain
  <2>5. OnPath' <=> OnPath
    BY <2>1, <2>2 DEF OnPath
  <2>6. PassedInRoot => PassedInRoot'
    BY <2>1, <2>2 DEF PassedInRoot, Stops
  <2>7. PassedInDir => PassedInDir'
    BY <2>1, <2>2, <2>3, <2>4, <2>5 DEF PassedInDir, Stops
  <2>8. Answered' <=> Answered
    BY <2>1 DEF Answered
  <2> QED
    BY <2>1, <2>4, <2>5, <2>6, <2>7, <2>8, LookupNext DEF LookupInv, Searching, Descending, RightAnswer
<1> QED
  BY <1>1, <1>2, <1>3, <1>4, <1>5, <1>6 DEF FatNext, Rest

(***************************************************************************)
(* fat16_find_file_entry finds the entry a path names and ends in no       *)
(* other, for every volume and path whose directories can be followed:     *)
(* through deleted entries, over any number of clusters and directories.   *)
(***************************************************************************)
THEOREM LookupFinds == FatSpec => []LookupRight
<1>1. ASSUME LookupInv PROVE FindsNamed
  <2> SUFFICES ASSUME PlainPath, Resolve(Len(path)) # {}
               PROVE  at # "not_found" /\ (Answered => dir_entry \in Resolve(Len(path)))
    BY DEF FindsNamed
  <2>1. Len(path) \in Nat \ {0} /\ 1 \in 1 .. Len(path)
    BY <1>1, PathType
  <2>2. ~Astray
    BY <2>1, NothingBehind DEF Astray
  <2> QED BY <1>1, <2>2 DEF LookupInv
<1>2. ASSUME LookupInv PROVE FoundOnPath
  <2>1. RootHasEnd => ~Astray
    BY DEF Astray
  <2> QED BY <1>2, <2>1 DEF LookupInv, FoundOnPath
<1>3. LookupInv => LookupRight
  BY <1>1, <1>2 DEF LookupRight
<1> QED
  BY InitReadInv, StepReadInv, InitLookupInv, StepLookupInv, <1>3, PTL DEF FatSpec
=============================================================================
