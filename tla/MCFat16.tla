------------------------------- MODULE MCFat16 ------------------------------
EXTENDS Fat16

Name(stem, full) == [stem |-> stem, ext |-> "x", full |-> full]
Entry(name, attributes, cluster, size) ==
  [name |-> name, attributes |-> attributes, cluster |-> cluster, file_size |-> size]

Gone == Entry(Deleted, "file", 0, 0)
\* A directory of two clusters, files of one and two clusters, and a file
\* whose stem has eight characters.
D == Entry(Name("d", FALSE), "dir", 2, 0)
A == Entry(Name("a", FALSE), "file", 4, 2)
B == Entry(Name("b", FALSE), "file", 5, 3)
L == Entry(Name("longname", TRUE), "file", 4, 1)

MCNames == {e.name : e \in {Gone, D, A, B, L, NoEntry}}

\* n slots: distinct entries of S, deleted ones between them, then end marks.
Directories(S, n) ==
  LET Filled(k) == {f \in [1 .. k -> S \cup {Gone}] :
                      \A i, j \in 1 .. k : i # j /\ f[i] = f[j] => f[i] = Gone}
  IN UNION {{f \o [i \in 1 .. n - k |-> NoEntry] : f \in Filled(k)} : k \in 0 .. n}

\* Cluster 1 does not exist; 2 and 3 are the directory, 4 is a's or the long
\* name's, 5 and 6 are b's.  The bytes of cluster 4 read like the entry b.
MCFat == <<0, 3, EndOfChain, EndOfChain, 6, EndOfChain>>
MCVolume(root, dir, per_cluster) ==
  [root |-> root, fat |-> MCFat, fat_per_cluster |-> per_cluster,
   data |-> <<<<>>, SubSeq(dir, 1, 2), SubSeq(dir, 3, 4), <<B, B>>,
              <<Gone, Gone>>, <<Gone, Gone>>>>]

\* With seven FAT entries in a cluster every chain can be followed; with four
\* the entries of clusters 4 to 6 are read from behind the buffer.
MCVolumes ==
  {MCVolume(r, d, 7) : r \in Directories({D, A, L}, 4), d \in Directories({B}, 4)}
    \cup
  {MCVolume(<<A, D, NoEntry, NoEntry>>, <<Gone, B, Gone, NoEntry>>, 4),
   MCVolume(<<Gone, D, A, NoEntry>>, <<Gone, Gone, B, NoEntry>>, 4)}
MCPaths == {<<A.name>>, <<D.name>>, <<L.name>>, <<D.name, B.name>>,
            <<D.name, A.name>>, <<A.name, B.name>>, <<B.name>>,
            <<D.name, B.name, A.name>>}
=============================================================================
