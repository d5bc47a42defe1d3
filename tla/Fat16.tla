-------------------------------- MODULE Fat16 -------------------------------
(***************************************************************************)
(* The FAT16 reader of kernel/fs/fat16_read.c: looking a path up cluster   *)
(* by cluster, following a chain through the FAT, and reading a file.      *)
(* The volume does not change; a behaviour is one lookup and, where it     *)
(* ends in an entry, one read with a buffer of len bytes.                  *)
(*                                                                         *)
(* A cluster holds EntriesPerCluster directory entries, or as many FAT     *)
(* entries as the volume says, or cluster_size bytes of a file.  Behind    *)
(* the root directory the data area begins with cluster 2.  A file name is *)
(* a stem, an extension and whether the stem has all of its eight          *)
(* characters.                                                             *)
(***************************************************************************)
EXTENDS Integers, Sequences

CONSTANTS
  EntriesPerCluster,  \* max_entries_per_cluster
  cluster_size,       \* bytes of a cluster of file data
  Names,              \* the names of directory entries and in paths
  Volumes,            \* the volumes looked at
  Paths,              \* the paths looked up, non-empty sequences of names
  Lengths             \* the buffer lengths of the reads

\* The names that start with 0 and with 0xE5, and the one of an empty fragment.
NoExt == "blank"
EndMark == [stem |-> "end", ext |-> NoExt, full |-> FALSE]
Deleted == [stem |-> "deleted", ext |-> NoExt, full |-> FALSE]
Blank == [stem |-> "blank", ext |-> NoExt, full |-> FALSE]
EndOfChain == 65535

\* A directory entry, as far as the reader uses it.
FileEntries ==
  [name : Names, attributes : {"file", "dir"}, cluster : Nat, file_size : Nat]

ASSUME Fat16Assumption ==
  /\ {EntriesPerCluster, cluster_size} \subseteq Nat \ {0}
  /\ EndMark \in Names /\ Blank \notin Names
  /\ Paths \subseteq Seq((Names \cup {Blank}) \ {EndMark}) \ {<<>>}
  /\ Lengths \subseteq Nat
  /\ \A v \in Volumes :
       /\ v.root \in Seq(FileEntries) /\ v.fat \in Seq(Nat)
       /\ v.data \in Seq(Seq(FileEntries)) /\ Len(v.data) = Len(v.fat) /\ v.fat # <<>>
       /\ \A c \in 2 .. Len(v.fat) : Len(v.data[c]) = EntriesPerCluster

NoEntry == [name |-> EndMark, attributes |-> "file", cluster |-> 0, file_size |-> 0]

VARIABLES
  volume,  \* root entries, the FAT and the clusters of the data area
  path, len,
  at,      \* where the lookup or the read is
  frag,    \* the path fragment looked for
  dir_entry,   \* the entry found so far
  current_cluster, \* of the directory scans
  chain,   \* the chain read so far
  buffer,  \* what a read has stored: the byte at each offset
  copied   \* i of fat16_read_file

fatVars == <<volume, path, len, at, frag, dir_entry, current_cluster, chain, buffer, copied>>

RootClusters == Len(volume.root) \div EntriesPerCluster
InDevice(c) == c \in 2 .. Len(volume.fat)

\* fat16_read_cluster for directories.  A read behind the end of the device
\* fails, and the caller goes on with what the buffer held.
ClusterEntries(c) == volume.data[IF InDevice(c) THEN c ELSE Len(volume.fat)]

RootEntries(k) ==
  IF k < RootClusters
    THEN [j \in 1 .. EntriesPerCluster |-> volume.root[k * EntriesPerCluster + j]]
    ELSE ClusterEntries(k - RootClusters + 2)

\* Without its full eight characters a stem is followed by '.' or the end,
\* and the extension is looked for there; after eight it is not.
fat16_convert_filename(name) ==
  IF name.full THEN [name EXCEPT !.ext = NoExt] ELSE name

Wanted == IF frag <= Len(path) THEN fat16_convert_filename(path[frag]) ELSE Blank
is_subdir == frag < Len(path)

\* Both scans stop at the end mark or at the entry, whichever is first, and
\* pass over deleted entries.
Stops(entries, name) ==
  {k \in DOMAIN entries : entries[k].name \in {EndMark, name} \ {Deleted}}
FirstStop(entries, name) ==
  CHOOSE k \in Stops(entries, name) : \A j \in Stops(entries, name) : k <= j

FatInit ==
  /\ volume \in Volumes /\ path \in Paths /\ len \in Lengths
  /\ at = "root" /\ frag = 1 /\ dir_entry = NoEntry /\ current_cluster = 0
  /\ chain = <<>> /\ buffer = <<>> /\ copied = 0

\* fat16_find_file_entry has its answer for the fragment, in the root
\* directory or in the directory of the entry before it.
RootAnswer(hit, e) ==
  IF hit THEN /\ dir_entry' = e /\ frag' = 2 /\ at' = "subdir"
         ELSE at' = "not_found" /\ UNCHANGED <<dir_entry, frag>>

DirAnswer(hit, e) ==
  /\ dir_entry' = IF hit THEN e ELSE dir_entry
  /\ at' = IF ~is_subdir THEN "found" ELSE IF hit THEN "subdir" ELSE "not_found"
  /\ frag' = frag + 1

\* Faulty variant: a deleted entry ends the directory.
fat16_find_in_root_dir_DeletedEnds ==
  LET es == RootEntries(current_cluster)
      stops == {k \in DOMAIN es : es[k].name \in {EndMark, Deleted, Wanted}}
      k == CHOOSE j \in stops : \A l \in stops : j <= l
  IN /\ at = "root"
     /\ IF stops = {}
          THEN current_cluster' = current_cluster + 1 /\ UNCHANGED <<at, frag, dir_entry>>
          ELSE RootAnswer(es[k].name = Wanted, es[k]) /\ UNCHANGED current_cluster
     /\ UNCHANGED <<volume, path, len, chain, buffer, copied>>

\* Faulty variant: the first cluster is read again and again.
fat16_find_in_root_dir_NoAdvance ==
  LET es == RootEntries(current_cluster)
      k == FirstStop(es, Wanted)
  IN /\ at = "root"
     /\ IF Stops(es, Wanted) = {}
          THEN UNCHANGED <<current_cluster, at, frag, dir_entry>>
          ELSE RootAnswer(es[k].name = Wanted, es[k]) /\ UNCHANGED current_cluster
     /\ UNCHANGED <<volume, path, len, chain, buffer, copied>>

\* One cluster of the root directory, or of what follows it.  The index is
\* not followed behind the first cluster that is not on the device.
fat16_find_in_root_dir ==
  LET es == RootEntries(current_cluster)
      k == FirstStop(es, Wanted)
      end == RootClusters + Len(volume.fat)
  IN /\ at = "root"
     /\ IF Stops(es, Wanted) = {}
          THEN /\ current_cluster' = current_cluster + (IF current_cluster < end THEN 1 ELSE 0)
               /\ UNCHANGED <<at, frag, dir_entry>>
          ELSE RootAnswer(es[k].name = Wanted, es[k]) /\ UNCHANGED current_cluster
     /\ UNCHANGED <<volume, path, len, chain, buffer, copied>>

\* Faulty variant: a file is searched like a directory.
EnterSubdir_AnyEntry ==
  /\ at = "subdir"
  /\ at' = "dir_chain" /\ chain' = <<dir_entry.cluster>> /\ current_cluster' = 0
  /\ UNCHANGED <<volume, path, len, dir_entry, frag, buffer, copied>>

\* The start of fat16_find_in_dir, which wants a directory.
EnterSubdir ==
  /\ at = "subdir"
  /\ IF dir_entry.attributes = "dir"
       THEN /\ at' = "dir_chain" /\ chain' = <<dir_entry.cluster>> /\ current_cluster' = 0
            /\ UNCHANGED <<dir_entry, frag>>
       ELSE DirAnswer(FALSE, NoEntry) /\ UNCHANGED <<chain, current_cluster>>
  /\ UNCHANGED <<volume, path, len, buffer, copied>>

\* The index is taken modulo the bytes of a cluster, so the upper half of
\* the clusters lies behind the buffer: anything may be read there, as for
\* a cluster that the FAT has no entry for.
InBuffer(c) ==
  c \in DOMAIN volume.fat /\ c % (2 * volume.fat_per_cluster) < volume.fat_per_cluster
FatEntry(c) ==
  IF InBuffer(c) THEN {volume.fat[c]}
    ELSE {0, EndOfChain} \cup 2 .. Len(volume.fat)

\* One round of fat16_read_cluster_fat_chain.  On 0 it spins for ever, and
\* on a chain longer than the FAT, which is a cycle, it never ends either.
fat16_read_cluster_fat_chain ==
  /\ at \in {"dir_chain", "file_chain"}
  /\ \E next \in FatEntry(chain[Len(chain)]) :
       /\ chain' = Append(chain, next)
       /\ at' = CASE next = EndOfChain /\ at = "dir_chain" -> "dir"
                  [] next = EndOfChain /\ at = "file_chain" -> "copy"
                  [] next # EndOfChain /\ (next = 0 \/ Len(chain) > Len(volume.fat)) -> "hung"
                  [] OTHER -> at
  /\ UNCHANGED <<volume, path, len, frag, dir_entry, current_cluster, buffer, copied>>

fat16_find_in_dir ==
  LET es == ClusterEntries(chain[current_cluster + 1])
      k == FirstStop(es, Wanted)
  IN /\ at = "dir"
     /\ IF Stops(es, Wanted) # {}
          THEN /\ DirAnswer(es[k].name = Wanted, es[k])
               /\ UNCHANGED current_cluster
          ELSE /\ current_cluster' = current_cluster + 1
               /\ IF chain[current_cluster + 2] = EndOfChain
                    THEN DirAnswer(FALSE, NoEntry)
                    ELSE UNCHANGED <<at, frag, dir_entry>>
     /\ UNCHANGED <<volume, path, len, chain, buffer, copied>>

length == IF dir_entry.file_size > len THEN len ELSE dir_entry.file_size

\* fat16_read_file up to the chain: SYS_RET_MALFORMED, or nothing to read.
StartRead ==
  /\ at = "found"
  /\ at' = IF dir_entry.attributes # "file" THEN "malformed"
            ELSE IF length = 0 THEN "read" ELSE "file_chain"
  /\ chain' = <<dir_entry.cluster>>
  /\ UNCHANGED <<volume, path, len, frag, dir_entry, current_cluster, buffer, copied>>

\* The n bytes from offset on come from cluster c.
Store(offset, c, n) ==
  [o \in 0 .. offset + n - 1 |->
     IF o < offset THEN buffer[o] ELSE <<c, o - offset>>]

\* Faulty variant: the cluster after the right one.
CopyCluster_NextCluster ==
  /\ at = "copy" /\ copied < length
  /\ buffer' = Store(copied, chain[copied \div cluster_size + 2], cluster_size)
  /\ copied' = copied + cluster_size
  /\ UNCHANGED <<volume, path, len, at, frag, dir_entry, current_cluster, chain>>

\* Faulty variant: one more round.
CopyCluster_OneMore ==
  /\ at = "copy" /\ copied <= length
  /\ buffer' = Store(copied, chain[copied \div cluster_size + 1], cluster_size)
  /\ copied' = copied + cluster_size
  /\ UNCHANGED <<volume, path, len, at, frag, dir_entry, current_cluster, chain>>

CopyCluster ==
  /\ at = "copy" /\ copied < length
  /\ buffer' = Store(copied, chain[copied \div cluster_size + 1], cluster_size)
  /\ copied' = copied + cluster_size
  /\ UNCHANGED <<volume, path, len, at, frag, dir_entry, current_cluster, chain>>

\* After the loop one more cluster is read, from behind the chain's end, and
\* length % cluster_size bytes of whatever the buffer holds are stored.
CopyTail ==
  /\ at = "copy" /\ copied >= length
  /\ buffer' = Store(copied, 0, length % cluster_size)
  /\ at' = "read"
  /\ UNCHANGED <<volume, path, len, frag, dir_entry, current_cluster, chain, copied>>

Finished == at \in {"not_found", "malformed", "read", "hung"}
\* The lookup or the read is over; the volume stays as it is.
Rest == Finished /\ UNCHANGED fatVars

FatNext ==
  \/ fat16_find_in_root_dir \/ EnterSubdir \/ fat16_read_cluster_fat_chain
  \/ fat16_find_in_dir \/ StartRead \/ CopyCluster \/ CopyTail \/ Rest

FatSpec == FatInit /\ [][FatNext]_fatVars
FatFairSpec == FatSpec /\ WF_fatVars(FatNext)

-----------------------------------------------------------------------------
\* What the volume says, without the reader.
\* The entry a directory has under a name: the first one before its end.
Named(es, name) ==
  LET live == {k \in DOMAIN es : /\ es[k].name = name /\ name # Deleted
                                 /\ \A j \in 1 .. k : es[j].name # EndMark}
  IN {es[k] : k \in {j \in live : \A i \in live : j <= i}}

TrueChain(c) ==
  LET upTo[n \in 0 .. Len(volume.fat)] ==
        IF n = 0 THEN <<c>>
          ELSE LET before == upTo[n - 1]
                   next == volume.fat[before[Len(before)]]
               IN IF next = EndOfChain THEN before ELSE Append(before, next)
  IN upTo[Len(volume.fat)]

DirEntries(e) ==
  LET clusters == TrueChain(e.cluster)
  IN [k \in 1 .. EntriesPerCluster * Len(clusters) |->
        volume.data[clusters[(k - 1) \div EntriesPerCluster + 1]]
                   [((k - 1) % EntriesPerCluster) + 1]]

\* The entry under a name in the directories among some entries.
Inside(entries, name) ==
  UNION {Named(DirEntries(d), name) : d \in {e \in entries : e.attributes = "dir"}}

\* The entry the first n fragments of the path name: one or none.
Resolve(n) ==
  LET named[k \in 1 .. Len(path)] ==
        IF k = 1 THEN Named(volume.root, path[1]) ELSE Inside(named[k - 1], path[k])
  IN named[n]

\* The FAT entries of a chain lie in the part of the buffer that was read.
Readable(c) ==
  \A k \in DOMAIN TrueChain(c) : InBuffer(TrueChain(c)[k])

\* The root directory fills its clusters, the directories of the path can be
\* followed and lie on the device, and no name of the path is cut.
PlainPath ==
  /\ Len(volume.root) % EntriesPerCluster = 0
  /\ \A n \in 1 .. Len(path) - 1 : \A e \in Resolve(n) :
       e.attributes = "dir" =>
         /\ Readable(e.cluster)
         /\ \A k \in DOMAIN TrueChain(e.cluster) : InDevice(TrueChain(e.cluster)[k])
  /\ \A n \in DOMAIN path : fat16_convert_filename(path[n]) = path[n]

\* The first n bytes of the buffer are the file's, where its chain has them.
HoldsFile(n) ==
  \A o \in 0 .. n - 1 :
    o \div cluster_size < Len(TrueChain(dir_entry.cluster)) =>
      buffer[o] = <<TrueChain(dir_entry.cluster)[o \div cluster_size + 1],
                    o % cluster_size>>

RootHasEnd == \E k \in DOMAIN volume.root : volume.root[k].name = EndMark

Answered == at \in {"found", "malformed", "file_chain", "copy", "read"}

(***************************************************************************)
(* The lookup finds what is there: a path that names an entry ends in that *)
(* entry, through deleted entries and over the clusters of a directory.    *)
(***************************************************************************)
FindsNamed ==
  PlainPath /\ Resolve(Len(path)) # {} =>
    /\ at # "not_found"
    /\ Answered => dir_entry \in Resolve(Len(path))

(***************************************************************************)
(* With an end mark in the root directory, an entry the lookup ends in is  *)
(* on the path: the entry named, or the one before a missing last name.    *)
(***************************************************************************)
FoundOnPath ==
  PlainPath /\ RootHasEnd /\ Answered =>
    dir_entry \in Resolve(Len(path)) \cup (IF Len(path) > 1 THEN Resolve(Len(path) - 1)
                                                         ELSE {})

(***************************************************************************)
(* fat16_find_file_entry finds an entry that is there, and ends in no      *)
(* other.                                                                  *)
(***************************************************************************)
LookupRight == FindsNamed /\ FoundOnPath

(***************************************************************************)
(* A read returns the file: the first length bytes of the buffer are those *)
(* of the file's chain, cluster after cluster, as far as the chain goes.   *)
(***************************************************************************)
ReadsContent ==
  at = "read" /\ Readable(dir_entry.cluster) => HoldsFile(length)

(***************************************************************************)
(* A read stores whole clusters and a tail, yet at most one cluster's size *)
(* behind the bytes asked for, and nothing behind them when they fill      *)
(* their last cluster.                                                     *)
(***************************************************************************)
OverrunBounded ==
  \A o \in DOMAIN buffer :
    \/ o < length
    \/ length % cluster_size # 0 /\ o < length + cluster_size

(***************************************************************************)
(* Where the root directory has an end mark and the chains can be followed *)
(* every lookup and every read comes to an end.                            *)
(***************************************************************************)
LookupEnds ==
  (RootHasEnd /\ \A c \in 2 .. Len(volume.fat) : InBuffer(c))
    ~> (Finished /\ at # "hung")

-----------------------------------------------------------------------------
(***************************************************************************)
(* The inductive invariant behind ReadsContent and OverrunBounded: the     *)
(* chain a read has followed is the file's, and the loop has stored whole  *)
(* clusters of it, the last of them the one that holds the last byte.      *)
(***************************************************************************)
OnChain(n) ==
  /\ n <= Len(TrueChain(dir_entry.cluster))
  /\ \A k \in 1 .. n : chain[k] = TrueChain(dir_entry.cluster)[k]

ReadInv ==
  /\ volume \in Volumes /\ len \in Nat /\ dir_entry \in FileEntries
  /\ current_cluster \in Nat /\ chain \in Seq(Nat) /\ copied \in Nat
  /\ at \notin {"copy", "read"} => buffer = <<>> /\ copied = 0
  /\ at \in {"dir_chain", "file_chain"} => chain # <<>>
  /\ at \in {"file_chain", "copy"} => length > 0
  /\ at = "file_chain" /\ Readable(dir_entry.cluster) => OnChain(Len(chain))
  /\ at = "copy" =>
       /\ copied % cluster_size = 0 /\ copied < length + cluster_size
       /\ DOMAIN buffer = 0 .. copied - 1
       /\ Readable(dir_entry.cluster) =>
            /\ OnChain(Len(TrueChain(dir_entry.cluster)))
            /\ HoldsFile(copied)
  /\ ReadsContent /\ OverrunBounded

(***************************************************************************)
(* The inductive invariant behind LookupRight: the fragments behind frag   *)
(* name the entry the lookup is at, and the clusters of a directory it has *)
(* passed hold neither its end nor the name.  A root directory without an  *)
(* end mark may have led it astray, and then the path names nothing.       *)
(***************************************************************************)
Astray == ~RootHasEnd /\ Resolve(1) = {}

Descending == frag > 1 /\ (frag <= Len(path) \/ (frag = 2 /\ Len(path) = 1))

\* The directory searched is one of the path's.
OnPath == frag <= Len(path) /\ dir_entry \in Resolve(frag - 1)

PassedInRoot ==
  at = "root" => \A k \in 0 .. RootClusters - 1 :
                   k < current_cluster => Stops(RootEntries(k), path[1]) = {}

PassedInDir ==
  at = "dir" /\ OnPath =>
    /\ OnChain(Len(TrueChain(dir_entry.cluster)))
    /\ chain[Len(TrueChain(dir_entry.cluster)) + 1] = EndOfChain
    /\ current_cluster < Len(TrueChain(dir_entry.cluster))
    /\ \A k \in 1 .. current_cluster : Stops(ClusterEntries(chain[k]), path[frag]) = {}

LookupInv ==
  /\ path \in Paths /\ frag \in Nat
  /\ at = "root" => frag = 1
  /\ at \in {"subdir", "dir_chain", "dir"} => Descending
  /\ at \in {"dir_chain", "dir"} => dir_entry.attributes = "dir"
  /\ at = "dir_chain" => current_cluster = 0
  /\ PlainPath =>
       /\ PassedInRoot /\ PassedInDir
       /\ at \in {"subdir", "dir_chain", "dir"} => Astray \/ dir_entry \in Resolve(frag - 1)
       /\ at = "dir_chain" /\ OnPath => OnChain(Len(chain))
       /\ at = "not_found" => Resolve(Len(path)) = {}
       /\ Answered =>
            \/ Astray \/ dir_entry \in Resolve(Len(path))
            \/ /\ Resolve(Len(path)) = {} /\ Len(path) > 1
               /\ dir_entry \in Resolve(Len(path) - 1)
=============================================================================
