----------------------------- MODULE OpenFiles -----------------------------
(***************************************************************************)
(* The streams of kernel/libc/stdio: FILE objects from the buddy allocator  *)
(* and the table of open files they index.  The names of the standard      *)
(* streams stand for the table's first three entries, which are in use     *)
(* from the beginning.  No entry is ever marked as used: every file that   *)
(* is opened gets the first entry that is free, and shares it.             *)
(***************************************************************************)
EXTENDS Integers, FiniteSetsExt, Sequences

CONSTANTS
  MAX_OPEN_FILES,
  OnDisk,        \* paths fat16_find_file_entry finds
  Missing        \* paths it does not find

NULL == 0
NoFile == "none"  \* a directory entry that is all zeros: an empty file
DeviceNames == <<"/dev/stdin", "/dev/stdout", "/dev/stderr">>
Devices == {DeviceNames[k] : k \in 1 .. 3}
FileNos == 0 .. MAX_OPEN_FILES - 1

ASSUME OpenFilesAssumption ==
  /\ MAX_OPEN_FILES \in Nat /\ MAX_OPEN_FILES > 3
  /\ OnDisk \cap Missing = {} /\ (OnDisk \cup Missing) \cap Devices = {}

VARIABLES
  room,        \* FILE objects the heap still has room for
  streams,     \* the FILE objects handed out, a FILE * is an index
  open_files,  \* __open_files: the file an entry describes
  is_used,     \* entries with __is_open_file_entry_used set
  fp,          \* the last result of fopen
  last,        \* the last other call: [op, stream, result]
  spoilt       \* history: streams whose entry was taken over or closed since,
               \*   and the entries of standard streams that were closed

fileVars == <<room, streams, open_files, is_used, fp, last, spoilt>>

NoCall == [op |-> "none", stream |-> NULL, result |-> NoFile]

FilesInit(n) ==
  /\ room = n /\ streams = <<>>
  /\ open_files = [slot \in FileNos |-> NoFile]
  /\ is_used = {0, 1, 2}
  /\ fp = NULL /\ last = NoCall
  /\ spoilt = [streams |-> {}, entries |-> {}]

Streams == 1 .. Len(streams)
OnEntry(slot) == {s \in Streams : streams[s].fileno = slot}

-----------------------------------------------------------------------------
\* The end of a successful fopen: the stream with its number.
Opened(path, slot) ==
  /\ streams' = Append(streams, [path |-> path, fileno |-> slot])
  /\ fp' = Len(streams) + 1
  /\ room' = room - 1

OpenDevice(path) ==
  /\ room > 0 /\ path \in Devices
  /\ Opened(path, (CHOOSE k \in 1 .. 3 : DeviceNames[k] = path) - 1)
  /\ UNCHANGED <<open_files, is_used, last, spoilt>>

\* The FILE object allocated first is lost.
OpenNotFound(path) ==
  /\ room > 0 /\ path \in Missing
  /\ fp' = NULL /\ room' = room - 1
  /\ UNCHANGED <<streams, open_files, is_used, last, spoilt>>

\* Faulty variant: the search for a free entry stops one too far.
OpenFile_NextEntry(path) ==
  LET slot == Min(FileNos \ is_used)
  IN /\ room > 0 /\ path \in OnDisk
     /\ open_files' = [open_files EXCEPT ![slot] = path]
     /\ spoilt' = [spoilt EXCEPT !.streams = @ \cup OnEntry(slot)]
     /\ Opened(path, slot + 1)
     /\ UNCHANGED <<is_used, last>>

\* The first entry that is not used; there always is one.
OpenFile(path) ==
  LET slot == Min(FileNos \ is_used)
  IN /\ room > 0 /\ path \in OnDisk
     /\ open_files' = [open_files EXCEPT ![slot] = path]
     /\ spoilt' = [spoilt EXCEPT !.streams = @ \cup OnEntry(slot)]
     /\ Opened(path, slot)
     /\ UNCHANGED <<is_used, last>>

OpenNoMemory ==
  /\ room = 0
  /\ fp' = NULL
  /\ UNCHANGED <<room, streams, open_files, is_used, last, spoilt>>

kaos_fopen(path) ==
  OpenDevice(path) \/ OpenNotFound(path) \/ OpenFile(path) \/ OpenNoMemory

\* A standard stream delivers nothing; every read starts at the beginning.
kaos_fread(s) ==
  /\ last' = [op |-> "read", stream |-> s,
              result |-> IF streams[s].fileno < 3 THEN NoFile
                         ELSE open_files[streams[s].fileno]]
  /\ UNCHANGED <<room, streams, open_files, is_used, fp, spoilt>>

\* With items of one byte, as vfprintf passes them; others are refused.
kaos_fwrite(s) ==
  /\ last' = [op |-> "write", stream |-> s,
              result |-> IF streams[s].fileno \in {1, 2} THEN "console" ELSE NoFile]
  /\ UNCHANGED <<room, streams, open_files, is_used, fp, spoilt>>

\* The entry of a standard stream is released like any other.
kaos_fclose(s) ==
  LET slot == streams[s].fileno
  IN /\ is_used' = is_used \ {slot}
     /\ open_files' = [open_files EXCEPT ![slot] = NoFile]
     /\ spoilt' = [streams |-> spoilt.streams \cup OnEntry(slot),
                   entries |-> spoilt.entries \cup ({slot} \cap {0, 1, 2})]
     /\ UNCHANGED <<room, streams, fp, last>>

-----------------------------------------------------------------------------
(***************************************************************************)
(* A stream delivers the file it was opened for as long as no other file   *)
(* is opened and its entry is not closed, by this stream or by another     *)
(* one that shares it; what is written to standard output or standard      *)
(* error, and nothing else, reaches the console.  Both hold as long as no  *)
(* standard stream is closed: after that files are opened under the        *)
(* standard streams' numbers.                                              *)
(***************************************************************************)
OwnFile ==
  spoilt.entries = {} =>
    /\ last.op = "read" /\ last.stream \notin spoilt.streams =>
         last.result = IF streams[last.stream].path \in OnDisk
                       THEN streams[last.stream].path ELSE NoFile
    /\ last.op = "write" =>
         (last.result = "console" <=>
            streams[last.stream].path \in {"/dev/stdout", "/dev/stderr"})

-----------------------------------------------------------------------------
(***************************************************************************)
(* The inductive invariant behind OwnFile: entries are never marked as     *)
(* used, the numbers below 3 belong to the standard streams as long as     *)
(* none of them was closed, and the entry of a file's stream describes     *)
(* that file unless the stream is spoilt.                                  *)
(***************************************************************************)
StreamFits(s) ==
  LET path == streams[s].path
      slot == streams[s].fileno
  IN /\ path \in OnDisk => slot > 2 /\ (s \notin spoilt.streams => open_files[slot] = path)
     /\ path \in Devices => slot < 3 /\ (slot \in {1, 2} <=> path \in {"/dev/stdout", "/dev/stderr"})

FilesInv ==
  /\ streams \in Seq([path : Devices \cup OnDisk, fileno : FileNos])
  /\ fp \in Streams \cup {NULL}
  /\ open_files \in [FileNos -> OnDisk \cup {NoFile}]
  /\ is_used \subseteq {0, 1, 2}
  /\ last.op \in {"read", "write"} => last.stream \in Streams
  /\ spoilt \in [streams : SUBSET Nat, entries : SUBSET {0, 1, 2}]
  /\ spoilt.entries = {} => is_used = {0, 1, 2} /\ \A s \in Streams : StreamFits(s)
  /\ OwnFile
=============================================================================
