------------------------------ MODULE Programs ------------------------------
(***************************************************************************)
(* my_main loads /EXAMPLE.ELF into a heap block and calls it; the program's *)
(* start code opens its standard streams and main makes system calls, which *)
(* syscall__generic_syscall_handler passes to the kernel's stdio.          *)
(* Addresses and lengths are in small units; a 32-bit sum is taken modulo  *)
(* Word.  A byte of memory is the offset in the file it was copied from.   *)
(***************************************************************************)
EXTENDS OpenFiles

CONSTANTS
  Program,     \* the path my_main opens
  Images,      \* ELF files it may find there
  Word,        \* 2^32
  MaxPhdrs,    \* program headers elf__load_elf_file has room for (100)
  FileLimit,   \* bytes my_main reads (30 KB)
  PageSize, SizeClasses,  \* of the buddy allocator: blocks are classes of pages
  Rooms,       \* FILE objects the heap may have room for
  MaxCalls     \* bound on the program's system calls

ASSUME ProgramsAssumption ==
  /\ {Word, MaxPhdrs, FileLimit, PageSize} \subseteq Nat \ {0}
  /\ SizeClasses \subseteq Nat /\ Rooms \subseteq Nat /\ MaxCalls \in Nat
  /\ \A e \in Images :
       /\ e.phdrs \in Seq([type : Nat, vaddr : Nat, memsz : Nat, offset : Nat, filesz : Nat])
       /\ e.size \in Nat

Old == -1  \* a byte of the block that was not written
Lost == -2 \* a byte behind what was read of the file

VARIABLES
  at,       \* where my_main, or the program it called, is
  elf,      \* the file's content: [header, phdrs, size]
  size,     \* file_size, the bytes my_main has read
  seg,      \* program headers the current loop of elf__load_elf_file has done
  mem_high, \* the highest end of a segment it has met
  block,    \* bytes of the block loaded_loc points to
  memory,   \* what the block holds
  std,      \* the program's stdin, stdout and stderr
  calls     \* system calls of main so far

loadVars == <<seg, mem_high, block, memory>>
vars == <<fileVars, at, elf, size, loadVars, std, calls>>

Init ==
  /\ \E n \in Rooms : FilesInit(n)
  /\ elf \in Images
  /\ at = "stdin" /\ size = 0
  /\ seg = 0 /\ mem_high = 0 /\ block = 0 /\ memory = <<>>
  /\ std = <<>> /\ calls = 0

\* Control goes from a to b.
Goes(a, b) == at = a /\ at' = b
Undefined == at' = "undefined"

-----------------------------------------------------------------------------
(***************************************************************************)
(* __kaos_init_stdlib opens the kernel's streams, my_main the program.     *)
(***************************************************************************)
kaos_init_stdlib ==
  /\ \E k \in 1 .. 3 :
       /\ Goes(<<"stdin", "stdout", "stderr">>[k], <<"stdout", "stderr", "main">>[k])
       /\ kaos_fopen(DeviceNames[k])
  /\ UNCHANGED <<elf, size, loadVars, std, calls>>

MainOpen ==
  /\ Goes("main", "buffer")
  /\ kaos_fopen(Program)
  /\ UNCHANGED <<elf, size, loadVars, std, calls>>

MainBuffer ==
  /\ at = "buffer" /\ at' \in {"read", "returned"}
  /\ UNCHANGED <<fileVars, elf, size, loadVars, std, calls>>

\* my_main does not look at fp; at address 0 there is some number or other.
MainRead ==
  \/ /\ fp # NULL /\ Goes("read", "parse")
     /\ kaos_fread(fp)
     /\ size' = IF elf.size > FileLimit THEN FileLimit ELSE elf.size
     /\ UNCHANGED <<elf, loadVars, std, calls>>
  \/ /\ fp = NULL /\ at = "read" /\ Undefined
     /\ UNCHANGED <<fileVars, elf, size, loadVars, std, calls>>

-----------------------------------------------------------------------------
(***************************************************************************)
(* elf__load_elf_file.  A header that elf__parse_header refuses is not     *)
(* copied, and is used all the same; the headers it announces are copied   *)
(* without regard to the room there is.                                    *)
(***************************************************************************)
elf__parse_header == elf.header = "elf32lsb"

ParseHeaders ==
  /\ at = "parse"
  /\ IF elf__parse_header /\ Len(elf.phdrs) <= MaxPhdrs THEN at' = "place" ELSE Undefined
  /\ UNCHANGED <<fileVars, elf, size, loadVars, std, calls>>

\* Faulty variant: the headers are taken from the last to the first.
phdr_Backwards == elf.phdrs[Len(elf.phdrs) - seg]

phdr == elf.phdrs[seg + 1]

\* Faulty variant: the size of a segment is left out.
phdr_mem_high_NoSize == phdr.vaddr

phdr_mem_high == (phdr.vaddr + phdr.memsz) % Word

LoadHigh ==
  /\ at = "place" /\ seg < Len(elf.phdrs)
  /\ mem_high' = IF phdr_mem_high > mem_high THEN phdr_mem_high ELSE mem_high
  /\ seg' = seg + 1
  /\ UNCHANGED <<fileVars, at, elf, size, block, memory, std, calls>>

\* What buddy_allocator__alloc gives (ClassGranted): a block of the request's
\* class, or a page when no class fits.
FitsLen(bytes, len) == bytes > (2 * len) % Word /\ bytes < (4 * len) % Word
HasClass(len) == \E c \in SizeClasses : FitsLen(c * PageSize, len)
Granted(len) ==
  IF HasClass(len) THEN {c * PageSize : c \in {d \in SizeClasses : FitsLen(d * PageSize, len)}}
  ELSE {PageSize}

LoadAlloc ==
  /\ seg = Len(elf.phdrs)
  /\ \/ /\ Goes("place", "copy")
        /\ \E b \in Granted(mem_high) :
             /\ block' = b
             /\ memory' = [a \in 0 .. b - 1 |-> Old]
        /\ seg' = 0
        /\ UNCHANGED <<fileVars, elf, size, mem_high, std, calls>>
     \/ /\ Goes("place", "returned")
        /\ UNCHANGED <<fileVars, elf, size, loadVars, std, calls>>

\* The byte that segment p has for address a, as far as the file was read.
Covers(p, a) == p.type = 1 /\ a >= p.vaddr /\ a < p.vaddr + p.filesz
FileByte(p, a) == IF p.offset + a - p.vaddr < size THEN p.offset + a - p.vaddr ELSE Lost

\* Bytes copied behind the block overwrite what lies there.
Spills(p) == p.type = 1 /\ p.filesz > 0 /\ p.vaddr + p.filesz > block

LoadCopy ==
  /\ at = "copy" /\ seg < Len(elf.phdrs)
  /\ memory' = [a \in DOMAIN memory |-> IF Covers(phdr, a) THEN FileByte(phdr, a)
                                                          ELSE memory[a]]
  /\ seg' = seg + 1
  /\ IF Spills(phdr) THEN Undefined ELSE UNCHANGED at
  /\ UNCHANGED <<fileVars, elf, size, mem_high, block, std, calls>>

\* my_main calls the entry point.
LoadEntry ==
  /\ Goes("copy", "_stdin") /\ seg = Len(elf.phdrs)
  /\ UNCHANGED <<fileVars, elf, size, loadVars, std, calls>>

-----------------------------------------------------------------------------
(***************************************************************************)
(* The program: kaos_libc_init, then main.  A system call runs with        *)
(* interrupts off, so it is one step; the program's fclose makes none, and *)
(* the handler of SYS_CALL_FCLOSE closes nothing.                          *)
(***************************************************************************)
kaos_libc_init ==
  /\ \E k \in 1 .. 3 :
       /\ Goes(<<"_stdin", "_stdout", "_stderr">>[k], <<"_stdout", "_stderr", "_main">>[k])
       /\ kaos_fopen(DeviceNames[k])
  /\ std' = Append(std, fp')
  /\ UNCHANGED <<elf, size, loadVars, calls>>

InMain ==
  /\ at = "_main" /\ calls < MaxCalls
  /\ calls' = calls + 1
  /\ UNCHANGED <<elf, size, loadVars, std>>

syscall__handle_fopen ==
  /\ InMain /\ UNCHANGED at
  /\ \E path \in Devices \cup OnDisk \cup Missing : kaos_fopen(path)

syscall__handle_fread ==
  /\ InMain /\ UNCHANGED at
  /\ \E s \in Streams : kaos_fread(s)

\* printf writes to stdout, whether or not it could be opened.
syscall__handle_fwrite ==
  /\ InMain
  /\ \/ \E s \in Streams : kaos_fwrite(s) /\ UNCHANGED at
     \/ std[2] = NULL /\ Undefined /\ UNCHANGED fileVars

CallWithoutEffect == InMain /\ UNCHANGED <<at, fileVars>>

\* kaos_fclose has no caller yet; a kernel thread may close what it opened.
KernelClose ==
  /\ InMain /\ UNCHANGED at
  /\ \E s \in Streams : kaos_fclose(s)

\* exit never returns, so neither does my_main.
exit ==
  /\ Goes("_main", "exit")
  /\ UNCHANGED <<fileVars, elf, size, loadVars, std, calls>>

Next ==
  \/ kaos_init_stdlib \/ MainOpen \/ MainBuffer \/ MainRead
  \/ ParseHeaders \/ LoadHigh \/ LoadAlloc \/ LoadCopy \/ LoadEntry
  \/ kaos_libc_init \/ syscall__handle_fopen \/ syscall__handle_fread
  \/ syscall__handle_fwrite \/ CallWithoutEffect \/ KernelClose \/ exit

Spec == Init /\ [][Next]_vars

-----------------------------------------------------------------------------
Started == at \in {"_stdin", "_stdout", "_stderr", "_main", "exit"}

Indices == DOMAIN elf.phdrs

\* What the ELF format asks of the program headers, and a top below 2^31.
WellFormed ==
  /\ elf__parse_header /\ Len(elf.phdrs) <= MaxPhdrs
  /\ \A k \in Indices : LET p == elf.phdrs[k]
                        IN p.filesz <= p.memsz /\ 2 * (p.vaddr + p.memsz) < Word

\* The highest end of a segment, 0 if there is none.
Top == Max({0} \cup {elf.phdrs[k].vaddr + elf.phdrs[k].memsz : k \in Indices})

\* The segments whose file part covers address a.
Covering(a) == {k \in Indices : Covers(elf.phdrs[k], a)}

(***************************************************************************)
(* A program that is started lies in its block, byte for byte as its last  *)
(* segment there has it in the file, as far as the file was read; all      *)
(* other bytes of the block, .bss included, are as they were.              *)
(***************************************************************************)
LoadedExact ==
  Started =>
    /\ \A a \in DOMAIN memory :
         memory[a] = IF Covering(a) = {} THEN Old
                     ELSE FileByte(elf.phdrs[Max(Covering(a))], a)
    /\ \A k \in Indices : elf.phdrs[k].type = 1 =>
         \A a \in elf.phdrs[k].vaddr .. elf.phdrs[k].vaddr + elf.phdrs[k].filesz - 1 :
           a \in DOMAIN memory

(***************************************************************************)
(* The kernel survives every load but these: the program is missing or     *)
(* there is no memory for its stream, the file is malformed or its top is  *)
(* at 2^31 or higher, where the allocator's lengths wrap around, or it     *)
(* needs more than a page and a length that no block of the allocator      *)
(* suits.                                                                  *)
(***************************************************************************)
SurvivesLoad ==
  at = "undefined" =>
    \/ fp = NULL
    \/ ~WellFormed
    \/ ~HasClass(Top) /\ Top > PageSize

-----------------------------------------------------------------------------
(***************************************************************************)
(* The inductive invariant behind LoadedExact and SurvivesLoad: mem_high   *)
(* is the highest end among the headers the first loop has done, the block *)
(* was granted for it, and the block holds what the segments the second    *)
(* loop has done put there, none of them behind its end.  stdout is NULL   *)
(* only once there is no memory for streams any more.                      *)
(***************************************************************************)
HighEnds(K) == {(elf.phdrs[k].vaddr + elf.phdrs[k].memsz) % Word : k \in K}

HighestOf(K) ==
  /\ mem_high \in {0} \cup HighEnds(K)
  /\ \A h \in HighEnds(K) : h <= mem_high

CopiedOf(K) ==
  /\ DOMAIN memory = 0 .. block - 1
  /\ \A a \in DOMAIN memory :
       memory[a] = IF Covering(a) \cap K = {} THEN Old
                   ELSE FileByte(elf.phdrs[Max(Covering(a) \cap K)], a)
  /\ \A k \in K : ~Spills(elf.phdrs[k])

StdInv ==
  /\ std = <<>> \/ at \in {"_stdout", "_stderr", "_main", "exit", "undefined"}
  /\ at = "_stdout" => Len(std) = 1
  /\ at = "_stderr" => Len(std) = 2
  /\ at = "_main" => Len(std) = 3
  /\ Len(std) > 1 /\ std[2] = NULL => room = 0 /\ fp = NULL

LoadInv ==
  /\ elf \in Images /\ size \in Nat /\ seg \in 0 .. Len(elf.phdrs) /\ block \in Nat
  /\ at \in {"stdin", "stdout", "stderr", "main", "buffer", "read", "parse"} =>
       seg = 0 /\ mem_high = 0
  /\ at = "place" => HighestOf(1 .. seg)
  /\ at = "copy" => HighestOf(Indices) /\ block \in Granted(mem_high) /\ CopiedOf(1 .. seg)
  /\ Started => CopiedOf(Indices)
  /\ std \in Seq(Nat) /\ StdInv
  /\ SurvivesLoad
=============================================================================
