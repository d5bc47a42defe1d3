# A TLA+ model of KaracaOS

KaracaOS is a small i686 kernel written in C. It boots through multiboot, pages
memory with a bitmap allocator and a heap on top of it, drives an IDE disk, a
keyboard and a text screen, reads FAT16, formats and mounts ext2, and loads ELF
programs that call it through `int 0x80`. This directory holds TLA+ modules
translated from that code, TLC configurations that check them on small
instances, and TLAPS proofs of the properties that matter most for every
instance. `PROJECT.json` lists, for every definition, the lines it models.

To run a check: `tlc -config Tty.cfg MCTty`. To check the proofs:
`tlapm KernelProofs.tla`, and likewise for the other `*Proofs` modules.

## 1. Inventory

The kernel has one thread of its own, `kmain`, which initialises the parts one
after the other and then loads and serves one program. The only concurrency is
with hardware: the keyboard interrupt (line 1) runs its handler between any two
instructions of `kmain`, disk drives work on commands while the kernel polls
them, and the disk keeps what has been written when the machine goes down. So the
hard behaviours are of five kinds: the keyboard handler against the console and
against the keyboard itself; drives that are late, failing, absent or hung;
crashes and refused writes in the middle of an ext2 operation; long sequences of
legal calls on the allocators, the tree and the open files; and arithmetic at the
limits of tables, bitmaps and formats.

| part | source (under `src/kernel`) | state | operations | uses |
|---|---|---|---|---|
| page frames | `mm/mm.c` | frame bitmap, page bitmap, count of free blocks | `mm_init`, `mm_alloc`, `mm_free` | paging |
| paging | `arch/i686/paging/paging.c` | page tables | map, unmap, translate | – |
| heap | `mm/buddy_allocator.c` | a tree of blocks in its own area | init, alloc (search, split, map), free | page frames, tree nodes |
| tree | `tree/tree.c` | linked nodes | insert, find, delete | – |
| processes | `proc/proc.c` | table of entries, next id | create | – |
| console | `tty/tty.c`, `arch/i686/vga_text.c` | cells, cursor, colours | putch, puts, scroll | – |
| interrupts | `interrupts.c`, `arch/i686/interrupts/*` | gates, handlers, controller masks | init, set handler, open and close lines, dispatch | – |
| keyboard | `dev/keyboard.c`, `arch/i686/dev/keyboard/*` | controller, matcher locals | interrupt handler, scan code matcher, echo | interrupts, console |
| ext2 | `fs/ext2.c` | blocks on disk, mount context | format, mount, unmount, allocate inode and block, write inode, add link | block device |
| FAT16 | `fs/fat16_read.c` | context with a cluster buffer | find, follow a chain, read | block device, page frames |
| disk | `dev/ide.c`, `dev/block_dev.c`, `dev/pci.c`, `fs/fscontext.c` | controller and drives found | scan, probe, read, write | – |
| open files | `libc/stdio/f*.c`, `syscall/syscall.c` | table of open files, streams | fopen, fread, fwrite, fclose, int 0x80 | heap, FAT16, console |
| programs | `elf/*`, `test.c`, `main.c` | the block a program is loaded into | read, parse, place, copy, call | heap, open files |
| formatted output | `libc/stdio/sprintf.c`, `printf.c`, `fprintf.c` | scanner, argument list, buffer | scan, convert | console |
| user side | `src/libc`, `src/example` | the program's standard streams | start, wrappers around `int 0x80`, `vsprintf`, exit | system calls |

What correctness means for each part:

- *Page frames*: a frame belongs to at most one page handed out, none is lost,
  and a page keeps its frame while it is held.
- *Heap*: blocks are disjoint and mapped, a request gets a block of the size
  class the code intends, the search is complete and ends, and freeing one block
  leaves the others alone.
- *Tree*: the order `find` relies on survives deletion, a deleted value is gone,
  and the others are still found.
- *Processes*: an id is handed out once, and creation returns.
- *Console*: the cursor stays on the screen, writes stay in video memory also
  when the echo interrupts a print, and nothing is left behind the cursor.
- *Interrupts*: no nesting, every interrupt ended at the controllers, no
  hardware interrupt without a handler, and the keyboard is served.
- *Keyboard*: every key is echoed once and in order, and the controller never
  keeps a byte nobody will fetch.
- *ext2*: whatever moment power is lost at, a used block is never free on disk
  and never owned twice; a file system marked valid is exact; formatting writes
  bitmaps that agree with its counts.
- *FAT16*: a lookup ends and finds exactly what the path names, and a read
  returns the file's bytes and stores no further than a stated bound.
- *Boot memory*: no frame becomes free that is not memory, or is the kernel's.
- *Disk*: exactly the drives that answer are found, a request that succeeds was
  carried out by the drive and at the sector it names, no command is written to a
  drive that is at work, and every wait ends unless a drive hangs.
- *Open files*: a stream delivers the file it was opened for, and only standard
  output and error reach the console.
- *Programs*: a started program lies in memory as its file says, inside the block
  that was allocated for it.
- *Formatted output*: a directive prints what C asks for, with its own argument.

`PROJECT.json` lists the hazards behind these sentences with the line where each
one bites, and which property would catch it.

## 2. Plan

1. *Core* (done): `Mm`, `BuddyAllocator` on it with `Heap` as what it promises,
   `Tree`, `Proc`, `Tty`, `Interrupts`, `Keyboard`, `Ext2`, `Ext2Layout`,
   `Fat16`; proofs for page frames, heap, process ids and interrupt dispatch.
2. *Model more* (done): `BootMemory` (`mm_init`), `Ide` (from the PCI scan to the
   sector), `OpenFiles` and `Programs` (streams, system calls, the ELF loader and
   the program's start), `Sprintf`; `Sequential` to check the parts without
   interleavings together.
3. *Prove more* (done): `HeldStable`, the drives, the streams, the console
   and the crash safety of ext2.
4. *Prove what the runs check* (done but for the parts below): the search and the
   size classes of the heap, the boot bitmap, the text in front of the cursor, the
   expected lines, the echo, probing and transfers, the counts of ext2, the loader,
   the reads of FAT16.
5. *Left to prove*: the lookups of `Fat16`, along the lines of its reads.
6. *Left to model*: a composition of `Keyboard`, `Interrupts` and `Tty`, from a key to a
   cell of the screen while `kmain` prints; failing reads in `Ext2`, with the
   outcomes of `Ide` in place of its `WriteFails`.

## 3. Modules

A definition has the name of the function it translates where there is one.
Definitions called `X_Something`, marked "Faulty variant", are `X` with a
plausible mistake in it; each property is known to fail when one of them takes
the place of `X`. An `MC` module holds the values of an instance.

**Mm** counts memory in blocks of 4096 bytes. A bitmap is the set of its set
bits, the page table a function from pages to frame and present bit. `mm_alloc`
and `mm_free` are one step each. The search for a free frame runs off a full
bitmap; from there on any frame may come back, or a page fault ends the kernel,
and the history variable `exhausted` records it. `FreeAtBoot` is what `mm_init`
left free. It stays a constant, so that the theorems hold for every outcome of
**BootMemory**, which is `mm_init` itself: one step per entry of the memory map,
with the bytes of the bitmap written whole and with the code's masks.

**BuddyAllocator** extends `Mm` by the heap and the other two callers of
`mm_alloc`: the stack of `kmain` and the cluster buffer of
`fat16_create_context`. Allocation is not interrupted by anyone who allocates,
yet the recursion of `__buddy_allocator__find_space` and the page loops are
unfolded into steps, so that errors and faults in the middle of them are states:
`pc` is the loop, `todo` the subtrees still to be searched. Lengths wrap around
at `Word` (2^32). When a node would be written over the stack in use, `pc`
becomes `"undefined"`: nothing is said of the tree after that. `Spec` is the
kernel as built, which never frees; `FullSpec` adds `buddy_allocator__free` for
any address. **Heap** is the abstract specification: grant and release disjoint
sets of pages. The mapping sends the allocated nodes to the sets of their pages.

**Tree** keeps the fields of the nodes, stale parent pointers and side flags
included. The caller hands every node over once, as `tree.test.c` does.

**Proc** has `proc_create_process` and one step per round of `get_next_proc_id`.

**Tty** has `tty_putch` twice: whole for the interrupt handler's echo, which runs
with interrupts off, and cut at every load and store of the cursor for the main
thread, since the kernel is built without optimisation. A cell is blank or
written; colours and the characters themselves are left out. The history variable
`past` tells text, text with carriage returns, and calls that were interrupted
halfway apart; `wrote` is the last cell a character was put into or erased from,
inside the buffer or not.

**Interrupts** follows `kmain` from `interrupts_init` to `interrupts_enable`,
drivers that set handlers and open and close lines, exceptions, system calls, and
every interrupt frame from its stub to `iret`. The two 8259 controllers are
external: edge triggered, fixed priority, ended by a non-specific command. A
request that its device withdraws arrives as line 7 or 15.

**Keyboard** has one step per byte the keyboard sends and per read of port 0x60
by `scancode_resolve_getKeyCode_set1`, which reads on for every table row it
tries, so that bytes arrive between its reads. A read empties the controller's
buffer, but the byte stays readable. The byte stored behind `codeArr` ends in
`"corrupt"`.

**Ext2** has one step per block write. An operation computes its writes when it
is called and queues them in `todo`; `Crash` drops the queue and the mount
context, `WriteFails` refuses the write at the head and goes on as the code does,
which in most places ignores the result. A bitmap is a set of bits, a directory
the sequence of the inodes its entries name. A block write is atomic (the fields
an operation changes lie in one sector), reads do not fail, and a new directory's
block holds zeroes. `Init` is the disk as the first half of formatting leaves it,
which **Ext2Layout** computes: counts, descriptors, running positions and the
shifts and inversions of the bitmap's bytes, with the sizes as constants.

**Fat16** looks a path up cluster by cluster, follows the FAT with the code's
index arithmetic (an entry behind the buffer is any value the device can hold or
0, on which the code loops), and copies a file. A name is a stem, an extension and
whether the stem has eight characters.

**Ide** begins with the scan of `fscontext__init` and follows `ide_ctrlinit`
through the four drive positions, the choice of the first device, the read of the
boot sector, and then reads and writes of one sector in any order, which is all
`block_dev_read` and `block_dev_write` ask for. A channel is its drive and sector
registers; the address bits above the 28th run into the drive bit, as in the code.
Every read of the alternate status register is a step of its own, and the drives
(external) move between these steps: they take a command, work on it, and answer
with data, with data and ERR, with an error, or never. The four status reads that
stand for 400 ns end when the drive shows BSY. Sectors hold the number of the
write they come from. An empty position reads as nothing, 0x7F or 0xFF.

**OpenFiles** has `fopen` with its four outcomes, `fread`, `fwrite` and `fclose`
on the table of open files; a FILE is an element of `streams`, the heap the
number of FILE objects it still has room for. The history variable `spoilt` holds
the streams whose entry was opened again or closed: the code never marks an entry
as used. **Programs** extends it by `my_main`, the ELF loader, the program's start
code and its system calls, which run with interrupts off and are one step each.
The two loops of `elf__load_elf_file` over the program headers take a step per
header. Addresses wrap around at `Word`; a byte of memory is the offset in the file
it came from. What `buddy_allocator__alloc` gives is what `ClassGranted` says of it.
Whatever the code leaves undefined (a NULL stream, a header that was refused, a
copy behind the block) ends in `"undefined"`.

**Sprintf** is the scanner of `kaos_vsprintf`, one step per turn, with flags,
width, precision, length and specifier kept as the code keeps them, and
`convert_any_int_to_str` as the positions it fills from the right. The user
library's `vsprintf` is the same code under another name. `kaos_preboot_printf` has
a scanner of its own. What C asks for is a separate definition, which writes
numerals recursively; `AsInC` says for which directives the two are to agree.

**Sequential** is the disjoint union of the five modules in which nothing
interleaves: `Tree`, `Proc`, `Ext2Layout`, `Sprintf` and `BootMemory`. A behaviour
exercises one of them, and the others stay as they begin.

## 4. Runs

State counts are distinct states. Runs that pass:

| run | instance | shows |
|---|---|---|
| `mm` | 8 blocks, 6 pages over 5 frames; 91,997 states | frames are never shared or lost and pages keep theirs, until a request finds no frame |
| `buddy_kernel` | 4 heap pages, 5 nodes, 4 frames for the heap and the buffer together, lengths up to a wrapping 60 of 64; 104,561 | a request that has a size class gets it; the search gives up only when nothing fits; blocks stay mapped and calls return when frames and nodes run out |
| `buddy_free` | 8 heap pages, callers free; 65,870 | blocks are disjoint, bitmap and tree agree, no page is refused halfway, and the abstract heap is implemented |
| `tty` | 2x3, echo at every load and store; 882,631 | calls that are not interrupted keep the cursor on the screen, and leave nothing behind it unless a carriage return moved it; how far outside the text buffer the race can write, and that the row recovers |
| `interrupts` | 5 lines on both controllers, 2 of them withdrawn, drivers, system calls, 2 exceptions; 69,280 | handlers do not nest and leave nothing in service; only a withdrawn request meets an empty entry; the keyboard is served unless the system halts |
| `keyboard` | keys of one to three bytes, five bytes in all; 129,901 | one-byte keys are echoed once and in order; all bytes are read unless `codeArr` overruns |
| `ext2` | 2 groups of 2 blocks, a crash and a refused write anywhere; 4,483,400 | used blocks stay marked and owned once, free counts never too small, link counts never too large; without a crash a valid file system is exact; a file system is not marked valid while it is mounted or changed |
| `fat16` | all root directories of 4 slots and subdirectories of 2 clusters, and two volumes whose FAT entries lie behind the buffer; 687,606 | lookups and reads are exact and end where every entry is read from the buffer; what still holds where one is not |
| `ide` | 3 PCI configurations, 10 sets of drives, 2 sectors a drive and one behind, 2 writes; 619,871 | probing finds exactly the drives that answer; transfers are exact but for the errors the code drops; drives never work unattended; only the sector asked for is written; waits end unless a drive hangs |
| `programs` | 27 images with up to 3 segments, 3 paths, room for 3, 5 or 9 streams, 4 calls; 371,284 | streams deliver their own file until an open or close touches their entry; a started program is exact; which loads the kernel does not survive |
| `sequential` | trees of 5 nodes and 4 values; the real table of 40 processes; every device of up to 5 groups, with 4-bit bytes and 8-byte blocks; 730 directives for a 6-bit int, alone and beside others, a buffer of 7; memory maps of 3 regions over 24 frames; 214,310 | order and completeness of `find`, and what a deletion may lose; ids are unique and the scan ends except in the call that fills the table; bitmaps, counts and positions agree where the last group has room; text is what C asks for; holes, bad and low memory are never free |

The bounds are chosen so that the corners happen. Six pages compete for five
frames; the heap is full, out of nodes and out of frames in some states; five
nodes are the fewest for a right subtree with a leftmost path worth losing;
three rows scroll and two columns wrap at once; the scan code table has keys with
a common prefix, one whose second byte is a plain key, and more prefixed rows
than `codeArr` has room for, as in the code; two groups make `allocate_blocks`
move on to the next; 10 metadata blocks of 4-bit bytes end two bits into a byte,
as 218 of 8 bits do; images have tops with a size class, without one, at half of
the address space and behind the last address; numbers sit at both ends of the int and around zero; regions
begin and end inside a frame, inside a byte, on a byte, at 4 GB and above. The
`tty` run reaches both ends of the distance `StaysInVideo` allows. `MaxBytes`,
`MaxLinks`, `MaxCrashes`, `MaxFailures`, `MaxWrites` and `MaxCalls` are the only
bounds that cut behaviours short.

Several properties are conjunctions, checked and proved as one: `FramesSound`
(exclusive and conserved frames), `HeapSound` (disjoint blocks, pages owned, no
page refused halfway), `FindsStored` (order and completeness), `StaysInVideo`
(writes and row), `DispatchSound` (acknowledged, no nesting), `BlocksSound` (used
blocks marked and owned once), `CountsSafe` (free and link counts), `LookupRight`
(finds what is named, on the path named), `LayoutRight` (bitmaps and positions).

Some properties hold only while something has not happened: `past` (`Tty`),
`plain` (`Keyboard`), `exhausted` (`Mm`), `spoilt` (`OpenFiles`) and `faults`
(`Ext2`) record it, so that one run covers the behaviours with and without it.
`NoneRefused` is why in `Ext2`: most callers of `ext2_write_blocks` ignore its
result, and a refused write of a bitmap leaves a block in use that looks free.
Only `MarkedUntilUnmount` is asked of file systems a write of which was refused.

Deadlock is an error except in `keyboard`, where a behaviour stops after
`MaxBytes` bytes or with an overrun array, in `ide`, where the boot may end
without a device, and in `programs`, where the program exits. In `sequential` a
function that has returned takes the step `Ended`.

One run ends in a violation. `buddy_stack` checks what `memory_map.txt` says, that
the stack and `mem_alloc_table` have regions of their own. An `mm_alloc` of
several pages marks one frame, so the tree area gets frames of the stack.

Other places where the code departs from what a comment, a message or a test
says. No run has the sentence as its property; the passing properties are worded
around them.

- `buddy_allocator__free` finds only the lowest address of the heap, and then
  unmaps all of it. `test.c` frees one block and goes on with another. `BlocksMapped`
  is therefore a property of the kernel as built, which never frees.
- `tree.test.c` expects a deleted value not to be found and the others to be
  found. Stale parent pointers, and a root with one child, can keep the value;
  deleting a node with two children can drop part of its right subtree.
  `StepLoses` says what a deletion may lose.
- A root directory without an end mark is searched on into the data area;
  `LookupRight` and `LookupEnds` ask for an end mark.
- The padding of the last group's bitmap leaves bits of blocks behind the device
  clear when the group ends in the byte of its last metadata block; `LayoutRight`
  asks for a longer last group (`RoomInLast`).
- The message in `ext2_format_device` says that 51 descriptors fit into one block;
  they take 1632 bytes of 1024. `RoomInLast` also asks that the descriptors fit.
- `fopen` never marks an entry as used, so its "Max open files reached" is never
  printed and every file shares the first free entry; `OwnFile` speaks of streams
  whose entry nobody else has opened or closed.
- `ide_writesector` drops the result of its last wait, and the block device drops
  every result; `TransfersExact` names the errors that are lost.
- `elf__load_elf_file` goes on after a header it has reported as bad; `SurvivesLoad`
  lists this with the other loads that end in undefined behaviour. One of them came
  out of the proof: a top of 2^31 or more is doubled by the allocator, wraps around
  and is given a block of a few pages.
- `%u` prints octal, a doubled percent sign begins a directive, and more of the kind
  (see the comment on `AsInC`); `Formatted` asks for what C asks for elsewhere.
- `mm_init` frees frames of the byte an available region ends in, and most frames of
  a reserved region that comes last; `BootBitmap` excepts them.

## 5. Fairness

- `AllocReturns`, `ScanEnds`, `LookupEnds`: weak fairness of the steps of the
  running call. The code is sequential and the CPU does not stop in it.
- `KeyboardServed`: weak fairness of `kmain` and of a running handler, strong
  fairness of taking the keyboard's interrupt. The request stays pending at the
  controller while system calls and other handlers clear and restore the
  interrupt flag, and the CPU takes a pending request once the flag is set again,
  so one that can be taken again and again is taken.
- `Settles`: weak fairness of the kernel, which polls, and of each drive taking a
  command and then answering it or hanging. A drive that hangs is excepted in the
  property, since the wait has no bound. Requests are not fair.
- `EchoComplete`, `Drained`: weak fairness of the keyboard handing over the next
  byte, of the CPU taking the interrupt (nothing else runs in this model), and of
  the handler. Pressing keys is not fair: nobody has to type.

## 6. Proofs

All theorems hold for every value of the constants that meets the named
assumptions of the modules; these say that sizes are natural numbers,
(`Fat16Assumption`) that a FAT holds numbers and has as many entries as the volume has
clusters,
(`TreeAssumption`) that values of the tree are integers, (`LayoutAssumption` of
`BuddyAllocator`) that heap, tree area, stack and buffer do not overlap,
(`LayoutAssumption` of `Ext2Layout`) that a block's bits number a group's blocks, at
most 2^16, and a group's inodes, and two facts of the code's constants: `HeapSizeAssumption`, that the heap's size is a power
of two (0x80000000), and `PlainCodesAssumption`, that in `scancode_set_1` the codes
of a one-byte key start no other row.

**Page frames** (`KernelProofs`)

- **FramesSafe**: `FramesSound`. Neither conjunct is inductive: freeing a page
  clears its frame's bit, which is right only if the frame was not in use since
  boot. The invariant `MmInv` adds that (`HeldFromFree`) and that held pages are
  present. One lemma per operation; the frame the search returns is not marked, so
  since frames are conserved no held page has it. **HeldKeepFrames**: `HeldStable`,
  that a held page keeps its frame until it is freed, as an action property from the
  same invariant.

**Boot memory** (`LoadProofs`) and **processes** (`TreeProofs`)

- **BootBitmapRight**: `BootBitmap`, for every memory map and any number of bits per
  byte. `BootInv` speaks of the entries handled so far: each free frame was freed by
  one of them, and the frames nothing else reaches stay free once their region has
  been handled. `Written` says where a bit comes from once an entry has been written;
  the rest is arithmetic of quotients and remainders.
- **UniqueIds**: the next id is free whenever a process may be created, for every
  table size.

**Heap** (`BuddyProofs`)

- **HeapSafe**: `HeapSound`. `HeapInv` says that the tree is well formed and its
  slots are distinct (`TreeShape`), that leaves are disjoint (`LeavesDisjoint`), that
  free leaves have no page marked except those the running loop has passed
  (`FreeLeavesClear`, `MapLoop`), and that marked heap pages are owned. A split
  replaces a leaf by two disjoint parts of it; everything else leaves the tree alone
  or marks one leaf.
- **HeapRefinement**: with callers that free, the allocator implements `Heap`. The
  end of the mapping loop is a `Grant`, freeing the lowest address a `Release` or
  nothing, and every other step a stutter.
- **ClassIsGranted** and **SearchMissesNothing**: `ClassGranted` and
  `SearchComplete`. `SearchInv` says that children halve their parent, that no
  subtree still to be searched is smaller than the request's class, and that each
  free leaf is in such a subtree or too small. The classes are the least set with the heap's size that is closed under
  halving, so no exponential is needed; since two different powers of two never lie
  both strictly between twice and four times a length, the leaf found is of the
  request's own class.
- **BlocksStayMapped**: `BlocksMapped`, for the kernel as built. `MappedInv` says
  that the pages of blocks, and those the mapping loop has passed, are marked, and
  that marked pages are present.

**Console** (`TtyProofs`), **interrupts** and **keyboard** (`KernelProofs`)

- **RaceStaysInVideo** and **CallsEndOnScreen**: `StaysInVideo` and
  `CursorOnScreen` for every screen of at least two rows and columns and every tab
  width. `RaceBounds` gives each point of `tty_putch` the columns and loaded values
  the race can produce there: a tab whose second load sees a negative column goes
  nearly two stops, and the row below the screen is seen only between its test and
  the scroll. `WholeCalls` says that a call nobody interrupts works on what it has
  loaded. That backspace's scan stops is a minimum of a set of natural numbers,
  which exists because they are well founded.
- **TextBeforeCursor**: `NothingBehindCursor`. `TextInFront` carries it through the
  points of a call: a character is behind the cursor only between its store and the
  cursor's, a scroll moves text and cursor by the same row, and a backspace at the
  start of a row has found the last character of the rows above.
- **DispatchSafe**: `DispatchSound`. `DispatchInv` says which lines are in service
  at each point of a handler's frame, for lines of either controller and for
  withdrawn requests, and that the interrupt flag is clear inside a handler.
- **LinesSafe**: `LinesExpected`. `LinesInv` says that an open line has a handler at
  every point of `kmain` and of a driver's set-up, but for those two lines, and that
  a request taken by the CPU was open when it was.
- **KeysEchoedInOrder**: `EchoInOrder`, for any keys and any number of them. What
  has been printed says nothing of what is on its way, so `KeyboardInv` gives every
  byte between the keyboard and the echo its place in line: `rank` counts the keys
  that are printed once a byte of the wire is, and a byte that prints a key has the
  place of that key among those pressed. The matcher is at a row no later than the
  byte's own, which is the only one that matches.

**Binary tree** (`TreeProofs`)

- **TreeFinds** and **TreeStepLoses**: `FindsStored` and `StepLoses`, for any number
  of nodes and any integers. The walks of the code and `Subtree` are recursive
  functions on the links; they have values only because a link leads to a node
  inserted later, which is the first part of `TreeInv`, and what they compute is
  proved from the last node for which it would be wrong. The second part is what a
  splice needs: a node of the tree is the child its flags say it is of its parent, or
  its parent pointer is stale, and then it points at a node outside the tree, so
  that the splice through it changes nothing that is found. Nodes are taken out
  (`CutOut`) or replaced (`MovedUp`) one link at a time; each keeps the order.

**ext2** (`Ext2Proofs`)

- **CrashKeepsBlocks** and **MarkedWhileChanged**: `BlocksSound` and
  `MarkedUntilUnmount` for every number of groups, inodes and blocks, with a crash
  or (for the mark) a refused write at every step. `BlocksSound` alone is not
  inductive, since a block is on its way for several writes before an inode on disk
  names it. `Ext2Inv` follows it (`OwnersSound`): in the caller's hands and in a
  queued write it is marked, or its bitmap is the next write, and no other inode has
  it. `TodoSound` says in which order writes are queued, and `MarkSound` that a
  valid mark on disk means that nothing is mounted or the next write takes the mark
  away.
- **CrashKeepsCounts** and **UnmountedExact**: `CountsSafe` and `ValidIsExact`. The
  counts in the mount context run ahead of the disk, so both invariants speak of the
  disk as it will be once the queue has been written (its settled view). `CountsInv`
  says that the counts cover what is on disk and what will be, `ExactInv` that as
  long as nothing was lost they are exact for the latter, and that an inode the
  caller holds is marked and has never been written. Cardinalities change by one
  element at a time, by the library's theorems on finite sets.

**Disk and its formatting** (`IdeProofs`)

- **DrivesAwaited**: `WorksWhileWaited`, and **WritesAsAsked**: `OnlyAskedWritten`,
  for any number of PCI functions and sectors, any drives and any sequence of
  requests. A drive that is left with a command would break both at the next
  request, so `IdeInv` says what a wait that returns has seen: the kernel is past its
  delay only when the drive has taken the command, it transfers only when the drive
  asks for data, and a drive at work has the command and the sector of the request
  the kernel waits for (`InStep`).
- **ProbeFindsDrives** and **TransfersAsAsked**: `ProbeExact` and `TransfersExact`.
  `ProbeInv` says what is known of the positions already probed, and that probing
  one leaves the drives of the others alone; `TransfersInv` what the buffer and the
  platter hold at each point of a request, up to the errors the code drops.

- **FormatLaysOut**: `LayoutRight`, for every size of device and every geometry. The
  bytes of the bitmaps are built by shifting; `LowBits` and `HighBits` say which bits
  of 2^n - 1 and of its complement are set, from the least exponent for which they
  would not be. `LayoutInv` adds that up to the last group the bitmap is the initial
  one, and that `curr_block` is the start of the next group, which holds because the
  metadata and the free blocks of a group that is not the last make a whole group.

**Open files and programs** (`LoadProofs`)

- **StreamsOwnFiles**: `OwnFile`, for any table size, any files and any sequence of
  calls. `FilesInv` adds that only the entries of standard streams are ever marked
  as used, that numbers below 3 belong to these as long as none was closed, and that
  the entry of a file's stream describes the file unless the stream is spoilt
  (`StreamFits`).
- **ProgramsLoadedExactly** and **LoadsSurvived**: `LoadedExact` and `SurvivesLoad`,
  for every image. `LoadInv` is about the headers each loop has done: `mem_high` is
  the highest end among them, and the block holds what the segments copied so far
  put there, none of them behind its end. A block whose class suits the top is
  larger than twice the top as long as doubling it does not wrap around.

**FAT16** (`Fat16Proofs`)

- **FileReadRight** and **ReadOverrun**: `ReadsContent` and `OverrunBounded`, for every
  volume, path, length and size of a cluster. `ReadInv` says that what
  `fat16_read_cluster_fat_chain` has followed is the start of the file's chain as long
  as every FAT entry of it lies in the buffer, and that the loop of `fat16_read_file`
  has stored whole clusters of it, the last one with the last byte asked for. The
  chain of a file is defined by a recursive function; that it follows the FAT link by
  link (`TrueChainFollows`) is proved by looking at the least number of links for
  which it would not.
- **LookupFinds**: `LookupRight`, for every volume and path. `LookupInv` says that the
  entries passed in a directory hold no match and no end, and that the directory
  being searched is one the path names; so what is found is what the reference
  `Resolve` finds, which is proved from the least number of components of the path
  for which it would differ. The hypotheses (`PlainPath`) are part of the property:
  the root directory fills its clusters, the directories of the path can be followed,
  and no name of the path is cut.

Type correctness is part of the invariants named, and is proved with them;
`DispatchInv` and `KeyboardInv` bound what their arguments need.

Only model-checked:

- all liveness properties (`AllocReturns`, `KeyboardServed`, `EchoComplete`,
  `Drained`, `LookupEnds`, `Settles`, `ScanEnds`): the proof system has no rules for
  fairness that would reach them;
- `Formatted` (`Sprintf`): it compares a scanner of formats and the digits of numbers
  with flattened sequences and numerals of a reference, over all shapes of a
  directive.

## 7. Not modelled

- The string and memory functions (`libc/string`): byte loops without state, which
  the models use as what they compute (a copy, a comparison).
- Port I/O (`arch/i686/iobase.c`): single instructions; the devices behind the ports
  are in `Interrupts`, `Keyboard` and `Ide`.
- The assembly before `kmain`, which runs once and without choices.
- The arithmetic of `fat16_create_context` on the fields of the boot sector, and of
  PCI's address port: a fixed formula each, without a case to tell apart.
- Code no call reaches: requests for several sectors or blocks, an inode that is
  not named, `elf__parse_section_headers`, `elf__process_relocation` and
  `mm_is_memory_available`.
- `kaos_kernmalloc`, which moves a pointer up and is called once, when a device is
  formatted.
- Of modelled parts: screen colours, TLB flushes, failing reads in `Ext2`, a full
  directory block, and a directory block with old content, whose walk follows bytes
  nobody wrote as a directory.
