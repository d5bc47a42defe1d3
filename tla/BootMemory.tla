----------------------------- MODULE BootMemory -----------------------------
(***************************************************************************)
(* mm_init (kernel/mm/mm.c): the frame bitmap built from the memory map of *)
(* the boot loader.  A step handles one entry of the map.  Bytes of the    *)
(* bitmap are written whole, so what an entry does to the frames it shares *)
(* a byte with depends on the entries before it.                           *)
(*                                                                         *)
(* A bitmap is the set of the frames whose bit is 1.  An entry that ends   *)
(* at 4 GB, or lies above, also writes behind the array: those bits are    *)
(* kept in the same set, as the frames from MapFrames on.                  *)
(***************************************************************************)
EXTENDS Integers, FiniteSets, Sequences

CONSTANTS
  BitsPerByte,  \* 8 in the code
  FrameSize,    \* 4096 in the code
  MapFrames,    \* frames of the 4 GB the bitmap has bits for
  LowFrames,    \* the first 64 MB, kept for the kernel
  MemoryMaps    \* the memory maps looked at: sequences of entries

\* "reserved" stands for every type the boot loader has no name for.
Types == {"available", "reserved", "acpi", "nvs", "badram"}

ASSUME BootMemoryAssumption ==
  /\ {BitsPerByte, FrameSize, MapFrames} \subseteq Nat \ {0}
  /\ MapFrames % BitsPerByte = 0
  /\ LowFrames \in 0 .. MapFrames /\ LowFrames % BitsPerByte = 0
  /\ \A map \in MemoryMaps : map \in Seq([type : Types, addr : Nat, len : Nat])

Frames == 0 .. MapFrames - 1

VARIABLES
  given,            \* flag 6 of the multiboot information: there is a map
  memory_map,       \* its entries: type, addr, len
  entry,            \* the next entry
  page_bitmap,      \* mm_page_alloc_bitmap
  available_count,  \* mm_available_block_count
  init_result       \* what mm_init returned, "running" before

bootVars ==
  <<given, memory_map, entry, page_bitmap, available_count, init_result>>

\* The array is zero before mm_init; 0xFF is the first thing it writes, but
\* only when there is a map.
BootInit(map, is_given) ==
  /\ given = is_given /\ memory_map = map
  /\ entry = 1
  /\ page_bitmap = IF is_given THEN Frames ELSE {}
  /\ available_count = 0
  /\ init_result = "running"

NoMemoryMap ==
  /\ ~given /\ init_result = "running"
  /\ init_result' = "INIT_ERROR"
  /\ UNCHANGED <<given, memory_map, entry, page_bitmap, available_count>>

FramesOf(byte) == byte * BitsPerByte .. (byte + 1) * BitsPerByte - 1
ByteOf(frame) == frame \div BitsPerByte
LowBits(frame, n) == {f \in FramesOf(ByteOf(frame)) : f % BitsPerByte < n}

(***************************************************************************)
(* Both kinds of entries write the byte of their first frame, then every   *)
(* byte up to the one of their end, and then that one again: edge is what  *)
(* the byte of the first frame gets, inner the bits of the bytes between,  *)
(* last those of the byte of the end.                                      *)
(***************************************************************************)
WriteBytes(start, end, edge, inner, last) ==
  LET between == UNION {FramesOf(b) : b \in ByteOf(start) + 1 .. ByteOf(end)}
      first_written == (page_bitmap \ FramesOf(ByteOf(start))) \cup edge
      inner_written == (first_written \ between)
                         \cup {f \in between : f % BitsPerByte \in inner}
  IN (inner_written \ FramesOf(ByteOf(end))) \cup last

StartBlock(e) == e.addr \div FrameSize

\* Faulty variant: the frames before the region are freed as well.
Available_WholeByte(e) ==
  LET start == StartBlock(e)
      end == start + e.len \div FrameSize
  IN WriteBytes(start, end, {}, {}, LowBits(end, end % BitsPerByte))

\* In the byte of the end the bits below the end are set, the others clear.
Available(e) ==
  LET start == StartBlock(e)
      end == start + e.len \div FrameSize
  IN WriteBytes(start, end, LowBits(start, start % BitsPerByte), {},
                LowBits(end, end % BitsPerByte))

\* The bytes between get the value 1: one frame of eight is marked.
Reserved(e) ==
  LET start == StartBlock(e)
      end == (e.addr + e.len) \div FrameSize
  IN IF e.len = 0 THEN page_bitmap
     ELSE WriteBytes(start, end,
                     LowBits(start, BitsPerByte - (start % BitsPerByte)), {0},
                     LowBits(end, BitsPerByte - (end % BitsPerByte)))

HandleEntry ==
  LET e == memory_map[entry]
  IN /\ given /\ init_result = "running" /\ entry <= Len(memory_map)
     /\ page_bitmap' = CASE e.type = "available" -> Available(e)
                         [] e.type \in {"acpi", "nvs", "badram"} -> page_bitmap
                         [] OTHER -> Reserved(e)
     /\ entry' = entry + 1
     /\ UNCHANGED <<given, memory_map, available_count, init_result>>

\* The low frames are marked, and the clear bits counted.
FinishMap ==
  LET marked == page_bitmap \cup 0 .. LowFrames - 1
  IN /\ given /\ init_result = "running" /\ entry > Len(memory_map)
     /\ page_bitmap' = marked
     /\ available_count' = Cardinality(Frames \ marked)
     /\ init_result' = "NO_ERROR"
     /\ UNCHANGED <<given, memory_map, entry>>

mm_init == NoMemoryMap \/ HandleEntry \/ FinishMap

BootSpec ==
  /\ \E map \in MemoryMaps, is_given \in BOOLEAN : BootInit(map, is_given)
  /\ [][mm_init]_bootVars

-----------------------------------------------------------------------------
EntriesOf(type) == {e \in {memory_map[k] : k \in 1 .. Len(memory_map)} : e.type = type}
EndBlock(e) == StartBlock(e) + e.len \div FrameSize
InBytes(e) == ByteOf(StartBlock(e)) .. ByteOf((e.addr + e.len) \div FrameSize)
FreeFrames == Frames \ page_bitmap

\* A frame of region e that no other entry's bytes reach, outside the bytes
\* of the region's own end and of the low frames.
Untouched(e, f) ==
  /\ f \in StartBlock(e) .. EndBlock(e) - 1 /\ f >= LowFrames /\ f < MapFrames
  /\ ByteOf(f) # ByteOf(EndBlock(e))
  /\ \A o \in EntriesOf("available") \cup EntriesOf("reserved") :
       o # e => ByteOf(f) \notin InBytes(o)

(***************************************************************************)
(* With a memory map, mm_init frees no frame of the low 64 MB, and none    *)
(* but those of an available region, of the byte an available region ends  *)
(* in, and of a reserved region: holes, ACPI memory and bad memory stay    *)
(* marked, whatever order the entries come in.  Inside an available region *)
(* every frame is free that no other entry's bytes reach.                  *)
(***************************************************************************)
BootBitmap ==
  init_result = "NO_ERROR" =>
    /\ \A f \in FreeFrames :
         /\ f >= LowFrames
         /\ \/ \E e \in EntriesOf("available") :
                 f \in (StartBlock(e) .. EndBlock(e) - 1) \cup FramesOf(ByteOf(EndBlock(e)))
            \/ \E e \in EntriesOf("reserved") : e.len > 0 /\ ByteOf(f) \in InBytes(e)
    /\ \A e \in EntriesOf("available") : \A f \in Frames :
         Untouched(e, f) => f \in FreeFrames

-----------------------------------------------------------------------------
(***************************************************************************)
(* The inductive invariant behind BootBitmap, over the entries handled so  *)
(* far: the frames that are free have been freed by one of them, and those *)
(* nothing else reaches stay free once their region has been handled.      *)
(***************************************************************************)
Frees(e, f) ==
  \/ /\ e.type = "available"
     /\ f \in (StartBlock(e) .. EndBlock(e) - 1) \cup FramesOf(ByteOf(EndBlock(e)))
  \/ e.type = "reserved" /\ e.len > 0 /\ ByteOf(f) \in InBytes(e)

Building ==
  /\ \A f \in FreeFrames : \E k \in 1 .. entry - 1 : Frees(memory_map[k], f)
  /\ \A k \in 1 .. entry - 1 : \A f \in Frames :
       memory_map[k].type = "available" /\ Untouched(memory_map[k], f) => f \in FreeFrames

BootInv ==
  /\ memory_map \in Seq([type : Types, addr : Nat, len : Nat])
  /\ entry \in 1 .. Len(memory_map) + 1
  /\ given /\ init_result = "running" => Building
  /\ ~given => init_result # "NO_ERROR"
  /\ BootBitmap
=============================================================================
