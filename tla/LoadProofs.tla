----------------------------- MODULE LoadProofs -----------------------------
(***************************************************************************)
(* The frame bitmap mm_init builds, for any memory map.  The streams of    *)
(* the kernel's stdio and the programs it loads, for any size of the table *)
(* of open files, any files and programs and any number of system calls.   *)
(***************************************************************************)
EXTENDS BootMemory, Programs, TLAPS

(***************************************************************************)
(* Frames and the bytes of the bitmap they have their bits in.             *)
(***************************************************************************)
LEMMA Bits == BitsPerByte \in Nat \ {0} /\ FrameSize \in Nat \ {0} /\ MapFrames \in Nat \ {0}
BY BootMemoryAssumption

LEMMA Division ==
  ASSUME NEW n \in Nat \ {0}, NEW x \in Nat
  PROVE  /\ x \div n \in Nat /\ x % n \in 0 .. n - 1
         /\ x = n * (x \div n) + (x % n)
OBVIOUS

LEMMA DivLess ==
  ASSUME NEW n \in Nat \ {0}, NEW x \in Nat, NEW y \in Nat
  PROVE  /\ x <= y => x \div n <= y \div n
         /\ x \div n = y \div n => (x < y <=> x % n < y % n)
         /\ x \div n + y \div n <= (x + y) \div n
OBVIOUS

LEMMA InByte ==
  ASSUME NEW b \in Nat, NEW f \in Nat
  PROVE  f \in FramesOf(b) <=> ByteOf(f) = b
<1>1. \A n \in Nat \ {0} : \A c \in Nat : n * c \in Nat /\ (c + 1) * n = n * c + n /\ c * n = n * c
  OBVIOUS
<1>2. \A n \in Nat \ {0} : \A c, d \in Nat : c < d => n * c + n <= n * d
  OBVIOUS
<1> DEFINE n == BitsPerByte
           q == f \div n
           r == f % n
<1>3. n \in Nat \ {0} /\ q \in Nat /\ r \in 0 .. n - 1 /\ f = n * q + r
  BY Bits, Division
<1>4. f \in FramesOf(b) <=> n * b <= f /\ f < n * b + n
  BY <1>1, <1>3 DEF FramesOf
<1>5. q < b => n * q + n <= n * b
  BY <1>2, <1>3
<1>6. b < q => n * b + n <= n * q
  BY <1>2, <1>3
<1> HIDE DEF n, q, r
<1>7. n * q \in Nat /\ n * b \in Nat
  BY <1>1, <1>3
<1>8. f \in FramesOf(b) <=> q = b
  BY <1>3, <1>4, <1>5, <1>6, <1>7
<1> QED BY <1>8 DEF ByteOf, n, q

LEMMA ByteOrder ==
  ASSUME NEW f \in Nat, NEW g \in Nat
  PROVE  /\ ByteOf(f) \in Nat
         /\ f <= g => ByteOf(f) <= ByteOf(g)
         /\ ByteOf(f) = ByteOf(g) => (f < g <=> f % BitsPerByte < g % BitsPerByte)
BY Bits, Division, DivLess DEF ByteOf

\* Where a bit of the bitmap comes from when an entry has been written.
LEMMA Written ==
  ASSUME NEW start \in Nat, NEW end \in Nat, start <= end, NEW edge, NEW inner, NEW final, NEW f \in Nat,
         edge \subseteq FramesOf(ByteOf(start)), final \subseteq FramesOf(ByteOf(end))
  PROVE  /\ ByteOf(f) = ByteOf(end) =>
              (f \in WriteBytes(start, end, edge, inner, final) <=> f \in final)
         /\ ByteOf(f) = ByteOf(start) /\ ByteOf(f) # ByteOf(end) =>
              (f \in WriteBytes(start, end, edge, inner, final) <=> f \in edge)
         /\ ByteOf(start) < ByteOf(f) /\ ByteOf(f) < ByteOf(end) =>
              (f \in WriteBytes(start, end, edge, inner, final) <=> f % BitsPerByte \in inner)
         /\ ByteOf(f) \notin ByteOf(start) .. ByteOf(end) =>
              (f \in WriteBytes(start, end, edge, inner, final) <=> f \in page_bitmap)
<1> DEFINE B == ByteOf(f)
           between == UNION {FramesOf(b) : b \in ByteOf(start) + 1 .. ByteOf(end)}
<1>1. B \in Nat /\ ByteOf(start) \in Nat /\ ByteOf(end) \in Nat /\ ByteOf(start) <= ByteOf(end)
  BY ByteOrder
<1>2. f \in FramesOf(ByteOf(start)) <=> B = ByteOf(start)
  BY <1>1, InByte
<1>3. f \in FramesOf(ByteOf(end)) <=> B = ByteOf(end)
  BY <1>1, InByte
<1>4. f \in between <=> B \in ByteOf(start) + 1 .. ByteOf(end)
  <2>1. \A b \in ByteOf(start) + 1 .. ByteOf(end) : f \in FramesOf(b) <=> B = b
    BY <1>1, InByte
  <2> QED BY <2>1
<1>5. f \in WriteBytes(start, end, edge, inner, final) <=>
        \/ f \in final
        \/ /\ B # ByteOf(end)
           /\ \/ f \notin between /\ (f \in edge \/ (f \in page_bitmap /\ B # ByteOf(start)))
              \/ f \in between /\ f % BitsPerByte \in inner
  BY <1>2, <1>3 DEF WriteBytes
<1> HIDE DEF between, B
<1>6. /\ f \in edge => B = ByteOf(start)
      /\ f \in final => B = ByteOf(end)
  BY <1>2, <1>3
<1> QED BY <1>1, <1>4, <1>5, <1>6 DEF B

Entries == [type : Types, addr : Nat, len : Nat]

LEMMA EntryBlocks ==
  ASSUME NEW e \in Entries
  PROVE  /\ StartBlock(e) \in Nat /\ EndBlock(e) \in Nat /\ StartBlock(e) <= EndBlock(e)
         /\ (e.addr + e.len) \div FrameSize \in Nat
         /\ EndBlock(e) <= (e.addr + e.len) \div FrameSize
<1>1. e.addr \in Nat /\ e.len \in Nat /\ e.addr + e.len \in Nat
  BY DEF Entries
<1>2. StartBlock(e) \in Nat /\ e.len \div FrameSize \in Nat /\ (e.addr + e.len) \div FrameSize \in Nat
  BY <1>1, Bits, Division DEF StartBlock
<1>3. StartBlock(e) + e.len \div FrameSize <= (e.addr + e.len) \div FrameSize
  BY <1>1, Bits, DivLess DEF StartBlock
<1> QED BY <1>2, <1>3 DEF EndBlock

LEMMA LowBitsAre ==
  ASSUME NEW g \in Nat, NEW n \in Int, NEW f \in Nat
  PROVE  /\ LowBits(g, n) \subseteq FramesOf(ByteOf(g))
         /\ ByteOf(f) = ByteOf(g) => (f \in LowBits(g, n) <=> f % BitsPerByte < n)
BY InByte, ByteOrder DEF LowBits

(***************************************************************************)
(* An available entry frees its frames, at most those and the ones of the  *)
(* byte it ends in, and leaves the bytes outside its own alone.            *)
(***************************************************************************)
LEMMA AvailableFrees ==
  ASSUME NEW e \in Entries, NEW f \in Nat
  PROVE  /\ f \in StartBlock(e) .. EndBlock(e) - 1 /\ ByteOf(f) # ByteOf(EndBlock(e)) =>
              f \notin Available(e)
         /\ f \notin Available(e) =>
              \/ f \in StartBlock(e) .. EndBlock(e) - 1
              \/ f \in FramesOf(ByteOf(EndBlock(e)))
              \/ f \notin page_bitmap
         /\ ByteOf(f) \notin InBytes(e) => (f \in Available(e) <=> f \in page_bitmap)
<1> DEFINE start == StartBlock(e)
           end == EndBlock(e)
           edge == LowBits(start, start % BitsPerByte)
           final == LowBits(end, end % BitsPerByte)
<1>1. start \in Nat /\ end \in Nat /\ start <= end
  BY EntryBlocks
<1>2. Available(e) = WriteBytes(start, end, edge, {}, final)
  BY DEF Available, EndBlock
<1> HIDE DEF start, end
<1>3. /\ start % BitsPerByte \in Nat /\ end % BitsPerByte \in Nat
      /\ edge \subseteq FramesOf(ByteOf(start)) /\ final \subseteq FramesOf(ByteOf(end))
      /\ ByteOf(f) = ByteOf(start) => (f \in edge <=> f < start)
  <2>1. start % BitsPerByte \in Nat /\ end % BitsPerByte \in Nat
    BY <1>1, Bits, Division
  <2>2. edge \subseteq FramesOf(ByteOf(start)) /\ final \subseteq FramesOf(ByteOf(end))
    BY DEF LowBits
  <2>3. ByteOf(f) = ByteOf(start) => (f \in edge <=> f % BitsPerByte < start % BitsPerByte)
    BY <1>1, <2>1, LowBitsAre
  <2>4. ByteOf(f) = ByteOf(start) => (f < start <=> f % BitsPerByte < start % BitsPerByte)
    BY <1>1, ByteOrder
  <2> QED BY <2>1, <2>2, <2>3, <2>4
<1> HIDE DEF edge, final
<1>4. /\ ByteOf(f) = ByteOf(start) /\ ByteOf(f) # ByteOf(end) => (f \in Available(e) <=> f < start)
      /\ ByteOf(start) < ByteOf(f) /\ ByteOf(f) < ByteOf(end) => f \notin Available(e)
      /\ ByteOf(f) \notin ByteOf(start) .. ByteOf(end) => (f \in Available(e) <=> f \in page_bitmap)
  BY <1>1, <1>2, <1>3, Written
<1>5. /\ ByteOf(f) \in Nat /\ ByteOf(start) \in Nat /\ ByteOf(end) \in Nat
      /\ f <= start => ByteOf(f) <= ByteOf(start)
      /\ start <= f => ByteOf(start) <= ByteOf(f)
      /\ end <= f => ByteOf(end) <= ByteOf(f)
      /\ f <= end => ByteOf(f) <= ByteOf(end)
  BY <1>1, ByteOrder
<1>6. f \in start .. end - 1 /\ ByteOf(f) # ByteOf(end) => f \notin Available(e)
  BY <1>1, <1>4, <1>5
<1>7. f \in FramesOf(ByteOf(end)) <=> ByteOf(f) = ByteOf(end)
  BY <1>5, InByte
<1>8. f \notin Available(e) =>
        f \in start .. end - 1 \/ f \in FramesOf(ByteOf(end)) \/ f \notin page_bitmap
  BY <1>1, <1>4, <1>5, <1>7
<1>9. ByteOf(end) <= ByteOf((e.addr + e.len) \div FrameSize)
  BY EntryBlocks, ByteOrder DEF end
<1>10. ByteOf((e.addr + e.len) \div FrameSize) \in Nat
  BY EntryBlocks, ByteOrder
<1>11. ByteOf(f) \notin InBytes(e) => ByteOf(f) \notin ByteOf(start) .. ByteOf(end)
  BY <1>5, <1>9, <1>10 DEF InBytes, start
<1> QED BY <1>4, <1>6, <1>8, <1>11 DEF start, end

LEMMA ReservedLeaves ==
  ASSUME NEW e \in Entries, NEW f \in Nat, e.len = 0 \/ ByteOf(f) \notin InBytes(e)
  PROVE  f \in Reserved(e) <=> f \in page_bitmap
<1> DEFINE start == StartBlock(e)
           end == (e.addr + e.len) \div FrameSize
           edge == LowBits(start, BitsPerByte - (start % BitsPerByte))
           final == LowBits(end, BitsPerByte - (end % BitsPerByte))
<1>1. start \in Nat /\ end \in Nat /\ start <= end
  BY EntryBlocks
<1>2. CASE e.len = 0
  BY <1>2 DEF Reserved
<1>3. CASE e.len # 0
  <2>1. Reserved(e) = WriteBytes(start, end, edge, {0}, final)
    BY <1>3 DEF Reserved
  <2>2. ByteOf(f) \notin ByteOf(start) .. ByteOf(end)
    BY <1>3 DEF InBytes
  <2> HIDE DEF start, end
  <2>3. edge \subseteq FramesOf(ByteOf(start)) /\ final \subseteq FramesOf(ByteOf(end))
    BY DEF LowBits
  <2> HIDE DEF edge, final
  <2> QED BY <1>1, <2>1, <2>2, <2>3, Written
<1> QED BY <1>2, <1>3

LEMMA BootInitInv ==
  ASSUME NEW map \in MemoryMaps, NEW is_given \in BOOLEAN, BootInit(map, is_given)
  PROVE  BootInv
<1>1. /\ memory_map \in Seq(Entries) /\ entry = 1 /\ init_result = "running"
      /\ (given => page_bitmap = Frames)
  BY BootMemoryAssumption DEF BootInit, Entries
<1>2. entry \in 1 .. Len(memory_map) + 1
  BY <1>1
<1>3. given => Building
  BY <1>1 DEF Building, FreeFrames
<1> QED BY <1>1, <1>2, <1>3 DEF BootInv, BootBitmap, Entries

LEMMA HandleEntryInv ==
  ASSUME BootInv, HandleEntry
  PROVE  BootInv'
<1> DEFINE e == memory_map[entry]
<1>1. /\ given /\ given' /\ init_result = "running" /\ init_result' = "running" /\ memory_map' = memory_map
      /\ memory_map \in Seq(Entries) /\ entry \in 1 .. Len(memory_map) /\ entry' = entry + 1
      /\ entry' \in 1 .. Len(memory_map) + 1 /\ Building /\ e \in Entries /\ e.type \in Types
  <2>1. /\ given /\ given' /\ init_result = "running" /\ init_result' = "running" /\ memory_map' = memory_map
        /\ memory_map \in Seq(Entries) /\ entry \in 1 .. Len(memory_map) + 1
        /\ entry <= Len(memory_map) /\ entry' = entry + 1 /\ Building
    BY DEF BootInv, HandleEntry, Entries
  <2> HIDE DEF e
  <2>2. entry \in 1 .. Len(memory_map) /\ entry' \in 1 .. Len(memory_map) + 1
    BY <2>1
  <2>3. e \in Entries
    BY <2>1, <2>2 DEF e
  <2> QED BY <2>1, <2>2, <2>3 DEF Entries
<1>2. page_bitmap' = IF e.type = "available" THEN Available(e)
                     ELSE IF e.type = "reserved" THEN Reserved(e) ELSE page_bitmap
  BY <1>1 DEF HandleEntry, Types
<1>3. Frames \subseteq Nat
  BY Bits DEF Frames
<1>4. ASSUME NEW f \in Frames, f \notin page_bitmap'
      PROVE  \E k \in 1 .. entry : Frees(memory_map[k], f)
  <2>1. CASE f \notin page_bitmap
    BY <1>1, <2>1 DEF Building, FreeFrames
  <2>2. CASE f \in page_bitmap
    <3>1. Frees(e, f)
      <4>1. CASE e.type = "available"
        BY <1>1, <1>2, <1>3, <1>4, <2>2, <4>1, AvailableFrees DEF Frees
      <4>2. CASE e.type = "reserved"
        <5>1. e.len # 0 /\ ByteOf(f) \in InBytes(e)
          BY <1>1, <1>2, <1>3, <1>4, <2>2, <4>2, ReservedLeaves
        <5>2. e.len > 0
          BY <1>1, <5>1 DEF Entries
        <5> QED BY <4>2, <5>1, <5>2 DEF Frees
      <4> QED BY <1>2, <1>4, <2>2, <4>1, <4>2
    <3> QED BY <1>1, <3>1
  <2> QED BY <2>1, <2>2
<1>5. ASSUME NEW k \in 1 .. entry, NEW f \in Frames, memory_map[k].type = "available",
             Untouched(memory_map[k], f)
      PROVE  f \notin page_bitmap'
  <2>1. CASE e = memory_map[k]
    BY <1>1, <1>2, <1>3, <1>5, <2>1, AvailableFrees DEF Untouched
  <2>2. CASE e # memory_map[k]
    <3>1. f \notin page_bitmap
      BY <1>1, <1>5, <2>2 DEF Building, FreeFrames
    <3>2. e.type \in {"available", "reserved"} => ByteOf(f) \notin InBytes(e)
      <4>1. e.type \in {"available", "reserved"} =>
              e \in EntriesOf("available") \cup EntriesOf("reserved")
        BY <1>1 DEF EntriesOf
      <4> QED BY <1>5, <2>2, <4>1 DEF Untouched
    <3> QED BY <1>1, <1>2, <1>3, <3>1, <3>2, AvailableFrees, ReservedLeaves
  <2> QED BY <2>1, <2>2
<1> HIDE DEF e
<1>6. ASSUME NEW g, NEW f PROVE (Frees(g, f)' <=> Frees(g, f)) /\ (Untouched(g, f)' <=> Untouched(g, f))
  BY <1>1 DEF Frees, Untouched, EntriesOf, EndBlock, StartBlock, FramesOf, ByteOf, InBytes
<1>7. entry' - 1 = entry
  BY <1>1, SMTT(30), ZenonT(30)
<1>8. Building'
  BY <1>1, <1>4, <1>5, <1>6, <1>7, SMTT(30), ZenonT(30) DEF Building, FreeFrames, Frames
<1> QED BY <1>1, <1>8 DEF BootInv, BootBitmap, Entries

LEMMA FinishMapInv ==
  ASSUME BootInv, FinishMap
  PROVE  BootInv'
<1>1. /\ given /\ given' /\ init_result = "running" /\ init_result' = "NO_ERROR" /\ memory_map' = memory_map
      /\ memory_map \in Seq(Entries) /\ entry' = entry /\ entry \in 1 .. Len(memory_map) + 1
      /\ entry > Len(memory_map) /\ Building /\ page_bitmap' = page_bitmap \cup 0 .. LowFrames - 1
  BY DEF BootInv, FinishMap, Entries
<1>2. entry - 1 = Len(memory_map) /\ Frames \subseteq Nat /\ LowFrames \in Nat
  BY <1>1, BootMemoryAssumption DEF Frames
<1>3. ASSUME NEW f \in Frames, f \notin page_bitmap'
      PROVE  /\ f >= LowFrames
             /\ \/ \E e \in EntriesOf("available") :
                     f \in (StartBlock(e) .. EndBlock(e) - 1) \cup FramesOf(ByteOf(EndBlock(e)))
                \/ \E e \in EntriesOf("reserved") : e.len > 0 /\ ByteOf(f) \in InBytes(e)
  <2>1. f >= LowFrames /\ f \notin page_bitmap
    BY <1>1, <1>2, <1>3
  <2>2. PICK k \in 1 .. Len(memory_map) : Frees(memory_map[k], f)
    BY <1>1, <1>2, <2>1 DEF Building, FreeFrames
  <2>3. \A t : memory_map[k].type = t => memory_map[k] \in EntriesOf(t)
    BY DEF EntriesOf
  <2> QED BY <2>1, <2>2, <2>3 DEF Frees
<1>4. ASSUME NEW e \in EntriesOf("available"), NEW f \in Frames, Untouched(e, f)
      PROVE  f \notin page_bitmap'
  <2>1. PICK k \in 1 .. Len(memory_map) : e = memory_map[k] /\ e.type = "available"
    BY DEF EntriesOf
  <2>2. f \notin page_bitmap /\ f >= LowFrames
    BY <1>1, <1>2, <1>4, <2>1, SMTT(30), ZenonT(30) DEF Building, FreeFrames, Untouched
  <2> QED BY <1>1, <1>2, <2>2
<1>5. BootBitmap'
  BY <1>1, <1>3, <1>4
     DEF BootBitmap, FreeFrames, Frames, Untouched, EntriesOf, EndBlock, StartBlock, FramesOf, ByteOf, InBytes
<1> QED BY <1>1, <1>5 DEF BootInv, Entries

(***************************************************************************)
(* mm_init leaves free the frames of the available regions that nothing    *)
(* else reaches, and no frame of low memory, of a hole or of ACPI memory,  *)
(* for every memory map.                                                   *)
(***************************************************************************)
THEOREM BootBitmapRight == BootSpec => []BootBitmap
<1>1. (\E map \in MemoryMaps, is_given \in BOOLEAN : BootInit(map, is_given)) => BootInv
  BY BootInitInv
<1>2. BootInv /\ [mm_init]_bootVars => BootInv'
  <2> SUFFICES ASSUME BootInv, [mm_init]_bootVars PROVE BootInv'
    OBVIOUS
  <2>1. CASE NoMemoryMap
    BY <2>1 DEF NoMemoryMap, BootInv, BootBitmap
  <2>2. CASE HandleEntry
    BY <2>2, HandleEntryInv
  <2>3. CASE FinishMap
    BY <2>3, FinishMapInv, SMTT(30), ZenonT(30)
  <2>4. CASE UNCHANGED bootVars
    <3>1. /\ memory_map' = memory_map /\ entry' = entry /\ page_bitmap' = page_bitmap
          /\ given' = given /\ init_result' = init_result
      BY <2>4 DEF bootVars
    <3>2. \A type : EntriesOf(type)' = EntriesOf(type)
      BY <3>1 DEF EntriesOf
    <3>3. FreeFrames' = FreeFrames
      BY <3>1 DEF FreeFrames, Frames
    <3>4. \A e, f : Untouched(e, f)' = Untouched(e, f)
      BY <3>2, ZenonT(30), SMTT(30)
      DEF Untouched, EndBlock, StartBlock, ByteOf, InBytes
    <3>5. \A e, f : Frees(e, f)' = Frees(e, f)
      BY ZenonT(30), SMTT(30) DEF Frees, EndBlock, StartBlock, FramesOf, ByteOf, InBytes
    <3>6. Building' = Building
      BY <3>1, <3>3, <3>4, <3>5, ZenonT(30), SMTT(30) DEF Building, Frames
    <3>7. BootBitmap' = BootBitmap
      BY <3>1, <3>2, <3>3, <3>4, ZenonT(30), SMTT(30)
      DEF BootBitmap, Frames, EndBlock, StartBlock, FramesOf, ByteOf, InBytes
    <3> QED BY <3>1, <3>6, <3>7, ZenonT(30), SMTT(30) DEF BootInv
  <2> QED BY <2>1, <2>2, <2>3, <2>4 DEF mm_init
<1>3. BootInv => BootBitmap
  BY DEF BootInv
<1> QED BY <1>1, <1>2, <1>3, PTL DEF BootSpec

-----------------------------------------------------------------------------
FileRecords == [path : Devices \cup OnDisk, fileno : FileNos]

\* The search of fopen always ends at an entry, the fourth one at the latest.
LEMMA FreeEntry ==
  ASSUME NEW U \in SUBSET {0, 1, 2}
  PROVE  /\ Min(FileNos \ U) \in FileNos
         /\ U = {0, 1, 2} => Min(FileNos \ U) = 3
<1>1. {0, 1, 2, 3} \subseteq FileNos /\ FileNos \subseteq Nat
  BY OpenFilesAssumption DEF FileNos
<1>2. \A y \in FileNos : y \notin {0, 1, 2} => 3 <= y
  BY <1>1
<1>3. PICK x \in FileNos \ U : \A y \in FileNos \ U : x <= y
  <2>1. CASE 0 \notin U BY <1>1, <2>1
  <2>2. CASE 0 \in U /\ 1 \notin U
    <3>1. \A y \in FileNos \ U : 1 <= y BY <1>1, <2>2
    <3> QED BY <1>1, <2>2, <3>1
  <2>3. CASE 0 \in U /\ 1 \in U /\ 2 \notin U
    <3>1. \A y \in FileNos \ U : 2 <= y BY <1>1, <2>3
    <3> QED BY <1>1, <2>3, <3>1
  <2>4. CASE 0 \in U /\ 1 \in U /\ 2 \in U
    <3>1. 3 \in FileNos \ U /\ \A y \in FileNos \ U : 3 <= y BY <1>1, <1>2, <2>4
    <3> QED BY <3>1
  <2> QED BY <2>1, <2>2, <2>3, <2>4
<1>4. /\ Min(FileNos \ U) \in FileNos \ U
      /\ \A y \in FileNos \ U : Min(FileNos \ U) <= y
  BY <1>3 DEF Min
<1>5. ASSUME U = {0, 1, 2} PROVE Min(FileNos \ U) = 3
  <2>1. 3 \in FileNos \ U
    BY <1>1, <1>5
  <2>2. Min(FileNos \ U) <= 3 /\ 3 <= Min(FileNos \ U) /\ Min(FileNos \ U) \in Nat
    BY <1>1, <1>2, <1>4, <1>5, <2>1
  <2> QED BY <2>2
<1> QED BY <1>4, <1>5

\* The number fopen gives to the name of a standard stream.
LEMMA DeviceNumber ==
  ASSUME NEW path \in Devices
  PROVE  LET slot == (CHOOSE k \in 1 .. 3 : DeviceNames[k] = path) - 1
         IN /\ slot \in FileNos /\ slot < 3
            /\ slot \in {1, 2} <=> path \in {"/dev/stdout", "/dev/stderr"}
<1> DEFINE k == CHOOSE q \in 1 .. 3 : DeviceNames[q] = path
<1>1. k \in 1 .. 3 /\ DeviceNames[k] = path
  BY DEF Devices
<1>2. /\ DeviceNames[1] = "/dev/stdin" /\ DeviceNames[2] = "/dev/stdout"
      /\ DeviceNames[3] = "/dev/stderr"
  BY DEF DeviceNames
<1> HIDE DEF k
<1>3. k \in {1, 2, 3}
  BY <1>1
<1>4. k - 1 \in FileNos /\ k - 1 < 3
  BY <1>3, OpenFilesAssumption DEF FileNos
<1>5. k - 1 \in {1, 2} <=> path \in {"/dev/stdout", "/dev/stderr"}
  BY <1>1, <1>2, <1>3
<1> QED BY <1>4, <1>5 DEF k

\* A stream has a path and a number that indexes the table.
LEMMA StreamRange ==
  ASSUME FilesInv, NEW s \in Streams
  PROVE  /\ streams[s].path \in Devices \cup OnDisk
         /\ streams[s].fileno \in FileNos /\ streams[s].fileno \in Nat
<1>1. streams \in Seq(FileRecords)
  BY DEF FilesInv, FileRecords
<1>2. streams[s] \in FileRecords
  BY <1>1 DEF Streams
<1>3. FileNos \subseteq Nat
  BY OpenFilesAssumption DEF FileNos
<1> QED BY <1>2, <1>3 DEF FileRecords

\* A new stream leaves the others alone.
LEMMA NewStream ==
  ASSUME FilesInv, NEW path \in Devices \cup OnDisk, NEW slot \in FileNos, Opened(path, slot)
  PROVE  /\ streams' \in Seq(FileRecords) /\ Streams \subseteq Streams'
         /\ fp' \in Streams'
         /\ \A s \in Streams' : s \in Streams \/ s = fp'
         /\ streams'[fp'] = [path |-> path, fileno |-> slot]
         /\ \A s \in Streams : streams'[s] = streams[s]
<1>1. PICK r, t : r = [path |-> path, fileno |-> slot] /\ t = streams
  OBVIOUS
<1>2. r \in FileRecords /\ t \in Seq(FileRecords)
  BY <1>1 DEF FilesInv, FileRecords
<1>3. streams' = Append(t, r) /\ fp' = Len(t) + 1
  BY <1>1, ZenonT(30), SMTT(30) DEF Opened
<1>4. PICK u : u = Append(t, r)
  OBVIOUS
<1>5. /\ u \in Seq(FileRecords) /\ Len(u) = Len(t) + 1 /\ Len(t) \in Nat
      /\ u[Len(t) + 1] = r /\ \A s \in 1 .. Len(t) : u[s] = t[s]
  BY <1>2, <1>4
<1>6. Streams = 1 .. Len(t) /\ Streams' = 1 .. Len(t) + 1
  BY <1>1, <1>3, <1>4, <1>5, ZenonT(30), SMTT(30) DEF Streams
<1>7. /\ Streams \subseteq Streams' /\ fp' \in Streams'
      /\ \A s \in Streams' : s \in Streams \/ s = fp'
  BY <1>3, <1>5, <1>6
<1> QED BY <1>1, <1>3, <1>4, <1>5, <1>6, <1>7, ZenonT(30), SMTT(30)

-----------------------------------------------------------------------------
LEMMA FilesInitInv == ASSUME NEW n, FilesInit(n) PROVE FilesInv
BY OpenFilesAssumption DEF FilesInit, FilesInv, Streams, OwnFile, NoCall, NULL

LEMMA OpenDeviceInv ==
  ASSUME FilesInv, NEW path, OpenDevice(path)
  PROVE  FilesInv'
<1> DEFINE slot == (CHOOSE k \in 1 .. 3 : DeviceNames[k] = path) - 1
<1>1. path \in Devices /\ Opened(path, slot) /\ UNCHANGED <<open_files, is_used, last, spoilt>>
  BY DEF OpenDevice
<1>2. slot \in FileNos /\ slot < 3 /\ (slot \in {1, 2} <=> path \in {"/dev/stdout", "/dev/stderr"})
  BY <1>1, DeviceNumber, SMTT(30), ZenonT(30)
<1> HIDE DEF slot
<1>3. /\ streams' \in Seq(FileRecords) /\ Streams \subseteq Streams'
      /\ fp' \in Streams' /\ \A s \in Streams' : s \in Streams \/ s = fp'
      /\ streams'[fp'] = [path |-> path, fileno |-> slot]
      /\ \A s \in Streams : streams'[s] = streams[s]
  BY <1>1, <1>2, NewStream
<1>4. path \notin OnDisk
  BY <1>1, OpenFilesAssumption, SMTT(30), ZenonT(30)
<1>5. ASSUME spoilt.entries = {} PROVE \A s \in Streams' : StreamFits(s)'
  <2>1. StreamFits(fp)'
    <3>1. streams'[fp'].path = path /\ streams'[fp'].fileno = slot
      BY <1>3
    <3> QED BY <1>2, <1>4, <3>1, ZenonT(30), SMTT(30) DEF StreamFits
  <2>2. \A s \in Streams : StreamFits(s)'
    BY <1>1, <1>3, <1>5, SMTT(30), ZenonT(30) DEF StreamFits, FilesInv
  <2> QED BY <1>3, <2>1, <2>2
<1>6. OwnFile'
  BY <1>1, <1>3 DEF OwnFile, FilesInv
<1> QED BY <1>1, <1>3, <1>5, <1>6 DEF FilesInv, FileRecords

LEMMA OpenFileInv ==
  ASSUME FilesInv, NEW path, OpenFile(path)
  PROVE  FilesInv'
<1> DEFINE slot == Min(FileNos \ is_used)
<1>1. /\ path \in OnDisk /\ Opened(path, slot) /\ UNCHANGED <<is_used, last>>
      /\ open_files' = [open_files EXCEPT ![slot] = path]
      /\ spoilt' = [spoilt EXCEPT !.streams = @ \cup OnEntry(slot)]
  BY DEF OpenFile
<1>2. slot \in FileNos /\ (is_used = {0, 1, 2} => slot = 3)
  BY FreeEntry, ZenonT(30), SMTT(30) DEF FilesInv
<1> HIDE DEF slot
<1>3. /\ streams' \in Seq(FileRecords) /\ Streams \subseteq Streams'
      /\ fp' \in Streams' /\ \A s \in Streams' : s \in Streams \/ s = fp'
      /\ streams'[fp'] = [path |-> path, fileno |-> slot]
      /\ \A s \in Streams : streams'[s] = streams[s]
  BY <1>1, <1>2, NewStream
<1>4. /\ path \notin Devices
      /\ open_files' \in [FileNos -> OnDisk \cup {NoFile}] /\ open_files'[slot] = path
      /\ \A q \in FileNos \ {slot} : open_files'[q] = open_files[q]
  BY <1>1, <1>2, OpenFilesAssumption DEF FilesInv
<1>5. /\ spoilt' \in [streams : SUBSET Nat, entries : SUBSET {0, 1, 2}]
      /\ spoilt'.entries = spoilt.entries
      /\ spoilt'.streams = spoilt.streams \cup OnEntry(slot)
  BY <1>1, SMTT(30), ZenonT(30) DEF FilesInv, OnEntry, Streams
<1>6. ASSUME spoilt.entries = {} PROVE \A s \in Streams' : StreamFits(s)'
  <2>1. StreamFits(fp)'
    BY <1>2, <1>3, <1>4, <1>6, SMTT(30), ZenonT(30) DEF StreamFits, FilesInv
  <2>2. ASSUME NEW s \in Streams PROVE StreamFits(s)'
    <3>1. StreamFits(s) /\ streams[s].fileno \in FileNos /\ streams'[s] = streams[s]
      BY <1>3, <1>6, StreamRange DEF FilesInv
    <3>2. s \notin spoilt'.streams => s \notin spoilt.streams /\ streams[s].fileno # slot
      BY <1>5 DEF OnEntry
    <3> QED BY <1>4, <3>1, <3>2 DEF StreamFits
  <2> QED BY <1>3, <2>1, <2>2
<1>7. OwnFile'
  BY <1>1, <1>3, <1>5 DEF OwnFile, FilesInv
<1> QED BY <1>1, <1>3, <1>4, <1>5, <1>6, <1>7, SMTT(30), ZenonT(30) DEF FilesInv, FileRecords

\* The calls that fail change nothing a stream depends on.
LEMMA OpenInv ==
  ASSUME FilesInv, NEW path, kaos_fopen(path)
  PROVE  FilesInv'
<1>1. CASE OpenNotFound(path) \/ OpenNoMemory
  BY <1>1 DEF OpenNotFound, OpenNoMemory, FilesInv, OwnFile, StreamFits, Streams
<1> QED BY <1>1, OpenDeviceInv, OpenFileInv, SMTT(30), ZenonT(30) DEF kaos_fopen

LEMMA ReadInv ==
  ASSUME FilesInv, NEW s \in Streams, kaos_fread(s)
  PROVE  FilesInv'
<1>1. /\ UNCHANGED <<streams, open_files, is_used, fp, spoilt>>
      /\ last'.op = "read" /\ last'.stream = s
      /\ last'.result = IF streams[s].fileno < 3 THEN NoFile
                        ELSE open_files[streams[s].fileno]
  BY DEF kaos_fread
<1>2. streams[s].path \in Devices \cup OnDisk /\ streams[s].fileno \in Nat
  BY StreamRange
<1>3. ASSUME spoilt.entries = {}, s \notin spoilt.streams
      PROVE  last'.result = IF streams[s].path \in OnDisk THEN streams[s].path ELSE NoFile
  <2>1. StreamFits(s)
    BY <1>3 DEF FilesInv
  <2> QED BY <1>1, <1>2, <1>3, <2>1 DEF StreamFits
<1>4. OwnFile'
  BY <1>1, <1>3, SMTT(30), ZenonT(30) DEF OwnFile
<1> QED BY <1>1, <1>4 DEF FilesInv, StreamFits, Streams

LEMMA WriteInv ==
  ASSUME FilesInv, NEW s \in Streams, kaos_fwrite(s)
  PROVE  FilesInv'
<1>1. /\ UNCHANGED <<streams, open_files, is_used, fp, spoilt>>
      /\ last'.op = "write" /\ last'.stream = s
      /\ last'.result = "console" <=> streams[s].fileno \in {1, 2}
  BY DEF kaos_fwrite, NoFile
<1>2. streams[s].path \in Devices \cup OnDisk /\ streams[s].fileno \in Nat
  BY StreamRange
<1>3. ASSUME spoilt.entries = {}
      PROVE  streams[s].fileno \in {1, 2} <=> streams[s].path \in {"/dev/stdout", "/dev/stderr"}
  <2>1. StreamFits(s)
    BY <1>3 DEF FilesInv
  <2>2. streams[s].path \in {"/dev/stdout", "/dev/stderr"} => streams[s].path \in Devices
    BY DEF Devices, DeviceNames
  <2> QED BY <1>2, <2>1, <2>2 DEF StreamFits
<1>4. OwnFile'
  BY <1>1, <1>3, SMTT(30), ZenonT(30) DEF OwnFile
<1> QED BY <1>1, <1>4 DEF FilesInv, StreamFits, Streams

LEMMA CloseInv ==
  ASSUME FilesInv, NEW s \in Streams, kaos_fclose(s)
  PROVE  FilesInv'
<1> DEFINE slot == streams[s].fileno
<1>1. slot \in FileNos
  BY StreamRange, SMTT(30), ZenonT(30)
<1>2. /\ is_used' = is_used \ {slot} /\ UNCHANGED <<streams, fp, last>>
      /\ open_files' = [open_files EXCEPT ![slot] = NoFile]
      /\ spoilt'.streams = spoilt.streams \cup OnEntry(slot)
      /\ spoilt'.entries = spoilt.entries \cup ({slot} \cap {0, 1, 2})
  BY DEF kaos_fclose
<1>3. spoilt' \in [streams : SUBSET Nat, entries : SUBSET {0, 1, 2}]
  BY DEF kaos_fclose, FilesInv, OnEntry, Streams
<1>4. /\ open_files' \in [FileNos -> OnDisk \cup {NoFile}]
      /\ \A q \in FileNos \ {slot} : open_files'[q] = open_files[q]
  BY <1>1, <1>2, SMTT(30), ZenonT(30) DEF FilesInv
<1>5. ASSUME spoilt'.entries = {}
      PROVE  is_used' = {0, 1, 2} /\ \A t \in Streams : StreamFits(t)'
  <2>1. spoilt.entries = {} /\ slot \notin {0, 1, 2} /\ is_used = {0, 1, 2}
    BY <1>2, <1>5, ZenonT(30), SMTT(30) DEF FilesInv
  <2>2. ASSUME NEW t \in Streams PROVE StreamFits(t)'
    <3>1. StreamFits(t) /\ streams[t].fileno \in FileNos /\ streams'[t] = streams[t]
      BY <1>2, <2>1, StreamRange DEF FilesInv
    <3>2. t \notin spoilt'.streams => t \notin spoilt.streams /\ streams[t].fileno # slot
      BY <1>2 DEF OnEntry
    <3> QED BY <1>4, <3>1, <3>2 DEF StreamFits
  <2> QED BY <1>2, <2>1, <2>2
<1>6. Streams' = Streams
  BY <1>2, ZenonT(30), SMTT(30) DEF Streams
<1>7. OwnFile'
  BY <1>2, <1>6 DEF OwnFile, FilesInv
<1> QED BY <1>2, <1>3, <1>4, <1>5, <1>6, <1>7, ZenonT(30), SMTT(30) DEF FilesInv

-----------------------------------------------------------------------------
LEMMA FilesStepInv == FilesInv /\ [Next]_vars => FilesInv'
<1> SUFFICES ASSUME FilesInv, [Next]_vars PROVE FilesInv'
  BY SMTT(30), ZenonT(30)
<1>1. CASE UNCHANGED fileVars
  BY <1>1 DEF fileVars, FilesInv, OwnFile, StreamFits, Streams
<1>2. ASSUME NEW path, kaos_fopen(path) PROVE FilesInv'
  BY <1>2, OpenInv
<1>3. ASSUME NEW s \in Streams, kaos_fread(s) \/ kaos_fwrite(s) \/ kaos_fclose(s)
      PROVE  FilesInv'
  BY <1>3, ReadInv, WriteInv, CloseInv
<1>4. CASE kaos_init_stdlib \/ MainOpen \/ kaos_libc_init \/ syscall__handle_fopen
  BY <1>2, <1>4, SMTT(30), ZenonT(30) DEF kaos_init_stdlib, MainOpen, kaos_libc_init, syscall__handle_fopen
<1>5. CASE MainRead
  BY <1>1, <1>3, <1>5 DEF MainRead, FilesInv
<1>6. CASE syscall__handle_fread \/ syscall__handle_fwrite \/ KernelClose
  BY <1>1, <1>3, <1>6 DEF syscall__handle_fread, syscall__handle_fwrite, KernelClose
<1>7. CASE \/ MainBuffer \/ ParseHeaders \/ LoadHigh \/ LoadAlloc \/ LoadCopy \/ LoadEntry
           \/ CallWithoutEffect \/ exit
  BY <1>1, <1>7
  DEF MainBuffer, ParseHeaders, LoadHigh, LoadAlloc, LoadCopy, LoadEntry, CallWithoutEffect, exit
<1>8. CASE UNCHANGED vars
  BY <1>1, <1>8 DEF vars
<1> QED BY <1>4, <1>5, <1>6, <1>7, <1>8 DEF Next

(***************************************************************************)
(* fopen, fread, fwrite and fclose give a stream the file it was opened    *)
(* for, and standard output and error the console, under the exceptions    *)
(* OwnFile names and no others: for any number of entries, files, streams  *)
(* and calls.                                                              *)
(***************************************************************************)
THEOREM StreamsOwnFiles == Spec => []OwnFile
<1>1. Init => FilesInv
  BY FilesInitInv DEF Init
<1>2. FilesInv => OwnFile
  BY DEF FilesInv
<1> QED BY <1>1, <1>2, FilesStepInv, PTL DEF Spec

-----------------------------------------------------------------------------
(***************************************************************************)
(* The ELF loader, for every image and every size of the page, the word    *)
(* and the table of headers.                                               *)
(***************************************************************************)
LEMMA HeaderFields ==
  ASSUME LoadInv, NEW k \in Indices
  PROVE  LET p == elf.phdrs[k]
         IN /\ p.type \in Nat /\ p.vaddr \in Nat /\ p.memsz \in Nat
            /\ p.offset \in Nat /\ p.filesz \in Nat
<1> DEFINE Phdrs == [type : Nat, vaddr : Nat, memsz : Nat, offset : Nat, filesz : Nat]
<1>1. elf.phdrs \in Seq(Phdrs)
  BY ProgramsAssumption DEF LoadInv
<1> HIDE DEF Phdrs
<1>2. elf.phdrs[k] \in Phdrs
  BY <1>1 DEF Indices
<1> QED BY <1>2 DEF Phdrs

LEMMA HeaderCount ==
  ASSUME LoadInv
  PROVE  Len(elf.phdrs) \in Nat /\ Indices = 1 .. Len(elf.phdrs)
<1>1. elf.phdrs \in Seq([type : Nat, vaddr : Nat, memsz : Nat, offset : Nat, filesz : Nat])
  BY ProgramsAssumption DEF LoadInv
<1> QED BY <1>1 DEF Indices

\* The largest element of a set that has one.
LEMMA MaxIs ==
  ASSUME NEW S \in SUBSET Nat, NEW m \in S, \A x \in S : x <= m
  PROVE  Max(S) = m
<1>1. Max(S) \in S /\ \A y \in S : Max(S) >= y
  BY DEF Max
<1>2. Max(S) >= m /\ Max(S) <= m /\ Max(S) \in Nat /\ m \in Nat
  BY <1>1
<1> QED BY <1>2

\* Of a well-formed program mem_high is the top.
LEMMA HighIsTop ==
  ASSUME LoadInv, WellFormed, HighestOf(Indices)
  PROVE  /\ mem_high = Top /\ mem_high \in Nat /\ (mem_high > 0 => 2 * mem_high < Word)
         /\ \A k \in Indices : elf.phdrs[k].vaddr + elf.phdrs[k].memsz <= mem_high
<1> DEFINE End(k) == elf.phdrs[k].vaddr + elf.phdrs[k].memsz
<1>1. Word \in Nat \ {0}
  BY ProgramsAssumption
<1>2. ASSUME NEW k \in Indices PROVE End(k) \in Nat /\ 2 * End(k) < Word /\ End(k) % Word = End(k)
  <2>1. elf.phdrs[k].vaddr \in Nat /\ elf.phdrs[k].memsz \in Nat /\ 2 * End(k) < Word
    BY HeaderFields DEF WellFormed
  <2>2. End(k) \in Nat
    BY <2>1
  <2> HIDE DEF End
  <2>3. End(k) < Word
    BY <1>1, <2>1, <2>2
  <2> QED BY <1>1, <2>1, <2>2, <2>3
<1>3. HighEnds(Indices) = {End(k) : k \in Indices}
  BY <1>2 DEF HighEnds
<1> HIDE DEF End
<1>4. /\ mem_high \in {0} \cup {End(k) : k \in Indices}
      /\ \A k \in Indices : End(k) <= mem_high
  BY <1>3 DEF HighestOf
<1>5. {0} \cup {End(k) : k \in Indices} \subseteq Nat /\ mem_high \in Nat
  BY <1>2, <1>4
<1>6. \A x \in {0} \cup {End(k) : k \in Indices} : x <= mem_high
  BY <1>4, <1>5
<1>7. Max({0} \cup {End(k) : k \in Indices}) = mem_high
  BY <1>4, <1>5, <1>6, MaxIs
<1>8. mem_high > 0 => 2 * mem_high < Word
  BY <1>2, <1>4
<1> QED BY <1>4, <1>5, <1>7, <1>8 DEF Top, End

\* A block granted for a request of less than half a word is large enough,
\* unless the request has no class and needs more than a page.
LEMMA GrantSuffices ==
  ASSUME NEW len \in Nat, len > 0 => 2 * len < Word, NEW b \in Granted(len),
         HasClass(len) \/ len <= PageSize
  PROVE  len <= b
<1>1. Word \in Nat \ {0} /\ PageSize \in Nat
  BY ProgramsAssumption
<1>2. CASE HasClass(len)
  <2>1. PICK c \in SizeClasses : b = c * PageSize /\ FitsLen(c * PageSize, len)
    BY <1>2 DEF Granted
  <2>2. c \in Nat
    BY ProgramsAssumption
  <2>3. b \in Nat
    BY <1>1, <2>1, <2>2
  <2>4. b > (2 * len) % Word
    BY <2>1 DEF FitsLen
  <2>5. 2 * len \in Nat /\ 2 * len < Word
    BY <1>1
  <2>6. (2 * len) % Word = 2 * len
    BY <1>1, <2>5
  <2> QED BY <2>3, <2>4, <2>6
<1>3. CASE ~HasClass(len)
  BY <1>1, <1>3 DEF Granted
<1> QED BY <1>2, <1>3

\* Blocks have a length.
LEMMA GrantIsNat == ASSUME NEW len, NEW b \in Granted(len) PROVE b \in Nat
<1>1. PageSize \in Nat /\ SizeClasses \subseteq Nat
  BY ProgramsAssumption
<1>2. b = PageSize \/ \E c \in SizeClasses : b = c * PageSize
  BY DEF Granted
<1> QED BY <1>1, <1>2

-----------------------------------------------------------------------------
\* Steps that leave the loader's state alone keep what depends on it.
LEMMA SameLoad ==
  ASSUME LoadInv, UNCHANGED <<elf, size, loadVars>>
  PROVE  /\ elf' \in Images /\ size' \in Nat /\ seg' \in 0 .. Len(elf'.phdrs) /\ block' \in Nat
         /\ CopiedOf(Indices)' = CopiedOf(Indices)
         /\ CopiedOf(1 .. seg)' = CopiedOf(1 .. seg)
         /\ HighestOf(Indices)' = HighestOf(Indices)
         /\ HighestOf(1 .. seg)' = HighestOf(1 .. seg)
         /\ WellFormed' = WellFormed /\ Top' = Top
<1>1. elf' = elf /\ size' = size /\ seg' = seg /\ mem_high' = mem_high /\ block' = block
      /\ memory' = memory
  BY DEF loadVars
<1>2. elf' \in Images /\ size' \in Nat /\ seg' \in 0 .. Len(elf'.phdrs) /\ block' \in Nat
  BY <1>1 DEF LoadInv
<1>3. WellFormed' = WellFormed /\ Top' = Top
  BY <1>1 DEF WellFormed, Top, Indices, elf__parse_header
<1>4. /\ HighestOf(Indices)' = HighestOf(Indices)
      /\ HighestOf(1 .. seg)' = HighestOf(1 .. seg)
  BY <1>1, SMTT(30), ZenonT(30) DEF HighestOf, HighEnds, Indices
<1>5. /\ CopiedOf(Indices)' = CopiedOf(Indices)
      /\ CopiedOf(1 .. seg)' = CopiedOf(1 .. seg)
  <2>1. Indices' = Indices /\ \A a : Covering(a)' = Covering(a)
    BY <1>1 DEF Covering, Covers, Indices
  <2>2. \A k, a : FileByte(elf.phdrs[k], a)' = FileByte(elf.phdrs[k], a)
    BY <1>1 DEF FileByte
  <2>3. \A k : Spills(elf.phdrs[k])' = Spills(elf.phdrs[k])
    BY <1>1 DEF Spills
  <2> QED
    BY <1>1, <2>1, <2>2, <2>3, ZenonT(30), SMTT(30) DEF CopiedOf
<1> QED BY <1>2, <1>3, <1>4, <1>5

\* Up to the loader.
LEMMA MainKeepsLoad ==
  ASSUME FilesInv, LoadInv, kaos_init_stdlib \/ MainOpen \/ MainBuffer \/ MainRead \/ ParseHeaders
  PROVE  LoadInv'
<1> DEFINE Early == {"stdin", "stdout", "stderr", "main", "buffer", "read", "parse"}
<1>1. at \in Early /\ std = <<>> /\ std' = std /\ seg = 0 /\ mem_high = 0 /\ seg' = 0 /\ mem_high' = 0
  <2>1. at \in Early /\ std' = std /\ UNCHANGED loadVars
    BY DEF kaos_init_stdlib, MainOpen, MainBuffer, MainRead, ParseHeaders, Goes
  <2> QED BY <2>1 DEF LoadInv, StdInv, loadVars
<1>2. elf' = elf /\ size' \in Nat /\ block' \in Nat
  BY ProgramsAssumption
  DEF kaos_init_stdlib, MainOpen, MainBuffer, MainRead, ParseHeaders, LoadInv, loadVars
<1>3. \/ at' \in Early \cup {"returned"}
      \/ at' = "place"
      \/ at' = "undefined" /\ (fp' = NULL \/ ~WellFormed')
  <2>1. CASE kaos_init_stdlib \/ MainOpen \/ MainBuffer
    BY <2>1 DEF kaos_init_stdlib, MainOpen, MainBuffer, Goes
  <2>2. CASE MainRead
    BY <2>2, SMTT(30), ZenonT(30) DEF MainRead, Goes, Undefined, fileVars
  <2>3. CASE ParseHeaders
    BY <2>3 DEF ParseHeaders, Undefined, WellFormed, elf__parse_header
  <2> QED BY <2>1, <2>2, <2>3
<1>4. at' = "place" => HighestOf(1 .. seg)'
  <2>1. HighEnds(1 .. seg)' = {}
    BY <1>1 DEF HighEnds
  <2> QED BY <1>1, <2>1 DEF HighestOf
<1>5. StdInv' /\ std' \in Seq(Nat)
  BY <1>1, <1>3 DEF StdInv
<1>6. SurvivesLoad'
  BY <1>3 DEF SurvivesLoad
<1>7. elf' \in Images /\ seg' \in 0 .. Len(elf'.phdrs)
  BY <1>1, <1>2 DEF LoadInv
<1>8. ~Started' /\ at' # "copy" /\ (at' \in Early => seg' = 0 /\ mem_high' = 0)
  BY <1>1, <1>3 DEF Started
<1> QED BY <1>2, <1>4, <1>5, <1>6, <1>7, <1>8 DEF LoadInv

\* A turn of the first loop.
LEMMA HighKeepsLoad == ASSUME LoadInv, LoadHigh PROVE LoadInv'
<1> DEFINE h == phdr_mem_high
<1>1. /\ at = "place" /\ seg < Len(elf.phdrs) /\ seg' = seg + 1
      /\ mem_high' = IF h > mem_high THEN h ELSE mem_high
      /\ UNCHANGED <<fileVars, at, elf, size, block, memory, std, calls>>
  BY DEF LoadHigh
<1>2. Len(elf.phdrs) \in Nat /\ Indices = 1 .. Len(elf.phdrs) /\ seg \in Nat
  BY HeaderCount DEF LoadInv
<1>3. seg + 1 \in Indices /\ 1 .. seg + 1 = (1 .. seg) \cup {seg + 1} /\ 1 .. seg \subseteq Indices
  BY <1>1, <1>2
<1>4. \A k \in Indices : (elf.phdrs[k].vaddr + elf.phdrs[k].memsz) % Word \in Nat
  BY HeaderFields, ProgramsAssumption, SMTT(30), ZenonT(30)
<1>5. HighEnds(1 .. seg)' = HighEnds(1 .. seg) \cup {h}
  BY <1>1, <1>3 DEF HighEnds, phdr_mem_high, phdr
<1>6. h \in Nat /\ HighEnds(1 .. seg) \subseteq Nat
  BY <1>3, <1>4 DEF HighEnds, phdr_mem_high, phdr
<1>7. HighestOf(1 .. seg)
  BY <1>1 DEF LoadInv
<1> HIDE DEF h
<1>8. HighestOf(1 .. seg)'
  BY <1>1, <1>5, <1>6, <1>7 DEF HighestOf
<1>9. StdInv' /\ std' \in Seq(Nat)
  BY <1>1 DEF StdInv, LoadInv, fileVars
<1>10. SurvivesLoad' /\ ~Started'
  BY <1>1 DEF SurvivesLoad, Started
<1>11. seg' \in 0 .. Len(elf'.phdrs)
  BY <1>1, <1>2
<1> QED BY <1>1, <1>8, <1>9, <1>10, <1>11 DEF LoadInv

LEMMA AllocKeepsLoad == ASSUME LoadInv, LoadAlloc PROVE LoadInv'
<1>1. Len(elf.phdrs) \in Nat /\ Indices = 1 .. Len(elf.phdrs)
  BY HeaderCount
<1>2. /\ at = "place" /\ at' \in {"copy", "returned"} /\ seg = Len(elf.phdrs)
      /\ UNCHANGED <<fileVars, elf, size, mem_high, std>>
  BY SMTT(30), ZenonT(30) DEF LoadAlloc, Goes, loadVars
<1>3. HighestOf(Indices)'
  <2>1. HighestOf(Indices)
    BY <1>1, <1>2 DEF LoadInv
  <2> QED BY <1>2, <2>1 DEF HighestOf, HighEnds, Indices
<1>4. StdInv' /\ std' \in Seq(Nat)
  BY <1>2 DEF StdInv, LoadInv
<1>5. SurvivesLoad' /\ ~Started' /\ elf' \in Images /\ size' \in Nat
  BY <1>2 DEF SurvivesLoad, Started, LoadInv
<1>6. CASE at' = "returned"
  <2>1. UNCHANGED <<seg, block>>
    BY <1>6, SMTT(30), ZenonT(30) DEF LoadAlloc, Goes, loadVars
  <2> QED BY <1>2, <1>4, <1>5, <1>6, <2>1 DEF LoadInv
<1>7. CASE at' = "copy"
  <2>1. /\ block' \in Granted(mem_high) /\ seg' = 0
        /\ memory' = [a \in 0 .. block' - 1 |-> Old]
    BY <1>7 DEF LoadAlloc, Goes
  <2>2. block' \in Nat /\ block' \in Granted(mem_high')
    BY <1>2, <2>1, GrantIsNat
  <2>3. (1 .. seg)' = {}
    BY <2>1
  <2>4. CopiedOf(1 .. seg)'
    BY <2>1, <2>3 DEF CopiedOf
  <2>5. seg' \in 0 .. Len(elf'.phdrs)
    BY <1>1, <1>2, <2>1, SMTT(30), ZenonT(30)
  <2> QED BY <1>3, <1>4, <1>5, <1>7, <2>2, <2>4, <2>5 DEF LoadInv, Granted
<1> QED BY <1>2, <1>6, <1>7

\* A turn of the second loop: the segment's bytes replace those of the ones
\* before it.
LEMMA SegmentCopied ==
  ASSUME LoadInv, LoadCopy, ~Spills(phdr)
  PROVE  CopiedOf(1 .. seg)'
<1>1. /\ at = "copy" /\ seg < Len(elf.phdrs) /\ seg' = seg + 1
      /\ UNCHANGED <<elf, size, block>>
      /\ memory' = [a \in DOMAIN memory |-> IF Covers(phdr, a) THEN FileByte(phdr, a) ELSE memory[a]]
  BY DEF LoadCopy
<1>2. Len(elf.phdrs) \in Nat /\ Indices = 1 .. Len(elf.phdrs) /\ seg \in Nat
  BY HeaderCount DEF LoadInv
<1>3. seg + 1 \in Indices /\ (1 .. seg)' = (1 .. seg) \cup {seg + 1} /\ seg + 1 \notin 1 .. seg
  BY <1>1, <1>2
<1>4. CopiedOf(1 .. seg)
  BY <1>1, SMTT(30), ZenonT(30) DEF LoadInv
<1>5. ASSUME NEW a \in DOMAIN memory
      PROVE  memory'[a] = IF (Covering(a) \cap 1 .. seg)' = {} THEN Old
                          ELSE FileByte(elf.phdrs[Max(Covering(a) \cap 1 .. seg)], a)'
  <2>1. Covering(a)' = Covering(a) /\ Covering(a) \subseteq Indices
    BY <1>1 DEF Covering, Covers, Indices
  <2>2. \A p : FileByte(p, a)' = FileByte(p, a)
    BY <1>1, SMTT(30), ZenonT(30) DEF FileByte
  <2>3. CASE Covers(phdr, a)
    <3>1. seg + 1 \in Covering(a)
      BY <1>3, <2>3 DEF Covering, phdr
    <3>2. seg + 1 \in (Covering(a) \cap 1 .. seg)' /\ (Covering(a) \cap 1 .. seg)' \subseteq Nat
          /\ \A k \in (Covering(a) \cap 1 .. seg)' : k <= seg + 1
      BY <1>2, <1>3, <2>1, <3>1
    <3>3. Max((Covering(a) \cap 1 .. seg)') = seg + 1
      BY <3>2, MaxIs
    <3> QED BY <1>1, <2>2, <2>3, <3>2, <3>3, SMTT(30), ZenonT(30) DEF phdr
  <2>4. CASE ~Covers(phdr, a)
    <3>1. seg + 1 \notin Covering(a)
      BY <2>4 DEF Covering, phdr
    <3>2. (Covering(a) \cap 1 .. seg)' = Covering(a) \cap 1 .. seg
      BY <1>3, <2>1, <3>1
    <3>3. memory'[a] = memory[a]
      BY <1>1, <2>4
    <3>4. memory[a] = IF Covering(a) \cap 1 .. seg = {} THEN Old
                      ELSE FileByte(elf.phdrs[Max(Covering(a) \cap 1 .. seg)], a)
      BY <1>4, SMTT(30), ZenonT(30) DEF CopiedOf
    <3> QED BY <1>1, <2>2, <3>2, <3>3, <3>4
  <2> QED BY <2>3, <2>4
<1>6. DOMAIN memory' = DOMAIN memory /\ DOMAIN memory' = 0 .. block' - 1
  BY <1>1, <1>4 DEF CopiedOf
<1>7. \A k \in (1 .. seg)' : ~Spills(elf.phdrs[k])'
  BY <1>1, <1>3, <1>4 DEF CopiedOf, Spills, phdr
<1> QED BY <1>5, <1>6, <1>7, ZenonT(30), SMTT(30) DEF CopiedOf

\* A segment of a well-formed program stays inside its block, if there is a
\* class for the program or a page is enough.
LEMMA SpillReason ==
  ASSUME LoadInv, at = "copy", NEW k \in Indices, Spills(elf.phdrs[k]), WellFormed
  PROVE  ~HasClass(Top) /\ Top > PageSize
<1> DEFINE p == elf.phdrs[k]
<1>1. /\ mem_high = Top /\ mem_high \in Nat /\ (mem_high > 0 => 2 * mem_high < Word)
      /\ p.vaddr + p.memsz <= mem_high
  BY HighIsTop, SMTT(30), ZenonT(30) DEF LoadInv
<1>2. block \in Granted(mem_high) /\ block \in Nat
  BY DEF LoadInv
<1>3. p.vaddr \in Nat /\ p.filesz \in Nat /\ p.memsz \in Nat
  BY HeaderFields
<1>4. p.filesz <= p.memsz /\ p.vaddr + p.filesz > block
  BY DEF WellFormed, Spills
<1>5. mem_high > block
  <2>1. PICK v, f, m, h, b : v = p.vaddr /\ f = p.filesz /\ m = p.memsz /\ h = mem_high /\ b = block
    OBVIOUS
  <2>2. {v, f, m, h, b} \subseteq Nat /\ v + m <= h /\ f <= m /\ v + f > b
    BY <1>1, <1>2, <1>3, <1>4, <2>1, ZenonT(30), SMTT(30)
  <2>3. h > b
    BY <2>2
  <2> QED BY <2>1, <2>3, ZenonT(30), SMTT(30)
<1>6. HasClass(mem_high) \/ mem_high <= PageSize => mem_high <= block
  BY <1>1, <1>2, GrantSuffices, SMTT(30), ZenonT(30)
<1> QED BY <1>1, <1>2, <1>5, <1>6, ProgramsAssumption, SMTT(30), ZenonT(30)

LEMMA CopyKeepsLoad == ASSUME LoadInv, LoadCopy PROVE LoadInv'
<1>1. /\ at = "copy" /\ seg < Len(elf.phdrs) /\ seg' = seg + 1
      /\ IF Spills(phdr) THEN at' = "undefined" ELSE at' = at
      /\ UNCHANGED <<fileVars, elf, size, mem_high, block, std, calls>>
  BY DEF LoadCopy, Undefined
<1>2. Len(elf.phdrs) \in Nat /\ Indices = 1 .. Len(elf.phdrs) /\ seg \in Nat
  BY HeaderCount DEF LoadInv
<1>3. seg + 1 \in Indices /\ seg' \in 0 .. Len(elf'.phdrs)
  BY <1>1, <1>2
<1>4. std = <<>>
  BY <1>1 DEF LoadInv, StdInv
<1>5. StdInv' /\ std' \in Seq(Nat) /\ ~Started'
  BY <1>1, <1>4, SMTT(30), ZenonT(30) DEF StdInv, Started
<1>6. HighestOf(Indices)' /\ block' \in Granted(mem_high')
  BY <1>1 DEF LoadInv, HighestOf, HighEnds, Indices
<1>7. at' = "copy" => CopiedOf(1 .. seg)'
  BY <1>1, SegmentCopied
<1>8. SurvivesLoad'
  <2>1. CASE Spills(phdr)
    <3>1. WellFormed => ~HasClass(Top) /\ Top > PageSize
      BY <1>1, <1>3, <2>1, SpillReason, SMTT(30), ZenonT(30) DEF phdr
    <3>2. WellFormed' = WellFormed /\ Top' = Top
      BY <1>1 DEF WellFormed, Top, Indices, elf__parse_header
    <3> QED BY <3>1, <3>2, SMTT(30), ZenonT(30) DEF SurvivesLoad, HasClass
  <2>2. CASE ~Spills(phdr)
    BY <1>1, <2>2 DEF SurvivesLoad
  <2> QED BY <2>1, <2>2
<1>9. elf' \in Images /\ size' \in Nat /\ block' \in Nat
  BY <1>1 DEF LoadInv
<1>10. at' \in {"copy", "undefined"}
  BY <1>1
<1> QED BY <1>3, <1>5, <1>6, <1>7, <1>8, <1>9, <1>10 DEF LoadInv, Granted

LEMMA EntryKeepsLoad == ASSUME LoadInv, LoadEntry PROVE LoadInv'
<1>1. /\ at = "copy" /\ at' = "_stdin" /\ seg = Len(elf.phdrs)
      /\ UNCHANGED <<fileVars, elf, size, loadVars, std, calls>>
  BY DEF LoadEntry, Goes
<1>2. CopiedOf(Indices)
  BY <1>1, HeaderCount DEF LoadInv
<1>3. /\ elf' \in Images /\ size' \in Nat /\ seg' \in 0 .. Len(elf'.phdrs) /\ block' \in Nat
      /\ CopiedOf(Indices)'
  BY <1>1, <1>2, SameLoad
<1>4. StdInv' /\ std' \in Seq(Nat)
  BY <1>1 DEF StdInv, LoadInv
<1>5. SurvivesLoad'
  BY <1>1 DEF SurvivesLoad
<1> QED BY <1>1, <1>3, <1>4, <1>5 DEF LoadInv

-----------------------------------------------------------------------------
\* A standard stream is missing only when there is no memory for streams, and
\* from then on no stream is opened.
LEMMA OpenFails ==
  ASSUME NEW path, kaos_fopen(path)
  PROVE  /\ room = 0 => room' = 0 /\ fp' = NULL
         /\ path \in Devices /\ fp' = NULL /\ streams \in Seq(FileRecords) => room' = 0
<1>1. path \in Devices => path \notin OnDisk \cup Missing
  BY OpenFilesAssumption
<1>2. CASE OpenNoMemory
  BY <1>2 DEF OpenNoMemory
<1>3. CASE OpenNotFound(path)
  BY <1>1, <1>3 DEF OpenNotFound
<1>4. CASE OpenDevice(path) \/ OpenFile(path)
  <2>1. room > 0 /\ fp' = Len(streams) + 1
    BY <1>4 DEF OpenDevice, OpenFile, Opened
  <2> QED BY <2>1 DEF NULL
<1> QED BY <1>2, <1>3, <1>4 DEF kaos_fopen

LEMMA StartKeepsLoad ==
  ASSUME FilesInv, FilesInv', LoadInv, kaos_libc_init
  PROVE  LoadInv'
<1>1. PICK k \in 1 .. 3 :
        /\ at = <<"_stdin", "_stdout", "_stderr">>[k]
        /\ at' = <<"_stdout", "_stderr", "_main">>[k]
        /\ kaos_fopen(DeviceNames[k])
  BY DEF kaos_libc_init, Goes
<1>2. std' = Append(std, fp') /\ UNCHANGED <<elf, size, loadVars>>
  BY DEF kaos_libc_init
<1>3. \/ k = 1 /\ at = "_stdin" /\ at' = "_stdout"
      \/ k = 2 /\ at = "_stdout" /\ at' = "_stderr"
      \/ k = 3 /\ at = "_stderr" /\ at' = "_main"
  BY <1>1, SMTT(30), ZenonT(30)
<1>4. /\ room = 0 => room' = 0 /\ fp' = NULL
      /\ fp' = NULL => room' = 0
  <2>1. DeviceNames[k] \in Devices
    BY DEF Devices
  <2> QED BY <1>1, <2>1, OpenFails DEF FilesInv, FileRecords
<1>5. fp' \in Nat
  BY DEF FilesInv, Streams, NULL
<1>6. std \in Seq(Nat) /\ std' \in Seq(Nat) /\ Len(std) = k - 1
  <2>1. StdInv /\ std \in Seq(Nat)
    BY DEF LoadInv
  <2>2. Len(std) = k - 1
    <3>1. k = 1 => std = <<>>
      BY <1>3, <2>1 DEF StdInv
    <3>2. (k = 2 => Len(std) = 1) /\ (k = 3 => Len(std) = 2)
      BY <1>3, <2>1 DEF StdInv
    <3>3. k = 1 => Len(std) = 0
      BY <3>1
    <3>4. k \in {1, 2, 3}
      BY <1>3
    <3>5. CASE k = 1 BY <3>3, <3>5
    <3>6. CASE k = 2 BY <3>2, <3>6
    <3>7. CASE k = 3 BY <3>2, <3>7
    <3> QED BY <3>4, <3>5, <3>6, <3>7
  <2> QED BY <1>2, <1>5, <2>1, <2>2
<1>7. Len(std') = k /\ std'[k] = fp' /\ \A q \in 1 .. k - 1 : std'[q] = std[q]
  BY <1>2, <1>5, <1>6
<1>8. Len(std') > 1 /\ std'[2] = NULL => room' = 0 /\ fp' = NULL
  <2>1. CASE k = 1 BY <1>7, <2>1
  <2>2. CASE k = 2 BY <1>4, <1>7, <2>2
  <2>3. CASE k = 3
    <3>1. std'[2] = std[2] /\ Len(std) = 2
      BY <1>6, <1>7, <2>3
    <3> QED BY <1>4, <3>1 DEF LoadInv, StdInv
  <2> QED BY <2>1, <2>2, <2>3
<1>9. StdInv'
  BY <1>3, <1>7, <1>8 DEF StdInv
<1>10. /\ elf' \in Images /\ size' \in Nat /\ seg' \in 0 .. Len(elf'.phdrs) /\ block' \in Nat
       /\ CopiedOf(Indices)' = CopiedOf(Indices)
  BY <1>2, SameLoad
<1>11. CopiedOf(Indices)'
  BY <1>3, <1>10 DEF LoadInv, Started
<1>12. SurvivesLoad'
  BY <1>3 DEF SurvivesLoad
<1> QED BY <1>3, <1>6, <1>9, <1>10, <1>11, <1>12, SMTT(30), ZenonT(30) DEF LoadInv

LEMMA CallsKeepLoad ==
  ASSUME LoadInv,
         \/ syscall__handle_fopen \/ syscall__handle_fread \/ syscall__handle_fwrite
         \/ CallWithoutEffect \/ KernelClose \/ exit
  PROVE  LoadInv'
<1>1. at = "_main" /\ UNCHANGED <<elf, size, loadVars, std>>
  BY SMTT(30), ZenonT(30) DEF syscall__handle_fopen, syscall__handle_fread, syscall__handle_fwrite,
         CallWithoutEffect, KernelClose, exit, InMain, Goes
<1>2. \/ \E path : kaos_fopen(path) /\ at' = at
      \/ UNCHANGED <<room, fp>> /\ at' \in {"_main", "exit"}
      \/ UNCHANGED <<room, fp>> /\ at' = "undefined" /\ std[2] = NULL
  BY <1>1
  DEF syscall__handle_fopen, syscall__handle_fread, syscall__handle_fwrite, CallWithoutEffect,
      KernelClose, exit, InMain, Goes, Undefined, kaos_fread, kaos_fwrite, kaos_fclose, fileVars
<1>3. Len(std) = 3 /\ (std[2] = NULL => room = 0 /\ fp = NULL)
  <2>1. StdInv
    BY DEF LoadInv
  <2>2. Len(std) = 3
    BY <1>1, <2>1 DEF StdInv
  <2> QED BY <2>1, <2>2 DEF StdInv
<1>4. std[2] = NULL => room' = 0 /\ fp' = NULL
  BY <1>2, <1>3, OpenFails
<1>5. StdInv' /\ std' \in Seq(Nat)
  BY <1>1, <1>2, <1>3, <1>4 DEF StdInv, LoadInv
<1>6. SurvivesLoad'
  BY <1>1, <1>2, <1>4 DEF SurvivesLoad
<1>7. /\ elf' \in Images /\ size' \in Nat /\ seg' \in 0 .. Len(elf'.phdrs) /\ block' \in Nat
      /\ CopiedOf(Indices)' = CopiedOf(Indices)
  BY <1>1, SameLoad
<1>8. CopiedOf(Indices)'
  BY <1>1, <1>7 DEF LoadInv, Started
<1> QED BY <1>1, <1>2, <1>5, <1>6, <1>7, <1>8, SMTT(30), ZenonT(30) DEF LoadInv

LEMMA LoadStepInv == FilesInv /\ FilesInv' /\ LoadInv /\ [Next]_vars => LoadInv'
<1> SUFFICES ASSUME FilesInv, FilesInv', LoadInv, [Next]_vars PROVE LoadInv'
  OBVIOUS
<1>1. CASE kaos_init_stdlib \/ MainOpen \/ MainBuffer \/ MainRead \/ ParseHeaders
  BY <1>1, MainKeepsLoad
<1>2. CASE LoadHigh \/ LoadAlloc \/ LoadCopy \/ LoadEntry
  BY <1>2, HighKeepsLoad, AllocKeepsLoad, CopyKeepsLoad, EntryKeepsLoad
<1>3. CASE kaos_libc_init
  BY <1>3, StartKeepsLoad
<1>4. CASE \/ syscall__handle_fopen \/ syscall__handle_fread \/ syscall__handle_fwrite
           \/ CallWithoutEffect \/ KernelClose \/ exit
  BY <1>4, CallsKeepLoad, SMTT(30), ZenonT(30)
<1>5. CASE UNCHANGED vars
  <2>1. UNCHANGED <<elf, size, loadVars>> /\ at' = at /\ std' = std /\ room' = room /\ fp' = fp
    BY <1>5 DEF vars, fileVars
  <2>2. block' = block /\ mem_high' = mem_high /\ seg' = seg
    BY <2>1 DEF loadVars
  <2>3. Started' = Started /\ StdInv' = StdInv
    BY <2>1 DEF Started, StdInv
  <2>4. SurvivesLoad' = SurvivesLoad
    BY <2>1, SameLoad DEF SurvivesLoad, HasClass
  <2> QED BY <2>1, <2>2, <2>3, <2>4, SameLoad DEF LoadInv, Granted
<1> QED BY <1>1, <1>2, <1>3, <1>4, <1>5 DEF Next

LEMMA LoadInitInv == Init => LoadInv
<1> SUFFICES ASSUME Init PROVE LoadInv
  OBVIOUS
<1>1. /\ elf \in Images /\ at = "stdin" /\ size = 0 /\ std = <<>>
      /\ seg = 0 /\ mem_high = 0 /\ block = 0
  BY DEF Init
<1>2. Len(elf.phdrs) \in Nat
  BY <1>1, ProgramsAssumption
<1> QED BY <1>1, <1>2 DEF LoadInv, StdInv, SurvivesLoad, Started

LEMMA LoadInductive == Spec => [](FilesInv /\ LoadInv)
<1>1. Init => FilesInv
  BY FilesInitInv DEF Init
<1> QED BY <1>1, LoadInitInv, FilesStepInv, LoadStepInv, PTL DEF Spec

(***************************************************************************)
(* A program that elf__load_elf_file has loaded and my_main has called     *)
(* lies in its block byte for byte as its last segment there has it in the *)
(* file, whatever the segments, their order and their overlaps.            *)
(***************************************************************************)
THEOREM ProgramsLoadedExactly == Spec => []LoadedExact
<1>1. LoadInv => LoadedExact
  <2> SUFFICES ASSUME LoadInv, Started PROVE LoadedExact
    BY DEF LoadedExact
  <2>1. CopiedOf(Indices)
    BY DEF LoadInv
  <2>2. ASSUME NEW a PROVE Covering(a) \cap Indices = Covering(a)
    BY SMTT(30), ZenonT(30) DEF Covering
  <2>3. \A a \in DOMAIN memory :
          memory[a] = IF Covering(a) = {} THEN Old
                      ELSE FileByte(elf.phdrs[Max(Covering(a))], a)
    BY <2>1, <2>2 DEF CopiedOf
  <2>4. ASSUME NEW k \in Indices, elf.phdrs[k].type = 1,
               NEW a \in elf.phdrs[k].vaddr .. elf.phdrs[k].vaddr + elf.phdrs[k].filesz - 1
        PROVE  a \in DOMAIN memory
    <3>1. /\ elf.phdrs[k].vaddr \in Nat /\ elf.phdrs[k].filesz \in Nat
          /\ block \in Nat /\ DOMAIN memory = 0 .. block - 1
      BY <2>1, HeaderFields, ZenonT(30), SMTT(30) DEF LoadInv, CopiedOf
    <3>2. ~(elf.phdrs[k].filesz > 0 /\ elf.phdrs[k].vaddr + elf.phdrs[k].filesz > block)
      BY <2>1, <2>4 DEF CopiedOf, Spills
    <3> QED BY <2>4, <3>1, <3>2, SMTT(30), ZenonT(30)
  <2> QED BY <2>3, <2>4, SMTT(30), ZenonT(30) DEF LoadedExact
<1> QED BY <1>1, LoadInductive, PTL

(***************************************************************************)
(* Opening, reading, placing, copying and running a program leaves defined *)
(* behaviour only in the cases SurvivesLoad names: without its stream, for *)
(* a file that is malformed or reaches 2^31, or for a length no block of   *)
(* the allocator suits.                                                    *)
(***************************************************************************)
THEOREM LoadsSurvived == Spec => []SurvivesLoad
<1>1. LoadInv => SurvivesLoad
  BY DEF LoadInv
<1> QED BY <1>1, LoadInductive, PTL
=============================================================================
