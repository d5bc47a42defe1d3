----------------------------- MODULE TtyProofs ------------------------------
(***************************************************************************)
(* Proofs about the console for every screen size and every interleaving   *)
(* of tty_putch with the keyboard's echo.                                  *)
(***************************************************************************)
EXTENDS Tty, WellFoundedInduction, TLAPS

(***************************************************************************)
(* A set of natural numbers has a least one: the scan of backspace stops   *)
(* at the first cell that is not blank.                                    *)
(***************************************************************************)
LEMMA LeastExists ==
  ASSUME NEW T \in SUBSET Nat, T # {}
  PROVE  \E n \in T : \A m \in T : n <= m
<1> DEFINE R == OpToRel(<, Nat)
<1>1. IsWellFoundedOn(R, Nat)
  BY NatLessThanWellFounded
<1>2. \A n, m \in Nat : m < n => <<m, n>> \in R
  BY DEF OpToRel
<1> HIDE DEF R
<1>3. PICK n \in T : \A m \in T : ~(<<m, n>> \in R)
  BY <1>1, WFMin
<1>4. \A m \in T : ~(m < n)
  BY <1>2, <1>3
<1> QED
  BY <1>4

(***************************************************************************)
(* Where the rows of the buffer begin: what is needed of the products in   *)
(* the index of a cell.                                                    *)
(***************************************************************************)
Start(y) == y * width

LEMMA Sizes ==
  /\ width \in Nat /\ width > 1 /\ height \in Nat /\ height > 1
  /\ TabStop \in Nat /\ TabStop > 0
  /\ Start(height) \in Nat /\ Start(height - 1) \in Nat /\ Start(0) = 0
  /\ Start(height) = Start(height - 1) + width /\ Start(height - 1) >= width
<1>1. /\ width \in Nat /\ width > 1 /\ height \in Nat /\ height > 1
      /\ TabStop \in Nat /\ TabStop > 0
  BY TtyAssumption
<1>2. \A a, b \in Nat : a * b \in Nat
  OBVIOUS
<1>3. \A a, b \in Int : (a - 1) * b = a * b - b
  OBVIOUS
<1>4. \A a, b, c \in Nat : a <= b => a * c <= b * c
  OBVIOUS
<1>5. /\ Start(height) \in Nat /\ Start(height - 1) \in Nat
      /\ Start(height) = Start(height - 1) + width
  BY <1>1, <1>2, <1>3 DEF Start
<1>6. Start(0) = 0 /\ Start(1) = width
  BY <1>1 DEF Start
<1>7. Start(1) <= Start(height - 1)
  BY <1>1, <1>4, 1 \in Nat, height - 1 \in Nat, 1 <= height - 1 DEF Start
<1> QED
  BY <1>1, <1>5, <1>6, <1>7

LEMMA Products ==
  /\ Lowest = -Start(height - 1) /\ width * height = Start(height)
  /\ Cells = 0 .. Start(height) - 1
<1>1. \A a, b \in Int : a * b = b * a
  OBVIOUS
<1>2. Lowest = -Start(height - 1) /\ width * height = Start(height)
  BY <1>1, Sizes DEF Start, Lowest
<1> QED
  BY <1>2 DEF Cells

LEMMA InCells ==
  ASSUME NEW i \in Int
  PROVE  i \in Cells <=> 0 <= i /\ i < Start(height)
BY Sizes, Products, SMTT(30), ZenonT(30)

LEMMA RowAt ==
  ASSUME NEW y \in 0 .. height
  PROVE  /\ y \in Int /\ Start(y) \in Nat /\ Start(y) <= Start(height)
         /\ y < height => Start(y) <= Start(height - 1)
         /\ y > 0 => Start(y - 1) = Start(y) - width
<1>1. \A a, b \in Nat : a * b \in Nat
  OBVIOUS
<1>2. \A a, b \in Int : (a - 1) * b = a * b - b
  OBVIOUS
<1>3. \A a, b, c \in Nat : a <= b => a * c <= b * c
  OBVIOUS
<1>4. y \in Nat /\ y <= height /\ width \in Nat /\ height \in Nat
  BY Sizes
<1>5. Start(y) \in Nat /\ Start(y) <= Start(height)
  BY <1>1, <1>3, <1>4 DEF Start
<1>6. y < height => Start(y) <= Start(height - 1)
  BY <1>3, <1>4, height - 1 \in Int DEF Start
<1>7. y > 0 => Start(y - 1) = Start(y) - width
  BY <1>2, <1>4 DEF Start
<1> QED
  BY <1>4, <1>5, <1>6, <1>7

LEMMA PosIs ==
  ASSUME NEW y \in 0 .. height, NEW x \in Int
  PROVE  Pos(x, y) \in Int /\ Pos(x, y) = Start(y) + x
BY RowAt DEF Start, Pos

(***************************************************************************)
(* The scan of backspace ends between the cell in front of the buffer and  *)
(* the end of the row it began in, with nothing but blanks behind it.      *)
(***************************************************************************)
LEMMA LastTextRange ==
  ASSUME NEW s, NEW y \in 0 .. height - 1
  PROVE  /\ LastText(s, y) \in -1 .. Pos(width - 1, y)
         /\ ~IsBlank(s, LastText(s, y))
         /\ \A j \in LastText(s, y) + 1 .. Pos(width - 1, y) : IsBlank(s, j)
<1> DEFINE P == Pos(width - 1, y)
           IsLast(i) == ~IsBlank(s, i) /\ \A j \in i + 1 .. P : IsBlank(s, j)
           T == {n \in 0 .. P + 1 : ~IsBlank(s, P - n)}
<1>1. P \in Nat
  <2>1. y \in 0 .. height /\ width - 1 \in Nat
    BY Sizes
  <2>2. Start(y) \in Nat /\ P = Start(y) + (width - 1)
    BY <2>1, PosIs, RowAt
  <2> QED
    BY <2>1, <2>2
<1>2. ~IsBlank(s, -1)
  BY InCells DEF IsBlank
<1> HIDE DEF P
<1>3. T \in SUBSET Nat /\ P + 1 \in T
  BY <1>1, <1>2
<1>4. PICK n \in T : \A m \in T : n <= m
  BY <1>3, LeastExists
<1>5. P - n \in -1 .. P /\ ~IsBlank(s, P - n)
  BY <1>1, <1>4
<1>6. ASSUME NEW j \in P - n + 1 .. P PROVE IsBlank(s, j)
  <2>1. P - j \in 0 .. P + 1 /\ P - j < n /\ P - (P - j) = j
    BY <1>1, <1>4
  <2>2. P - j \notin T
    BY <1>1, <1>4, <2>1
  <2> QED
    BY <2>1, <2>2
<1>7. \E i \in -1 .. P : IsLast(i)
  BY <1>5, <1>6
<1>8. LastText(s, y) = CHOOSE i \in -1 .. P : IsLast(i)
  BY DEF LastText, P
<1> QED
  BY <1>7, <1>8 DEF P

(***************************************************************************)
(* A tab moves to the right, by less than two stops.                       *)
(***************************************************************************)
LEMMA TabRange ==
  ASSUME NEW a \in Int, NEW b \in Int
  PROVE  TabX(a, b) \in Int /\ TabX(a, b) >= a /\ TabX(a, b) <= a + 2 * TabStop - 2
<1>1. TabStop \in Nat /\ TabStop > 0
  BY Sizes
<1>2. \A n \in Nat : n % TabStop \in 0 .. TabStop - 1
  BY <1>1
<1>3. Rem(b, TabStop) \in -(TabStop - 1) .. TabStop - 1
  <2>1. CASE b >= 0
    BY <1>1, <1>2, <2>1 DEF Rem
  <2>2. CASE ~(b >= 0)
    BY <1>1, <1>2, <2>2, -b \in Nat DEF Rem
  <2> QED
    BY <2>1, <2>2
<1> QED
  BY <1>1, <1>3 DEF TabX

-----------------------------------------------------------------------------
(***************************************************************************)
(* tty_putch without interruption, from any console the race can leave.    *)
(***************************************************************************)
Consoles == [screen : SUBSET Cells, x : Int, y : 0 .. height, wrote : Int]

LEMMA AdvanceBounds ==
  ASSUME NEW t \in Consoles, t.x >= Lowest
  PROVE  /\ Advance(t) \in Consoles
         /\ Advance(t).x >= Lowest /\ Advance(t).x < width
         /\ Advance(t).y < height \/ Advance(t).y = t.y
         /\ Advance(t).wrote = t.wrote
         /\ t.y < height /\ Pos(t.x, t.y) >= -1 =>
              Pos(Advance(t).x, Advance(t).y) \in Cells
<1>1. /\ t.screen \in SUBSET Cells /\ t.x \in Int /\ t.y \in 0 .. height /\ t.wrote \in Int
      /\ t = [screen |-> t.screen, x |-> t.x, y |-> t.y, wrote |-> t.wrote]
  BY DEF Consoles
<1>2. /\ Lowest \in Int /\ Lowest <= 0 /\ width \in Nat /\ width > 1
      /\ height \in Nat /\ height > 1
  BY Sizes, Products
<1>3. CASE t.x + 1 < width
  <2>1. Advance(t) = [screen |-> t.screen, x |-> t.x + 1, y |-> t.y, wrote |-> t.wrote]
    BY <1>1, <1>3 DEF Advance
  <2>2. t.y < height /\ Pos(t.x, t.y) >= -1 => Pos(t.x + 1, t.y) \in Cells
    <3> SUFFICES ASSUME t.y < height, Pos(t.x, t.y) >= -1
                 PROVE  Pos(t.x + 1, t.y) \in Cells
      OBVIOUS
    <3>1. Pos(t.x, t.y) = Start(t.y) + t.x /\ Pos(t.x + 1, t.y) = Start(t.y) + (t.x + 1)
      BY <1>1, PosIs, t.x + 1 \in Int
    <3>2. Start(t.y) \in Nat /\ Start(t.y) <= Start(height - 1)
      BY <1>1, RowAt
    <3> QED
      BY <1>1, <1>3, <3>1, <3>2, Sizes, InCells
  <2> QED
    BY <1>1, <1>3, <2>1, <2>2, <1>2 DEF Consoles
<1>4. CASE ~(t.x + 1 < width) /\ t.y + 1 < height
  <2>1. Advance(t) = [screen |-> t.screen, x |-> 0, y |-> t.y + 1, wrote |-> t.wrote]
    BY <1>1, <1>4 DEF Advance
  <2>2. t.y + 1 \in 0 .. height - 1
    BY <1>1, <1>4, Sizes
  <2>3. Pos(0, t.y + 1) \in Cells
    <3>0. t.y + 1 \in 0 .. height
      BY <2>2, Sizes
    <3>1. Start(t.y + 1) \in Nat /\ Pos(0, t.y + 1) = Start(t.y + 1) + 0
      BY <3>0, PosIs, RowAt
    <3>2. Start(t.y + 1) <= Start(height - 1)
      BY <2>2, RowAt, Sizes
    <3> QED
      BY <3>1, <3>2, Sizes, InCells
  <2> QED
    BY <1>1, <2>1, <2>2, <2>3, <1>2 DEF Consoles
<1>5. CASE ~(t.x + 1 < width) /\ ~(t.y + 1 < height)
  <2>1. Advance(t) = [screen |-> Scrolled(t.screen), x |-> 0, y |-> height - 1,
                      wrote |-> t.wrote]
    BY <1>1, <1>5 DEF Advance
  <2>2. Scrolled(t.screen) \in SUBSET Cells
    BY DEF Scrolled
  <2>3. height - 1 \in 0 .. height /\ Pos(0, height - 1) \in Cells
    <3>1. height - 1 \in 0 .. height
      BY Sizes
    <3>2. Pos(0, height - 1) = Start(height - 1)
      BY <3>1, PosIs, Sizes
    <3> QED
      BY <3>1, <3>2, Sizes, InCells
  <2> QED
    BY <1>1, <2>1, <2>2, <2>3, <1>2 DEF Consoles
<1> QED
  BY <1>3, <1>4, <1>5

LEMMA BackspaceBounds ==
  ASSUME NEW t \in Consoles, t.x >= Lowest
  PROVE  /\ Backspace(t) \in Consoles
         /\ Backspace(t).x >= Lowest
         /\ Backspace(t).x <= width \/ Backspace(t).x <= t.x
         /\ Backspace(t).y < height \/ Backspace(t).y = t.y
         /\ Backspace(t).wrote = Pos(t.x, t.y) - 1
         /\ t.y < height /\ Pos(t.x, t.y) \in Cells =>
              Pos(Backspace(t).x, Backspace(t).y) \in Cells
<1>1. /\ t.screen \in SUBSET Cells /\ t.x \in Int /\ t.y \in 0 .. height /\ t.wrote \in Int
  BY DEF Consoles
<1>0. Lowest = -Start(height - 1) /\ Start(height - 1) \in Nat
  BY Products, Sizes
<1> DEFINE at == Pos(t.x, t.y) - 1
           s == t.screen \ {at}
           above == IF t.y > 0 THEN t.y - 1 ELSE 0
<1>2. at \in Int /\ Pos(t.x, t.y) = Start(t.y) + t.x /\ Start(t.y) \in Nat
  BY <1>1, PosIs, RowAt
<1>3. s \in SUBSET Cells
  BY <1>1
<1>4. CASE t.x > 0
  <2>1. Backspace(t) = [screen |-> s, x |-> t.x - 1, y |-> t.y, wrote |-> at]
    BY <1>4 DEF Backspace
  <2>2. Pos(t.x - 1, t.y) = Start(t.y) + (t.x - 1)
    BY <1>1, PosIs, t.x - 1 \in Int
  <2>3. Pos(t.x, t.y) \in Cells => Pos(t.x - 1, t.y) \in Cells
    BY <1>1, <1>2, <1>4, <2>2, InCells, Sizes
  <2>4. t.x - 1 \in Int /\ t.x - 1 >= Lowest /\ t.x - 1 <= t.x
    BY <1>0, <1>1, <1>4
  <2> HIDE DEF s, at
  <2>5. Backspace(t) \in Consoles
    BY <1>1, <1>2, <1>3, <2>1, <2>4 DEF Consoles
  <2> QED
    BY <2>1, <2>3, <2>4, <2>5 DEF at
<1>5. CASE ~(t.x > 0)
  <2> DEFINE last == LastText(s, above)
  <2>1. Backspace(t) = [screen |-> s, x |-> last + 1 - Pos(0, above), y |-> above,
                        wrote |-> at]
    BY <1>5 DEF Backspace
  <2>2. above \in 0 .. height - 1
    BY <1>1, Sizes
  <2>3. last \in -1 .. Pos(width - 1, above)
    BY <2>2, LastTextRange
  <2> HIDE DEF last, above
  <2>4. above \in 0 .. height /\ Start(above) <= Start(height - 1)
    BY <2>2, RowAt, Sizes
  <2>5. /\ Pos(0, above) = Start(above) /\ Start(above) \in Nat
        /\ Pos(width - 1, above) = Start(above) + (width - 1)
    BY <2>4, PosIs, RowAt, Sizes, width - 1 \in Int
  <2> DEFINE x == last + 1 - Pos(0, above)
  <2>6. x \in Int /\ x >= Lowest /\ x <= width /\ Start(above) + x = last + 1
    BY <1>0, <2>3, <2>4, <2>5, Sizes
  <2>7. Pos(x, above) = last + 1
    <3> HIDE DEF x
    <3> QED
      BY <2>4, <2>6, PosIs
  <2>8. t.y < height => Pos(x, above) \in Cells
    <3>1. CASE t.y > 0
      <4>1. t.y < height => Start(above) = Start(t.y) - width /\ Start(t.y) <= Start(height - 1)
        BY <1>1, <3>1, RowAt DEF above
      <4> QED
        BY <1>2, <2>3, <2>5, <2>7, <4>1, Sizes, InCells
    <3>2. CASE ~(t.y > 0)
      <4>1. Start(above) = 0
        BY <1>1, <3>2, Sizes DEF above
      <4> QED
        BY <2>3, <2>5, <2>7, <4>1, Sizes, InCells
    <3> QED
      BY <3>1, <3>2
  <2> HIDE DEF x
  <2>9. Backspace(t) = [screen |-> s, x |-> x, y |-> above, wrote |-> at]
    BY <2>1 DEF x
  <2> QED
    <3> HIDE DEF s, at
    <3>1. Backspace(t) \in Consoles
      BY <1>2, <1>3, <2>4, <2>6, <2>9 DEF Consoles
    <3>2. above < height
      BY <2>2, Sizes
    <3> QED
      BY <2>6, <2>8, <2>9, <3>1, <3>2 DEF at
<1> QED
  BY <1>4, <1>5

LEMMA PutchBounds ==
  ASSUME NEW t \in Consoles, t.x >= Lowest, NEW ch \in Echoed
  PROVE  /\ Putch(t, ch) \in Consoles
         /\ Putch(t, ch).x >= Lowest
         /\ Putch(t, ch).x <= width \/ Putch(t, ch).x <= t.x
         /\ Putch(t, ch).y < height \/ Putch(t, ch).y = t.y
         /\ Putch(t, ch).wrote \in {t.wrote, Pos(t.x, t.y), Pos(t.x, t.y) - 1}
         /\ t.y < height /\ Pos(t.x, t.y) \in Cells =>
              Pos(Putch(t, ch).x, Putch(t, ch).y) \in Cells
<1>1. /\ t.screen \in SUBSET Cells /\ t.x \in Int /\ t.y \in 0 .. height /\ t.wrote \in Int
      /\ t = [screen |-> t.screen, x |-> t.x, y |-> t.y, wrote |-> t.wrote]
  BY DEF Consoles
<1>2. /\ Lowest \in Int /\ Lowest <= 0 /\ width \in Nat /\ width > 1
      /\ \A i \in Cells : i \in Int /\ i >= 0
  BY Products, Sizes
<1>3. Pos(t.x, t.y) \in Int /\ Start(t.y) \in Nat /\ Pos(t.x, t.y) = Start(t.y) + t.x
  BY <1>1, PosIs, RowAt
<1>4. ch \in {"char", "newline", "backspace", "tabulator"}
  BY TtyAssumption DEF Chars
\* A character that ends in the common part of tty_putch.
<1>5. ASSUME NEW u \in Consoles, u.x >= t.x \/ u.x = width - 1, u.y = t.y,
             u.wrote \in {t.wrote, Pos(t.x, t.y)}, Putch(t, ch) = Advance(u)
      PROVE  /\ Putch(t, ch) \in Consoles
             /\ Putch(t, ch).x >= Lowest
             /\ Putch(t, ch).x <= width \/ Putch(t, ch).x <= t.x
             /\ Putch(t, ch).y < height \/ Putch(t, ch).y = t.y
             /\ Putch(t, ch).wrote \in {t.wrote, Pos(t.x, t.y), Pos(t.x, t.y) - 1}
             /\ t.y < height /\ Pos(t.x, t.y) \in Cells =>
                  Pos(Putch(t, ch).x, Putch(t, ch).y) \in Cells
  <2>1. u.x \in Int /\ u.x >= Lowest
    BY <1>1, <1>2, <1>5 DEF Consoles
  <2>2. /\ Advance(u) \in Consoles
        /\ Advance(u).x >= Lowest /\ Advance(u).x < width
        /\ Advance(u).y < height \/ Advance(u).y = u.y
        /\ Advance(u).wrote = u.wrote
        /\ u.y < height /\ Pos(u.x, u.y) >= -1 =>
             Pos(Advance(u).x, Advance(u).y) \in Cells
    BY <2>1, AdvanceBounds
  <2>3. Pos(t.x, t.y) \in Cells => Pos(u.x, u.y) >= -1
    <3>1. Pos(u.x, u.y) = Start(t.y) + u.x
      BY <1>1, <1>5, <2>1, PosIs
    <3> QED
      BY <1>1, <1>2, <1>3, <1>5, <2>1, <3>1
  <2>4. Advance(u).x <= width
    BY <1>2, <2>2 DEF Consoles
  <2> QED
    BY <1>5, <2>2, <2>3, <2>4
<1>6. CASE ch = "newline"
  <2> DEFINE u == [t EXCEPT !.x = width - 1]
  <2>1. u = [screen |-> t.screen, x |-> width - 1, y |-> t.y, wrote |-> t.wrote]
    BY <1>1
  <2>2. u \in Consoles /\ u.x = width - 1 /\ u.y = t.y /\ u.wrote = t.wrote
    BY <1>1, <1>2, <2>1 DEF Consoles
  <2>3. Putch(t, ch) = Advance(u)
    BY <1>6 DEF Putch
  <2> QED
    BY <1>5, <2>2, <2>3
<1>7. CASE ch = "tabulator"
  <2> DEFINE u == [t EXCEPT !.x = TabX(t.x, t.x)]
  <2>1. u = [screen |-> t.screen, x |-> TabX(t.x, t.x), y |-> t.y, wrote |-> t.wrote]
    BY <1>1
  <2>2. TabX(t.x, t.x) \in Int /\ TabX(t.x, t.x) >= t.x
    BY <1>1, TabRange
  <2>3. u \in Consoles /\ u.x >= t.x /\ u.y = t.y /\ u.wrote = t.wrote
    BY <1>1, <2>1, <2>2 DEF Consoles
  <2>4. Putch(t, ch) = Advance(u)
    BY <1>7 DEF Putch
  <2> QED
    BY <1>5, <2>3, <2>4
<1>8. CASE ch = "char"
  <2> DEFINE u == [screen |-> t.screen \cup ({Pos(t.x, t.y)} \cap Cells), x |-> t.x,
                   y |-> t.y, wrote |-> Pos(t.x, t.y)]
  <2>2. t.screen \cup ({Pos(t.x, t.y)} \cap Cells) \in SUBSET Cells
    BY <1>1
  <2>3. u \in Consoles /\ u.x >= t.x /\ u.y = t.y /\ u.wrote = Pos(t.x, t.y)
    BY <1>1, <1>3, <2>2 DEF Consoles
  <2>4. Putch(t, ch) = Advance(u)
    BY <1>8 DEF Putch
  <2> QED
    BY <1>5, <2>3, <2>4
<1>9. CASE ch = "backspace"
  <2>1. Putch(t, ch) = Backspace(t)
    BY <1>9 DEF Putch
  <2> QED
    BY <2>1, BackspaceBounds
<1> QED
  BY <1>4, <1>6, <1>7, <1>8, <1>9

-----------------------------------------------------------------------------
(***************************************************************************)
(* The echo, at any point of the main thread's tty_putch.                  *)
(***************************************************************************)
LEMMA EchoKeeps ==
  ASSUME TtyInv, NEW ch \in Echoed, KeyEcho(ch)
  PROVE  TtyInv'
<1> DEFINE t == Console
           u == Putch(t, ch)
<1>1. /\ t \in Consoles /\ t.x = cursorx /\ t.y = cursory /\ t.wrote = wrote
      /\ t.x >= Lowest
  BY DEF TtyInv, RaceBounds, Console, Consoles
<1> HIDE DEF t
<1>2. /\ u \in Consoles /\ u.x >= Lowest
      /\ u.x <= width \/ u.x <= t.x
      /\ u.y < height \/ u.y = t.y
      /\ u.wrote \in {t.wrote, Pos(t.x, t.y), Pos(t.x, t.y) - 1}
      /\ t.y < height /\ Pos(t.x, t.y) \in Cells => Pos(u.x, u.y) \in Cells
  BY <1>1, PutchBounds
<1>3. /\ screen' = u.screen /\ cursorx' = u.x /\ cursory' = u.y /\ wrote' = u.wrote
      /\ past' = IF pc = "idle" THEN past ELSE "raced"
      /\ pc' = pc /\ rx' = rx /\ ry' = ry /\ cell' = cell
  BY DEF KeyEcho, ConsoleIs, t
<1> HIDE DEF u
<1>4. /\ u.screen \in SUBSET Cells /\ u.x \in Int /\ u.y \in 0 .. height /\ u.wrote \in Int
      /\ cursorx \in Int /\ cursory \in 0 .. height /\ wrote \in Int
  BY <1>2 DEF Consoles, TtyInv, RaceBounds
<1>5. RaceBounds'
  <2>1. /\ screen' \subseteq Cells /\ cell' \in Nat /\ pc' \in PutchPoints
        /\ {cursorx', rx', ry', wrote'} \subseteq Int /\ cursory' \in 0 .. height
        /\ cursorx' >= Lowest
    BY <1>2, <1>3, <1>4 DEF TtyInv, RaceBounds
  <2>2. cursory' = height => pc' \in {"testy", "scroll"}
    BY <1>1, <1>2, <1>3, <1>4, Sizes DEF TtyInv, RaceBounds
  <2>3. /\ pc' \notin {"loadx", "storex", "testx", "zerox"} => cursorx' <= width
        /\ pc' \in {"loadx", "storex"} => cursorx' <= TabReach
        /\ pc' \in {"testx", "zerox"} => cursorx' <= TabReach + 1
    <3>1. TabReach \in Int /\ width \in Int /\ width <= TabReach
      BY Sizes DEF TabReach
    <3>2. /\ pc \notin {"loadx", "storex", "testx", "zerox"} => cursorx <= width
          /\ pc \in {"loadx", "storex"} => cursorx <= TabReach
          /\ pc \in {"testx", "zerox"} => cursorx <= TabReach + 1
      BY DEF TtyInv, RaceBounds
    <3>3. cursorx' \in Int /\ (cursorx' <= width \/ cursorx' <= cursorx) /\ pc' = pc
      BY <1>1, <1>2, <1>3, <1>4
    <3> QED
      BY <1>4, <3>1, <3>2, <3>3
  <2>4. /\ pc' \in {"tab", "tabstore", "write", "storex"} => rx' >= Lowest
        /\ pc' \in {"tab", "write"} => rx' <= width
        /\ pc' \in {"tabstore", "storex"} => rx' <= TabReach
        /\ pc' \in {"addr", "write", "storey"} => ry' \in 0 .. height - 1
    BY <1>3 DEF TtyInv, RaceBounds
  <2> QED
    BY <2>1, <2>2, <2>3, <2>4 DEF RaceBounds, Cells, Lowest, TabReach, PutchPoints
<1>6. WritesInVideo'
  <2> DEFINE p == Pos(cursorx, cursory)
  <2>1. /\ p \in Int /\ p = Start(cursory) + cursorx
        /\ Start(cursory) \in Nat /\ Start(cursory) <= Start(height)
        /\ cursory < height => Start(cursory) <= Start(height - 1)
    BY <1>4, PosIs, RowAt
  <2>2. /\ cursorx >= -Start(height - 1)
        /\ cursory = height => cursorx <= width
        /\ cursorx <= width + 2 * TabStop - 1
    BY Sizes, Products, SMTT(30), ZenonT(30) DEF TtyInv, RaceBounds, TabReach, PutchPoints
  <2>3. /\ p >= -Start(height - 1)
        /\ p <= Start(height) + width \/ p < Start(height) + 2 * TabStop
    <3> HIDE DEF p
    <3>1. CASE cursory = height
      BY <1>4, <2>1, <2>2, <3>1, Sizes
    <3>2. CASE cursory < height
      BY <1>4, <2>1, <2>2, <3>2, Sizes
    <3> QED
      BY <1>4, <3>1, <3>2, Sizes
  <2>4. /\ wrote >= -Start(height - 1) - 1
        /\ wrote <= Start(height) + width \/ wrote < Start(height) + 2 * TabStop
    BY Products DEF TtyInv, WritesInVideo, Lowest
  <2>5. wrote' \in {wrote, p, p - 1}
    BY <1>1, <1>2, <1>3
  <2> HIDE DEF p
  <2>6. /\ wrote' >= -Start(height - 1) - 1
        /\ wrote' <= Start(height) + width \/ wrote' < Start(height) + 2 * TabStop
    BY <1>4, <2>1, <2>3, <2>4, <2>5, Sizes
  <2> QED
    BY <2>6, Products DEF WritesInVideo, Lowest
<1>7. WholeCalls'
  <2> SUFFICES ASSUME past' # "raced"
               PROVE  WholeCalls'
    BY DEF WholeCalls
  <2>1. pc = "idle" /\ pc' = "idle" /\ past = past'
    BY <1>3
  <2>2. cursory < height /\ Pos(cursorx, cursory) \in Cells
    BY <1>4, <2>1, Sizes DEF TtyInv, RaceBounds, WholeCalls, CursorOnScreen
  <2>3. Pos(cursorx', cursory') \in Cells
    BY <1>1, <1>2, <1>3, <2>2
  <2> QED
    BY <2>1, <2>3 DEF WholeCalls, CursorOnScreen, Pos, Cells
<1> QED
  BY <1>5, <1>6, <1>7 DEF TtyInv

-----------------------------------------------------------------------------
(***************************************************************************)
(* The main thread's tty_putch, one load or store at a time.               *)
(***************************************************************************)
Typing ==
  /\ {cursorx, rx, ry, wrote, Lowest, TabReach} \subseteq Int /\ cursory \in 0 .. height
  /\ Lowest <= 0 /\ width <= TabReach /\ width \in Nat /\ width > 1
  /\ height \in Nat /\ height > 1 /\ TabStop \in Nat /\ TabReach = width + 2 * TabStop - 2

LEMMA Types ==
  ASSUME RaceBounds
  PROVE  Typing
BY Sizes, Products, SMTT(30), ZenonT(30) DEF RaceBounds, Typing, TabReach

LEMMA MainBounds ==
  ASSUME RaceBounds, Main
  PROVE  RaceBounds'
<1> USE Types
<1>1. CASE PutNewline
  BY <1>1 DEF PutNewline, RaceBounds, Typing, PutchPoints, Goto, SameRegs
<1>2. CASE PutReturn
  BY <1>2 DEF PutReturn, RaceBounds, Typing, PutchPoints, Goto, SameRegs
<1>3. CASE PutTab
  BY <1>3 DEF PutTab, RaceBounds, Typing, PutchPoints, Goto, SameConsole
<1>4. CASE TabReload
  <2>1. /\ TabX(rx, cursorx) \in Int /\ TabX(rx, cursorx) >= rx
        /\ TabX(rx, cursorx) <= rx + 2 * TabStop - 2
    BY TabRange DEF RaceBounds
  <2> QED
    BY <1>4, <2>1 DEF TabReload, RaceBounds, Typing, PutchPoints, Goto, SameConsole
<1>5. CASE TabStore
  BY <1>5 DEF TabStore, RaceBounds, Typing, PutchPoints, Goto, SameRegs
<1>6. CASE PutChar
  BY <1>6 DEF PutChar, RaceBounds, Typing, PutchPoints, Goto, SameConsole
<1>7. CASE AddrX
  BY <1>7 DEF AddrX, RaceBounds, Typing, PutchPoints, Goto, SameConsole
<1>8. CASE tty_setcharwithcolor
  <2>1. Pos(rx, ry) \in Int
    BY <1>8, PosIs DEF tty_setcharwithcolor, RaceBounds, Typing
  <2> QED
    BY <1>8, <2>1 DEF tty_setcharwithcolor, RaceBounds, Typing, PutchPoints, Goto, SameRegs
<1>9. CASE LoadX
  BY <1>9 DEF LoadX, RaceBounds, Typing, PutchPoints, Goto, SameConsole
<1>10. CASE StoreX
  BY <1>10 DEF StoreX, RaceBounds, Typing, PutchPoints, Goto, SameRegs
<1>11. CASE TestX
  BY <1>11 DEF TestX, RaceBounds, Typing, PutchPoints, Goto, SameRegs, SameConsole
<1>12. CASE ZeroX
  BY <1>12 DEF ZeroX, RaceBounds, Typing, PutchPoints, Goto, SameRegs
<1>13. CASE LoadY
  BY <1>13 DEF LoadY, RaceBounds, Typing, PutchPoints, Goto, SameConsole
<1>14. CASE StoreY
  BY <1>14 DEF StoreY, RaceBounds, Typing, PutchPoints, Goto, SameRegs
<1>15. CASE TestY
  BY <1>15 DEF TestY, RaceBounds, Typing, PutchPoints, Goto, SameConsole
<1>16. CASE tty_scroll
  BY <1>16 DEF tty_scroll, RaceBounds, Typing, PutchPoints
<1>17. CASE LastRow
  BY <1>17 DEF LastRow, RaceBounds, Typing, PutchPoints, Goto, SameRegs
<1> QED
  BY <1>1, <1>2, <1>3, <1>4, <1>5, <1>6, <1>7, <1>8, <1>9, <1>10, <1>11, <1>12,
     <1>13, <1>14, <1>15, <1>16, <1>17 DEF Main, Step

\* Of the main thread's steps only tty_setcharwithcolor writes.
LEMMA MainWrites ==
  ASSUME RaceBounds, WritesInVideo, Main
  PROVE  WritesInVideo'
<1>1. CASE tty_setcharwithcolor
  <2>1. /\ rx \in Int /\ ry \in 0 .. height - 1 /\ rx >= Lowest /\ rx <= width
        /\ wrote' = Pos(rx, ry)
    BY <1>1 DEF tty_setcharwithcolor, RaceBounds
  <2>2. /\ ry \in 0 .. height /\ ry < height
    BY <2>1, Sizes
  <2>3. /\ Pos(rx, ry) = Start(ry) + rx
        /\ Start(ry) \in Nat /\ Start(ry) <= Start(height - 1)
    BY <2>1, <2>2, PosIs, RowAt
  <2>4. Lowest = -Start(height - 1)
    BY Products
  <2>5. wrote' >= -Start(height - 1) - 1 /\ wrote' <= Start(height) + width
    BY <2>1, <2>3, <2>4, Sizes
  <2> QED
    BY <2>5, Products DEF WritesInVideo, Lowest
<1>2. CASE wrote' = wrote
  BY <1>2 DEF WritesInVideo
<1> QED
  BY <1>1, <1>2 DEF Main, Step, PutNewline, PutReturn, PutTab, TabReload, TabStore,
     PutChar, AddrX, LoadX, StoreX, TestX, ZeroX, LoadY, StoreY, TestY, tty_scroll,
     LastRow, SameConsole

\* A call that nobody interrupts works on the values it has loaded.
LEMMA MainWhole ==
  ASSUME RaceBounds, WholeCalls, Main, RaceBounds'
  PROVE  WholeCalls'
<1> SUFFICES ASSUME past' # "raced"
             PROVE  WholeCalls'
  BY DEF WholeCalls
<1>1. past # "raced"
  BY DEF Main
<1>2. Typing /\ Typing'
  BY Types DEF RaceBounds, Typing, TabReach, Lowest
<1>3. /\ \A x \in Int : Pos(x, cursory) \in Int /\ Pos(x, cursory) = Start(cursory) + x
      /\ \A x \in Int : Pos(x, cursory') \in Int /\ Pos(x, cursory') = Start(cursory') + x
      /\ Start(cursory) \in Nat /\ Start(cursory') \in Nat
      /\ cursory' < height => Start(cursory') <= Start(height - 1)
  BY <1>2, PosIs, RowAt DEF Typing
<1>4. /\ Start(height) \in Nat /\ Start(height - 1) \in Nat
      /\ Start(height) = Start(height - 1) + width
  BY Sizes
<1>5. \A i \in Int : i \in Cells <=> 0 <= i /\ i < Start(height)
  BY InCells
<1>6. ASSUME pc' = "idle", cursory' < height, cursorx' < width, Pos(cursorx', cursory') >= 0
      PROVE  WholeCalls'
  <2>1. Pos(cursorx', cursory') \in Cells
    BY <1>2, <1>3, <1>4, <1>5, <1>6 DEF Typing
  <2> QED
    BY <1>6, <2>1 DEF WholeCalls, CursorOnScreen, Cells, Pos
<1>7. pc = "idle" => Pos(cursorx, cursory) >= 0
  BY <1>1, <1>2, <1>3, <1>5 DEF WholeCalls, CursorOnScreen, Typing
<1>8. CASE PutNewline \/ PutReturn
  <2>1. /\ pc' = "loadx" /\ cursory' = cursory /\ cursorx' \in Nat
    BY <1>2, <1>8 DEF PutNewline, PutReturn, Goto, Typing
  <2>2. Pos(cursorx', cursory') >= 0
    BY <1>3, <2>1
  <2> QED
    BY <2>1, <2>2 DEF WholeCalls, CursorOnScreen, Pos
<1>9. CASE PutTab
  <2>1. /\ pc' = "tab" /\ cursory' = cursory /\ cursorx' = cursorx /\ rx' = cursorx
        /\ pc = "idle"
    BY <1>9 DEF PutTab, Goto, SameConsole
  <2> QED
    BY <1>7, <2>1 DEF WholeCalls, CursorOnScreen, Pos
<1>10. CASE TabReload
  <2>1. /\ pc' = "tabstore" /\ cursory' = cursory /\ cursorx' = cursorx
        /\ rx' = TabX(rx, cursorx) /\ pc = "tab"
    BY <1>10 DEF TabReload, Goto, SameConsole
  <2>2. rx = cursorx /\ Pos(cursorx, cursory) >= 0
    BY <1>1, <2>1 DEF WholeCalls
  <2>3. rx' \in Int /\ rx' >= cursorx
    BY <1>2, <2>1, <2>2, TabRange DEF Typing
  <2>4. Pos(rx', cursory') >= 0
    BY <1>2, <1>3, <2>1, <2>2, <2>3 DEF Typing
  <2> QED
    BY <2>1, <2>2, <2>4 DEF WholeCalls, CursorOnScreen, Pos
<1>11. CASE TabStore
  <2>1. /\ pc' = "loadx" /\ cursory' = cursory /\ cursorx' = rx /\ pc = "tabstore"
    BY <1>11 DEF TabStore, Goto
  <2> QED
    BY <1>1, <2>1 DEF WholeCalls, CursorOnScreen, Pos
<1>12. CASE PutChar \/ AddrX
  <2>1. /\ pc' \in {"addr", "write"} /\ cursory' = cursory /\ cursorx' = cursorx
        /\ pc \in {"idle", "addr"}
    BY <1>12 DEF PutChar, AddrX, Goto, SameConsole
  <2> QED
    BY <1>1, <1>7, <2>1 DEF WholeCalls, CursorOnScreen, Pos
<1>13. CASE tty_setcharwithcolor
  <2>1. /\ pc' = "loadx" /\ cursory' = cursory /\ cursorx' = cursorx /\ pc = "write"
    BY <1>13 DEF tty_setcharwithcolor, Goto
  <2> QED
    BY <1>1, <2>1 DEF WholeCalls, CursorOnScreen, Pos
<1>14. CASE LoadX
  <2>1. /\ pc' = "storex" /\ cursory' = cursory /\ cursorx' = cursorx /\ rx' = cursorx
        /\ pc = "loadx"
    BY <1>14 DEF LoadX, Goto, SameConsole
  <2> QED
    BY <1>1, <2>1 DEF WholeCalls, CursorOnScreen, Pos
<1>15. CASE StoreX
  <2>1. /\ pc' = "testx" /\ cursory' = cursory /\ cursorx' = rx + 1 /\ pc = "storex"
    BY <1>15 DEF StoreX, Goto
  <2>2. rx = cursorx /\ Pos(cursorx, cursory) >= 0
    BY <1>1, <2>1 DEF WholeCalls
  <2>3. Pos(cursorx', cursory') >= 0
    BY <1>2, <1>3, <2>1, <2>2 DEF Typing
  <2> QED
    BY <2>1, <2>3 DEF WholeCalls, CursorOnScreen, Pos
<1>16. CASE TestX
  <2>1. /\ cursory' = cursory /\ cursorx' = cursorx /\ pc = "testx"
        /\ pc' = IF cursorx >= width THEN "zerox" ELSE "idle"
    BY <1>16 DEF TestX, Goto, SameConsole
  <2>2. Pos(cursorx', cursory') >= 0
    BY <1>1, <2>1 DEF WholeCalls
  <2>3. CASE pc' = "idle"
    <3>1. cursory' < height
      BY <1>2, <2>3 DEF RaceBounds, Typing
    <3>2. cursorx' < width
      BY <1>2, <2>1, <2>3 DEF Typing
    <3> QED
      BY <1>6, <2>2, <2>3, <3>1, <3>2
  <2>4. CASE pc' = "zerox"
    BY <2>4 DEF WholeCalls, CursorOnScreen
  <2> QED
    BY <2>1, <2>3, <2>4
<1>17. CASE ZeroX \/ LoadY
  <2>1. /\ pc' \in {"loady", "storey"} /\ cursory' = cursory /\ cursorx' = 0
        /\ pc' = "storey" => ry' = cursory'
    BY <1>1, <1>17 DEF ZeroX, LoadY, Goto, SameConsole, WholeCalls
  <2> QED
    BY <2>1 DEF WholeCalls, CursorOnScreen
<1>18. CASE StoreY
  <2>1. pc' = "testy" /\ cursorx' = 0
    BY <1>1, <1>18 DEF StoreY, Goto, WholeCalls
  <2> QED
    BY <2>1 DEF WholeCalls, CursorOnScreen
<1>19. CASE TestY \/ tty_scroll \/ LastRow
  <2>1. pc' \in {"idle", "scroll"} /\ cursorx' = 0
    BY <1>1, <1>19 DEF TestY, tty_scroll, LastRow, Goto, SameConsole, WholeCalls
  <2>2. CASE pc' = "idle"
    <3>1. cursory' < height
      BY <1>2, <2>2 DEF RaceBounds, Typing
    <3>2. Pos(cursorx', cursory') >= 0 /\ cursorx' < width
      BY <1>2, <1>3, <2>1 DEF Typing
    <3> QED
      BY <1>6, <2>2, <3>1, <3>2
  <2>3. CASE pc' = "scroll"
    BY <2>1, <2>3 DEF WholeCalls, CursorOnScreen
  <2> QED
    BY <2>1, <2>2, <2>3
<1> QED
  BY <1>8, <1>9, <1>10, <1>11, <1>12, <1>13, <1>14, <1>15, <1>16, <1>17, <1>18,
     <1>19 DEF Main, Step

-----------------------------------------------------------------------------
LEMMA TtyInductive == Spec => []TtyInv
<1>1. Init => TtyInv
  <2> SUFFICES ASSUME Init PROVE TtyInv
    OBVIOUS
  <2>1. RaceBounds
    BY Sizes, Products DEF Init, RaceBounds, PutchPoints
  <2>2. WritesInVideo
    <3>1. wrote >= -Start(height - 1) - 1 /\ wrote <= Start(height) + width
      BY Sizes DEF Init
    <3> QED
      BY <3>1, Products DEF WritesInVideo, Lowest
  <2>3. Pos(0, 0) \in Cells
    <3>1. Pos(0, 0) = Start(0) + 0
      BY PosIs, Sizes
    <3> QED
      BY <3>1, InCells, Sizes
  <2>4. WholeCalls
    BY <2>3 DEF Init, WholeCalls, CursorOnScreen
  <2> QED
    BY <2>1, <2>2, <2>4 DEF TtyInv
<1>2. TtyInv /\ [Next]_vars => TtyInv'
  <2> SUFFICES ASSUME TtyInv, [Next]_vars PROVE TtyInv'
    OBVIOUS
  <2>1. CASE Main
    BY <2>1, MainBounds, MainWrites, MainWhole DEF TtyInv
  <2>2. ASSUME NEW ch \in Echoed, KeyEcho(ch) PROVE TtyInv'
    BY <2>2, EchoKeeps
  <2>3. CASE UNCHANGED vars
    BY <2>3 DEF vars, TtyInv, RaceBounds, WritesInVideo, WholeCalls, CursorOnScreen,
       Pos, Cells, Lowest, TabReach, PutchPoints
  <2> QED
    BY <2>1, <2>2, <2>3 DEF Next
<1> QED
  BY <1>1, <1>2, PTL DEF Spec

(***************************************************************************)
(* On a screen of any size, and with tabs of any width, the race between   *)
(* tty_putch and the keyboard's echo never writes outside the stated       *)
(* distance of the text buffer, and between two calls the row is a row of  *)
(* the screen.                                                             *)
(***************************************************************************)
THEOREM RaceStaysInVideo == Spec => []StaysInVideo
<1>1. TtyInv => StaysInVideo
  BY Sizes DEF TtyInv, RaceBounds, StaysInVideo, RowOnScreen
<1> QED
  BY <1>1, TtyInductive, PTL

(***************************************************************************)
(* On a screen of any size, calls of tty_putch that do not interrupt one   *)
(* another leave the cursor on the screen.                                 *)
(***************************************************************************)
THEOREM CallsEndOnScreen == Spec => []CursorOnScreen
<1>1. TtyInv => CursorOnScreen
  BY DEF TtyInv, WholeCalls, CursorOnScreen
<1> QED
  BY <1>1, TtyInductive, PTL

-----------------------------------------------------------------------------
(***************************************************************************)
(* Where the text is: NothingBehindCursor.                                 *)
(***************************************************************************)
LEMMA NextRow ==
  ASSUME NEW y \in 0 .. height, y < height
  PROVE  Pos(0, y + 1) = Pos(width, y)
<1>1. y + 1 \in 0 .. height /\ y + 1 > 0 /\ (y + 1) - 1 = y
  BY Sizes
<1>2. Start(y + 1) - width = Start(y) /\ Start(y + 1) \in Nat
  BY <1>1, RowAt
<1>3. Pos(0, y + 1) = Start(y + 1) /\ Pos(width, y) = Start(y) + width
  BY <1>1, <1>2, PosIs, Sizes
<1> QED
  BY <1>2, <1>3, Sizes

LEMMA ScrolledText ==
  ASSUME NEW s \in SUBSET Cells
  PROVE  \A i \in Scrolled(s) : i < Pos(0, height - 1)
<1>1. Pos(0, height - 1) = Start(height - 1)
  BY PosIs, Sizes, height - 1 \in 0 .. height
<1>2. \A i \in Scrolled(s) : i \in Cells /\ i + width \in Cells
  BY DEF Scrolled
<1> QED
  BY <1>1, <1>2, Sizes, Products, SMTT(30), ZenonT(30)

LEMMA AdvanceText ==
  ASSUME NEW t \in Consoles, t.y < height,
         \A i \in t.screen : i <= Pos(t.x, t.y), \A i \in t.screen : i < Pos(width, t.y)
  PROVE  /\ Advance(t).x < width
         /\ \A i \in Advance(t).screen : i < Pos(Advance(t).x, Advance(t).y)
<1>1. /\ t.screen \in SUBSET Cells /\ t.x \in Int /\ t.y \in 0 .. height
      /\ t = [screen |-> t.screen, x |-> t.x, y |-> t.y, wrote |-> t.wrote]
      /\ \A i \in t.screen : i \in Int
  BY Products DEF Consoles
<1>2. width \in Nat /\ width > 1 /\ height \in Nat
  BY Sizes
<1>3. CASE t.x + 1 < width
  <2>1. Advance(t) = [screen |-> t.screen, x |-> t.x + 1, y |-> t.y, wrote |-> t.wrote]
    BY <1>1, <1>3 DEF Advance
  <2>2. Pos(t.x, t.y) = Start(t.y) + t.x /\ Pos(t.x + 1, t.y) = Start(t.y) + (t.x + 1)
    BY <1>1, PosIs, t.x + 1 \in Int
  <2>3. \A i \in t.screen : i < Pos(t.x + 1, t.y)
    BY <1>1, <2>2, RowAt
  <2> QED
    BY <1>3, <2>1, <2>3
<1>4. CASE ~(t.x + 1 < width) /\ t.y + 1 < height
  <2>1. Advance(t) = [screen |-> t.screen, x |-> 0, y |-> t.y + 1, wrote |-> t.wrote]
    BY <1>1, <1>4 DEF Advance
  <2>2. Pos(0, t.y + 1) = Pos(width, t.y)
    BY <1>1, NextRow
  <2> QED
    BY <1>2, <2>1, <2>2
<1>5. CASE ~(t.x + 1 < width) /\ ~(t.y + 1 < height)
  <2>1. Advance(t) = [screen |-> Scrolled(t.screen), x |-> 0, y |-> height - 1,
                      wrote |-> t.wrote]
    BY <1>1, <1>5 DEF Advance
  <2> QED
    BY <1>1, <1>2, <2>1, ScrolledText
<1> QED
  BY <1>3, <1>4, <1>5

\* A backspace at the start of a row has cleared the last cell of the row above
\* or found it blank, so it goes back to a column of the row.
LEMMA BackspaceText ==
  ASSUME NEW t \in Consoles, t.y < height, t.x < width, Pos(t.x, t.y) \in Cells,
         \A i \in t.screen : i < Pos(t.x, t.y)
  PROVE  /\ Backspace(t).x < width
         /\ \A i \in Backspace(t).screen : i < Pos(Backspace(t).x, Backspace(t).y)
<1>1. /\ t.screen \in SUBSET Cells /\ t.x \in Int /\ t.y \in 0 .. height
      /\ \A i \in t.screen : i \in Int
  BY Products DEF Consoles
<1> DEFINE at == Pos(t.x, t.y) - 1
           s == t.screen \ {at}
           above == IF t.y > 0 THEN t.y - 1 ELSE 0
<1>2. at \in Int /\ Pos(t.x, t.y) = Start(t.y) + t.x /\ Start(t.y) \in Nat
  BY <1>1, PosIs, RowAt
<1>3. \A i \in s : i \in Cells /\ i \in Int /\ i < at
  BY <1>1, <1>2
<1>4. CASE t.x > 0
  <2>1. Backspace(t).screen = s /\ Backspace(t).x = t.x - 1 /\ Backspace(t).y = t.y
    BY <1>4 DEF Backspace
  <2>2. Pos(t.x - 1, t.y) = at
    BY <1>1, <1>2, PosIs, t.x - 1 \in Int
  <2>3. t.x - 1 < width
    BY <1>1, Sizes
  <2> HIDE DEF s, at
  <2> QED
    BY <1>3, <2>1, <2>2, <2>3
<1>5. CASE ~(t.x > 0)
  <2> DEFINE last == LastText(s, above)
             P == Pos(width - 1, above)
  <2>1. /\ Backspace(t).screen = s /\ Backspace(t).x = last + 1 - Pos(0, above)
        /\ Backspace(t).y = above
    BY <1>5 DEF Backspace
  <2>2. above \in 0 .. height - 1 /\ above \in 0 .. height
    BY <1>1, Sizes
  <2>3. /\ last \in -1 .. P /\ ~IsBlank(s, last)
        /\ \A j \in last + 1 .. P : IsBlank(s, j)
    BY <2>2, LastTextRange
  <2>4. /\ Pos(0, above) = Start(above) /\ Start(above) \in Nat
        /\ P = Start(above) + (width - 1)
    <3> HIDE DEF above
    <3>1. above \in 0 .. height /\ width - 1 \in Int /\ 0 \in Int /\ width \in Int
      BY <2>2, Sizes
    <3>2. Start(above) \in Nat
      BY <2>2, RowAt
    <3>3. /\ Pos(0, above) \in Int /\ Pos(0, above) = Start(above) + 0
          /\ Pos(width - 1, above) = Start(above) + (width - 1)
      BY <3>1, PosIs
    <3> QED
      BY <3>1, <3>2, <3>3
  <2>5. P \in Cells /\ P \in Int /\ at <= P
    <3>1. CASE t.y > 0
      <4>1. Start(above) = Start(t.y) - width /\ Start(t.y) <= Start(height - 1)
        BY <1>1, <3>1, RowAt
      <4>2. P = Start(t.y) - 1 /\ P \in Int /\ P >= 0
        BY <1>2, <2>4, <4>1, Sizes
      <4>3. at <= P
        BY <1>1, <1>2, <1>5, <4>2
      <4> HIDE DEF P, at
      <4> QED
        BY <1>2, <4>1, <4>2, <4>3, Sizes, InCells
    <3>2. CASE ~(t.y > 0)
      <4>1. t.y = 0 /\ Start(above) = 0 /\ Start(t.y) = 0
        BY <1>1, <3>2, Sizes
      <4>2. P = width - 1 /\ at <= 0
        BY <1>1, <1>2, <1>5, <2>4, <4>1, Sizes
      <4> HIDE DEF P, at
      <4> QED
        BY <1>2, <4>2, Sizes, InCells
    <3> QED
      BY <3>1, <3>2
  <2> HIDE DEF last, P, above, at
  <2>6. P \notin s
    BY <1>2, <1>3, <2>5
  <2>7. last # P
    BY <2>3, <2>5, <2>6 DEF IsBlank
  <2>8. \A i \in s : i <= last
    BY <1>2, <1>3, <2>3, <2>5 DEF IsBlank
  <2> DEFINE x == last + 1 - Pos(0, above)
  <2>9. x \in Int /\ x < width /\ Start(above) + x = last + 1
    BY <2>3, <2>4, <2>5, <2>7, Sizes
  <2>10. Pos(x, above) = last + 1
    <3> HIDE DEF x
    <3> QED
      BY <2>2, <2>9, PosIs
  <2> HIDE DEF x, s
  <2>11. Backspace(t).x = x
    BY <2>1 DEF x
  <2>12. \A i \in s : i < last + 1
    BY <1>3, <2>3, <2>5, <2>8
  <2> QED
    BY <2>1, <2>9, <2>10, <2>11, <2>12
<1> QED
  BY <1>4, <1>5

LEMMA PutchText ==
  ASSUME NEW t \in Consoles, NEW ch \in Echoed, t.y < height, t.x < width,
         Pos(t.x, t.y) \in Cells, \A i \in t.screen : i < Pos(t.x, t.y)
  PROVE  /\ Putch(t, ch).x < width
         /\ \A i \in Putch(t, ch).screen : i < Pos(Putch(t, ch).x, Putch(t, ch).y)
<1>1. /\ t.screen \in SUBSET Cells /\ t.x \in Int /\ t.y \in 0 .. height /\ t.wrote \in Int
      /\ t = [screen |-> t.screen, x |-> t.x, y |-> t.y, wrote |-> t.wrote]
      /\ \A i \in t.screen : i \in Int
  BY Products DEF Consoles
<1>2. width \in Nat /\ width > 1
  BY Sizes
<1>3. /\ \A x \in Int : Pos(x, t.y) \in Int /\ Pos(x, t.y) = Start(t.y) + x
      /\ Start(t.y) \in Nat
  BY <1>1, PosIs, RowAt
<1>4. ch \in {"char", "newline", "backspace", "tabulator"}
  BY TtyAssumption DEF Chars
<1>5. CASE ch = "newline"
  <2> DEFINE u == [t EXCEPT !.x = width - 1]
  <2>1. u = [screen |-> t.screen, x |-> width - 1, y |-> t.y, wrote |-> t.wrote]
    BY <1>1
  <2>2. u \in Consoles /\ u.x = width - 1 /\ u.y = t.y /\ u.screen = t.screen
    BY <1>1, <1>2, <2>1 DEF Consoles
  <2>3. \A i \in u.screen : i <= Pos(u.x, u.y) /\ i < Pos(width, u.y)
    BY <1>1, <1>2, <1>3, <2>2
  <2>4. Putch(t, ch) = Advance(u)
    BY <1>5 DEF Putch
  <2> HIDE DEF u
  <2> QED
    BY <2>2, <2>3, <2>4, AdvanceText
<1>6. CASE ch = "tabulator"
  <2> DEFINE u == [t EXCEPT !.x = TabX(t.x, t.x)]
  <2>1. u = [screen |-> t.screen, x |-> TabX(t.x, t.x), y |-> t.y, wrote |-> t.wrote]
    BY <1>1
  <2>2. TabX(t.x, t.x) \in Int /\ TabX(t.x, t.x) >= t.x
    BY <1>1, TabRange
  <2>3. u \in Consoles /\ u.x \in Int /\ u.x >= t.x /\ u.y = t.y /\ u.screen = t.screen
    BY <1>1, <2>1, <2>2 DEF Consoles
  <2>4. \A i \in u.screen : i <= Pos(u.x, u.y) /\ i < Pos(width, u.y)
    BY <1>1, <1>2, <1>3, <2>3
  <2>5. Putch(t, ch) = Advance(u)
    BY <1>6 DEF Putch
  <2> HIDE DEF u
  <2> QED
    BY <2>3, <2>4, <2>5, AdvanceText
<1>7. CASE ch = "char"
  <2> DEFINE u == [screen |-> t.screen \cup ({Pos(t.x, t.y)} \cap Cells), x |-> t.x,
                   y |-> t.y, wrote |-> Pos(t.x, t.y)]
  <2>1. t.screen \cup ({Pos(t.x, t.y)} \cap Cells) \in SUBSET Cells
    BY <1>1
  <2>2. u \in Consoles /\ u.x = t.x /\ u.y = t.y
    BY <1>1, <1>3, <2>1 DEF Consoles
  <2>3. \A i \in u.screen : i <= Pos(u.x, u.y) /\ i < Pos(width, u.y)
    BY <1>1, <1>2, <1>3, <2>2
  <2>4. Putch(t, ch) = Advance(u)
    BY <1>7 DEF Putch
  <2> HIDE DEF u
  <2> QED
    BY <2>2, <2>3, <2>4, AdvanceText
<1>8. CASE ch = "backspace"
  <2>1. Putch(t, ch) = Backspace(t)
    BY <1>8 DEF Putch
  <2> QED
    BY <2>1, BackspaceText
<1> QED
  BY <1>4, <1>5, <1>6, <1>7, <1>8

\* One step of the main thread's tty_putch, or an echo between two calls.
LEMMA MainText ==
  ASSUME TtyInv, TtyInv', TextInFront, Step, UNCHANGED past
  PROVE  TextInFront'
<1> SUFFICES ASSUME past = "text", past' = "text"
             PROVE  TextInFront'
  BY DEF TextInFront
<1>1. Typing /\ Typing' /\ screen \subseteq Cells /\ \A i \in screen : i \in Int
  BY Types, Products DEF TtyInv, RaceBounds, Typing, TabReach, Lowest
<1>2. /\ \A x \in Int : Pos(x, cursory) \in Int /\ Pos(x, cursory) = Start(cursory) + x
      /\ \A x \in Int : Pos(x, cursory') \in Int /\ Pos(x, cursory') = Start(cursory') + x
      /\ Start(cursory) \in Nat /\ Start(cursory') \in Nat
  BY <1>1, PosIs, RowAt DEF Typing
<1>3. CASE PutNewline
  <2>1. /\ pc = "idle" /\ pc' = "loadx" /\ cursorx' = width - 1 /\ cursory' = cursory
        /\ screen' = screen
    BY <1>3 DEF PutNewline, Goto
  <2>2. cursorx < width /\ \A i \in screen : i < Pos(cursorx, cursory)
    BY <2>1 DEF TextInFront
  <2>3. \A i \in screen' : i <= Pos(cursorx', cursory') /\ i < Pos(width, cursory')
    BY <1>1, <1>2, <2>1, <2>2 DEF Typing
  <2> QED
    BY <2>1, <2>3 DEF TextInFront, Pos
<1>4. CASE PutTab \/ TabReload
  <2>1. /\ pc \in {"idle", "tab"} /\ pc' \in {"tab", "tabstore"}
        /\ cursorx' = cursorx /\ cursory' = cursory /\ screen' = screen
        /\ pc' = "tabstore" => pc = "tab" /\ rx' = TabX(rx, cursorx)
    BY <1>4 DEF PutTab, TabReload, Goto, SameConsole
  <2>2. cursorx' < width /\ \A i \in screen' : i < Pos(cursorx', cursory')
    BY <2>1 DEF TextInFront
  <2>3. pc = "tab" => rx = cursorx
    BY DEF TtyInv, WholeCalls
  <2>4. pc' = "tabstore" => rx' >= cursorx'
    BY <1>1, <2>1, <2>3, TabRange DEF Typing
  <2> QED
    BY <2>1, <2>2, <2>4 DEF TextInFront, Pos
<1>5. CASE TabStore
  <2>1. /\ pc = "tabstore" /\ pc' = "loadx" /\ cursorx' = rx /\ cursory' = cursory
        /\ screen' = screen
    BY <1>5 DEF TabStore, Goto
  <2>2. cursorx < width /\ rx >= cursorx /\ \A i \in screen : i < Pos(cursorx, cursory)
    BY <2>1 DEF TextInFront
  <2>3. \A i \in screen' : i <= Pos(cursorx', cursory') /\ i < Pos(width, cursory')
    BY <1>1, <1>2, <2>1, <2>2 DEF Typing
  <2> QED
    BY <2>1, <2>3 DEF TextInFront, Pos
<1>6. CASE PutChar \/ AddrX
  <2>1. /\ pc \in {"idle", "addr"} /\ pc' \in {"addr", "write"}
        /\ cursorx' = cursorx /\ cursory' = cursory /\ screen' = screen
        /\ pc' = "write" => rx' = cursorx
        /\ pc = "idle" => ry' = cursory
        /\ pc = "addr" => ry' = ry
    BY <1>6 DEF PutChar, AddrX, Goto, SameConsole
  <2>2. cursorx' < width /\ \A i \in screen' : i < Pos(cursorx', cursory')
    BY <2>1 DEF TextInFront
  <2>3. ry' = cursory'
    BY <2>1 DEF TextInFront
  <2> QED
    BY <2>1, <2>2, <2>3 DEF TextInFront, Pos
<1>7. CASE tty_setcharwithcolor
  <2>1. /\ pc = "write" /\ pc' = "loadx" /\ cursorx' = cursorx /\ cursory' = cursory
        /\ screen' = screen \cup ({Pos(rx, ry)} \cap Cells)
    BY <1>7 DEF tty_setcharwithcolor, Goto
  <2>2. /\ cursorx < width /\ rx = cursorx /\ ry = cursory
        /\ \A i \in screen : i < Pos(cursorx, cursory)
    BY <2>1 DEF TextInFront
  <2>3. \A i \in screen' : i \in screen \/ i = Pos(cursorx, cursory)
    BY <2>1, <2>2
  <2>4. \A i \in screen' : i <= Pos(cursorx', cursory') /\ i < Pos(width, cursory')
    BY <1>1, <1>2, <2>1, <2>2, <2>3 DEF Typing
  <2> QED
    BY <2>1, <2>4 DEF TextInFront, Pos
<1>8. CASE LoadX
  <2>1. /\ pc = "loadx" /\ pc' = "storex" /\ cursorx' = cursorx /\ cursory' = cursory
        /\ screen' = screen
    BY <1>8 DEF LoadX, Goto, SameConsole
  <2> QED
    BY <2>1 DEF TextInFront, Pos
<1>9. CASE StoreX
  <2>1. /\ pc = "storex" /\ pc' = "testx" /\ cursorx' = rx + 1 /\ cursory' = cursory
        /\ screen' = screen
    BY <1>9 DEF StoreX, Goto
  <2>2. rx = cursorx
    BY <2>1 DEF TtyInv, WholeCalls
  <2>3. \A i \in screen : i <= Pos(cursorx, cursory) /\ i < Pos(width, cursory)
    BY <2>1 DEF TextInFront
  <2>4. \A i \in screen' : i < Pos(cursorx', cursory')
    BY <1>1, <1>2, <2>1, <2>2, <2>3 DEF Typing
  <2> QED
    BY <2>1, <2>3, <2>4 DEF TextInFront, Pos
<1>10. CASE TestX
  <2>1. /\ pc = "testx" /\ cursorx' = cursorx /\ cursory' = cursory /\ screen' = screen
        /\ pc' \in {"zerox", "idle"} /\ (pc' = "idle" => ~(cursorx >= width))
    BY <1>10 DEF TestX, Goto, SameConsole
  <2>2. \A i \in screen : i < Pos(cursorx, cursory) /\ i < Pos(width, cursory)
    BY <2>1 DEF TextInFront
  <2>3. pc' = "idle" => cursorx' < width
    BY <1>1, <2>1 DEF Typing
  <2> QED
    BY <2>1, <2>2, <2>3 DEF TextInFront, Pos
<1>11. CASE ZeroX \/ LoadY
  <2>1. /\ pc \in {"zerox", "loady"} /\ pc' \in {"loady", "storey"}
        /\ cursory' = cursory /\ screen' = screen
    BY <1>11 DEF ZeroX, LoadY, Goto, SameConsole
  <2> QED
    BY <2>1 DEF TextInFront, Pos
<1>12. CASE StoreY
  <2>1. /\ pc = "storey" /\ pc' = "testy" /\ cursory' = ry + 1 /\ screen' = screen
    BY <1>12 DEF StoreY, Goto
  <2>2. ry = cursory /\ \A i \in screen : i < Pos(width, cursory)
    BY <2>1 DEF TextInFront, TtyInv, WholeCalls
  <2>3. cursory < height
    BY <1>1, <2>1 DEF TtyInv, RaceBounds, Typing
  <2>4. Pos(0, cursory + 1) = Pos(width, cursory)
    BY <1>1, <2>3, NextRow DEF Typing
  <2>5. \A i \in screen' : i < Pos(0, cursory')
    BY <2>1, <2>2, <2>4
  <2> QED
    BY <2>1, <2>5 DEF TextInFront, Pos
<1>13. CASE TestY
  <2>1. /\ pc = "testy" /\ pc' \in {"scroll", "idle"} /\ cell' = 0
        /\ cursorx' = cursorx /\ cursory' = cursory /\ screen' = screen
    BY <1>13 DEF TestY, Goto, SameConsole
  <2>2. cursorx = 0 /\ \A i \in screen : i < Pos(0, cursory)
    BY <2>1 DEF TextInFront, TtyInv, WholeCalls
  <2>3. cursorx' < width
    BY <1>1, <2>1, <2>2 DEF Typing
  <2>4. \A i \in screen' : ~(i < cell')
    BY <1>1, <2>1, Sizes, Products
  <2> QED
    BY <2>1, <2>2, <2>3, <2>4 DEF TextInFront, Pos
<1>14. CASE tty_scroll
  <2>1. /\ pc = "scroll" /\ pc' = "scroll" /\ cell' = cell + 1 /\ cell \in Cells
        /\ screen' = IF cell + width \in screen THEN screen \cup {cell}
                                                ELSE screen \ {cell}
    BY <1>14 DEF tty_scroll
  <2>2. \A i \in screen : i < cell => i < Pos(0, height - 1)
    BY <2>1 DEF TextInFront
  <2>3. Pos(0, height - 1) = Start(height - 1)
    BY PosIs, Sizes, height - 1 \in 0 .. height
  <2>4. cell \in screen' => cell < Pos(0, height - 1)
    <3> SUFFICES ASSUME cell \in screen'
                 PROVE  cell < Pos(0, height - 1)
      OBVIOUS
    <3>1. cell + width \in Cells
      BY <1>1, <2>1
    <3> QED
      BY <2>1, <2>3, <3>1, Sizes, Products
  <2>5. \A i \in screen' : i = cell \/ i \in screen
    BY <2>1
  <2>6. \A i \in screen' : i < cell' => i = cell \/ i < cell
    BY <1>1, <2>1, <2>5, Products
  <2>7. \A i \in screen' : i < cell' => i < Pos(0, height - 1)
    BY <2>2, <2>4, <2>5, <2>6
  <2> QED
    BY <2>1, <2>7 DEF TextInFront, Pos
<1>15. CASE LastRow
  <2>1. /\ pc = "scroll" /\ pc' = "idle" /\ cursory' = height - 1 /\ cursorx' = cursorx
        /\ screen' = screen /\ cell \notin Cells
    BY <1>15 DEF LastRow, Goto
  <2>2. cursorx = 0 /\ cell \in Nat
    BY <2>1 DEF TtyInv, WholeCalls, RaceBounds
  <2>3. \A i \in screen : i < cell
    BY <1>1, <2>1, <2>2, Products, Sizes
  <2>4. \A i \in screen' : i < Pos(cursorx', cursory')
    BY <2>1, <2>2, <2>3 DEF TextInFront
  <2>5. cursorx' < width
    BY <1>1, <2>1, <2>2 DEF Typing
  <2> QED
    BY <2>1, <2>4, <2>5 DEF TextInFront, Pos
<1> QED
  BY <1>3, <1>4, <1>5, <1>6, <1>7, <1>8, <1>9, <1>10, <1>11, <1>12, <1>13, <1>14,
     <1>15 DEF Step

LEMMA EchoText ==
  ASSUME TtyInv, TextInFront, NEW ch \in Echoed, KeyEcho(ch)
  PROVE  TextInFront'
<1> SUFFICES ASSUME past' = "text"
             PROVE  TextInFront'
  BY DEF TextInFront
<1> DEFINE t == Console
           u == Putch(t, ch)
<1>1. pc = "idle" /\ pc' = "idle" /\ past = "text"
  BY DEF KeyEcho
<1>2. /\ t \in Consoles /\ t.x = cursorx /\ t.y = cursory /\ t.screen = screen
      /\ cursory \in 0 .. height
  BY DEF TtyInv, RaceBounds, Console, Consoles
<1>3. cursory < height /\ Pos(cursorx, cursory) \in Cells
  <2>1. cursory # height
    BY <1>1, SMTT(30), ZenonT(30) DEF TtyInv, RaceBounds
  <2>2. Pos(cursorx, cursory) \in Cells
    BY <1>1, SMTT(30), ZenonT(30) DEF TtyInv, WholeCalls, CursorOnScreen
  <2> QED BY <1>2, <2>1, <2>2, Sizes
<1>4. cursorx < width /\ \A i \in screen : i < Pos(cursorx, cursory)
  BY <1>1, SMTT(30), ZenonT(30) DEF TextInFront
<1> HIDE DEF t
<1>5. u.x < width /\ \A i \in u.screen : i < Pos(u.x, u.y)
  BY <1>2, <1>3, <1>4, PutchText
<1>6. screen' = u.screen /\ cursorx' = u.x /\ cursory' = u.y
  BY DEF KeyEcho, ConsoleIs, t
<1> HIDE DEF u
<1> QED
  BY <1>1, <1>5, <1>6 DEF TextInFront, Pos

(***************************************************************************)
(* On a screen of any size, text that is appended to and erased with       *)
(* backspace lies in front of the cursor, whatever scrolls and however far *)
(* a backspace goes back over blank rows.                                  *)
(***************************************************************************)
THEOREM TextBeforeCursor == Spec => []NothingBehindCursor
<1>1. Init => TextInFront
  BY Sizes DEF Init, TextInFront
<1>2. TtyInv /\ TtyInv' /\ TextInFront /\ [Next]_vars => TextInFront'
  <2> SUFFICES ASSUME TtyInv, TtyInv', TextInFront, [Next]_vars PROVE TextInFront'
    OBVIOUS
  <2>1. CASE Step /\ UNCHANGED past
    BY <2>1, MainText
  <2>2. CASE PutReturn /\ past' = IF past = "text" THEN "calls" ELSE past
    BY <2>2 DEF TextInFront
  <2>3. ASSUME NEW ch \in Echoed, KeyEcho(ch) PROVE TextInFront'
    BY <2>3, EchoText
  <2>4. CASE UNCHANGED vars
    BY <2>4 DEF vars, TextInFront, Pos
  <2> QED
    BY <2>1, <2>2, <2>3, <2>4 DEF Next, Main
<1>3. TextInFront => NothingBehindCursor
  BY DEF TextInFront, NothingBehindCursor
<1> QED
  BY <1>1, <1>2, <1>3, TtyInductive, PTL DEF Spec
=============================================================================
