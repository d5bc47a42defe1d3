-------------------------------- MODULE Tty ---------------------------------
(***************************************************************************)
(* The text console of kernel/tty/tty.c on the VGA buffer, and the race    *)
(* between a tty_putch of the kernel's main thread and the tty_putch of    *)
(* the keyboard interrupt (kernel/dev/keyboard.c), which share             *)
(* vga_ttyhandle without a lock.  A cell is blank or holds a character.    *)
(* The kernel is built without optimisation, so every use of               *)
(* handle->cursorx and handle->cursory in the C text is a load or a store  *)
(* of its own: the main thread's tty_putch is cut there.  An interrupt     *)
(* handler runs with interrupts off, so its tty_putch is one step.         *)
(***************************************************************************)
EXTENDS Integers

CONSTANTS
  width, height,  \* 80 and 25 in vga_text.c
  TabStop,        \* 8 in tty_putch
  Printed,        \* characters the main thread prints
  Echoed          \* characters keyboard_key_code_to_ascii_map holds

\* "char" stands for every character that tty_putch writes into a cell.
Chars == {"char", "newline", "return", "backspace", "tabulator"}

ASSUME TtyAssumption ==
  /\ {width, height} \subseteq Nat \ {0, 1} /\ TabStop \in Nat \ {0}
  /\ Printed \subseteq Chars /\ Echoed \subseteq Chars \ {"return"}

Cells == 0 .. width * height - 1

VARIABLES
  screen,   \* the cells that hold a character
  cursorx, cursory,
  pc,       \* where the main thread is in tty_putch
  rx, ry,   \* the values it has loaded
  cell,     \* the next cell its tty_scroll copies into
  wrote,    \* history: the index of the last cell a character was put into or
            \* erased from; tty_scroll itself writes cells of the screen only
  past      \* history: "text" while there was no carriage return, "calls"
            \* while no tty_putch was interrupted by another, then "raced"

vars == <<screen, cursorx, cursory, pc, rx, ry, cell, wrote, past>>

Pos(x, y) == y * width + x

\* The remainder of C, which takes the sign of the dividend.
Rem(a, b) == IF a >= 0 THEN a % b ELSE -((-a) % b)

\* Memory in front of the text buffer does not answer: it reads as 0xFFFF.
\* Cells behind the last row are memory that tty.c never reads.
IsBlank(s, i) == i \in Cells /\ i \notin s

Scrolled(s) == {i \in Cells : i + width \in s}

-----------------------------------------------------------------------------
(***************************************************************************)
(* tty_putch without interruption, from a console t to a console.          *)
(***************************************************************************)
Console == [screen |-> screen, x |-> cursorx, y |-> cursory, wrote |-> wrote]

\* Faulty variant: the last row is not a limit.
Advance_NoScroll(t) ==
  IF t.x + 1 < width THEN [t EXCEPT !.x = t.x + 1]
  ELSE [t EXCEPT !.x = 0, !.y = t.y + 1]

Advance(t) ==
  IF t.x + 1 < width THEN [t EXCEPT !.x = t.x + 1]
  ELSE IF t.y + 1 < height THEN [t EXCEPT !.x = 0, !.y = t.y + 1]
  ELSE [t EXCEPT !.screen = Scrolled(t.screen), !.x = 0, !.y = height - 1]

\* The nearest cell that holds a character, from the end of row y backwards:
\* the scan does not stop at the start of the row.
LastText(s, y) ==
  CHOOSE i \in -1 .. Pos(width - 1, y) :
    /\ ~IsBlank(s, i)
    /\ \A j \in i + 1 .. Pos(width - 1, y) : IsBlank(s, j)

\* Faulty variant: the cell is not cleared.
Backspace_NoClear(t) ==
  [t EXCEPT !.x = IF t.x > 0 THEN t.x - 1 ELSE 0]

Backspace(t) ==
  LET at == Pos(t.x, t.y) - 1
      s == t.screen \ {at}
      above == IF t.y > 0 THEN t.y - 1 ELSE 0
  IN IF t.x > 0
     THEN [screen |-> s, x |-> t.x - 1, y |-> t.y, wrote |-> at]
     ELSE [screen |-> s, x |-> LastText(s, above) + 1 - Pos(0, above),
           y |-> above, wrote |-> at]

TabX(x1, x2) == x1 + (TabStop - Rem(x2, TabStop)) - 1

Putch(t, ch) ==
  CASE ch = "newline" -> Advance([t EXCEPT !.x = width - 1])
    [] ch = "return" -> Advance([t EXCEPT !.x = 0])
    [] ch = "backspace" -> Backspace(t)
    [] ch = "tabulator" -> Advance([t EXCEPT !.x = TabX(t.x, t.x)])
    [] OTHER -> Advance([screen |-> t.screen \cup ({Pos(t.x, t.y)} \cap Cells),
                         x |-> t.x, y |-> t.y, wrote |-> Pos(t.x, t.y)])

ConsoleIs(t) ==
  /\ screen' = t.screen /\ cursorx' = t.x /\ cursory' = t.y
  /\ wrote' = t.wrote

\* keyboard_interrupt_handler prints the character of one key.
KeyEcho(ch) ==
  /\ ConsoleIs(Putch(Console, ch))
  /\ past' = IF pc = "idle" THEN past ELSE "raced"
  /\ UNCHANGED <<pc, rx, ry, cell>>

-----------------------------------------------------------------------------
(***************************************************************************)
(* tty_putch of the main thread, one load or store at a time.              *)
(***************************************************************************)
Goto(l) == pc' = l
SameRegs == UNCHANGED <<rx, ry, cell>>
SameConsole == UNCHANGED <<screen, cursorx, cursory, wrote>>

PutNewline ==
  /\ pc = "idle" /\ "newline" \in Printed
  /\ cursorx' = width - 1 /\ Goto("loadx")
  /\ SameRegs /\ UNCHANGED <<screen, cursory, wrote>>

PutReturn ==
  /\ pc = "idle" /\ "return" \in Printed
  /\ cursorx' = 0 /\ Goto("loadx")
  /\ SameRegs /\ UNCHANGED <<screen, cursory, wrote>>

\* The tab's expression loads the column twice.
PutTab ==
  /\ pc = "idle" /\ "tabulator" \in Printed
  /\ rx' = cursorx /\ Goto("tab")
  /\ SameConsole /\ UNCHANGED <<ry, cell>>

TabReload ==
  /\ pc = "tab"
  /\ rx' = TabX(rx, cursorx) /\ Goto("tabstore")
  /\ SameConsole /\ UNCHANGED <<ry, cell>>

TabStore ==
  /\ pc = "tabstore"
  /\ cursorx' = rx /\ Goto("loadx")
  /\ SameRegs /\ UNCHANGED <<screen, cursory, wrote>>

PutChar ==
  /\ pc = "idle" /\ "char" \in Printed
  /\ ry' = cursory /\ Goto("addr")
  /\ SameConsole /\ UNCHANGED <<rx, cell>>

AddrX ==
  /\ pc = "addr"
  /\ rx' = cursorx /\ Goto("write")
  /\ SameConsole /\ UNCHANGED <<ry, cell>>

tty_setcharwithcolor ==
  /\ pc = "write"
  /\ screen' = screen \cup ({Pos(rx, ry)} \cap Cells)
  /\ wrote' = Pos(rx, ry) /\ Goto("loadx")
  /\ SameRegs /\ UNCHANGED <<cursorx, cursory>>

LoadX ==
  /\ pc = "loadx"
  /\ rx' = cursorx /\ Goto("storex")
  /\ SameConsole /\ UNCHANGED <<ry, cell>>

StoreX ==
  /\ pc = "storex"
  /\ cursorx' = rx + 1 /\ Goto("testx")
  /\ SameRegs /\ UNCHANGED <<screen, cursory, wrote>>

TestX ==
  /\ pc = "testx"
  /\ Goto(IF cursorx >= width THEN "zerox" ELSE "idle")
  /\ SameConsole /\ SameRegs

ZeroX ==
  /\ pc = "zerox"
  /\ cursorx' = 0 /\ Goto("loady")
  /\ SameRegs /\ UNCHANGED <<screen, cursory, wrote>>

LoadY ==
  /\ pc = "loady"
  /\ ry' = cursory /\ Goto("storey")
  /\ SameConsole /\ UNCHANGED <<rx, cell>>

StoreY ==
  /\ pc = "storey"
  /\ cursory' = ry + 1 /\ Goto("testy")
  /\ SameRegs /\ UNCHANGED <<screen, cursorx, wrote>>

\* Faulty variant: the comparison is off by one.
TestY_Late ==
  /\ pc = "testy" /\ cell' = 0
  /\ Goto(IF cursory > height THEN "scroll" ELSE "idle")
  /\ SameConsole /\ UNCHANGED <<rx, ry>>

TestY ==
  /\ pc = "testy" /\ cell' = 0
  /\ Goto(IF cursory >= height THEN "scroll" ELSE "idle")
  /\ SameConsole /\ UNCHANGED <<rx, ry>>

\* tty_scroll: rows 1 and on are copied up, then the last row is cleared.
tty_scroll ==
  /\ pc = "scroll" /\ cell \in Cells
  /\ screen' = IF cell + width \in screen THEN screen \cup {cell}
                                          ELSE screen \ {cell}
  /\ cell' = cell + 1
  /\ UNCHANGED <<cursorx, cursory, pc, rx, ry, wrote>>

\* Faulty variant: the row is not set back after the scroll.
LastRow_NotSet ==
  /\ pc = "scroll" /\ cell \notin Cells
  /\ Goto("idle")
  /\ SameRegs /\ SameConsole

LastRow ==
  /\ pc = "scroll" /\ cell \notin Cells
  /\ cursory' = height - 1 /\ Goto("idle")
  /\ SameRegs /\ UNCHANGED <<screen, cursorx, wrote>>

Step ==
  \/ PutNewline \/ PutTab \/ TabReload \/ TabStore
  \/ PutChar \/ AddrX \/ tty_setcharwithcolor
  \/ LoadX \/ StoreX \/ TestX \/ ZeroX
  \/ LoadY \/ StoreY \/ TestY \/ tty_scroll \/ LastRow

Main ==
  \/ PutReturn /\ past' = IF past = "text" THEN "calls" ELSE past
  \/ Step /\ UNCHANGED past

Init ==
  /\ screen = {} /\ cursorx = 0 /\ cursory = 0
  /\ pc = "idle" /\ rx = 0 /\ ry = 0 /\ cell = 0 /\ wrote = 0
  /\ past = "text"

\* The main thread prints while the keyboard handler echoes.
Next == Main \/ \E ch \in Echoed : KeyEcho(ch)
Spec == Init /\ [][Next]_vars

-----------------------------------------------------------------------------
(***************************************************************************)
(* As long as no tty_putch has interrupted another, the cursor is on the   *)
(* screen between two calls, though cursorx alone may be negative after a  *)
(* backspace that went back over blank rows.                               *)
(***************************************************************************)
CursorOnScreen ==
  pc = "idle" /\ past # "raced" => Pos(cursorx, cursory) \in Cells

(***************************************************************************)
(* Text that is only appended to and erased with backspace never leaves a  *)
(* character at or behind the cursor, as long as no tty_putch interrupts   *)
(* another.                                                                *)
(***************************************************************************)
NothingBehindCursor ==
  pc = "idle" /\ past = "text" => \A i \in screen : i < Pos(cursorx, cursory)

(***************************************************************************)
(* However the keyboard's echo falls into the main thread's tty_putch, no  *)
(* character is put or erased further from the text buffer than a screen   *)
(* less one row in front of it, or a row or two tabs behind it: the race   *)
(* garbles text and leaves the buffer, but stays in the memory window of   *)
(* the video card.                                                         *)
(***************************************************************************)
WritesInVideo ==
  /\ wrote >= -(width * (height - 1)) - 1
  /\ wrote <= width * height + width \/ wrote < width * height + 2 * TabStop

(***************************************************************************)
(* Between two calls of the main thread's tty_putch the row is a row of    *)
(* the screen, wherever the echo has moved the cursor in the meantime, and *)
(* inside a call it is at most one below, counted up and not yet scrolled. *)
(***************************************************************************)
RowOnScreen ==
  cursory \in 0 .. height /\ (pc = "idle" => cursory < height)

(***************************************************************************)
(* The race between tty_putch and the echo ends on the screen, and no      *)
(* write of it leaves the memory window of the video card.                 *)
(***************************************************************************)
StaysInVideo == WritesInVideo /\ RowOnScreen

-----------------------------------------------------------------------------
PutchPoints ==
  {"idle", "tab", "tabstore", "addr", "write", "loadx", "storex", "testx",
   "zerox", "loady", "storey", "testy", "scroll"}

\* The columns the race can produce: backspace goes back over the rows above,
\* and a tab that sees a negative column on its second load nearly doubles.
Lowest == -(width * (height - 1))
TabReach == width + 2 * TabStop - 2

(***************************************************************************)
(* The loads and stores of tty_putch keep cursor and loaded values within  *)
(* what a call at that point can have made of them.                        *)
(***************************************************************************)
RaceBounds ==
  /\ screen \subseteq Cells /\ cell \in Nat /\ pc \in PutchPoints
  /\ {cursorx, rx, ry, wrote} \subseteq Int
  /\ cursory \in 0 .. height
  /\ cursory = height => pc \in {"testy", "scroll"}
  /\ cursorx >= Lowest
  /\ pc \notin {"loadx", "storex", "testx", "zerox"} => cursorx <= width
  /\ pc \in {"loadx", "storex"} => cursorx <= TabReach
  /\ pc \in {"testx", "zerox"} => cursorx <= TabReach + 1
  /\ pc \in {"tab", "tabstore", "write", "storex"} => rx >= Lowest
  /\ pc \in {"tab", "write"} => rx <= width
  /\ pc \in {"tabstore", "storex"} => rx <= TabReach
  /\ pc \in {"addr", "write", "storey"} => ry \in 0 .. height - 1

(***************************************************************************)
(* A call of tty_putch nobody interrupts works on its own values, and ends *)
(* on the screen.                                                          *)
(***************************************************************************)
WholeCalls ==
  past # "raced" =>
    /\ CursorOnScreen
    /\ pc \in {"tab", "tabstore", "addr", "write", "loadx", "storex", "testx"} =>
         Pos(cursorx, cursory) >= 0
    /\ pc \in {"tab", "storex"} => rx = cursorx
    /\ pc = "tabstore" => Pos(rx, cursory) >= 0
    /\ pc \in {"loady", "storey", "testy", "scroll"} => cursorx = 0
    /\ pc = "storey" => ry = cursory

\* The inductive invariant behind StaysInVideo and CursorOnScreen.
TtyInv == RaceBounds /\ WritesInVideo /\ WholeCalls

(***************************************************************************)
(* The inductive invariant behind NothingBehindCursor: at every point of a *)
(* call the text is in front of the cursor, or of the row to come.  A      *)
(* backspace never leaves the column at width, since it has just cleared   *)
(* the last cell of the row it goes back to.                               *)
(***************************************************************************)
TextInFront ==
  past = "text" =>
    /\ pc \in {"idle", "tab", "tabstore", "addr", "write"} =>
         cursorx < width /\ \A i \in screen : i < Pos(cursorx, cursory)
    /\ pc \in {"loadx", "storex"} => \A i \in screen : i <= Pos(cursorx, cursory)
    /\ pc = "testx" => \A i \in screen : i < Pos(cursorx, cursory)
    /\ pc \in {"loadx", "storex", "testx", "zerox", "loady", "storey"} =>
         \A i \in screen : i < Pos(width, cursory)
    /\ pc = "testy" => \A i \in screen : i < Pos(0, cursory)
    /\ pc = "scroll" => \A i \in screen : i < cell => i < Pos(0, height - 1)
    /\ pc \in {"addr", "write"} => ry = cursory
    /\ pc = "write" => rx = cursorx
    /\ pc = "tabstore" => rx >= cursorx
=============================================================================
