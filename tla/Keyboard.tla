------------------------------ MODULE Keyboard ------------------------------
(***************************************************************************)
(* From a key to its echo: the keyboard and its controller (external), the *)
(* interrupt handler, the scan-code matcher                                *)
(* scancode_resolve_getKeyCode_set1 and keyboard_interrupt_handler.  The   *)
(* matcher reads the controller's data port again for every further byte   *)
(* of a table row that it tries, whether or not a byte has arrived, so     *)
(* each of its reads is a step that races with the keyboard.               *)
(***************************************************************************)
EXTENDS Integers, Sequences

CONSTANTS
  Table,      \* scancode_set_1: rows of scan codes; the row number is the key
  ReleaseBit, \* 128: added to a scan code when the key is released
  ArrLen,     \* 10: the length of codeArr
  Printable,  \* rows with a character in keyboard_key_code_to_ascii_map
  Keys,       \* the rows whose keys are typed
  MaxBytes    \* bound: bytes the keyboard sends in a behaviour

ASSUME TableAssumption ==
  /\ ReleaseBit \in Nat \ {0} /\ ArrLen \in Nat \ {0} /\ MaxBytes \in Nat
  /\ \A i \in DOMAIN Table : Table[i] \in Seq(1 .. 2 * ReleaseBit - 1) \ {<<>>}
  /\ Keys \subseteq DOMAIN Table /\ Printable \subseteq DOMAIN Table

WithRelease(c) == IF c < ReleaseBit THEN c + ReleaseBit ELSE c

\* In scancode_set_1 the code of a one-byte key is below 0x80 and, pressed or
\* released, starts no other row.
Plain == {k \in DOMAIN Table : Len(Table[k]) = 1}
ASSUME PlainCodesAssumption ==
  /\ Table \in Seq(Seq(Nat))
  /\ \A k \in Plain : Table[k][1] < ReleaseBit
  /\ \A k \in Plain, n \in DOMAIN Table :
       n # k => {Table[n][1], WithRelease(Table[n][1])}
                  \cap {Table[k][1], WithRelease(Table[k][1])} = {}

VARIABLES
  wire,        \* bytes the keyboard has not handed over yet
  full, data,  \* the controller's output buffer; a read empties it but
               \* the byte stays readable
  request,     \* line 1 is latched in the interrupt controller
  pc,          \* "idle", "read", "match" or "corrupt"
  codeArr, i, j, release,  \* scancode_resolve_getKeyCode_set1's variables
  pressed,     \* history: the printable keys pressed, in order
  sent,        \* how many bytes the keyboard has sent
  plain,       \* history: only keys of one byte were pressed or released
  echoed       \* the keys keyboard_interrupt_handler has printed

controller == <<wire, full, data, request>>
matcher == <<pc, codeArr, i, j, release>>
typed == <<pressed, sent, plain>>
keyboardVars == <<controller, matcher, typed, echoed>>

KeyboardInit ==
  /\ wire = <<>> /\ full = FALSE /\ data = 0 /\ request = FALSE
  /\ pc = "idle" /\ codeArr = <<>> /\ i = 1 /\ j = 1 /\ release = FALSE
  /\ pressed = <<>> /\ sent = 0 /\ plain = TRUE /\ echoed = <<>>

-----------------------------------------------------------------------------
Send(k) ==
  /\ sent' = sent + Len(Table[k]) /\ sent' <= MaxBytes
  /\ plain' = (plain /\ Len(Table[k]) = 1)

Press(k) ==
  /\ Send(k)
  /\ wire' = wire \o Table[k]
  /\ pressed' = IF k \in Printable THEN Append(pressed, k) ELSE pressed
  /\ UNCHANGED <<full, data, request, matcher, echoed>>

Release(k) ==
  /\ Send(k)
  /\ wire' = wire \o [n \in DOMAIN Table[k] |-> WithRelease(Table[k][n])]
  /\ UNCHANGED <<full, data, request, matcher, pressed, echoed>>

Deliver ==
  /\ wire # <<>> /\ ~full
  /\ data' = Head(wire) /\ wire' = Tail(wire)
  /\ full' = TRUE /\ request' = TRUE
  /\ UNCHANGED <<matcher, typed, echoed>>

-----------------------------------------------------------------------------
AcceptKey ==
  /\ pc = "idle" /\ request
  /\ request' = FALSE /\ pc' = "read"
  /\ UNCHANGED <<wire, full, data, codeArr, i, j, release,
                 typed, echoed>>

inb == full' = FALSE /\ UNCHANGED <<wire, data, request>>

\* Faulty variant: the handler does not read the data port.
FirstRead_Peek ==
  /\ pc = "read" /\ UNCHANGED controller
  /\ codeArr' = <<data>> /\ i' = 1 /\ j' = 1 /\ release' = FALSE
  /\ pc' = "match"
  /\ UNCHANGED <<typed, echoed>>

FirstRead ==
  /\ pc = "read" /\ inb
  /\ codeArr' = <<data>> /\ i' = 1 /\ j' = 1 /\ release' = FALSE
  /\ pc' = "match"
  /\ UNCHANGED <<typed, echoed>>

Matches(t, c) == c \in {t, WithRelease(t)}

InRow == pc = "match" /\ i \in DOMAIN Table

\* The row does not match: the next one is tried from its first byte, on
\* the bytes read so far.
NextRow ==
  /\ InRow /\ ~Matches(Table[i][j], codeArr[j])
  /\ i' = i + 1 /\ j' = 1 /\ release' = FALSE
  /\ UNCHANGED <<controller, pc, codeArr, typed, echoed>>

IsRelease == release \/ codeArr[j] = WithRelease(Table[i][j])

\* The row goes on: another byte is read into the next place of codeArr.
\* Behind its end the kernel's stack is overwritten and nothing is known.
NextByte ==
  /\ InRow /\ Matches(Table[i][j], codeArr[j]) /\ j < Len(Table[i])
  /\ release' = IsRelease /\ j' = j + 1 /\ inb
  /\ codeArr' = Append(codeArr, data)
  /\ pc' = IF Len(codeArr) < ArrLen THEN "match" ELSE "corrupt"
  /\ UNCHANGED <<i, typed, echoed>>

\* Faulty variant: a released key is printed, too.
Echo_Released(k, released) ==
  IF k \in Printable THEN Append(echoed, k) ELSE echoed

\* keyboard_interrupt_handler: the code of a released key has no character.
Echo(k, released) ==
  IF k \in Printable /\ ~released THEN Append(echoed, k) ELSE echoed

\* The row ends: its key is the answer, the handler prints it and returns.
Resolved ==
  /\ InRow /\ Matches(Table[i][j], codeArr[j]) /\ j = Len(Table[i])
  /\ echoed' = Echo(i, IsRelease)
  /\ pc' = "idle"
  /\ UNCHANGED <<controller, codeArr, i, j, release, typed>>

\* No row matches: KEYBOARD_KEYCODE_NONE, which is not printed.
Unresolved ==
  /\ pc = "match" /\ i \notin DOMAIN Table
  /\ pc' = "idle"
  /\ UNCHANGED <<controller, codeArr, i, j, release, typed, echoed>>

KeyHandler ==
  FirstRead \/ NextRow \/ NextByte \/ Resolved \/ Unresolved

KeyboardNext ==
  \/ \E k \in Keys : Press(k) \/ Release(k)
  \/ Deliver \/ AcceptKey \/ KeyHandler

\* The keyboard sends, the CPU takes interrupts and the handler runs on.
KeyboardSpec ==
  /\ KeyboardInit /\ [][KeyboardNext]_keyboardVars
  /\ WF_keyboardVars(Deliver) /\ WF_keyboardVars(AcceptKey) /\ WF_keyboardVars(KeyHandler)

-----------------------------------------------------------------------------
(***************************************************************************)
(* With one-byte keys, what is printed is what was pressed, in that order: *)
(* no key is printed twice, out of turn, or for its release.               *)
(***************************************************************************)
EchoInOrder ==
  plain => /\ Len(echoed) <= Len(pressed)
           /\ \A n \in 1 .. Len(echoed) : echoed[n] = pressed[n]

(***************************************************************************)
(* With one-byte keys, every key pressed is printed in the end.            *)
(***************************************************************************)
EchoComplete ==
  \A n \in 1 .. MaxBytes : Len(pressed) = n ~> (Len(echoed) >= n \/ ~plain)

(***************************************************************************)
(* Whatever is typed, multi-byte keys included, every byte is read and the *)
(* matcher returns, unless it runs over the end of codeArr.                *)
(***************************************************************************)
Drained ==
  (full \/ pc = "match") ~> (pc = "corrupt" \/ (~full /\ pc = "idle"))

-----------------------------------------------------------------------------
(***************************************************************************)
(* The inductive invariant behind EchoInOrder.  As long as only one-byte   *)
(* keys are typed, every byte on its way to the echo belongs to one, and   *)
(* no row before its own matches it.  The bytes that will print a key are  *)
(* those of the keys pressed and not yet printed, in order: rank says how  *)
(* many keys are printed once the first n bytes of the wire are.           *)
(***************************************************************************)
PlainBytes == {Table[k][1] : k \in Plain} \cup {WithRelease(Table[k][1]) : k \in Plain}
KeyOf(b) == CHOOSE k \in Plain : Matches(Table[k][1], b)
Prints(b) == KeyOf(b) \in Printable /\ b = Table[KeyOf(b)][1]
Count(b) == IF Prints(b) THEN 1 ELSE 0

\* Byte b takes the keys printed from m to n.
Takes(b, m, n) == n = m + Count(b) /\ (Prints(b) => pressed[n] = KeyOf(b))

Resolving ==
  pc = "match" =>
    /\ Len(codeArr) = 1 /\ codeArr[1] \in PlainBytes
    /\ j = 1 /\ ~release /\ i <= KeyOf(codeArr[1])

Ranked(matched, read, rank) ==
  /\ IF pc = "match" THEN Takes(codeArr[1], Len(echoed), matched) ELSE matched = Len(echoed)
  /\ IF full THEN Takes(data, matched, read) ELSE read = matched
  /\ rank[0] = read /\ rank[Len(wire)] = Len(pressed)
  /\ \A n \in 1 .. Len(wire) : Takes(wire[n], rank[n - 1], rank[n])

PlainInv ==
  /\ pc \in {"idle", "read", "match"}
  /\ full <=> request \/ pc = "read"
  /\ ~(request /\ pc = "read")
  /\ wire \in Seq(PlainBytes) /\ (full => data \in PlainBytes)
  /\ Resolving
  /\ \E matched, read \in 0 .. Len(pressed), rank \in [0 .. Len(wire) -> 0 .. Len(pressed)] :
       Ranked(matched, read, rank)

KeyboardInv ==
  /\ pressed \in Seq(Printable) /\ echoed \in Seq(Printable)
  /\ i \in Nat \ {0} /\ plain \in BOOLEAN
  /\ plain => PlainInv
  /\ EchoInOrder
=============================================================================
