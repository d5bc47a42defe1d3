----------------------------- MODULE MCKeyboard -----------------------------
(***************************************************************************)
(* A table of eight rows in the order of scancode_set_1: three plain keys,  *)
(* four keys with the prefix 12 (0xE0), one of which shares its second     *)
(* byte with a plain key, and one with three bytes (0xE1).  codeArr has    *)
(* four places: like in the code, fewer than there are prefixed rows.      *)
(***************************************************************************)
EXTENDS Keyboard

MCTable == <<<<1>>, <<2>>, <<7>>, <<12, 3>>, <<12, 4>>, <<12, 1>>, <<12, 5>>,
             <<13, 1, 6>>>>
\* Two plain keys, two with the prefix, one of them printable, and the long one.
Typed == {1, 2, 6, 7, 8}
=============================================================================
