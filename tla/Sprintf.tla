------------------------------- MODULE Sprintf -------------------------------
(***************************************************************************)
(* Formatted output: kaos_vsprintf of the kernel (libc/stdio/sprintf.c)    *)
(* with the kaos_vfprintf that gives it a buffer, the same code as the     *)
(* vsprintf and vfprintf of the user library, and kaos_preboot_printf,     *)
(* which writes to the console directly.                                   *)
(*                                                                         *)
(* A format is the sequence of its characters, a step is one turn of the   *)
(* scanner.  An argument list is a sequence of machine words: a long long  *)
(* takes two of them, a string is the word that points at it.              *)
(***************************************************************************)
EXTENDS Integers, FiniteSetsExt, Sequences, SequencesExt

CONSTANTS
  WordSize,    \* 2^32 in the code
  MaxDigits,   \* 22: the digits of a long long in octal
  BufferSize,  \* 4096: the buffer of kaos_vfprintf
  Letters,     \* the characters %c can print, by their code
  Strings,     \* the strings in memory, by their address
  Inputs       \* the calls looked at: sequences of directives (see Directive)

ASSUME SprintfAssumption ==
  /\ WordSize \in Nat \ {0} /\ WordSize % 2 = 0
  /\ {BufferSize, MaxDigits} \subseteq Nat \ {0}
  /\ Len(Letters) > 0

Printers == {"kaos_vsprintf", "vsprintf", "kaos_preboot_printf"}

VARIABLES
  printer,    \* the function that was called
  directives, \* what the format was written from
  format,
  p,          \* formatPtr
  args,       \* the words va_arg has not taken yet
  state,      \* where the scanner is, or how it ended
  dir,        \* flags, fieldWidth, precision and length of the directive at p
  out         \* the characters from str up to bufferPtr

sprintfVars == <<printer, directives, format, p, args, state, dir, out>>

NUL == "NUL"
Digits == <<"0", "1", "2", "3", "4", "5", "6", "7", "8", "9">>
LowerDigits == Digits \o <<"a", "b", "c", "d", "e", "f">>
UpperDigits == Digits \o <<"A", "B", "C", "D", "E", "F">>
IsDigit(c) == c \in ToSet(Digits)
DigitValue(c) == CHOOSE d \in 0 .. 9 : Digits[d + 1] = c

(***************************************************************************)
(* How a caller writes a directive: %, flags, width, precision, length and *)
(* specifier, with the words it passes for the stars and for the operand.  *)
(* A plain character is one that has no specifier.                         *)
(***************************************************************************)
Written(d) ==
  IF d.spec = "" THEN d.text
  ELSE <<"%">> \o d.flags \o d.width \o d.prec \o d.length \o <<d.spec>>

NoDirective ==
  [flags |-> {}, fieldWidth |-> 0, precision |-> 0, defined |-> FALSE,
   length |-> ""]

SprintfInit(input, f) ==
  /\ printer = f
  /\ directives = input
  /\ format = FlattenSeq([k \in 1 .. Len(input) |-> Written(input[k])])
  /\ args = FlattenSeq([k \in 1 .. Len(input) |-> input[k].stars \o input[k].words])
  /\ p = 1 /\ dir = NoDirective /\ out = <<>>
  /\ state = IF f = "kaos_preboot_printf" THEN "preboot" ELSE "text"

Char(k) == IF k <= Len(format) THEN format[k] ELSE NUL

(***************************************************************************)
(* What a directive appends to the buffer.  The buffer is not checked.     *)
(***************************************************************************)
Put(text) ==
  IF Len(out) + Len(text) <= BufferSize
  THEN out' = out \o text /\ state' = "text"
  ELSE state' = "overrun" /\ UNCHANGED out

-----------------------------------------------------------------------------
(***************************************************************************)
(* convert_any_int_to_str.                                                 *)
(***************************************************************************)
Abs(n) == IF n < 0 THEN -n ELSE n
\* The turns of the loop that divides by the radix until nothing is left.
DigitCount(n, radix) == Min({k \in 0 .. MaxDigits : n < radix^k})

\* Faulty variant: no room is made for a minus sign.
ExtraChars_NoMinus(arg, flags, radix, unsigned) ==
  (IF ~unsigned /\ "+" \in flags THEN 1 ELSE 0)
    + (IF "#" \in flags /\ radix = 16 THEN 2 ELSE 0)

ExtraChars(arg, flags, radix, unsigned) ==
  (IF ~unsigned /\ ("+" \in flags \/ arg < 0) THEN 1 ELSE 0)
    + (IF "#" \in flags /\ radix = 16 THEN 2 ELSE 0)

CharCount(arg, d, radix, extra) ==
  LET precision == IF d.precision = 0 THEN 1 ELSE d.precision
      digits == extra + DigitCount(Abs(arg), radix)
      count == IF radix = 8 /\ digits > precision THEN digits + 1 ELSE digits
  IN IF count < precision THEN precision + extra ELSE count

\* The digits go backwards from position last on, then the x of an
\* alternative form, then the sign.  A position nobody writes stays zero.
convert_any_int_to_str(arg, d, radix, unsigned, upper) ==
  LET extra == ExtraChars(arg, d.flags, radix, unsigned)
      char_count == CharCount(arg, d, radix, extra)
      padded == d.fieldWidth > char_count
      last == IF padded /\ "-" \notin d.flags THEN d.fieldWidth ELSE char_count
      first == last - (char_count - extra) + 1
      alt == "#" \in d.flags /\ radix = 16
      sign == IF alt THEN first - 2 ELSE first - 1
      glyphs == IF upper THEN UpperDigits ELSE LowerDigits
  IN [k \in 1 .. Max({d.fieldWidth, char_count}) |->
        CASE k \in first .. last ->
               glyphs[((Abs(arg) \div radix^(last - k)) % radix) + 1]
          [] alt /\ k = first - 1 -> IF upper THEN "X" ELSE "x"
          [] ~unsigned /\ k = sign /\ arg < 0 -> "-"
          [] ~unsigned /\ k = sign /\ arg >= 0 /\ "+" \in d.flags -> "+"
          [] OTHER -> IF ~padded THEN NUL ELSE IF "0" \in d.flags THEN "0" ELSE " "]

-----------------------------------------------------------------------------
(***************************************************************************)
(* The scanner of kaos_vsprintf.                                           *)
(***************************************************************************)
PlainChar ==
  /\ state = "text" /\ Char(p) \notin {"%", NUL}
  /\ Put(<<Char(p)>>) /\ p' = p + 1
  /\ UNCHANGED <<args, dir>>

BeginDirective ==
  /\ state = "text" /\ Char(p) = "%"
  /\ state' = "flags" /\ dir' = NoDirective /\ p' = p + 1
  /\ UNCHANGED <<args, out>>

\* The final zero needs its place in the buffer as well.
EndOfFormat ==
  /\ state = "text" /\ Char(p) = NUL
  /\ state' = IF Len(out) < BufferSize THEN "done" ELSE "overrun"
  /\ UNCHANGED <<p, args, dir, out>>

\* A scanner that found no specifier before the zero reads on behind it.
RunsOff ==
  /\ state \in {"flags", "width", "precision", "length", "specifier"}
  /\ p > Len(format) + 1
  /\ state' = "ran off"
  /\ UNCHANGED <<p, args, dir, out>>

InDirective(s) == state = s /\ p <= Len(format) + 1

Flags ==
  /\ InDirective("flags") /\ UNCHANGED <<args, out>>
  /\ IF Char(p) \in {"-", "+", " ", "#", "0"}
     THEN /\ dir' = [dir EXCEPT !.flags = @ \cup {Char(p)}]
          /\ p' = p + 1 /\ UNCHANGED state
     ELSE state' = "width" /\ UNCHANGED <<dir, p>>

Width ==
  /\ InDirective("width") /\ UNCHANGED out
  /\ CASE IsDigit(Char(p)) ->
            /\ dir' = [dir EXCEPT !.fieldWidth = 10 * @ + DigitValue(Char(p))]
            /\ p' = p + 1 /\ UNCHANGED <<state, args>>
       [] Char(p) = "*" ->
            /\ dir' = [dir EXCEPT !.fieldWidth = Head(args)]
            /\ args' = Tail(args) /\ p' = p + 1 /\ UNCHANGED state
       [] Char(p) = "." -> state' = "precision" /\ p' = p + 1 /\ UNCHANGED <<dir, args>>
       [] OTHER -> state' = "length" /\ UNCHANGED <<dir, p, args>>

Precision ==
  /\ InDirective("precision") /\ UNCHANGED out
  /\ CASE IsDigit(Char(p)) ->
            /\ dir' = [dir EXCEPT !.precision = 10 * @ + DigitValue(Char(p)),
                                  !.defined = TRUE]
            /\ p' = p + 1 /\ UNCHANGED <<state, args>>
       [] Char(p) = "*" ->
            /\ dir' = [dir EXCEPT !.precision = Head(args), !.defined = TRUE]
            /\ args' = Tail(args) /\ p' = p + 1 /\ UNCHANGED state
       [] OTHER -> state' = "length" /\ UNCHANGED <<dir, p, args>>

\* A second l is left for the specifier: ll is never recognised.
Length ==
  /\ InDirective("length") /\ state' = "specifier" /\ UNCHANGED <<args, out>>
  /\ IF Char(p) = "h" /\ Char(p + 1) = "h"
     THEN dir' = [dir EXCEPT !.length = "hh"] /\ p' = p + 2
     ELSE IF Char(p) \in {"h", "l", "j", "z", "t", "L"}
          THEN dir' = [dir EXCEPT !.length = Char(p)] /\ p' = p + 1
          ELSE UNCHANGED <<dir, p>>

-----------------------------------------------------------------------------
Unsigned(w) == w % WordSize
Radix(c) == IF c \in {"d", "i"} THEN 10 ELSE IF c \in {"o", "u"} THEN 8 ELSE 16

\* Faulty variant: every argument is taken as one word.
ArgWords_One(length) == 1
ArgWords(length) == IF length \in {"L", "j"} THEN 2 ELSE 1

IntArg ==
  CASE ArgWords(dir.length) = 2 -> Unsigned(args[1]) + WordSize * args[2]
    [] dir.length = "z" -> Unsigned(args[1])
    [] OTHER -> args[1]

\* A negative width or precision counts as a huge one.
IntSpecifier ==
  LET c == Char(p)
      n == ArgWords(dir.length)
  IN /\ InDirective("specifier") /\ c \in {"d", "i", "o", "u", "x", "X", "p"}
     /\ Len(args) >= n
     /\ args' = SubSeq(args, n + 1, Len(args)) /\ p' = p + 1 /\ UNCHANGED dir
     /\ IF dir.fieldWidth < 0 \/ dir.precision < 0
        THEN state' = "overrun" /\ UNCHANGED out
        ELSE Put(convert_any_int_to_str(IntArg, dir, Radix(c), c \notin {"d", "i"}, c = "X"))

CharSpecifier ==
  /\ InDirective("specifier") /\ Char(p) = "c" /\ args # <<>>
  /\ Put(<<Letters[(args[1] % Len(Letters)) + 1]>>)
  /\ args' = Tail(args) /\ p' = p + 1 /\ UNCHANGED dir

StringSpecifier ==
  /\ InDirective("specifier") /\ Char(p) = "s" /\ args # <<>>
  /\ LET s == Strings[args[1]]
     IN Put(IF dir.defined /\ dir.precision \in 0 .. Len(s)
            THEN SubSeq(s, 1, dir.precision) ELSE s)
  /\ args' = Tail(args) /\ p' = p + 1 /\ UNCHANGED dir

\* The percent sign is not stepped over: it begins the next directive.
PercentSpecifier ==
  /\ InDirective("specifier") /\ Char(p) = "%"
  /\ Put(<<"%">>)
  /\ UNCHANGED <<args, p, dir>>

\* The count goes to the caller's variable.
CountSpecifier ==
  /\ InDirective("specifier") /\ Char(p) = "n" /\ args # <<>>
  /\ state' = "text" /\ args' = Tail(args) /\ p' = p + 1
  /\ UNCHANGED <<dir, out>>

NoSpecifier ==
  /\ InDirective("specifier")
  /\ Char(p) \notin {"d", "i", "o", "u", "x", "X", "p", "c", "s", "%", "n"}
  /\ p' = p + 1
  /\ UNCHANGED <<args, state, dir, out>>

Scan ==
  \/ PlainChar \/ BeginDirective \/ EndOfFormat \/ RunsOff
  \/ Flags \/ Width \/ Precision \/ Length
  \/ IntSpecifier \/ CharSpecifier \/ StringSpecifier \/ PercentSpecifier
  \/ CountSpecifier \/ NoSpecifier

kaos_vsprintf == printer = "kaos_vsprintf" /\ Scan
vsprintf == printer = "vsprintf" /\ Scan

-----------------------------------------------------------------------------
(***************************************************************************)
(* kaos_preboot_printf: a directive is % and one character.                *)
(***************************************************************************)
\* The most negative int is its own negation: it has no digits to print.
PrebootDecimal(num) ==
  LET n == IF -num < WordSize \div 2 THEN Abs(num) ELSE 0
      digits == IF num = 0 THEN 1 ELSE DigitCount(n, 10)
  IN (IF num < 0 THEN <<"-">> ELSE <<>>)
       \o [k \in 1 .. digits |-> Digits[((n \div 10^(digits - k)) % 10) + 1]]

PrebootHex(num) ==
  LET digits == IF num = 0 THEN 1 ELSE DigitCount(num, 16)
  IN [k \in 1 .. digits |-> LowerDigits[((num \div 16^(digits - k)) % 16) + 1]]

PrebootPlain ==
  /\ Char(p) \notin {"%", NUL}
  /\ out' = Append(out, Char(p)) /\ p' = p + 1
  /\ UNCHANGED <<args, state>>

PrebootArg(c) ==
  CASE c = "d" -> PrebootDecimal(args[1])
    [] c = "x" -> PrebootHex(Unsigned(args[1]))
    [] c = "s" -> Strings[args[1]]
    [] c = "c" -> <<Letters[(args[1] % Len(Letters)) + 1]>>

PrebootDirective ==
  /\ Char(p) = "%" /\ Char(p + 1) # NUL
  /\ p' = p + 2 /\ UNCHANGED state
  /\ IF Char(p + 1) \in {"d", "x", "s", "c"}
     THEN args # <<>> /\ out' = out \o PrebootArg(Char(p + 1)) /\ args' = Tail(args)
     ELSE /\ out' = IF Char(p + 1) = "%" THEN Append(out, "%") ELSE out
          /\ UNCHANGED args

PrebootEnd ==
  /\ Char(p) = NUL \/ (Char(p) = "%" /\ Char(p + 1) = NUL)
  /\ state' = "done"
  /\ UNCHANGED <<p, args, out>>

kaos_preboot_printf ==
  /\ state = "preboot" /\ UNCHANGED dir
  /\ PrebootPlain \/ PrebootDirective \/ PrebootEnd

SprintfNext ==
  /\ kaos_vsprintf \/ vsprintf \/ kaos_preboot_printf
  /\ UNCHANGED <<printer, directives, format>>

-----------------------------------------------------------------------------
(***************************************************************************)
(* What C asks of a directive: the numeral of the number, a sign where one *)
(* is due, zeros up to the precision and padding up to the width.          *)
(***************************************************************************)
Numeral(n, radix, glyphs) ==
  LET numeral[m \in Nat] ==
        IF m < radix THEN <<glyphs[m + 1]>>
        ELSE Append(numeral[m \div radix], glyphs[(m % radix) + 1])
  IN numeral[n]

Times(c, n) == [k \in 1 .. n |-> c]
Has(d, c) == c \in ToSet(d.flags)
\* The width, the precision and the number a directive was written with.
WantedWidth(d) ==
  CASE d.width = <<>>    -> 0
    [] d.width = <<"*">> -> Head(d.stars)
    [] OTHER             -> DigitValue(d.width[1])

WantedPrecision(d) ==
  CASE d.prec = <<>>         -> 1
    [] d.prec = <<".", "*">> -> Last(d.stars)
    [] OTHER                 -> DigitValue(d.prec[2])

Operand(d) ==
  IF d.length = <<"j">> THEN Unsigned(d.words[1]) + WordSize * d.words[2]
                        ELSE d.words[1]

WantedInt(d) ==
  LET n == IF d.spec = "d" \/ Operand(d) >= 0 THEN Operand(d) ELSE Unsigned(Operand(d))
      glyphs == IF d.spec = "X" THEN UpperDigits ELSE LowerDigits
      numeral == Numeral(Abs(n), IF d.spec = "d" THEN 10 ELSE 16, glyphs)
      sign == IF n < 0 THEN <<"-">>
              ELSE IF d.spec = "d" /\ Has(d, "+") THEN <<"+">> ELSE <<>>
      zeros == Times("0", WantedPrecision(d) - Len(numeral))
      text == sign \o zeros \o numeral
      missing == WantedWidth(d) - Len(text)
  IN IF Has(d, "-") THEN text \o Times(" ", missing)
     ELSE IF Has(d, "0") THEN Times("0", missing) \o text
     ELSE Times(" ", missing) \o text

Wanted(d) ==
  CASE d.spec = "" -> d.text
    [] d.spec \in {"d", "x", "X"} -> WantedInt(d)
    [] d.spec = "c" -> <<Letters[(Operand(d) % Len(Letters)) + 1]>>
    [] d.spec = "s" -> LET s == Strings[Operand(d)]
                       IN IF d.prec = <<>> \/ WantedPrecision(d) \notin 0 .. Len(s) THEN s
                          ELSE SubSeq(s, 1, WantedPrecision(d))
    [] d.spec = "%" -> <<"%">>

(***************************************************************************)
(* The directives the functions treat as C does.  The others are treated   *)
(* in ways of their own: u prints octal, o has a zero too many, hh and ll  *)
(* do not change the size of an argument, zeros are put before a sign, a   *)
(* signed zero has no digit, the sign counts towards the precision, the    *)
(* hexadecimal form of a number above 2 GB is that of its negation, and    *)
(* after a doubled percent sign the second one begins a directive.         *)
(***************************************************************************)
Bare(d) == d.flags = <<>> /\ d.width = <<>> /\ d.prec = <<>> /\ d.length = <<>>

AsInC(d) ==
  \/ d.spec = ""
  \/ /\ printer = "kaos_preboot_printf" /\ Bare(d)
     /\ d.spec \in {"d", "x", "c", "s", "%"}
     /\ d.spec = "d" => -Operand(d) < WordSize \div 2
  \/ /\ printer # "kaos_preboot_printf"
     /\ \/ /\ d.spec \in {"d", "x", "X"} /\ d.length \in {<<>>, <<"l">>, <<"j">>}
           /\ ~Has(d, "#") /\ ~(Has(d, "0") /\ Has(d, "-")) /\ WantedWidth(d) >= 0
           /\ WantedPrecision(d) > 0
           /\ Has(d, "0") \/ d.prec # <<>> => Operand(d) >= 0 /\ ~Has(d, "+")
           /\ ~(Has(d, "0") /\ d.prec # <<>>)
           /\ Has(d, "+") => Operand(d) # 0
           /\ d.spec # "d" => Operand(d) >= 0
        \/ d.spec = "c" /\ Bare(d)
        \/ d.spec = "s" /\ Bare([d EXCEPT !.prec = <<>>])

WantedText ==
  FlattenSeq([k \in 1 .. Len(directives) |-> Wanted(directives[k])])

(***************************************************************************)
(* A call that uses only the directives above prints what C asks for, each *)
(* directive with the argument passed for it, wherever the directive is in *)
(* the format; its scanner never reads behind the format, and it leaves    *)
(* the buffer of kaos_vfprintf only for a text that does not fit.  With    *)
(* any directives, a character nobody wrote is printed only for #x.        *)
(***************************************************************************)
Formatted ==
  /\ (\A k \in 1 .. Len(directives) : AsInC(directives[k])) =>
       /\ state # "ran off"
       /\ state = "done" => out = WantedText
       /\ state = "overrun" => Len(WantedText) >= BufferSize
  /\ NUL \in ToSet(out) =>
       \E k \in 1 .. Len(directives) : directives[k].spec # "" /\ Has(directives[k], "#")
=============================================================================
