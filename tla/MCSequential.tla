---------------------------- MODULE MCSequential ----------------------------
(***************************************************************************)
(* Small instances of the sequential parts.                                *)
(***************************************************************************)
EXTENDS Sequential

\* The tree: five nodes are enough for a node with two children whose right
\* subtree has a leftmost path of several nodes, and for what deletions of
\* such nodes leave behind; four values make some of them equal.
SomeValues == 1 .. 4

\* The layout: small bytes and blocks with the remainders of the real ones:
\* 218 metadata blocks end two bits into a byte, and so do 10 of 4 bits.  The
\* last sizes have more groups than descriptors fit into a block.
SomeSizes == 1 .. 4 * 32 + 8

-----------------------------------------------------------------------------
\* Formatted output: a directive of each shape, alone, before a number, and
\* between two numbers; int has 6 bits.
SomeLetters == <<"p", "q">>
SomeStrings == 0 :> <<>> @@ 1 :> <<"k", "a", "o", "s">>

PlainA ==
  [spec |-> "", text |-> <<"a">>, flags |-> <<>>, width |-> <<>>, prec |-> <<>>,
   length |-> <<>>, stars |-> <<>>, words |-> <<>>]
Of(spec, words) == [PlainA EXCEPT !.spec = spec, !.text = <<>>, !.words = words]
Number(n) == Of("d", <<n>>)

FlagSets == {<<>>, <<"-">>, <<"0">>, <<"+">>, <<"#">>, <<"-", "0">>, <<" ">>}
Ints ==
  {[Of(s, <<n>>) EXCEPT !.flags = f, !.width = w, !.prec = pr] :
     f \in FlagSets, w \in {<<>>, <<"5">>}, pr \in {<<>>, <<".", "3">>},
     s \in {"d", "x", "X", "u"}, n \in {-32, -17, 0, 9, 10, 31}}
Stars ==
  {[Of("d", <<n>>) EXCEPT !.width = <<"*">>, !.stars = <<w>>] : w \in {-1, 4}, n \in {-1, 10}}
    \cup {[Of(s, <<1>>) EXCEPT !.prec = <<".", "*">>, !.stars = <<w>>] :
            w \in {-1, 2}, s \in {"d", "s"}}
Longs ==
  {[Of(s, <<n, h>>) EXCEPT !.length = l] :
     l \in {<<"j">>, <<"l", "l">>, <<"L">>}, s \in {"d", "x"}, n \in {-1, 10}, h \in {-1, 0}}
    \cup {[Of("d", <<n>>) EXCEPT !.length = l] :
            l \in {<<"l">>, <<"h">>, <<"h", "h">>, <<"z">>}, n \in {-1, 10}}
Others ==
  {[Of(s, <<1>>) EXCEPT !.width = w, !.prec = pr] :
     w \in {<<>>, <<"5">>}, pr \in {<<>>, <<".", "2">>}, s \in {"s", "c", "n", "o"}}
    \cup {Of(s, <<>>) : s \in {"%", "y"}}

Single == Ints \cup Stars \cup Longs \cup Others
SomeInputs ==
  {<<d>> : d \in Single} \cup {<<d, PlainA, Number(-17)>> : d \in Single}
    \cup {<<Number(31), d, Number(10)>> : d \in Longs \cup Others}

-----------------------------------------------------------------------------
\* The memory map: three neighbouring regions of any type, in both orders, cut
\* inside a frame, inside a byte, on a byte, at 4 GB and above.
Cuts == {8, 11, 16, 22, 32, 42, 48, 54}
Region(type, from, to) == [type |-> type, addr |-> from, len |-> to - from]
RegionTypes == {"available", "reserved", "acpi"}
SomeMaps ==
  LET maps == {<<Region(t[1], a, b), Region(t[2], b, c), Region(t[3], c, d)>> :
                 t \in [1 .. 3 -> RegionTypes],
                 a \in Cuts, b \in Cuts, c \in Cuts, d \in Cuts}
      inOrder == {m \in maps : \A k \in 1 .. 3 : m[k].len >= 0}
  IN inOrder \cup {Reverse(m) : m \in inOrder}
=============================================================================
