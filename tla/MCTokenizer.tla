----------------------------- MODULE MCTokenizer -----------------------------
(* Lines and options for Tokenizer.                                         *)
EXTENDS Tokenizer

Strings(chars, n) == UNION {[1 .. m -> chars] : m \in 0 .. n}
Ended(s) == Append(s, 10)

(* Two lines of words, of one file or of two, in every class and order.     *)
WordLines ==
  {[files |-> f, w |-> w, cp |-> cp, casen |-> casen, straddle |-> straddle, regexes |-> <<>>,
    stdtok |-> TRUE] :
     f \in UNION {{<<<<Ended(a), b>>>>, <<<<a>>, <<b>>>>} :
                   a \in Strings({97, 66, 32}, 3), b \in {<<>>, <<97>>, <<32, 98, 10>>, <<97, 32, 98>>}},
     w \in 1 .. 3, cp \in CharParsers,
     casen \in BOOLEAN, straddle \in BOOLEAN}

(* A line of letters, digits, marks and bytes, cut where words are long.    *)
Units == {<<97>>, <<65>>, <<49>>, <<46>>, <<32>>, <<195, 169>>}
MixedLines ==
  {[files |-> <<<<Ended(FlattenSeq(a))>>>>, w |-> w, cp |-> "ADP", casen |-> FALSE, straddle |-> straddle, regexes |-> <<>>,
    stdtok |-> TRUE] :
     a \in Strings(Units, 4) \cup [1 .. 5 -> {<<97>>, <<49>>, <<46>>}], w \in 1 .. 2, straddle \in {FALSE}}

(* Long words, and orders that are not allowed.                             *)
LongLine == [n \in 1 .. 40 |-> 97]
LongLines ==
  {[files |-> <<<<a, Ended(a), Ended(a)>>>>, w |-> w, cp |-> cp, casen |-> TRUE, straddle |-> straddle, regexes |-> <<>>,
    stdtok |-> TRUE] :
     a \in {LongLine, SubSeq(LongLine, 1, 20) \o <<65>>}, w \in 0 .. 5, cp \in {"GRAPH", "ADP"}, straddle \in BOOLEAN}

(* Marks, numbers, addresses and sums of money.                             *)
MarkLines ==
  {[files |-> <<<<Ended(a \o b)>>>>, w |-> 1, cp |-> cp, casen |-> FALSE, straddle |-> FALSE, regexes |-> <<>>,
    stdtok |-> TRUE] :
     a \in {<<97, 45, 98>>, <<97, 49>>, <<49, 97, 32>>, <<36, 49, 44, 49>>, <<60, 97, 64, 98, 62>>, <<45, 45, 45, 45>>,
            <<97, 46, 98>>, <<97, 58, 49>>, <<46, 46>>},
     b \in {<<>>, <<32, 97>>, <<97>>, <<3>>, <<143, 253, 161>>, <<164, 164>>, <<227, 129, 130>>, <<133>>},
     cp \in {"CEF", "CEF2", "ADP"}}

(* (a+)(b+), ([ab]+)( +)(b+)|([.]+)(b+), and ab without parentheses.        *)
Part(g, cs) == [group |-> g, chars |-> cs]
Pair == [alternatives |-> <<<<Part(1, {97}), Part(2, {98})>>>>]
Run3 == [alternatives |-> <<<<Part(1, {97, 98}), Part(2, {32}), Part(3, {98})>>, <<Part(1, {46}), Part(2, {98})>>>>]
Bare == [alternatives |-> <<<<Part(0, {97}), Part(0, {98})>>>>]
Option(pattern, suffix) == [pattern |-> pattern, parentheses |-> pattern # Bare, suffix |-> suffix]
RegexLines(regexes) ==
  {[files |-> <<<<a \o b>>, <<b>>>>, w |-> 1, cp |-> "ALPHA", casen |-> casen, straddle |-> FALSE, regexes |-> r,
    stdtok |-> stdtok] :
     a \in Strings({97, 98, 32}, 3), b \in {<<97, 98>>, <<97, 97, 97, 97, 98, 32, 98>>, <<46, 98>>}, casen \in {TRUE},
     r \in regexes, stdtok \in BOOLEAN}
Once ==
  {<<Option(a, s), Option(b, t)>> :
     a \in {Pair}, s \in {{}, {1}, {2}, {1, 2}}, b \in {Run3, Bare}, t \in {{}, {1}}}
Twice == {<<Option(Pair, {1}), Option(Pair, {1}), Option(Run3, {2})>>}
Many == {<<Option(Pair, {1}), Option(Bare, {1}), Option(Bare, {1}), Option(Run3, {2})>>}

TokenInputs == WordLines \cup MixedLines \cup LongLines \cup MarkLines \cup RegexLines(Once \cup Many)
TwiceInputs == RegexLines(Twice)

==============================================================================
