-------------------------- MODULE XmlFilter_proofs ---------------------------
(***************************************************************************)
(* Proof that XmlFilter never writes over what it has still to read, for    *)
(* any options and pages.                                                  *)
(***************************************************************************)
EXTENDS XmlFilter, SequenceTheorems, WellFoundedInduction, TLAPS

(* A set of naturals has a smallest element. *)
LEMMA SmallestOfNat ==
  ASSUME NEW T, T \subseteq Nat, T # {}
  PROVE  \E m \in T : \A y \in T : ~(y < m)
<1> DEFINE R == {d \in Nat \X Nat : d[1] < d[2]}
<1>1. IsWellFoundedOn(R, Nat)
  <2>1. R = OpToRel(<, Nat)
    BY Zenon DEF OpToRel
  <2> QED
    BY <2>1, NatLessThanWellFounded, Zenon
<1>2. PICK m \in T : \A y \in T : <<y, m>> \notin R
  <2> HIDE DEF R
  <2> QED
    BY <1>1, WFMin
<1>3. \A y \in T : ~(y < m)
  BY <1>2
<1> QED
  BY <1>3

-----------------------------------------------------------------------------
(* The length of a line is the sum of the lengths of its lexemes.          *)

IsSum(g, s, n) == g = [m \in 0..n |-> IF m = 0 THEN 0 ELSE g[m - 1] + Width(s[m])]

LEMMA SumExtends ==
  ASSUME NEW s, NEW n \in Nat, NEW g, IsSum(g, s, n)
  PROVE  \E h : IsSum(h, s, n + 1)
<1> DEFINE h == [m \in 0..n + 1 |-> IF m = n + 1 THEN g[n] + Width(s[n + 1]) ELSE g[m]]
<1>1. \A m \in 0..n : g[m] = IF m = 0 THEN 0 ELSE g[m - 1] + Width(s[m])
  BY DEF IsSum
<1>2. \A m \in 0..n + 1 : h[m] = IF m = 0 THEN 0 ELSE h[m - 1] + Width(s[m])
  <2> SUFFICES ASSUME NEW m \in 0..n + 1
               PROVE  h[m] = IF m = 0 THEN 0 ELSE h[m - 1] + Width(s[m])
    OBVIOUS
  <2>1. CASE m = n + 1
    BY <2>1
  <2>2. CASE m = 0
    BY <1>1, <2>2
  <2>3. CASE m \in 1..n
    BY <1>1, <2>3
  <2> QED
    BY <2>1, <2>2, <2>3
<1>3. h = [m \in 0..n + 1 |-> h[m]]
  OBVIOUS
<1> HIDE DEF h
<1>4. h = [m \in 0..n + 1 |-> IF m = 0 THEN 0 ELSE h[m - 1] + Width(s[m])]
  BY <1>2, <1>3
<1> QED
  BY <1>4 DEF IsSum

LEMMA SumExists ==
  ASSUME NEW s, NEW n \in Nat
  PROVE  \E g : IsSum(g, s, n)
<1> DEFINE T == {m \in Nat : ~\E g : IsSum(g, s, m)}
<1> SUFFICES ASSUME T # {}
             PROVE  FALSE
  OBVIOUS
<1>1. PICK m \in T : \A y \in T : ~(y < m)
  <2>1. T \subseteq Nat
    OBVIOUS
  <2> HIDE DEF T
  <2> QED
    BY <2>1, SmallestOfNat
<1>2. m # 0
  <2>1. PICK g : g = [i \in {0} |-> 0]
    OBVIOUS
  <2>2. IsSum(g, s, 0)
    BY <2>1 DEF IsSum
  <2> QED
    BY <2>2
<1>3. m - 1 \in Nat
  BY <1>2
<1>4. PICK g : IsSum(g, s, m - 1)
  BY <1>1, <1>3
<1>5. \E h : IsSum(h, s, (m - 1) + 1)
  BY <1>3, <1>4, SumExtends
<1> QED
  BY <1>3, <1>5

LEMMA SizeIsSum ==
  ASSUME NEW s \in Seq(Written)
  PROVE  \E g : IsSum(g, s, Len(s)) /\ Size(s) = g[Len(s)]
<1> DEFINE n == Len(s)
           f == CHOOSE g : IsSum(g, s, n)
<1>1. n \in Nat
  OBVIOUS
<1>2. IsSum(f, s, n)
  BY <1>1, SumExists
<1>3. Size(s) = f[n]
  BY DEF Size, IsSum
<1> QED
  BY <1>2, <1>3

(* Sums over lines that agree up to a lexeme are equal there.              *)
LEMMA SumsAgree ==
  ASSUME NEW s, NEW t, NEW n \in Nat, NEW m \in Nat, NEW g, IsSum(g, s, n), NEW h, IsSum(h, t, m),
         NEW k \in Nat, k <= n, k <= m, \A i \in 1..k : s[i] = t[i]
  PROVE  g[k] = h[k]
<1> DEFINE T == {i \in 0..k : g[i] # h[i]}
<1> SUFFICES ASSUME T # {}
             PROVE  FALSE
  OBVIOUS
<1>1. PICK i \in T : \A j \in T : ~(j < i)
  <2>1. T \subseteq Nat
    OBVIOUS
  <2> HIDE DEF T
  <2> QED
    BY <2>1, SmallestOfNat
<1>2. g[i] = IF i = 0 THEN 0 ELSE g[i - 1] + Width(s[i])
  <2>1. i \in 0..n
    OBVIOUS
  <2> QED
    BY <2>1 DEF IsSum
<1>3. h[i] = IF i = 0 THEN 0 ELSE h[i - 1] + Width(t[i])
  <2>1. i \in 0..m
    OBVIOUS
  <2> QED
    BY <2>1 DEF IsSum
<1>4. i # 0
  BY <1>2, <1>3
<1>5. g[i - 1] = h[i - 1]
  BY <1>1, <1>4
<1>6. s[i] = t[i]
  BY <1>4
<1> QED
  BY <1>2, <1>3, <1>4, <1>5, <1>6

LEMMA SumIsNat ==
  ASSUME NEW s, NEW n \in Nat, NEW g, IsSum(g, s, n), \A i \in 1..n : s[i] \in Written,
         NEW k \in 0..n
  PROVE  g[k] \in Nat
<1> DEFINE T == {i \in 0..n : g[i] \notin Nat}
<1> SUFFICES ASSUME T # {}
             PROVE  FALSE
  OBVIOUS
<1>1. PICK i \in T : \A j \in T : ~(j < i)
  <2>1. T \subseteq Nat
    OBVIOUS
  <2> HIDE DEF T
  <2> QED
    BY <2>1, SmallestOfNat
<1>2. g[i] = IF i = 0 THEN 0 ELSE g[i - 1] + Width(s[i])
  BY DEF IsSum
<1>3. i # 0
  BY <1>2
<1>4. g[i - 1] \in Nat
  BY <1>1, <1>3
<1>5. Width(s[i]) \in Nat
  <2>1. s[i] \in Written
    BY <1>3
  <2> QED
    BY <2>1, StringLengths
<1> QED
  BY <1>2, <1>3, <1>4, <1>5

LEMMA SizeOfNone == Size(<<>>) = 0
<1>1. <<>> \in Seq(Written) /\ Len(<<>>) = 0
  OBVIOUS
<1>2. PICK g : IsSum(g, <<>>, 0) /\ Size(<<>>) = g[0]
  BY <1>1, SizeIsSum
<1> QED
  BY <1>2 DEF IsSum

LEMMA SizeType ==
  ASSUME NEW s \in Seq(Written)
  PROVE  Size(s) \in Nat
<1>1. PICK g : IsSum(g, s, Len(s)) /\ Size(s) = g[Len(s)]
  BY SizeIsSum
<1>2. g[Len(s)] \in Nat
  BY <1>1, SumIsNat
<1> QED
  BY <1>1, <1>2

(* The length of a line that is one lexeme longer.                         *)
LEMMA SizeOneMore ==
  ASSUME NEW s \in Seq(Written), NEW t \in Seq(Written), Len(t) = Len(s) + 1,
         \A i \in 1..Len(s) : t[i] = s[i]
  PROVE  Size(t) = Size(s) + Width(t[Len(t)])
<1>1. PICK g : IsSum(g, s, Len(s)) /\ Size(s) = g[Len(s)]
  BY SizeIsSum
<1>2. PICK h : IsSum(h, t, Len(t)) /\ Size(t) = h[Len(t)]
  BY SizeIsSum
<1>3. h[Len(s)] = g[Len(s)]
  <2>1. Len(s) \in Nat /\ Len(t) \in Nat /\ Len(s) <= Len(t)
    OBVIOUS
  <2> QED
    BY <1>1, <1>2, <2>1, SumsAgree
<1>4. h[Len(t)] = h[Len(t) - 1] + Width(t[Len(t)])
  BY <1>2 DEF IsSum
<1> QED
  BY <1>1, <1>2, <1>3, <1>4

LEMMA SizeAppend ==
  ASSUME NEW s \in Seq(Written), NEW x \in Written
  PROVE  s \o <<x>> \in Seq(Written) /\ Size(s \o <<x>>) = Size(s) + Width(x)
<1> DEFINE t == s \o <<x>>
<1>1. t \in Seq(Written) /\ Len(t) = Len(s) + 1 /\ t[Len(t)] = x
  OBVIOUS
<1>2. \A i \in 1..Len(s) : t[i] = s[i]
  OBVIOUS
<1> HIDE DEF t
<1>3. Size(t) = Size(s) + Width(t[Len(t)])
  BY <1>1, <1>2, SizeOneMore
<1>4. Size(t) = Size(s) + Width(x)
  BY <1>1, <1>3
<1> QED
  BY <1>1, <1>4 DEF t

LEMMA SizeRead ==
  ASSUME NEW s \in Seq(Lexemes), NEW i \in 0..Len(s) - 1
  PROVE  Size(SubSeq(s, 1, i + 1)) = Size(SubSeq(s, 1, i)) + Width(s[i + 1])
<1> DEFINE u == SubSeq(s, 1, i)
           v == SubSeq(s, 1, i + 1)
<1>1. s \in Seq(Written)
  <2>1. Lexemes \subseteq Written
    BY DEF Written
  <2> QED
    BY <2>1
<1>2. u \in Seq(Written) /\ v \in Seq(Written) /\ Len(u) = i /\ Len(v) = i + 1
  BY <1>1
<1>3. \A j \in 1..Len(u) : v[j] = u[j]
  BY <1>1
<1>4. v[Len(v)] = s[i + 1]
  BY <1>1
<1> HIDE DEF u, v
<1>5. Size(v) = Size(u) + Width(v[Len(v)])
  BY <1>2, <1>3, SizeOneMore
<1>6. Size(v) = Size(u) + Width(s[i + 1])
  BY <1>4, <1>5
<1> QED
  BY <1>6 DEF u, v

-----------------------------------------------------------------------------
(* What is written for a lexeme.                                           *)

LEMMA LexemesAreWritten == Lexemes \subseteq Written
BY DEF Written

LEMMA EntitiesType ==
  /\ Entities \subseteq Lexemes
  /\ \A x \in Entities : decode_html_entity[x] \in {"d", "(", "sp"} /\ AfterAmpersand[x] \in {"amp;", "lt;", "#"}
<1>1. Entities \subseteq Lexemes
  BY DEF Lexemes, Queries
<1> QED
  BY <1>1 DEF Entities, decode_html_entity, AfterAmpersand

LEMMA EntityWidths ==
  ASSUME NEW x \in Entities
  PROVE  /\ decode_html_entity[x] \in Written /\ Width(decode_html_entity[x]) <= Width(x)
         /\ AfterAmpersand[x] \in Written /\ Width(AfterAmpersand[x]) <= Width(x)
<1>1. {"d", "(", "sp", "amp;", "lt;", "#"} \subseteq Written
  BY DEF Written, Lexemes, Spaces, Queries, Delimiters
<1>2. decode_html_entity[x] \in Written /\ AfterAmpersand[x] \in Written
  BY <1>1, EntitiesType
<1>3. x \in Written
  BY EntitiesType, LexemesAreWritten
<1>4. Width(x) \in Nat \ {0} /\ Width(AfterAmpersand[x]) \in Nat
  BY <1>2, <1>3, StringLengths
<1>5. Width(decode_html_entity[x]) = 1 /\ Width(AfterAmpersand[x]) < Width(x)
  BY StringLengths
<1> QED
  BY <1>2, <1>4, <1>5

(* The attribute filter writes at most one lexeme for one, and none that is *)
(* longer.                                                                 *)
NoLonger(out, c) ==
  out = <<>> \/ \E x \in Written : out = <<x>> /\ Width(x) <= Width(c)

LEMMA ItselfIsNoLonger ==
  ASSUME NEW c \in Lexemes
  PROVE  NoLonger(<<c>>, c)
<1>1. c \in Written
  BY LexemesAreWritten
<1>2. Width(c) \in Nat
  BY <1>1, StringLengths
<1> QED
  BY <1>1, <1>2 DEF NoLonger

LEMMA PrintedIsNoLonger ==
  ASSUME NEW a, NEW c \in Lexemes
  PROVE  NoLonger(Printed(a, c), c)
<1>1. NoLonger(<<>>, c) /\ NoLonger(<<c>>, c)
  BY ItselfIsNoLonger DEF NoLonger
<1>2. c \in Entities => NoLonger(<<AfterAmpersand[c]>>, c)
  BY EntityWidths DEF NoLonger
<1>3. NoLonger(decode_uri_character(c), c)
  <2>1. c = "%41" => NoLonger(<<"d">>, c)
    <3>1. "d" \in Written /\ Width("d") = 1 /\ c \in Written
      BY StringLengths, LexemesAreWritten DEF Written
    <3>2. Width(c) \in Nat \ {0}
      BY <3>1, StringLengths
    <3>3. Width("d") <= Width(c)
      BY <3>1, <3>2
    <3> QED
      BY <3>1, <3>3 DEF NoLonger
  <2> QED
    BY <1>1, <2>1 DEF decode_uri_character
<1> HIDE DEF NoLonger
<1> QED
  BY <1>1, <1>2, <1>3 DEF Printed

-----------------------------------------------------------------------------
(* What has been written is no longer than the first i lexemes of the line. *)

Behind(s, i) == s \in Seq(Written) /\ Size(s) <= Size(SubSeq(line, 1, i))

LEMMA SizeAfter ==
  ASSUME NEW s \in Seq(Written), NEW c \in Written, NEW out, NoLonger(out, c)
  PROVE  /\ out \in Seq(Written) /\ s \o out \in Seq(Written)
         /\ Size(s \o out) \in Nat /\ Size(s \o out) <= Size(s) + Width(c)
<1>1. Size(s) \in Nat /\ Width(c) \in Nat
  BY SizeType, StringLengths
<1>2. CASE out = <<>>
  <2>1. s \o out = s
    BY <1>2
  <2> QED
    BY <1>1, <1>2, <2>1
<1>3. CASE \E x \in Written : out = <<x>> /\ Width(x) <= Width(c)
  <2>1. PICK x \in Written : out = <<x>> /\ Width(x) <= Width(c)
    BY <1>3
  <2>2. s \o <<x>> \in Seq(Written) /\ Size(s \o <<x>>) = Size(s) + Width(x)
    BY SizeAppend
  <2>3. Width(x) \in Nat /\ <<x>> \in Seq(Written)
    BY StringLengths
  <2> QED
    BY <1>1, <2>1, <2>2, <2>3
<1> QED
  BY <1>2, <1>3 DEF NoLonger

LEMMA BehindAfterOne ==
  ASSUME line \in Seq(Lexemes), NEW i \in 0..Len(line) - 1, NEW s, Behind(s, i),
         NEW out, NoLonger(out, line[i + 1])
  PROVE  out \in Seq(Written) /\ Behind(s \o out, i + 1)
<1> DEFINE u == SubSeq(line, 1, i)
           c == line[i + 1]
<1>1. Size(SubSeq(line, 1, i + 1)) = Size(u) + Width(c)
  BY SizeRead
<1>2. c \in Written /\ u \in Seq(Written)
  BY LexemesAreWritten
<1>3. s \in Seq(Written) /\ Size(s) <= Size(u)
  BY DEF Behind
<1>4. NoLonger(out, c)
  OBVIOUS
<1> HIDE DEF u, c
<1>5. Size(u) \in Nat /\ Size(s) \in Nat /\ Width(c) \in Nat
  BY <1>2, <1>3, SizeType, StringLengths
<1>6. /\ out \in Seq(Written) /\ s \o out \in Seq(Written)
      /\ Size(s \o out) \in Nat /\ Size(s \o out) <= Size(s) + Width(c)
  BY <1>2, <1>3, <1>4, SizeAfter
<1>7. Size(s \o out) <= Size(SubSeq(line, 1, i + 1))
  BY <1>1, <1>3, <1>5, <1>6
<1> QED
  BY <1>6, <1>7 DEF Behind

LEMMA BehindAfterNone ==
  ASSUME line \in Seq(Lexemes), NEW i \in 0..Len(line) - 1, NEW s, Behind(s, i)
  PROVE  Behind(s, i + 1)
<1>1. NoLonger(<<>>, line[i + 1])
  BY DEF NoLonger
<1>2. Behind(s \o <<>>, i + 1)
  BY <1>1, BehindAfterOne
<1>3. s \o <<>> = s
  BY DEF Behind
<1> QED
  BY <1>2, <1>3

(* Where the name of an attribute begins, the value before it may have to   *)
(* be closed: up to three characters are written, and the name has as many. *)
LEMMA BehindAfterName ==
  ASSUME line \in Seq(Lexemes), NEW i \in 0..Len(line) - 1, NEW s, Behind(s, i),
         Width(line[i + 1]) >= 3, NEW a, NEW mark \in {<<>>, ATTRIBSEP}
  PROVE  Behind(s \o (Printed(a, "t") \o mark \o ATTRIBSEP), i + 1)
<1> DEFINE u == SubSeq(line, 1, i)
           p == Printed(a, "t")
<1>1. "t" \in Lexemes /\ "t" \in Written /\ "|" \in Written
  BY LexemesAreWritten DEF Written, Lexemes, Letters
<1>2. Width("t") = 1 /\ Width("|") = 1
  BY StringLengths
<1>3. NoLonger(p, "t")
  BY <1>1, PrintedIsNoLonger
<1>4. NoLonger(mark, "t") /\ NoLonger(ATTRIBSEP, "t")
  BY <1>1, <1>2 DEF NoLonger, ATTRIBSEP
<1>5. Size(SubSeq(line, 1, i + 1)) = Size(u) + Width(line[i + 1])
  BY SizeRead
<1>6. line[i + 1] \in Written /\ u \in Seq(Written)
  BY LexemesAreWritten
<1>7. s \in Seq(Written) /\ Size(s) <= Size(u)
  BY DEF Behind
<1> HIDE DEF u, p
<1>8. Size(u) \in Nat /\ Size(s) \in Nat /\ Width(line[i + 1]) \in Nat
  BY <1>6, <1>7, SizeType, StringLengths
<1>9. /\ p \in Seq(Written) /\ s \o p \in Seq(Written)
      /\ Size(s \o p) \in Nat /\ Size(s \o p) <= Size(s) + 1
  BY <1>1, <1>2, <1>3, <1>7, SizeAfter
<1>10. /\ mark \in Seq(Written) /\ (s \o p) \o mark \in Seq(Written)
       /\ Size((s \o p) \o mark) \in Nat /\ Size((s \o p) \o mark) <= Size(s \o p) + 1
  BY <1>1, <1>2, <1>4, <1>9, SizeAfter
<1>11. /\ ATTRIBSEP \in Seq(Written) /\ ((s \o p) \o mark) \o ATTRIBSEP \in Seq(Written)
       /\ Size(((s \o p) \o mark) \o ATTRIBSEP) \in Nat
       /\ Size(((s \o p) \o mark) \o ATTRIBSEP) <= Size((s \o p) \o mark) + 1
  BY <1>1, <1>2, <1>4, <1>10, SizeAfter
<1>12. ((s \o p) \o mark) \o ATTRIBSEP = s \o (p \o mark \o ATTRIBSEP)
  <2>1. p \o mark \in Seq(Written)
    BY <1>9, <1>10, ConcatProperties
  <2>2. \A x, y, z \in Seq(Written) : (x \o y) \o z = x \o (y \o z)
    BY ConcatAssociative
  <2>3. (s \o p) \o mark = s \o (p \o mark)
    BY <1>7, <1>9, <1>10, <2>2, Zenon
  <2>4. (s \o (p \o mark)) \o ATTRIBSEP = s \o ((p \o mark) \o ATTRIBSEP)
    BY <1>7, <1>11, <2>1, <2>2, Zenon
  <2> QED
    BY <2>3, <2>4, Zenon
<1>13. Size(((s \o p) \o mark) \o ATTRIBSEP) <= Size(SubSeq(line, 1, i + 1))
  BY <1>5, <1>7, <1>8, <1>9, <1>10, <1>11
<1>14. Behind(((s \o p) \o mark) \o ATTRIBSEP, i + 1)
  BY <1>11, <1>13 DEF Behind
<1> QED
  BY <1>12, <1>14 DEF p

(* The attribute filter reads one lexeme, or an entity and the one after it. *)
LEMMA BehindAfterFilter ==
  ASSUME line \in Seq(Lexemes), NEW i \in 0..Len(line) - 1, NEW s, Behind(s, i), NEW a,
         NEW f, f = xml_attribute_filter(a, i + 1)
  PROVE  /\ f.last \in i + 1..i + 2
         /\ f.last <= Len(line) => f.out \in Seq(Written) /\ Behind(s \o f.out, f.last)
<1>1. Here(i + 1) = line[i + 1] /\ line[i + 1] \in Lexemes
  BY DEF Here
<1>2. CASE ~(a # "UNDEF" /\ Here(i + 1) \in Entities)
  <2> DEFINE p == Printed(a, line[i + 1])
  <2>1. f.last = i + 1 /\ f.out = <<>> \o p
    BY <1>1, <1>2 DEF xml_attribute_filter
  <2>2. NoLonger(p, line[i + 1])
    BY <1>1, PrintedIsNoLonger
  <2> HIDE DEF p
  <2>3. p \in Seq(Written) /\ Behind(s \o p, i + 1)
    BY <2>2, BehindAfterOne
  <2>4. <<>> \o p = p
    BY <2>3
  <2> QED
    BY <2>1, <2>3, <2>4
<1>3. CASE a # "UNDEF" /\ Here(i + 1) \in Entities
  <2> DEFINE e == <<decode_html_entity[line[i + 1]]>>
             p == Printed(a, line[i + 2])
  <2>1. f.last = i + 2 /\ f.out = e \o Printed(a, Here(i + 2))
    BY <1>1, <1>3 DEF xml_attribute_filter
  <2>2. NoLonger(e, line[i + 1])
    BY <1>1, <1>3, EntityWidths DEF NoLonger
  <2> HIDE DEF e
  <2>3. e \in Seq(Written) /\ Behind(s \o e, i + 1)
    BY <2>2, BehindAfterOne
  <2>4. ASSUME i + 2 <= Len(line)
        PROVE  f.out \in Seq(Written) /\ Behind(s \o f.out, i + 2)
    <3>1. Here(i + 2) = line[i + 2] /\ line[i + 2] \in Lexemes
      BY <2>4 DEF Here
    <3>2. NoLonger(p, line[i + 2])
      BY <3>1, PrintedIsNoLonger
    <3>3. i + 1 \in 0..Len(line) - 1 /\ (i + 1) + 1 = i + 2
      BY <2>4
    <3>4. f.out = e \o p
      BY <2>1, <3>1
    <3> HIDE DEF p
    <3>5. p \in Seq(Written) /\ Behind((s \o e) \o p, i + 2)
      BY <2>3, <3>2, <3>3, BehindAfterOne
    <3>6. (s \o e) \o p = s \o (e \o p)
      BY <2>3, <3>5, ConcatAssociative DEF Behind
    <3>7. e \o p \in Seq(Written)
      BY <2>3, <3>5, ConcatProperties
    <3> QED
      BY <3>4, <3>5, <3>6, <3>7
  <2> QED
    BY <2>1, <2>4
<1> QED
  BY <1>2, <1>3

-----------------------------------------------------------------------------
(* The inductive invariant.                                                *)

IInv ==
  /\ input \in Inputs
  /\ page \in 1..Len(Pages)
  /\ row \in 0..Len(Pages[page].lines)
  /\ line \in Seq(Lexemes)
  /\ ~beyond => at \in 0..Len(line) /\ Behind(q, at)

LEMMA BehindAtStart ==
  ASSUME NEW s \in Seq(Lexemes)
  PROVE  Size(<<>>) <= Size(SubSeq(s, 1, 0))
<1>1. SubSeq(s, 1, 0) = <<>>
  OBVIOUS
<1>2. Size(SubSeq(s, 1, 0)) = 0
  BY <1>1, SizeOfNone, Zenon
<1> QED
  BY <1>2, SizeOfNone

LEMMA NextToRead ==
  ASSUME IInv, Reading
  PROVE  /\ line \in Seq(Lexemes) /\ at \in 0..Len(line) - 1 /\ Behind(q, at)
         /\ C = line[at + 1] /\ C \in Lexemes
<1>1. line \in Seq(Lexemes) /\ at \in 0..Len(line) - 1 /\ Behind(q, at)
  BY DEF IInv, Reading
<1> QED
  BY <1>1 DEF C, Here

LEMMA StepKeeps ==
  ASSUME IInv, Reading, NEW n \in Nat, NEW x, NEW out, Step(n, x, out),
         at + n <= Len(line) => Behind(q \o out, at + n)
  PROVE  IInv'
<1>1. UNCHANGED <<input, page, row, line>>
  BY DEF Step
<1>2. input' \in Inputs /\ page' \in 1..Len(Pages)' /\ row' \in 0..Len(Pages[page].lines)'
      /\ line' \in Seq(Lexemes)
  BY <1>1 DEF IInv, Pages
<1>3. ASSUME ~beyond'
      PROVE  at' \in 0..Len(line') /\ Behind(q, at)'
  <2>1. at \in Nat /\ Len(line) \in Nat
    BY NextToRead
  <2>2. at' = at + n /\ q' = q \o out
    BY DEF Step
  <2>3. ~(at + n > Len(line))
    BY <1>3, Zenon DEF Step
  <2>4. at + n <= Len(line)
    BY <2>1, <2>3
  <2>5. Behind(q \o out, at + n)
    BY <2>4
  <2> QED
    BY <1>1, <2>1, <2>2, <2>4, <2>5 DEF Behind
<1> QED
  BY <1>2, <1>3 DEF IInv

(* Up to three lexemes are left out.                                       *)
LEMMA SkipKeeps ==
  ASSUME IInv, Reading, NEW n \in 1..3, NEW x, Step(n, x, <<>>)
  PROVE  IInv'
<1>1. /\ line \in Seq(Lexemes) /\ at \in 0..Len(line) - 1 /\ Behind(q, at)
  BY NextToRead
<1>2. q \o <<>> = q
  BY <1>1 DEF Behind
<1>3. Behind(q, at + 1)
  BY <1>1, BehindAfterNone
<1>4. at + 2 <= Len(line) => Behind(q, at + 2)
  <2>1. ASSUME at + 2 <= Len(line)
        PROVE  Behind(q, (at + 1) + 1)
    BY <1>1, <1>3, <2>1, BehindAfterNone
  <2> QED
    BY <1>1, <2>1
<1>5. at + 3 <= Len(line) => Behind(q, at + 3)
  <2>1. ASSUME at + 3 <= Len(line)
        PROVE  Behind(q, (at + 2) + 1)
    BY <1>1, <1>4, <2>1, BehindAfterNone
  <2> QED
    BY <1>1, <2>1
<1>6. at + n <= Len(line) => Behind(q \o <<>>, at + n)
  BY <1>2, <1>3, <1>4, <1>5
<1>7. n \in Nat
  OBVIOUS
<1> QED
  BY <1>6, <1>7, StepKeeps, Zenon

(* One lexeme is replaced by one that is no longer.                        *)
LEMMA ReplaceKeeps ==
  ASSUME IInv, Reading, NEW x, NEW out, NoLonger(out, C), Step(1, x, out)
  PROVE  IInv'
<1>1. /\ line \in Seq(Lexemes) /\ at \in 0..Len(line) - 1 /\ Behind(q, at) /\ C = line[at + 1]
  BY NextToRead
<1>2. NoLonger(out, line[at + 1])
  BY <1>1
<1>3. Behind(q \o out, at + 1)
  BY <1>1, <1>2, BehindAfterOne
<1> QED
  BY <1>3, StepKeeps

LEMMA FilteredKeeps ==
  ASSUME IInv, Reading, NEW x, Filtered(x, at + 1, 0, <<>>)
  PROVE  IInv'
<1> DEFINE f == xml_attribute_filter(x.attribute, at + 1)
<1>1. /\ line \in Seq(Lexemes) /\ at \in 0..Len(line) - 1 /\ Behind(q, at)
  BY NextToRead
<1>2. PICK g : g = f
  OBVIOUS
<1>3. /\ g.last \in at + 1..at + 2
      /\ g.last <= Len(line) => g.out \in Seq(Written) /\ Behind(q \o g.out, g.last)
  BY <1>1, <1>2, BehindAfterFilter
<1>4. Step(g.last - at + 0, [x EXCEPT !.attribute = g.attribute], <<>> \o g.out)
  BY <1>2 DEF Filtered
<1> HIDE DEF f
<1>5. g.last - at + 0 \in Nat /\ at + (g.last - at + 0) = g.last
  BY <1>1, <1>3
<1>6. g.last <= Len(line) => Behind(q \o (<<>> \o g.out), g.last)
  <2>1. g.out \in Seq(Written) => <<>> \o g.out = g.out
    OBVIOUS
  <2> QED
    BY <1>3, <2>1
<1> QED
  BY <1>4, <1>5, <1>6, StepKeeps

(* A rule begins a line: what is written is as short as the bracket.       *)
LEMMA OpenTagKeeps == ASSUME IInv, OpenTag PROVE IInv'
<1>1. Reading
  BY DEF OpenTag, In
<1>2. /\ line \in Seq(Lexemes) /\ at \in 0..Len(line) - 1 /\ Behind(q, at)
      /\ C = line[at + 1] /\ C \in Lexemes
  BY <1>1, NextToRead
<1>3. \E x : Step(2, x, <<>>) \/ Step(2, x, <<"nl">>)
  BY Zenon DEF OpenTag
<1>4. ASSUME NEW x, Step(2, x, <<"nl">>)
      PROVE  IInv'
  <2>1. Width("nl") = 1 /\ "nl" \in Written
    BY DEF Width, Spaces, Written, Lexemes
  <2>2. Width(C) \in Nat \ {0}
    BY <1>2, LexemesAreWritten, StringLengths
  <2>3. NoLonger(<<"nl">>, line[at + 1])
    BY <1>2, <2>1, <2>2 DEF NoLonger
  <2>4. PICK s : s = q \o <<"nl">>
    OBVIOUS
  <2>5. Behind(s, at + 1)
    BY <1>2, <2>3, <2>4, BehindAfterOne
  <2>6. ASSUME at + 2 <= Len(line)
        PROVE  Behind(s, (at + 1) + 1)
    BY <1>2, <2>5, <2>6, BehindAfterNone
  <2>7. at + 2 <= Len(line) => Behind(q \o <<"nl">>, at + 2)
    BY <1>2, <2>4, <2>6
  <2> QED
    BY <1>1, <1>4, <2>7, StepKeeps
<1> QED
  BY <1>1, <1>3, <1>4, SkipKeeps

LEMMA CloseTagKeeps == ASSUME IInv, CloseTag PROVE IInv'
<1>1. Reading
  BY DEF CloseTag, In
<1>2. \E x : Step(2, x, <<>>)
  BY Zenon DEF CloseTag
<1> QED
  BY <1>1, <1>2, SkipKeeps

LEMMA CommentKeeps == ASSUME IInv, Comment PROVE IInv'
<1>1. Reading
  BY DEF Comment, In
<1>2. \E n \in 1..3, x \in {xml, To("CMNT")} : Step(n, x, <<>>)
  BY DEF Comment
<1> QED
  BY <1>1, <1>2, SkipKeeps

LEMMA DoubledKeeps == ASSUME IInv, Doubled PROVE IInv'
<1>1. Reading /\ C = "<"
  BY DEF Doubled, In
<1>2. CASE Step(2, xml, <<>>)
  BY <1>1, <1>2, SkipKeeps
<1>3. CASE \E out \in {<<"<">>, <<>>} : Step(1, xml, out)
  <2>1. "<" \in Lexemes
    BY DEF Lexemes
  <2>2. NoLonger(<<"<">>, C) /\ NoLonger(<<>>, C)
    BY <1>1, <2>1, ItselfIsNoLonger DEF NoLonger
  <2> QED
    BY <1>1, <1>3, <2>2, ReplaceKeeps
<1> QED
  BY <1>2, <1>3 DEF Doubled

LEMMA BogusKeeps == ASSUME IInv, Bogus PROVE IInv'
<1>1. Reading /\ Step(2, To("TAG"), <<>>)
  BY DEF Bogus, In
<1> QED
  BY <1>1, SkipKeeps

LEMMA TextKeeps == ASSUME IInv, Text PROVE IInv'
<1>1. Reading
  BY DEF Text, In
<1>2. C \in Lexemes
  BY <1>1, NextToRead
<1>3. NoLonger(<<>>, C) /\ NoLonger(<<C>>, C)
  BY <1>2, ItselfIsNoLonger DEF NoLonger
<1>4. C \in Entities => NoLonger(<<decode_html_entity[C]>>, C)
  BY EntityWidths DEF NoLonger
<1>5. \E out : Step(1, xml, out) /\ NoLonger(out, C)
  BY <1>3, <1>4 DEF Text
<1> QED
  BY <1>1, <1>5, ReplaceKeeps

LEMMA TagKeeps == ASSUME IInv, Tag PROVE IInv'
<1>1. Reading /\ \E x : Step(1, x, <<>>)
  BY Zenon DEF Tag, In
<1> QED
  BY <1>1, SkipKeeps

LEMMA BeforeValueKeeps ==
  ASSUME IInv, NEW s, NEW prefix, BeforeValue(s, prefix)
  PROVE  IInv'
<1>1. Reading
  BY DEF BeforeValue, In
<1>2. CASE \E x : Step(1, x, <<>>)
  BY <1>1, <1>2, SkipKeeps
<1>3. CASE \E x : Filtered(x, at + 1, 0, <<>>)
  BY <1>1, <1>3, FilteredKeeps
<1> QED
  BY <1>2, <1>3, Zenon DEF BeforeValue

LEMMA TagQuoteKeeps == ASSUME IInv, TagQuote PROVE IInv'
<1>1. Reading
  BY DEF TagQuote, In
<1>2. \E x : Step(1, x, <<>>) \/ Step(2, x, <<>>)
  BY Zenon DEF TagQuote
<1> QED
  BY <1>1, <1>2, SkipKeeps

LEMMA InCommentKeeps == ASSUME IInv, InComment PROVE IInv'
<1>1. Reading
  BY DEF InComment, In
<1>2. NoLonger(<<>>, C) /\ NoLonger(<<C>>, C)
  BY <1>1, NextToRead, ItselfIsNoLonger DEF NoLonger
<1>3. \E x, out : Step(1, x, out) /\ NoLonger(out, C)
  BY <1>2, Zenon DEF InComment
<1> QED
  BY <1>1, <1>3, ReplaceKeeps

(* A space or the bracket that ends a tag makes room for the mark.         *)
LEMMA MarkIsNoLonger ==
  ASSUME NEW c \in Lexemes
  PROVE  NoLonger(ATTRIBSEP, c) /\ NoLonger(Mark, c)
<1>1. "|" \in Written /\ Width("|") = 1
  BY StringLengths DEF Written
<1>2. Width(c) \in Nat \ {0}
  BY LexemesAreWritten, StringLengths
<1> QED
  BY <1>1, <1>2 DEF NoLonger, Mark, ATTRIBSEP

LEMMA NamesAreLong ==
  ASSUME NEW c, NEW following, Mines(c, following) # "no"
  PROVE  Width(c) >= 3
<1>1. c \in Events \cup UNION {Attributes[k] : k \in DOMAIN Attributes}
  <2>1. \/ c \in Events \/ c \in Attributes.SRC \/ c \in Attributes.FORM
        \/ c \in Attributes.ALT \/ c \in Attributes.ASTYLE
    BY DEF Mines
  <2>2. {"SRC", "FORM", "ALT", "ASTYLE"} \subseteq DOMAIN Attributes
    BY DEF Attributes
  <2> QED
    BY <2>1, <2>2
<1> QED
  BY <1>1, StringLengths

LEMMA XtagKeeps == ASSUME IInv, Xtag PROVE IInv'
<1>1. Reading
  BY DEF Xtag, In
<1>2. /\ line \in Seq(Lexemes) /\ at \in 0..Len(line) - 1 /\ Behind(q, at)
      /\ C = line[at + 1] /\ C \in Lexemes
  BY <1>1, NextToRead
<1>3. ASSUME NEW x, NEW a, Step(1, x, Printed(a, "t") \o Mark \o ATTRIBSEP), Width(C) >= 3
      PROVE  IInv'
  <2>1. PICK mark : mark = Mark
    OBVIOUS
  <2>2. mark \in {<<>>, ATTRIBSEP}
    BY <2>1 DEF Mark
  <2>3. Width(line[at + 1]) >= 3
    BY <1>2, <1>3
  <2>4. Behind(q \o (Printed(a, "t") \o mark \o ATTRIBSEP), at + 1)
    BY <1>2, <2>2, <2>3, BehindAfterName
  <2>5. PICK out : out = Printed(a, "t") \o mark \o ATTRIBSEP
    OBVIOUS
  <2>6. Behind(q \o out, at + 1) /\ Step(1, x, out)
    BY <1>3, <2>1, <2>4, <2>5
  <2> QED
    BY <1>1, <2>6, StepKeeps
<1>4. \/ \E x : Step(1, x, ATTRIBSEP)
      \/ \E x : Step(1, x, Mark)
      \/ \E x : Step(1, x, <<>>)
      \/ (\E x, a : Step(1, x, Printed(a, "t") \o Mark \o ATTRIBSEP)) /\ Mines(C, Here(at + 2)) # "no"
      \/ \E x : Filtered(x, at + 1, 0, <<>>)
  BY Zenon DEF Xtag
<1>5. NoLonger(ATTRIBSEP, C) /\ NoLonger(Mark, C)
  BY <1>2, MarkIsNoLonger
<1>6. CASE \E x : Step(1, x, ATTRIBSEP) \/ Step(1, x, Mark)
  BY <1>1, <1>5, <1>6, ReplaceKeeps
<1>7. CASE \E x : Step(1, x, <<>>)
  BY <1>1, <1>7, SkipKeeps
<1>8. CASE \E x : Filtered(x, at + 1, 0, <<>>)
  BY <1>1, <1>8, FilteredKeeps
<1>9. Mines(C, Here(at + 2)) # "no" => Width(C) >= 3
  BY NamesAreLong
<1> QED
  BY <1>3, <1>4, <1>6, <1>7, <1>8, <1>9, Zenon

(* A quote after a backslash is taken in the same step.                    *)
LEMMA XtagQuoteKeeps == ASSUME IInv, XtagQuote PROVE IInv'
<1> DEFINE ff == xml_attribute_filter(xml.attribute, at + 1)
<1>1. Reading
  BY DEF XtagQuote, In
<1>2. /\ line \in Seq(Lexemes) /\ at \in 0..Len(line) - 1 /\ Behind(q, at) /\ C \in Lexemes
  BY <1>1, NextToRead
<1>3. PICK f : f = ff
  OBVIOUS
<1>4. /\ f.last \in at + 1..at + 2
      /\ f.last <= Len(line) => f.out \in Seq(Written) /\ Behind(q \o f.out, f.last)
  BY <1>2, <1>3, BehindAfterFilter
<1>5. \/ \E x : Step(1, x, Mark)
      \/ \E x : Step(f.last - at, x, f.out)
      \/ (\E x : Filtered(x, f.last + 1, 0, f.out)) /\ Here(f.last) = "\\"
  BY <1>3, Zenon DEF XtagQuote
<1> HIDE DEF ff
<1>6. CASE \E x : Step(1, x, Mark)
  BY <1>1, <1>2, <1>6, MarkIsNoLonger, ReplaceKeeps
<1>7. CASE \E x : Step(f.last - at, x, f.out)
  <2>1. f.last - at \in Nat /\ at + (f.last - at) = f.last
    BY <1>2, <1>4
  <2> QED
    BY <1>1, <1>4, <1>7, <2>1, StepKeeps
<1>8. ASSUME NEW x, Filtered(x, f.last + 1, 0, f.out), Here(f.last) = "\\"
      PROVE  IInv'
  <2>1. f.last \in 1..Len(line)
    BY <1>8 DEF Here
  <2>2. f.out \in Seq(Written) /\ Behind(q \o f.out, f.last)
    BY <1>4, <2>1
  <2>3. PICK g : g = xml_attribute_filter(x.attribute, f.last + 1)
    OBVIOUS
  <2>4. Step(g.last - at + 0, [x EXCEPT !.attribute = g.attribute], f.out \o g.out)
    BY <1>8, <2>3 DEF Filtered
  <2>5. ASSUME f.last < Len(line)
        PROVE  /\ g.last \in f.last + 1..f.last + 2
               /\ g.last <= Len(line) => g.out \in Seq(Written) /\ Behind((q \o f.out) \o g.out, g.last)
    <3>1. f.last \in 0..Len(line) - 1
      BY <2>1, <2>5
    <3> QED
      BY <1>2, <2>2, <2>3, <3>1, BehindAfterFilter
  <2>6. g.last \in f.last + 1..f.last + 2
    BY <2>1, <2>3 DEF xml_attribute_filter
  <2>7. g.last - at + 0 \in Nat /\ at + (g.last - at + 0) = g.last
    BY <1>2, <1>4, <2>6
  <2>8. ASSUME g.last <= Len(line)
        PROVE  Behind(q \o (f.out \o g.out), g.last)
    <3>1. g.out \in Seq(Written) /\ Behind((q \o f.out) \o g.out, g.last)
      BY <2>1, <2>5, <2>6, <2>8
    <3>2. \A r, s, t \in Seq(Written) : (r \o s) \o t = r \o (s \o t)
      BY ConcatAssociative
    <3>3. q \in Seq(Written)
      BY <1>2 DEF Behind
    <3>4. (q \o f.out) \o g.out = q \o (f.out \o g.out)
      BY <2>2, <3>1, <3>2, <3>3, Zenon
    <3> QED
      BY <3>1, <3>4
  <2> QED
    BY <1>1, <2>4, <2>7, <2>8, StepKeeps
<1> QED
  BY <1>5, <1>6, <1>7, <1>8, Zenon

LEMMA NextLineKeeps == ASSUME IInv, NextLine PROVE IInv'
<1> DEFINE new == Pages[page].lines[row + 1]
<1>1. UNCHANGED <<input, page>> /\ row' = row + 1 /\ row < Len(Pages[page].lines)
  BY DEF NextLine
<1>2. line' = new /\ at' = 0 /\ q' = <<>>
  BY DEF NextLine
<1>3. Pages \in Seq(Page) /\ page \in 1..Len(Pages)
  BY XmlFilterAssumption DEF IInv, Pages
<1>4. Pages[page] \in Page
  BY <1>3
<1>5. Pages[page].lines \in Seq(Seq(Lexemes))
  BY <1>4 DEF Page
<1>6. row \in 0..Len(Pages[page].lines)
  BY DEF IInv
<1>7. row + 1 \in 1..Len(Pages[page].lines)
  BY <1>1, <1>5, <1>6
<1>8. new \in Seq(Lexemes)
  BY <1>5, <1>7
<1> HIDE DEF new
<1>9. Size(<<>>) <= Size(SubSeq(new, 1, 0))
  BY <1>8, BehindAtStart
<1>10. Behind(q, at)'
  BY <1>2, <1>9 DEF Behind
<1>11. at' \in 0..Len(line')
  BY <1>2, <1>8
<1>12. input' \in Inputs /\ page' \in 1..Len(Pages)' /\ row' \in 0..Len(Pages[page].lines)'
  BY <1>1, <1>7 DEF IInv, Pages
<1> QED
  BY <1>2, <1>8, <1>10, <1>11, <1>12 DEF IInv

LEMMA NextPageKeeps == ASSUME IInv, NextPage PROVE IInv'
<1>1. input' = input /\ page' = page + 1 /\ row' = 0 /\ line' = <<>> /\ at' = 0 /\ q' = <<>>
  BY DEF NextPage
<1>2. Pages \in Seq(Page) /\ page \in 1..Len(Pages) /\ page < Len(Pages)
  BY XmlFilterAssumption DEF IInv, Pages, NextPage
<1>3. page + 1 \in 1..Len(Pages)
  BY <1>2
<1>4. Pages[page + 1].lines \in Seq(Seq(Lexemes))
  <2>1. Pages[page + 1] \in Page
    BY <1>2, <1>3
  <2> QED
    BY <2>1 DEF Page
<1>5. 0 \in 0..Len(Pages[page + 1].lines)
  BY <1>4
<1>6. PICK e : e = <<>>
  OBVIOUS
<1>7. e \in Seq(Lexemes) /\ 0 \in 0..Len(e) /\ e \in Seq(Written)
  BY <1>6
<1>8. Size(e) <= Size(SubSeq(e, 1, 0))
  BY <1>6, <1>7, BehindAtStart
<1>9. Behind(q, at)'
  BY <1>1, <1>6, <1>7, <1>8 DEF Behind
<1> QED
  BY <1>1, <1>3, <1>5, <1>6, <1>7, <1>9 DEF IInv, Pages

-----------------------------------------------------------------------------
LEMMA InitKeeps == Init => IInv
<1> SUFFICES ASSUME Init
             PROVE  IInv
  OBVIOUS
<1>1. input \in Inputs /\ page = 1 /\ row = 0 /\ line = <<>> /\ at = 0 /\ q = <<>>
  BY DEF Init
<1>2. Pages \in Seq(Page) /\ Pages # <<>>
  BY <1>1, XmlFilterAssumption DEF Pages
<1>3. 1 \in 1..Len(Pages)
  BY <1>2
<1>4. Pages[1].lines \in Seq(Seq(Lexemes))
  <2>1. Pages[1] \in Page
    BY <1>2, <1>3
  <2> QED
    BY <2>1 DEF Page
<1>5. 0 \in 0..Len(Pages[1].lines)
  BY <1>4
<1>6. line \in Seq(Lexemes) /\ at \in 0..Len(line) /\ q \in Seq(Written)
  BY <1>1
<1>7. Size(line) <= Size(SubSeq(line, 1, 0))
  BY <1>1, <1>6, BehindAtStart
<1>8. Behind(q, at)
  BY <1>1, <1>6, <1>7 DEF Behind
<1> QED
  BY <1>1, <1>3, <1>5, <1>6, <1>8 DEF IInv

LEMMA NextKeeps == IInv /\ [Next]_vars => IInv'
<1> SUFFICES ASSUME IInv, [Next]_vars
             PROVE  IInv'
  OBVIOUS
<1>1. CASE UNCHANGED vars
  BY <1>1 DEF vars, IInv, Behind, Pages
<1>2. CASE OpenTag \/ CloseTag \/ Comment \/ Doubled \/ Bogus \/ Text
  BY <1>2, OpenTagKeeps, CloseTagKeeps, CommentKeeps, DoubledKeeps, BogusKeeps, TextKeeps
<1>3. CASE Tag \/ TagQuote \/ Xtag \/ XtagQuote \/ InComment
  BY <1>3, TagKeeps, TagQuoteKeeps, XtagKeeps, XtagQuoteKeeps, InCommentKeeps
<1>4. CASE TagValue \/ XtagValue
  BY <1>4, BeforeValueKeeps DEF TagValue, XtagValue
<1>5. CASE NextLine \/ NextPage
  BY <1>5, NextLineKeeps, NextPageKeeps
<1> QED
  BY <1>1, <1>2, <1>3, <1>4, <1>5 DEF Next, Done

(* xml_character_filter() rewrites the line in place through the pointers q *)
(* and line: whatever the options and the pages, q stays behind line, also  *)
(* where a mark, a decoded entity and the end of an attribute meet.         *)
THEOREM NeverOvertakes == Spec => []OutputBehindInput
<1>1. IInv => OutputBehindInput
  BY DEF IInv, OutputBehindInput, Behind
<1> QED
  BY <1>1, InitKeeps, NextKeeps, PTL DEF Spec
==============================================================================
