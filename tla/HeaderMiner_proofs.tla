-------------------------- MODULE HeaderMiner_proofs --------------------------
(***************************************************************************)
(* Proofs that hmine keeps every complete header once, whole and in its    *)
(* order; that the mailboxes its recognisers find lie in the line and in   *)
(* the text buffer; and that lists of them are printed whole, for any      *)
(* message.                                                                *)
(***************************************************************************)
EXTENDS HeaderMiner, FiniteSetTheorems, SequenceTheorems, WellFoundedInduction, TLAPS

(* A set of naturals has a smallest element. *)
LEMMA SmallestOfNat ==
  ASSUME NEW T, T \subseteq Nat, T # {}
  PROVE  \E m \in T : \A y \in T : ~(y < m)
<1> DEFINE R == {d \in Nat \X Nat : d[1] < d[2]}
<1>1. IsWellFoundedOn(R, Nat)
  <2>1. R = OpToRel(<, Nat)
    BY Zenon DEF OpToRel
  <2> QED
    BY <2>1, NatLessThanWellFounded, Zenon
<1>2. PICK m \in T : \A y \in T : <<y, m>> \notin R
  <2> HIDE DEF R
  <2> QED
    BY <1>1, WFMin
<1>3. \A y \in T : ~(y < m)
  BY <1>2
<1> QED
  BY <1>3

-----------------------------------------------------------------------------
(* FlattenSeq, one sequence at a time.                                     *)

IsFlat(g, s, n) == g = [m \in 1..n |-> IF m = 1 THEN s[m] ELSE g[m - 1] \o s[m]]

LEMMA FlatExtends ==
  ASSUME NEW s, NEW n \in Nat, NEW g, IsFlat(g, s, n)
  PROVE  \E h : IsFlat(h, s, n + 1)
<1> DEFINE new == IF n = 0 THEN s[1] ELSE g[n] \o s[n + 1]
           h == [m \in 1..n + 1 |-> IF m = n + 1 THEN new ELSE g[m]]
<1>1. \A m \in 1..n : g[m] = IF m = 1 THEN s[m] ELSE g[m - 1] \o s[m]
  BY DEF IsFlat
<1>2. \A m \in 1..n + 1 : h[m] = IF m = 1 THEN s[m] ELSE h[m - 1] \o s[m]
  <2> SUFFICES ASSUME NEW m \in 1..n + 1
               PROVE  h[m] = IF m = 1 THEN s[m] ELSE h[m - 1] \o s[m]
    OBVIOUS
  <2>1. CASE m = n + 1 /\ n = 0
    BY <2>1
  <2>2. CASE m = n + 1 /\ n # 0
    <3>1. h[m] = g[n] \o s[n + 1]
      BY <2>2
    <3>2. h[m - 1] = g[n] /\ m # 1
      BY <2>2
    <3> QED
      BY <2>2, <3>1, <3>2
  <2>3. CASE m \in 1..n
    <3>1. h[m] = g[m]
      BY <2>3
    <3>2. m # 1 => h[m - 1] = g[m - 1]
      BY <2>3
    <3> QED
      BY <1>1, <2>3, <3>1, <3>2
  <2> QED
    BY <2>1, <2>2, <2>3
<1>3. h = [m \in 1..n + 1 |-> h[m]]
  OBVIOUS
<1> HIDE DEF h
<1>4. h = [m \in 1..n + 1 |-> IF m = 1 THEN s[m] ELSE h[m - 1] \o s[m]]
  BY <1>2, <1>3
<1> QED
  BY <1>4 DEF IsFlat

LEMMA FlatExists ==
  ASSUME NEW s, NEW n \in Nat
  PROVE  \E g : IsFlat(g, s, n)
<1> DEFINE T == {m \in Nat : ~\E g : IsFlat(g, s, m)}
<1> SUFFICES ASSUME T # {}
             PROVE  FALSE
  OBVIOUS
<1>1. PICK m \in T : \A y \in T : ~(y < m)
  <2>1. T \subseteq Nat
    OBVIOUS
  <2> HIDE DEF T
  <2> QED
    BY <2>1, SmallestOfNat
<1>2. m # 0
  <2>1. PICK g : g = [i \in {} |-> 0]
    OBVIOUS
  <2>2. IsFlat(g, s, 0)
    BY <2>1 DEF IsFlat
  <2> QED
    BY <2>2
<1>3. m - 1 \in Nat
  BY <1>2
<1>4. PICK g : IsFlat(g, s, m - 1)
  BY <1>1, <1>3
<1>5. \E h : IsFlat(h, s, (m - 1) + 1)
  BY <1>3, <1>4, FlatExtends
<1> QED
  BY <1>3, <1>5

LEMMA FlatsAgree ==
  ASSUME NEW s, NEW t, NEW n \in Nat, NEW m \in Nat, NEW g, IsFlat(g, s, n), NEW h, IsFlat(h, t, m),
         NEW k \in 1..n, k <= m, \A i \in 1..k : s[i] = t[i]
  PROVE  g[k] = h[k]
<1> DEFINE T == {i \in 1..k : g[i] # h[i]}
<1> SUFFICES ASSUME T # {}
             PROVE  FALSE
  OBVIOUS
<1>1. PICK i \in T : \A j \in T : ~(j < i)
  <2>1. T \subseteq Nat
    OBVIOUS
  <2> HIDE DEF T
  <2> QED
    BY <2>1, SmallestOfNat
<1>2. g[i] = IF i = 1 THEN s[i] ELSE g[i - 1] \o s[i]
  <2>1. i \in 1..n
    OBVIOUS
  <2> QED
    BY <2>1 DEF IsFlat
<1>3. h[i] = IF i = 1 THEN t[i] ELSE h[i - 1] \o t[i]
  <2>1. i \in 1..m
    OBVIOUS
  <2> QED
    BY <2>1 DEF IsFlat
<1>4. s[i] = t[i]
  OBVIOUS
<1>5. i # 1
  BY <1>2, <1>3, <1>4
<1>6. g[i - 1] = h[i - 1]
  BY <1>1, <1>5
<1> QED
  BY <1>2, <1>3, <1>4, <1>5, <1>6

LEMMA FlattenIsFlat ==
  ASSUME NEW S, NEW s \in Seq(S), s # <<>>
  PROVE  \E g : IsFlat(g, s, Len(s)) /\ FlattenSeq(s) = g[Len(s)]
<1> DEFINE n == Len(s)
           f == CHOOSE g : IsFlat(g, s, n)
<1>1. n \in Nat /\ n # 0
  OBVIOUS
<1>2. IsFlat(f, s, n)
  BY <1>1, FlatExists
<1>3. FlattenSeq(s) = f[n]
  BY <1>1 DEF FlattenSeq, IsFlat
<1> HIDE DEF f
<1> QED
  BY <1>2, <1>3

LEMMA FlattenOne ==
  ASSUME NEW S, NEW s \in Seq(S), Len(s) = 1
  PROVE  FlattenSeq(s) = s[1]
<1>1. s # <<>>
  OBVIOUS
<1>2. PICK g : IsFlat(g, s, Len(s)) /\ FlattenSeq(s) = g[Len(s)]
  BY <1>1, FlattenIsFlat
<1> QED
  BY <1>2 DEF IsFlat

LEMMA FlattenOneMore ==
  ASSUME NEW S, NEW s \in Seq(S), NEW t \in Seq(S), s # <<>>, Len(t) = Len(s) + 1,
         \A i \in 1..Len(s) : t[i] = s[i]
  PROVE  FlattenSeq(t) = FlattenSeq(s) \o t[Len(t)]
<1>1. PICK g : IsFlat(g, s, Len(s)) /\ FlattenSeq(s) = g[Len(s)]
  BY FlattenIsFlat
<1>2. PICK h : IsFlat(h, t, Len(t)) /\ FlattenSeq(t) = h[Len(t)]
  <2>1. t # <<>>
    OBVIOUS
  <2> QED
    BY <2>1, FlattenIsFlat
<1>3. Len(s) \in 1..Len(s) /\ Len(t) \in Nat /\ Len(s) \in Nat /\ Len(t) = Len(s) + 1
  OBVIOUS
<1>4. h[Len(s)] = g[Len(s)]
  <2>1. Len(s) <= Len(t) /\ \A i \in 1..Len(s) : s[i] = t[i]
    BY <1>3
  <2> QED
    BY <1>1, <1>2, <1>3, <2>1, FlatsAgree
<1>5. h[Len(t)] = h[Len(t) - 1] \o t[Len(t)]
  <2>1. Len(t) \in 1..Len(t) /\ Len(t) # 1
    BY <1>3
  <2> QED
    BY <1>2, <2>1 DEF IsFlat
<1>6. Len(t) - 1 = Len(s)
  BY <1>3
<1> QED
  BY <1>1, <1>2, <1>4, <1>5, <1>6

-----------------------------------------------------------------------------

(* The headers of the first r lines of a message, as functions of both.    *)

Line == [field : Fields \cup {Empty}, text : Seq(Chars)]

HeadsOf(inp, r) ==
  {i \in 1..r : /\ i = 1 \/ inp[i].field # Continued
                /\ \A j \in 1..i : inp[j].field # Empty}
CompleteOf(inp, r) == {i \in HeadsOf(inp, r) : \E j \in HeadsOf(inp, r) : i < j}

Spans(inp, r, i, j) ==
  /\ \A k \in i + 1..j : inp[k].field = Continued
  /\ j = r \/ inp[j + 1].field # Continued
Folded(inp, i, j) == FlattenSeq([k \in 1..j - i + 1 |-> inp[i + k - 1].text])
TextFrom(inp, r, i) == Folded(inp, i, CHOOSE j \in i..r : Spans(inp, r, i, j))

InHeader(inp, r) == \A j \in 1..r : inp[j].field # Empty

(* A header ends at one line. *)
LEMMA TextIsFolded ==
  ASSUME NEW inp, NEW r \in Nat, NEW i \in 1..r, NEW j \in i..r, Spans(inp, r, i, j)
  PROVE  TextFrom(inp, r, i) = Folded(inp, i, j)
<1> DEFINE c == CHOOSE m \in i..r : Spans(inp, r, i, m)
<1>1. c \in i..r /\ Spans(inp, r, i, c)
  OBVIOUS
<1> HIDE DEF c
<1>2. ~(c < j)
  <2> SUFFICES ASSUME c < j
               PROVE  FALSE
    OBVIOUS
  <2>1. inp[c + 1].field = Continued
    <3>1. c + 1 \in i + 1..j
      BY <1>1
    <3> QED
      BY <3>1 DEF Spans
  <2>2. c # r
    BY <1>1
  <2> QED
    BY <1>1, <2>1, <2>2 DEF Spans
<1>3. ~(j < c)
  <2> SUFFICES ASSUME j < c
               PROVE  FALSE
    OBVIOUS
  <2>1. inp[j + 1].field = Continued
    <3>1. j + 1 \in i + 1..c
      BY <1>1
    <3> QED
      BY <1>1, <3>1 DEF Spans
  <2>2. j # r
    BY <1>1
  <2> QED
    BY <2>1, <2>2 DEF Spans
<1>4. c = j
  BY <1>1, <1>2, <1>3
<1> QED
  BY <1>4 DEF TextFrom, c

LEMMA SpanExists ==
  ASSUME NEW inp, NEW r \in Nat, NEW i \in 1..r
  PROVE  \E j \in i..r : Spans(inp, r, i, j)
<1> DEFINE T == {j \in i..r : j = r \/ inp[j + 1].field # Continued}
<1>1. T \subseteq Nat /\ r \in T
  OBVIOUS
<1>2. PICK j \in T : \A m \in T : ~(m < j)
  <2>1. T # {}
    BY <1>1
  <2> HIDE DEF T
  <2> QED
    BY <1>1, <2>1, SmallestOfNat
<1>3. ASSUME NEW k \in i + 1..j
      PROVE  inp[k].field = Continued
  <2>1. k - 1 \in i..r /\ k - 1 < j /\ k - 1 # r /\ (k - 1) + 1 = k
    BY <1>2
  <2>2. k - 1 \notin T
    BY <1>2, <2>1
  <2> QED
    BY <2>1, <2>2
<1> QED
  BY <1>2, <1>3 DEF Spans

(* A line that is read changes only the header that it continues.          *)
LEMMA TextStays ==
  ASSUME NEW inp, NEW r \in Nat, NEW i \in 1..r,
         (\E k \in i + 1..r : inp[k].field # Continued) \/ inp[r + 1].field # Continued
  PROVE  TextFrom(inp, r + 1, i) = TextFrom(inp, r, i)
<1>1. PICK j \in i..r : Spans(inp, r, i, j)
  BY SpanExists
<1>2. j # r \/ inp[j + 1].field # Continued
  BY <1>1 DEF Spans
<1>3. Spans(inp, r + 1, i, j)
  BY <1>1, <1>2 DEF Spans
<1>4. r + 1 \in Nat /\ i \in 1..r + 1 /\ j \in i..r + 1
  OBVIOUS
<1>5. TextFrom(inp, r + 1, i) = Folded(inp, i, j)
  BY <1>3, <1>4, TextIsFolded
<1>6. TextFrom(inp, r, i) = Folded(inp, i, j)
  BY <1>1, TextIsFolded
<1> QED
  BY <1>5, <1>6

LEMMA TextBegins ==
  ASSUME NEW inp \in Seq(Line), NEW r \in 0..Len(inp) - 1
  PROVE  TextFrom(inp, r + 1, r + 1) = inp[r + 1].text
<1> DEFINE s == [k \in 1..(r + 1) - (r + 1) + 1 |-> inp[(r + 1) + k - 1].text]
<1>1. Spans(inp, r + 1, r + 1, r + 1)
  BY DEF Spans
<1>2. r + 1 \in Nat /\ r + 1 \in 1..r + 1 /\ r + 1 \in r + 1..r + 1
  OBVIOUS
<1>3. TextFrom(inp, r + 1, r + 1) = Folded(inp, r + 1, r + 1)
  BY <1>1, <1>2, TextIsFolded
<1>4. s = [k \in 1..1 |-> inp[r + k].text]
  <2>1. (r + 1) - (r + 1) + 1 = 1 /\ \A k \in 1..1 : (r + 1) + k - 1 = r + k
    OBVIOUS
  <2> QED
    BY <2>1
<1>5. inp[r + 1].text \in Seq(Chars)
  <2>1. inp[r + 1] \in Line
    OBVIOUS
  <2> QED
    BY <2>1 DEF Line
<1>6. s \in Seq(Seq(Chars)) /\ Len(s) = 1 /\ s[1] = inp[r + 1].text
  BY <1>4, <1>5
<1> HIDE DEF s
<1>7. FlattenSeq(s) = inp[r + 1].text
  BY <1>6, FlattenOne
<1> QED
  BY <1>3, <1>7 DEF Folded, s

LEMMA TextContinues ==
  ASSUME NEW inp \in Seq(Line), NEW r \in 1..Len(inp) - 1, NEW i \in 1..r,
         \A k \in i + 1..r + 1 : inp[k].field = Continued
  PROVE  TextFrom(inp, r + 1, i) = TextFrom(inp, r, i) \o inp[r + 1].text
<1> DEFINE n == r - i + 1
           s == [k \in 1..n |-> inp[i + k - 1].text]
           t == [k \in 1..(r + 1) - i + 1 |-> inp[i + k - 1].text]
<1>1. TextFrom(inp, r, i) = Folded(inp, i, r)
  <2>1. Spans(inp, r, i, r) /\ r \in Nat /\ r \in i..r
    BY DEF Spans
  <2> QED
    BY <2>1, TextIsFolded
<1>2. TextFrom(inp, r + 1, i) = Folded(inp, i, r + 1)
  <2>1. Spans(inp, r + 1, i, r + 1) /\ r + 1 \in Nat /\ r + 1 \in i..r + 1 /\ i \in 1..r + 1
    BY DEF Spans
  <2> QED
    BY <2>1, TextIsFolded
<1>3. n \in Nat /\ n >= 1 /\ (r + 1) - i + 1 = n + 1
  OBVIOUS
<1>4. ASSUME NEW k \in 1..n + 1
      PROVE  inp[i + k - 1].text \in Seq(Chars)
  <2>1. i + k - 1 \in 1..Len(inp)
    OBVIOUS
  <2>2. inp[i + k - 1] \in Line
    BY <2>1
  <2> QED
    BY <2>2 DEF Line
<1>5. s \in Seq(Seq(Chars)) /\ Len(s) = n
  <2>1. ASSUME NEW k \in 1..n
        PROVE  inp[i + k - 1].text \in Seq(Chars)
    <3>1. k \in 1..n + 1
      BY <1>3
    <3> QED
      BY <1>4, <3>1
  <2> QED
    BY <1>3, <2>1
<1>6. t \in Seq(Seq(Chars)) /\ Len(t) = n + 1
  BY <1>3, <1>4
<1>7. \A k \in 1..Len(s) : t[k] = s[k]
  BY <1>3, <1>5
<1>8. t[Len(t)] = inp[r + 1].text
  <2>1. n + 1 \in 1..(r + 1) - i + 1 /\ i + (n + 1) - 1 = r + 1
    OBVIOUS
  <2> QED
    BY <1>6, <2>1
<1>9. s # <<>>
  BY <1>3, <1>5
<1> HIDE DEF n, s, t
<1>10. FlattenSeq(t) = FlattenSeq(s) \o t[Len(t)]
  BY <1>5, <1>6, <1>7, <1>9, FlattenOneMore
<1>11. Folded(inp, i, r) = FlattenSeq(s) /\ Folded(inp, i, r + 1) = FlattenSeq(t)
  BY DEF Folded, n, s, t
<1> QED
  BY <1>1, <1>2, <1>8, <1>10, <1>11

LEMMA HeadsStay ==
  ASSUME NEW inp, NEW r \in Nat,
         \/ ~InHeader(inp, r) \/ inp[r + 1].field = Empty
         \/ r # 0 /\ inp[r + 1].field = Continued
  PROVE  HeadsOf(inp, r + 1) = HeadsOf(inp, r)
<1>1. r + 1 \notin HeadsOf(inp, r + 1)
  BY DEF HeadsOf, InHeader
<1>2. \A i \in 1..r + 1 : i # r + 1 => i \in 1..r
  OBVIOUS
<1>3. \A i \in 1..r : i \in 1..r + 1
  OBVIOUS
<1> QED
  BY <1>1, <1>2, <1>3 DEF HeadsOf

LEMMA HeadAdded ==
  ASSUME NEW inp, NEW r \in Nat, InHeader(inp, r), inp[r + 1].field # Empty,
         r = 0 \/ inp[r + 1].field # Continued
  PROVE  HeadsOf(inp, r + 1) = HeadsOf(inp, r) \cup {r + 1}
<1>1. r + 1 \in HeadsOf(inp, r + 1)
  <2>1. \A j \in 1..r + 1 : inp[j].field # Empty
    BY DEF InHeader
  <2> QED
    BY <2>1 DEF HeadsOf
<1>2. \A i \in 1..r + 1 : i # r + 1 => i \in 1..r
  OBVIOUS
<1>3. \A i \in 1..r : i \in 1..r + 1
  OBVIOUS
<1> QED
  BY <1>1, <1>2, <1>3 DEF HeadsOf

LEMMA HeadsFinite ==
  ASSUME NEW inp, NEW r \in Nat
  PROVE  /\ HeadsOf(inp, r) \subseteq 1..r /\ IsFiniteSet(HeadsOf(inp, r))
         /\ CompleteOf(inp, r) \subseteq HeadsOf(inp, r) /\ IsFiniteSet(CompleteOf(inp, r))
<1>1. HeadsOf(inp, r) \subseteq 1..r /\ CompleteOf(inp, r) \subseteq HeadsOf(inp, r)
  BY DEF HeadsOf, CompleteOf
<1>2. IsFiniteSet(1..r)
  BY FS_Interval
<1> QED
  BY <1>1, <1>2, FS_Subset

-----------------------------------------------------------------------------
(* What the stack has to be, and the line that is collected.               *)

IsStack(s) == \E S : s \in Seq(S) /\ \A h \in S : {"field", "text"} \subseteq DOMAIN h

Place(inp, r, i) == Cardinality({j \in CompleteOf(inp, r) : j <= i})

Whole(inp, r, stack) ==
  /\ Len(stack) = Cardinality(CompleteOf(inp, r))
  /\ \A i \in CompleteOf(inp, r) :
       /\ stack[Place(inp, r, i)].field = inp[i].field
       /\ stack[Place(inp, r, i)].text = TextFrom(inp, r, i)

IsLast(inp, r, i) == i \in HeadsOf(inp, r) /\ \A j \in HeadsOf(inp, r) : j <= i

Collected(inp, r, f, l) ==
  IF r = 0 THEN f = NoLine /\ l = <<>>
  ELSE \E i \in 1..r : IsLast(inp, r, i) /\ f = inp[i].field /\ l = TextFrom(inp, r, i)

(* A header that is complete no longer changes. *)
LEMMA CompleteStays ==
  ASSUME NEW inp, NEW r \in Nat, NEW i \in CompleteOf(inp, r)
  PROVE  TextFrom(inp, r + 1, i) = TextFrom(inp, r, i)
<1>1. PICK j \in HeadsOf(inp, r) : i < j
  BY DEF CompleteOf
<1>2. i \in 1..r /\ j \in 1..r /\ inp[j].field # Continued
  BY <1>1 DEF CompleteOf, HeadsOf
<1>3. j \in i + 1..r
  BY <1>1, <1>2
<1> QED
  BY <1>2, <1>3, TextStays

LEMMA WholeStays ==
  ASSUME NEW inp, NEW r \in Nat, NEW stack, Whole(inp, r, stack),
         CompleteOf(inp, r + 1) = CompleteOf(inp, r)
  PROVE  Whole(inp, r + 1, stack)
<1>1. \A i \in CompleteOf(inp, r) : TextFrom(inp, r + 1, i) = TextFrom(inp, r, i)
  BY CompleteStays
<1> QED
  BY <1>1 DEF Whole, Place

LEMMA PlaceInStack ==
  ASSUME NEW inp, NEW r \in Nat, NEW S, NEW stack \in Seq(S), Whole(inp, r, stack),
         NEW i \in CompleteOf(inp, r)
  PROVE  Place(inp, r, i) \in 1..Len(stack)
<1> DEFINE P == {j \in CompleteOf(inp, r) : j <= i}
<1>1. P \subseteq CompleteOf(inp, r) /\ IsFiniteSet(CompleteOf(inp, r))
  BY HeadsFinite
<1>2. IsFiniteSet(P) /\ Cardinality(P) <= Cardinality(CompleteOf(inp, r))
  BY <1>1, FS_Subset
<1>3. i \in P
  BY HeadsFinite
<1>4. Cardinality(P) # 0
  BY <1>2, <1>3, FS_EmptySet
<1>5. Cardinality(P) \in Nat /\ Cardinality(CompleteOf(inp, r)) \in Nat
  BY <1>1, <1>2, FS_CardinalityType
<1>6. Cardinality(P) \in 1..Len(stack)
  BY <1>2, <1>4, <1>5 DEF Whole
<1> QED
  BY <1>6 DEF Place

(* The buffer moves: the stack says the same of headers that may be gone.  *)
LEMMA WholeMoved ==
  ASSUME NEW inp, NEW r \in Nat, NEW stack, IsStack(stack),
         NEW moved, moved = [i \in DOMAIN stack |-> [stack[i] EXCEPT !.live = FALSE]]
  PROVE  IsStack(moved) /\ (Whole(inp, r, stack) => Whole(inp, r, moved))
<1>0. PICK S : stack \in Seq(S) /\ \A h \in S : {"field", "text"} \subseteq DOMAIN h
  BY DEF IsStack
<1> DEFINE M == {[stack[i] EXCEPT !.live = FALSE] : i \in DOMAIN stack}
<1>1. /\ moved \in Seq(M) /\ Len(moved) = Len(stack)
      /\ \A h \in M : {"field", "text"} \subseteq DOMAIN h
  BY <1>0
<1>2. Whole(inp, r, stack) => \A i \in CompleteOf(inp, r) : Place(inp, r, i) \in DOMAIN stack
  BY <1>0, PlaceInStack
<1>3. \A p \in DOMAIN stack : moved[p].field = stack[p].field /\ moved[p].text = stack[p].text
  BY <1>0
<1>4. IsStack(moved)
  BY <1>1 DEF IsStack
<1>5. Whole(inp, r, stack) => Whole(inp, r, moved)
  BY <1>1, <1>2, <1>3 DEF Whole
<1> QED
  BY <1>4, <1>5

LEMMA PushedIsStack ==
  ASSUME NEW stack, IsStack(stack), NEW h, {"field", "text"} \subseteq DOMAIN h
  PROVE  IsStack(Append(stack, h))
<1>1. PICK S : stack \in Seq(S) /\ \A g \in S : {"field", "text"} \subseteq DOMAIN g
  BY DEF IsStack
<1>2. PICK pushed : pushed = Append(stack, h)
  OBVIOUS
<1>3. pushed \in Seq(S \cup {h})
  <2>1. stack \in Seq(S \cup {h})
    BY <1>1
  <2> QED
    BY <1>2, <2>1
<1> QED
  BY <1>1, <1>2, <1>3 DEF IsStack

(* The last header is complete when another begins, and takes the place    *)
(* after those that were complete before.                                  *)
LEMMA WholePushed ==
  ASSUME NEW inp, NEW r \in Nat, InHeader(inp, r), r # 0,
         inp[r + 1].field # Empty, inp[r + 1].field # Continued,
         NEW last \in 1..r, IsLast(inp, r, last),
         NEW stack, IsStack(stack), Whole(inp, r, stack),
         NEW h, {"field", "text"} \subseteq DOMAIN h, h.field = inp[last].field,
         h.text = TextFrom(inp, r, last), NEW pushed, pushed = Append(stack, h)
  PROVE  IsStack(pushed) /\ Whole(inp, r + 1, pushed)
<1> DEFINE D == CompleteOf(inp, r)
           E == CompleteOf(inp, r + 1)
           n == Cardinality(D)
<1>1. PICK S : stack \in Seq(S) /\ \A g \in S : {"field", "text"} \subseteq DOMAIN g
  BY DEF IsStack
<1>2. IsStack(pushed)
  BY PushedIsStack
<1>3. HeadsOf(inp, r + 1) = HeadsOf(inp, r) \cup {r + 1} /\ HeadsOf(inp, r) \subseteq 1..r
  BY HeadAdded, HeadsFinite
<1>4. E = HeadsOf(inp, r)
  <2>1. \A i \in HeadsOf(inp, r) : i < r + 1
    BY <1>3
  <2>2. \A i \in HeadsOf(inp, r) \cup {r + 1} : ~(r + 1 < i)
    BY <1>3
  <2>3. E = {i \in HeadsOf(inp, r) \cup {r + 1} : \E j \in HeadsOf(inp, r) \cup {r + 1} : i < j}
    BY <1>3, Zenon DEF CompleteOf
  <2> HIDE DEF E
  <2> QED
    BY <2>1, <2>2, <2>3
<1>5. /\ HeadsOf(inp, r) = D \cup {last} /\ last \notin D /\ \A i \in D : i < last
      /\ \A i \in D \cup {last} : i \in 1..r
  BY <1>3 DEF CompleteOf, IsLast
<1>6. E = D \cup {last}
  BY <1>4, <1>5
<1>7. IsFiniteSet(D) /\ n \in Nat /\ Cardinality(E) = n + 1
  <2>1. IsFiniteSet(D)
    BY HeadsFinite
  <2> HIDE DEF D, E
  <2> QED
    BY <1>5, <1>6, <2>1, FS_AddElement, FS_CardinalityType
<1>8. Len(stack) = n
  BY DEF Whole
<1>9. ASSUME NEW i \in E
      PROVE  TextFrom(inp, r + 1, i) = TextFrom(inp, r, i)
  <2>1. i \in 1..r
    BY <1>5, <1>6
  <2> QED
    BY <2>1, TextStays
<1>10. Place(inp, r + 1, last) = n + 1
  <2>1. {j \in E : j <= last} = E
    <3>1. \A j \in E : j <= last
      BY <1>5, <1>6
    <3> HIDE DEF E
    <3> QED
      BY <3>1
  <2> QED
    BY <1>7, <2>1 DEF Place
<1>11. ASSUME NEW i \in D
       PROVE  Place(inp, r + 1, i) = Place(inp, r, i)
  <2>1. ~(last <= i)
    BY <1>5
  <2>2. {j \in E : j <= i} = {j \in D : j <= i}
    <3> HIDE DEF D, E
    <3> QED
      BY <1>6, <2>1
  <2> QED
    BY <2>2 DEF Place
<1>12. Len(pushed) = n + 1 /\ pushed[n + 1] = h /\ \A p \in 1..n : pushed[p] = stack[p]
  BY <1>1, <1>7, <1>8
<1>13. \A i \in D : Place(inp, r, i) \in 1..n
  BY <1>1, <1>8, PlaceInStack
<1>14. ASSUME NEW i \in E
       PROVE  /\ pushed[Place(inp, r + 1, i)].field = inp[i].field
              /\ pushed[Place(inp, r + 1, i)].text = TextFrom(inp, r + 1, i)
  <2>1. CASE i = last
    BY <1>9, <1>10, <1>12, <2>1
  <2>2. CASE i \in D
    <3>1. stack[Place(inp, r, i)].field = inp[i].field /\ stack[Place(inp, r, i)].text = TextFrom(inp, r, i)
      BY <2>2 DEF Whole
    <3>2. pushed[Place(inp, r + 1, i)] = stack[Place(inp, r, i)]
      BY <1>11, <1>12, <1>13, <2>2
    <3> QED
      BY <1>9, <3>1, <3>2
  <2> QED
    BY <1>6, <2>1, <2>2
<1> QED
  BY <1>2, <1>7, <1>12, <1>14 DEF Whole

(* The line that is collected.                                             *)
LEMMA NewIsCollected ==
  ASSUME NEW inp \in Seq(Line), NEW r \in 0..Len(inp) - 1, InHeader(inp, r),
         inp[r + 1].field # Empty, r = 0 \/ inp[r + 1].field # Continued
  PROVE  Collected(inp, r + 1, inp[r + 1].field, inp[r + 1].text)
<1>1. HeadsOf(inp, r + 1) = HeadsOf(inp, r) \cup {r + 1} /\ HeadsOf(inp, r) \subseteq 1..r
  BY HeadAdded, HeadsFinite
<1>2. IsLast(inp, r + 1, r + 1)
  BY <1>1 DEF IsLast
<1>3. TextFrom(inp, r + 1, r + 1) = inp[r + 1].text
  BY TextBegins
<1>4. r + 1 \in 1..r + 1 /\ r + 1 # 0
  OBVIOUS
<1> QED
  BY <1>2, <1>3, <1>4 DEF Collected

LEMMA FoldIsCollected ==
  ASSUME NEW inp \in Seq(Line), NEW r \in 1..Len(inp) - 1, InHeader(inp, r),
         inp[r + 1].field = Continued, NEW f, NEW l, Collected(inp, r, f, l)
  PROVE  Collected(inp, r + 1, f, l \o inp[r + 1].text)
<1>1. PICK i \in 1..r : IsLast(inp, r, i) /\ f = inp[i].field /\ l = TextFrom(inp, r, i)
  BY DEF Collected
<1>2. HeadsOf(inp, r + 1) = HeadsOf(inp, r)
  BY HeadsStay
<1>3. ASSUME NEW k \in i + 1..r + 1
      PROVE  inp[k].field = Continued
  <2>1. CASE k = r + 1
    BY <2>1
  <2>2. CASE k # r + 1 /\ inp[k].field # Continued
    <3>1. k \in 1..r /\ ~(k <= i)
      BY <2>2
    <3>2. \A j \in 1..k : inp[j].field # Empty
      BY <3>1 DEF InHeader
    <3>3. k \in HeadsOf(inp, r)
      BY <2>2, <3>1, <3>2 DEF HeadsOf
    <3> QED
      BY <1>1, <3>1, <3>3 DEF IsLast
  <2> QED
    BY <2>1, <2>2
<1>4. TextFrom(inp, r + 1, i) = TextFrom(inp, r, i) \o inp[r + 1].text
  BY <1>3, TextContinues
<1>5. IsLast(inp, r + 1, i)
  BY <1>1, <1>2 DEF IsLast
<1>6. i \in 1..r + 1 /\ r + 1 # 0
  OBVIOUS
<1> QED
  BY <1>1, <1>4, <1>5, <1>6 DEF Collected

LEMMA InHeaderNext ==
  ASSUME NEW inp, NEW r \in Nat
  PROVE  InHeader(inp, r + 1) <=> InHeader(inp, r) /\ inp[r + 1].field # Empty
<1>1. \A j \in 1..r + 1 : j \in 1..r \/ j = r + 1
  OBVIOUS
<1>2. (\A j \in 1..r : j \in 1..r + 1) /\ r + 1 \in 1..r + 1
  OBVIOUS
<1> QED
  BY <1>1, <1>2 DEF InHeader

LEMMA NoLineIsNone == NoLine \notin Fields \cup {Empty}
BY DEF NoLine, Fields, Empty, Continued, Printable, AddressLists, MailboxLists, Mailboxes

LEMMA FieldIsKnown ==
  ASSUME NEW inp \in Seq(Line), NEW r \in 0..Len(inp), NEW f, NEW l, Collected(inp, r, f, l)
  PROVE  f = NoLine <=> r = 0
<1>1. ASSUME r # 0
      PROVE  f # NoLine
  <2>1. PICK i \in 1..r : f = inp[i].field
    BY <1>1 DEF Collected
  <2>2. inp[i] \in Line
    OBVIOUS
  <2>3. f \in Fields \cup {Empty}
    BY <2>1, <2>2 DEF Line
  <2> QED
    BY <2>3, NoLineIsNone
<1> QED
  BY <1>1 DEF Collected

LEMMA MadeIsHeader ==
  ASSUME NEW f, NEW l, NEW h \in Made(f, l)
  PROVE  {"field", "text"} \subseteq DOMAIN h /\ h.field = f /\ h.text = l
BY DEF Made

-----------------------------------------------------------------------------
(* The inductive invariant.                                                *)

IInv ==
  /\ input \in Inputs /\ read \in 0..Len(input)
  /\ in_header \in BOOLEAN
  /\ ~in_header => ~InHeader(input, read)
  /\ IsStack(hlines)
  /\ pc \notin {"hung", "overrun"} /\ mem = "fine" => Whole(input, read, hlines)
  /\ pc = "read" /\ in_header =>
       InHeader(input, read) /\ (mem = "fine" => Collected(input, read, field, line))

(* The text buffer grows: the stack stays as it is or loses its texts.     *)
LEMMA AppendKeepsStack ==
  ASSUME NEW stack, IsStack(stack), NEW inp, NEW r \in Nat,
         NEW l, NEW intact, head_append_hline(l, stack, intact)
  PROVE  IsStack(hlines') /\ (Whole(inp, r, stack) => Whole(inp, r, hlines'))
<1> DEFINE m == [i \in DOMAIN stack |-> [stack[i] EXCEPT !.live = FALSE]]
<1>1. hlines' = stack \/ hlines' = m
  BY DEF head_append_hline
<1>2. PICK moved : moved = m
  OBVIOUS
<1>3. IsStack(moved) /\ (Whole(inp, r, stack) => Whole(inp, r, moved))
  BY <1>2, WholeMoved
<1> HIDE DEF m
<1> QED
  BY <1>1, <1>2, <1>3

(* A line is kept only if the buffer has room for it; the memory asked for *)
(* was given until now only if it was before.                              *)
LEMMA AppendIntact ==
  ASSUME NEW l, NEW stack, NEW intact \in BOOLEAN, head_append_hline(l, stack, intact), mem' = "fine"
  PROVE  /\ intact
         /\ line' = IF l.field = Continued THEN line \o l.text ELSE l.text
         /\ field' = IF l.field = Continued /\ field # NoLine THEN field ELSE l.field
BY DEF head_append_hline

(* What is not the whole of the message any more need not be so again.     *)
LEMMA LostKeeps ==
  ASSUME IInv, GetLine, in_header, NextLine.field # Empty, UNCHANGED <<input, in_header>>,
         IsStack(hlines'), mem' # "fine"
  PROVE  IInv'
<1>1. PICK inp, r : inp = input /\ r = read
  OBVIOUS
<1>2. inp \in Seq(Line) /\ r \in 0..Len(inp) - 1 /\ r \in Nat /\ read' = r + 1 /\ pc = "read"
  <2>1. input \in Seq(Line) /\ read \in 0..Len(input)
    BY InputsAssumption DEF IInv, Line
  <2> QED
    BY <1>1, <2>1 DEF GetLine
<1>3. InHeader(inp, r) /\ inp[r + 1].field # Empty
  BY <1>1, <1>2 DEF IInv, NextLine
<1>4. InHeader(inp, r + 1) /\ r + 1 \in 0..Len(inp)
  BY <1>2, <1>3, InHeaderNext
<1> QED
  BY <1>1, <1>2, <1>4 DEF IInv

LEMMA CollectLineKeeps == ASSUME IInv, CollectLine, mem' = "fine" PROVE IInv'
<1>1. PICK inp, r, f, l : inp = input /\ r = read /\ f = field /\ l = line
  OBVIOUS
<1>2. /\ inp \in Seq(Line) /\ r \in 0..Len(inp) - 1 /\ r \in Nat
      /\ read' = r + 1 /\ input' = inp /\ pc = "read" /\ UNCHANGED <<input, in_header, pc>>
      /\ in_header
  <2>1. input \in Seq(Line) /\ read \in 0..Len(input)
    BY InputsAssumption DEF IInv, Line
  <2> QED
    BY <1>1, <2>1 DEF CollectLine, GetLine
<1>4. /\ inp[r + 1].field # Empty
      /\ head_append_hline(inp[r + 1], hlines, mem = "fine")
  BY <1>1 DEF CollectLine, NextLine
<1>12. /\ mem = "fine" /\ (f = NoLine \/ inp[r + 1].field = Continued)
       /\ line' = IF inp[r + 1].field = Continued THEN l \o inp[r + 1].text ELSE inp[r + 1].text
       /\ field' = IF inp[r + 1].field = Continued /\ f # NoLine THEN f ELSE inp[r + 1].field
  <2>1. (mem = "fine") \in BOOLEAN
    OBVIOUS
  <2>2. mem = "fine"
    BY <1>4, <2>1, AppendIntact
  <2>3. f = NoLine \/ inp[r + 1].field = Continued
    BY <1>1, <2>2 DEF CollectLine, Completes, NextLine
  <2> QED
    BY <1>1, <1>4, <2>1, <2>2, <2>3, AppendIntact
<1>3. InHeader(inp, r) /\ Collected(inp, r, f, l) /\ Whole(inp, r, hlines) /\ IsStack(hlines)
  BY <1>1, <1>2, <1>12 DEF IInv
<1>5. f = NoLine <=> r = 0
  BY <1>2, <1>3, FieldIsKnown
<1>6. CompleteOf(inp, r + 1) = CompleteOf(inp, r)
  <2>1. CASE r = 0
    <3>1. HeadsOf(inp, 1) \subseteq {1} /\ HeadsOf(inp, 0) = {}
      BY DEF HeadsOf
    <3> QED
      BY <2>1, <3>1 DEF CompleteOf
  <2>2. CASE r # 0
    <3>1. HeadsOf(inp, r + 1) = HeadsOf(inp, r)
      BY <1>2, <1>4, <1>5, <1>12, <2>2, HeadsStay
    <3> QED
      BY <3>1 DEF CompleteOf
  <2> QED
    BY <2>1, <2>2
<1>7. Whole(inp, r + 1, hlines)
  BY <1>2, <1>3, <1>6, WholeStays
<1>8. IsStack(hlines') /\ Whole(inp, r + 1, hlines')
  <2>1. PICK stack : stack = hlines
    OBVIOUS
  <2>2. r + 1 \in Nat
    BY <1>2
  <2> QED
    BY <1>3, <1>4, <1>7, <2>1, <2>2, AppendKeepsStack
<1>9. InHeader(inp, r + 1)
  BY <1>2, <1>3, <1>4, InHeaderNext
<1>10. Collected(inp, r + 1, field', line')
  <2>1. CASE r = 0
    <3>1. inp[r + 1] \in Line
      BY <1>2
    <3>2. inp[r + 1].text \in Seq(Chars)
      BY <3>1 DEF Line
    <3>3. l = <<>> /\ f = NoLine
      BY <1>3, <2>1 DEF Collected
    <3>4. <<>> \o inp[r + 1].text = inp[r + 1].text
      BY <3>2
    <3>5. field' = inp[r + 1].field /\ line' = inp[r + 1].text
      BY <1>12, <3>3, <3>4
    <3>6. Collected(inp, r + 1, inp[r + 1].field, inp[r + 1].text)
      BY <1>2, <1>3, <1>4, <2>1, NewIsCollected
    <3> QED
      BY <3>5, <3>6
  <2>2. CASE r # 0
    <3>1. r \in 1..Len(inp) - 1 /\ inp[r + 1].field = Continued /\ f # NoLine
      BY <1>2, <1>12, <1>5, <2>2
    <3>2. field' = f /\ line' = l \o inp[r + 1].text
      BY <1>12, <3>1
    <3>3. Collected(inp, r + 1, f, l \o inp[r + 1].text)
      BY <1>2, <1>3, <3>1, FoldIsCollected
    <3> QED
      BY <3>2, <3>3
  <2> QED
    BY <2>1, <2>2
<1>11. r + 1 \in 0..Len(inp)
  BY <1>2
<1> QED
  BY <1>1, <1>2, <1>8, <1>9, <1>10, <1>11 DEF IInv

LEMMA CompleteLineKeeps == ASSUME IInv, CompleteLine, mem' = "fine" PROVE IInv'
<1>1. PICK inp, r, f, l : inp = input /\ r = read /\ f = field /\ l = line
  OBVIOUS
<1>2. /\ inp \in Seq(Line) /\ r \in 0..Len(inp) - 1 /\ r \in Nat
      /\ read' = r + 1 /\ pc = "read" /\ UNCHANGED <<input, in_header>> /\ in_header
  <2>1. input \in Seq(Line) /\ read \in 0..Len(input)
    BY InputsAssumption DEF IInv, Line
  <2> QED
    BY <1>1, <2>1 DEF CompleteLine, GetLine
<1>10. \/ pc' = "hung" /\ hlines' = hlines /\ mem' = mem
       \/ \E stack \in head_push_header :
            head_append_hline(inp[r + 1], stack, mem = "fine") /\ pc' = pc
  BY <1>1 DEF CompleteLine, NextLine
<1>11. mem = "fine"
  <2>1. (mem = "fine") \in BOOLEAN
    OBVIOUS
  <2> QED
    BY <1>10, <2>1, AppendIntact
<1>3. InHeader(inp, r) /\ Collected(inp, r, f, l) /\ Whole(inp, r, hlines) /\ IsStack(hlines)
  BY <1>1, <1>2, <1>11 DEF IInv
<1>4. inp[r + 1].field # Empty /\ f # NoLine /\ inp[r + 1].field # Continued
  BY <1>1 DEF CompleteLine, Completes, NextLine
<1>5. r # 0
  BY <1>2, <1>3, <1>4, FieldIsKnown
<1>6. r + 1 \in 0..Len(inp) /\ r + 1 \in Nat
  BY <1>2
<1>7. CASE pc' = "hung" /\ hlines' = hlines
  BY <1>1, <1>2, <1>3, <1>6, <1>7 DEF IInv
<1>8. ASSUME NEW stack \in head_push_header, head_append_hline(inp[r + 1], stack, mem = "fine"), pc' = pc
      PROVE  IInv'
  <2>1. PICK h \in Made(f, l) : stack = Append(hlines, h)
    BY <1>1, <1>8 DEF head_push_header
  <2>2. {"field", "text"} \subseteq DOMAIN h /\ h.field = f /\ h.text = l
    BY <2>1, MadeIsHeader
  <2>3. PICK last \in 1..r : IsLast(inp, r, last) /\ f = inp[last].field /\ l = TextFrom(inp, r, last)
    BY <1>3, <1>5 DEF Collected
  <2>4. PICK old, new : old = hlines /\ new = stack
    OBVIOUS
  <2>5. IsStack(old) /\ Whole(inp, r, old) /\ new = Append(old, h)
    BY <1>3, <2>1, <2>4
  <2>6. IsStack(new) /\ Whole(inp, r + 1, new)
    <3>1. h.field = inp[last].field /\ h.text = TextFrom(inp, r, last)
      BY <2>2, <2>3
    <3> QED
      BY <1>2, <1>3, <1>4, <1>5, <2>2, <2>3, <2>5, <3>1, WholePushed
  <2>7. head_append_hline(inp[r + 1], new, mem = "fine")
    BY <1>8, <2>4
  <2>8. IsStack(hlines') /\ Whole(inp, r + 1, hlines')
    BY <1>6, <2>6, <2>7, AppendKeepsStack
  <2>9. field' = inp[r + 1].field /\ line' = inp[r + 1].text
    <3>1. (mem = "fine") \in BOOLEAN
      OBVIOUS
    <3> QED
      BY <1>4, <1>8, <3>1, AppendIntact
  <2>10. Collected(inp, r + 1, inp[r + 1].field, inp[r + 1].text)
    BY <1>2, <1>3, <1>4, NewIsCollected
  <2>11. InHeader(inp, r + 1)
    BY <1>2, <1>3, <1>4, InHeaderNext
  <2> QED
    BY <1>1, <1>2, <1>6, <1>8, <2>8, <2>9, <2>10, <2>11 DEF IInv
<1> QED
  BY <1>7, <1>8, <1>10

(* A line or a header is left out.                                         *)
LEMMA LineLostKeeps ==
  ASSUME IInv, CollectLine \/ CompleteLine \/ LeaveHeaderOut, mem' # "fine"
  PROVE  IInv'
<1>1. /\ GetLine /\ in_header /\ NextLine.field # Empty /\ UNCHANGED <<input, in_header>>
      /\ IsStack(hlines)
  BY DEF IInv, CollectLine, CompleteLine, LeaveHeaderOut
<1>2. ASSUME NEW stack, IsStack(stack), NEW l, NEW intact, head_append_hline(l, stack, intact)
      PROVE  IInv'
  <2>1. PICK inp, r : inp = <<>> /\ r = 0
    OBVIOUS
  <2>2. r \in Nat
    BY <2>1
  <2>3. IsStack(hlines')
    BY <1>2, <2>2, AppendKeepsStack
  <2> QED
    BY <1>1, <2>3, LostKeeps
<1>3. CASE CollectLine \/ LeaveHeaderOut
  BY <1>1, <1>2, <1>3 DEF CollectLine, LeaveHeaderOut
<1>4. CASE CompleteLine
  <2>1. CASE hlines' = hlines
    <3>1. IsStack(hlines')
      BY <1>1, <2>1
    <3> QED
      BY <1>1, <3>1, LostKeeps
  <2>2. ASSUME NEW stack \in head_push_header, head_append_hline(NextLine, stack, mem = "fine")
        PROVE  IInv'
    <3>1. PICK h \in Made(field, line) : stack = Append(hlines, h)
      BY <2>2 DEF head_push_header
    <3>2. {"field", "text"} \subseteq DOMAIN h
      BY MadeIsHeader
    <3>3. IsStack(stack)
      <4>1. PICK old, new : old = hlines /\ new = stack
        OBVIOUS
      <4>2. IsStack(old) /\ new = Append(old, h)
        BY <1>1, <3>1, <4>1
      <4>3. IsStack(new)
        BY <3>2, <4>2, PushedIsStack
      <4> QED
        BY <4>1, <4>3
    <3> QED
      BY <1>2, <2>2, <3>3
  <2> QED
    BY <1>4, <2>1, <2>2 DEF CompleteLine
<1> QED
  BY <1>3, <1>4

(* The empty line and the lines of the body.                               *)
LEMMA BodyKeeps == ASSUME IInv, EndHeader \/ SkipBody PROVE IInv'
<1>1. PICK inp, r : inp = input /\ r = read
  OBVIOUS
<1>2. /\ inp \in Seq(Line) /\ r \in 0..Len(inp) - 1 /\ r \in Nat
      /\ read' = r + 1 /\ pc = "read" /\ UNCHANGED <<input, hlines, mem, pc>> /\ in_header' = FALSE
  <2>1. input \in Seq(Line) /\ read \in 0..Len(input)
    BY InputsAssumption DEF IInv, Line
  <2> QED
    BY <1>1, <2>1 DEF EndHeader, SkipBody, GetLine, IInv
<1>3. inp[r + 1].field = Empty \/ ~InHeader(inp, r)
  BY <1>1 DEF EndHeader, SkipBody, NextLine, IInv
<1>4. HeadsOf(inp, r + 1) = HeadsOf(inp, r)
  BY <1>2, <1>3, HeadsStay
<1>5. IsStack(hlines) /\ (mem = "fine" => Whole(inp, r, hlines))
  BY <1>1, <1>2 DEF IInv
<1>6. mem = "fine" => Whole(inp, r + 1, hlines)
  <2>1. CompleteOf(inp, r + 1) = CompleteOf(inp, r)
    BY <1>4 DEF CompleteOf
  <2> QED
    BY <1>2, <1>5, <2>1, WholeStays
<1>7. ~InHeader(inp, r + 1)
  BY <1>2, <1>3, InHeaderNext
<1>8. r + 1 \in 0..Len(inp)
  BY <1>2
<1> QED
  BY <1>1, <1>2, <1>6, <1>7, <1>8 DEF IInv

LEMMA OverrunKeeps == ASSUME IInv, OverrunStack PROVE IInv'
<1>1. input \in Seq(Line) /\ read \in 0..Len(input)
  BY InputsAssumption DEF IInv, Line
<1>2. read' \in 0..Len(input)
  BY <1>1 DEF OverrunStack, GetLine
<1> QED
  BY <1>2 DEF OverrunStack, IInv

-----------------------------------------------------------------------------
LEMMA InitKeeps == Init => IInv
<1> SUFFICES ASSUME Init
             PROVE  IInv
  OBVIOUS
<1>1. input \in Inputs /\ input \in Seq(Line)
  BY InputsAssumption DEF Init, Line
<1>2. PICK inp, none : inp = input /\ none = <<>>
  OBVIOUS
<1>3. IsStack(none)
  <2>1. none \in Seq({}) /\ \A h \in {} : {"field", "text"} \subseteq DOMAIN h
    BY <1>2
  <2> QED
    BY <2>1 DEF IsStack
<1>4. Whole(inp, 0, none)
  <2>1. CompleteOf(inp, 0) = {}
    BY DEF CompleteOf, HeadsOf
  <2>2. Cardinality(CompleteOf(inp, 0)) = 0
    BY <2>1, FS_EmptySet
  <2>3. Len(none) = 0
    BY <1>2
  <2> QED
    BY <2>1, <2>2, <2>3 DEF Whole
<1>5. InHeader(inp, 0) /\ Collected(inp, 0, NoLine, <<>>)
  BY DEF InHeader, Collected
<1> QED
  BY <1>1, <1>2, <1>3, <1>4, <1>5 DEF Init, IInv

LEMMA NextKeeps == IInv /\ [Next]_vars => IInv'
<1> SUFFICES ASSUME IInv, [Next]_vars
             PROVE  IInv'
  OBVIOUS
<1>1. CASE CollectLine \/ CompleteLine \/ LeaveHeaderOut
  <2>1. LeaveHeaderOut => mem' # "fine"
    <3>1. head_append_hline(NextLine, hlines, FALSE) /\ mem' = "fine" => FALSE
      BY AppendIntact
    <3> QED
      BY <3>1 DEF LeaveHeaderOut
  <2> QED
    BY <1>1, <2>1, CollectLineKeeps, CompleteLineKeeps, LineLostKeeps
<1>4. CASE OverrunStack
  BY <1>4, OverrunKeeps
<1>2. CASE EndHeader \/ SkipBody
  BY <1>2, BodyKeeps
<1>3. CASE EndOfFile \/ PrintHeader \/ Exit \/ UNCHANGED vars
  BY <1>3 DEF EndOfFile, PrintHeader, Exit, vars, IInv
<1> QED
  BY <1>1, <1>2, <1>3, <1>4 DEF Next

(* hprocess_file() and head_append_hline(): unless hmine hangs, writes past *)
(* the stack or is refused memory, every header of the message that        *)
(* another one follows is on the stack once, in its order, with the lines  *)
(* that it was folded over and no others, for any message and however      *)
(* often the text buffer grows.                                            *)
THEOREM StackHoldsHeaders == Spec => []StackedWhole
<1>1. IInv => StackedWhole
  <2>1. ASSUME IInv
        PROVE  StackedWhole
    <3>1. PICK inp, r : inp = input /\ r = read
      OBVIOUS
    <3>2. Heads = HeadsOf(inp, r) /\ Complete = CompleteOf(inp, r)
      BY <3>1 DEF Heads, HeadsOf, Complete, CompleteOf
    <3>3. ASSUME NEW i \in CompleteOf(inp, r)
          PROVE  HeaderFrom(i) = TextFrom(inp, r, i)
      <4>1. r \in Nat /\ i \in 1..r
        <5>1. r \in Nat
          BY <2>1, <3>1, InputsAssumption DEF IInv
        <5> QED
          BY <5>1, HeadsFinite
      <4>2. \E j \in i..r : Spans(inp, r, i, j)
        BY <4>1, SpanExists
      <4>3. LastOf(i) \in i..r /\ Spans(inp, r, i, LastOf(i))
        BY <3>1, <4>2 DEF LastOf, Spans
      <4>4. PICK j : j = LastOf(i)
        OBVIOUS
      <4>5. TextFrom(inp, r, i) = Folded(inp, i, j)
        BY <4>1, <4>3, <4>4, TextIsFolded
      <4> QED
        BY <3>1, <4>4, <4>5 DEF HeaderFrom, Folded
    <3>4. pc \notin {"hung", "overrun"} /\ mem = "fine" => Whole(inp, r, hlines)
      BY <2>1, <3>1 DEF IInv
    <3> QED
      BY <3>1, <3>2, <3>3, <3>4 DEF StackedWhole, Whole, Place
  <2> QED
    BY <2>1
<1> QED
  BY <1>1, InitKeeps, NextKeeps, PTL DEF Spec

-----------------------------------------------------------------------------
(* Functions that are defined by going on from each place to a later one.  *)

Stepwise(f, D, step, base) == f = [q \in D |-> IF step[q] # 0 THEN f[step[q]] ELSE base[q]]

Steps(D, step, last) ==
  \A q \in D : step[q] # 0 => step[q] \in D /\ q < step[q] /\ q < last

LEMMA StepwiseExists ==
  ASSUME NEW D, D \subseteq Nat, NEW last \in Nat, NEW step, NEW base, Steps(D, step, last)
  PROVE  \E f : Stepwise(f, D, step, base)
<1> DEFINE From(k) == {q \in D : q >= last - k}
           T == {k \in Nat : ~\E f : Stepwise(f, From(k), step, base)}
<1>1. \A j \in Nat : From(j) \subseteq Nat /\ \A q : q \in From(j) <=> q \in D /\ q >= last - j
  OBVIOUS
<1>2. From(last) = D
  <2>1. \A q \in D : q \in Nat /\ q >= last - last
    OBVIOUS
  <2> HIDE DEF From
  <2>2. \A q : q \in From(last) <=> q \in D
    BY <1>1, <2>1
  <2>3. From(last) \subseteq D /\ D \subseteq From(last)
    BY <2>2, Zenon
  <2> QED
    BY <2>3, Zenon
<1>3. T \subseteq Nat /\ \A k \in Nat : k \notin T <=> \E f : Stepwise(f, From(k), step, base)
  OBVIOUS
<1> HIDE DEF From, T
<1> SUFFICES T = {}
  BY <1>2, <1>3
<1> SUFFICES ASSUME T # {} PROVE FALSE
  OBVIOUS
<1>4. PICK k \in T : \A y \in T : ~(y < k)
  BY <1>3, SmallestOfNat
<1>5. k \in Nat
  BY <1>3
<1>6. CASE k = 0
  <2>1. PICK g : g = [q \in From(0) |-> base[q]]
    OBVIOUS
  <2>2. \A q \in From(0) : step[q] = 0
    <3> SUFFICES ASSUME NEW q \in From(0), step[q] # 0 PROVE FALSE
      OBVIOUS
    <3>1. q \in D /\ q >= last - 0 /\ q \in Nat
      BY <1>1
    <3> QED
      BY <3>1 DEF Steps
  <2>3. Stepwise(g, From(0), step, base)
    BY <2>1, <2>2 DEF Stepwise
  <2> QED
    BY <1>3, <1>6, <2>3
<1>7. CASE k # 0
  <2>1. k - 1 \in Nat /\ k - 1 < k
    BY <1>5, <1>7
  <2>2. PICK g : Stepwise(g, From(k - 1), step, base)
    BY <1>3, <1>4, <2>1
  <2>3. PICK h : h = [q \in From(k) |->
                       IF q \in From(k - 1) THEN g[q]
                       ELSE IF step[q] # 0 THEN g[step[q]] ELSE base[q]]
    OBVIOUS
  <2>4. ASSUME NEW q \in From(k), step[q] # 0
        PROVE  step[q] \in From(k - 1)
    <3>1. q \in D /\ q \in Nat /\ q >= last - k
      BY <1>1, <1>5
    <3>2. step[q] \in D /\ q < step[q]
      BY <2>4, <3>1 DEF Steps
    <3>3. step[q] \in Nat
      BY <3>2
    <3>4. step[q] >= last - (k - 1)
      BY <1>5, <3>1, <3>2, <3>3
    <3> QED
      BY <1>1, <2>1, <3>2, <3>4
  <2>5. From(k - 1) \subseteq From(k)
    <3> SUFFICES ASSUME NEW q \in From(k - 1) PROVE q \in From(k)
      OBVIOUS
    <3>1. q \in D /\ q >= last - (k - 1) /\ q \in Nat
      BY <1>1, <2>1
    <3>2. q >= last - k
      BY <1>5, <3>1
    <3> QED
      BY <1>1, <1>5, <3>1, <3>2
  <2>6. \A q \in From(k) : h[q] = IF step[q] # 0 THEN h[step[q]] ELSE base[q]
    <3> SUFFICES ASSUME NEW q \in From(k)
                 PROVE  h[q] = IF step[q] # 0 THEN h[step[q]] ELSE base[q]
      OBVIOUS
    <3>1. step[q] # 0 => h[step[q]] = g[step[q]]
      BY <2>3, <2>4, <2>5
    <3>2. q \in From(k - 1) => g[q] = IF step[q] # 0 THEN g[step[q]] ELSE base[q]
      BY <2>2 DEF Stepwise
    <3> QED
      BY <2>3, <3>1, <3>2
  <2>7. h = [q \in From(k) |-> h[q]]
    BY <2>3
  <2>8. Stepwise(h, From(k), step, base)
    BY <2>6, <2>7 DEF Stepwise
  <2> QED
    BY <1>3, <1>4, <1>5, <2>8
<1> QED
  BY <1>5, <1>6, <1>7

(* Positions in a line of n characters, and where a recogniser leads to:   *)
(* back nowhere, and past the end only if it began there.                  *)
Ahead(n, p, r) ==
  /\ p \in 0..n + 2 /\ r \in 0..n + 2
  /\ r # 0 => p # 0 /\ p <= r /\ (r <= n + 1 \/ r = p)
Past(n, p, r) == Ahead(n, p, r) /\ (r # 0 => p < r)

AllAhead(n, f) == \A q \in 1..n + 2 : Ahead(n, q, f[q])
AllPast(n, f) == \A q \in 1..n + 2 : Past(n, q, f[q])
AllFound(n, f) == \A q \in 1..n + 2 : f[q] # 0
Leads(n, f, step, base) ==
  \A q \in 1..n + 2 : f[q] = base[q] \/ (step[q] # 0 /\ f[q] = f[step[q]])

LEMMA StepwiseAhead ==
  ASSUME NEW n \in Nat, NEW step, NEW base, NEW f,
         AllPast(n, step), AllAhead(n, base), Leads(n, f, step, base)
  PROVE  AllAhead(n, f) /\ (AllFound(n, base) => AllFound(n, f))
<1> DEFINE Good(q) == Ahead(n, q, f[q]) /\ (AllFound(n, base) => f[q] # 0)
           T == {k \in Nat : k <= n + 1 /\ ~Good(n + 2 - k)}
<1> SUFFICES T = {}
  <2> SUFFICES ASSUME NEW q \in 1..n + 2 PROVE Good(q)
    BY DEF AllAhead, AllFound
  <2>1. n + 2 - q \in Nat /\ n + 2 - q <= n + 1 /\ n + 2 - (n + 2 - q) = q
    OBVIOUS
  <2> HIDE DEF Good
  <2> QED
    BY <2>1
<1> SUFFICES ASSUME T # {} PROVE FALSE
  OBVIOUS
<1>2. PICK k \in T : \A y \in T : ~(y < k)
  <2>1. T \subseteq Nat
    OBVIOUS
  <2> HIDE DEF T
  <2> QED
    BY <2>1, SmallestOfNat
<1> DEFINE q == n + 2 - k
<1>3. q \in 1..n + 2 /\ ~Good(q)
  BY <1>2
<1>4. /\ Past(n, q, step[q]) /\ Ahead(n, q, base[q])
      /\ f[q] = base[q] \/ (step[q] # 0 /\ f[q] = f[step[q]])
  BY <1>3 DEF AllPast, AllAhead, Leads
<1>5. step[q] # 0 => Good(step[q])
  <2> SUFFICES ASSUME step[q] # 0 PROVE Good(step[q])
    OBVIOUS
  <2> DEFINE s == step[q]
  <2>1. s \in 1..n + 2 /\ q < s
    BY <1>4 DEF Past, Ahead
  <2>2. n + 2 - s \in Nat /\ n + 2 - s <= n + 1 /\ n + 2 - s < k /\ n + 2 - (n + 2 - s) = s
    BY <1>2, <2>1
  <2>3. n + 2 - s \notin T
    BY <1>2, <2>2
  <2> HIDE DEF Good, s
  <2>4. Good(s)
    BY <2>2, <2>3
  <2> QED
    BY <2>4 DEF s
<1>6. Good(q)
  <2>1. CASE f[q] = base[q]
    BY <1>3, <1>4, <2>1 DEF AllFound
  <2>2. CASE step[q] # 0 /\ f[q] = f[step[q]]
    BY <1>3, <1>4, <1>5, <2>2 DEF Past, Ahead
  <2> QED
    BY <1>4, <2>1, <2>2
<1> QED
  BY <1>3, <1>6

-----------------------------------------------------------------------------
(* The recognisers of RFC 2822 that a mailbox is found with.               *)

LEMMA AtEnd ==
  ASSUME NEW l \in Seq(Chars), NEW e
  PROVE  /\ \A p : p \notin 1..Len(l) => Parse(l, e)!At(p) = "nul"
         /\ \A p \in 1..Len(l) : Parse(l, e)!At(p) = l[p] /\ l[p] \in Chars
BY DEF Parse!At

LEMMA CharIsNotNul == "nul" \notin Chars /\ "nul" \notin Atext /\ "nul" \notin Space
BY DEF Chars, Atext, Space, Specials, Blank, Alpha, Words, DayNames, MonthNames, ZoneNames,
       ReceivedWords

LEMMA SingleCharFits ==
  ASSUME NEW l \in Seq(Chars), NEW e, NEW p \in 0..Len(l) + 2, NEW c, c # "nul"
  PROVE  Past(Len(l), p, Parse(l, e)!skip_single_char(p, c))
<1>1. Parse(l, e)!At(p) = c => p \in 1..Len(l)
  BY AtEnd
<1>2. Len(l) \in Nat
  OBVIOUS
<1> QED
  BY <1>1, <1>2 DEF Parse!skip_single_char, Parse!Found, Parse!NULL, Past, Ahead

LEMMA RunFits ==
  ASSUME NEW l \in Seq(Chars), NEW e, NEW p \in 1..Len(l) + 2, NEW S, "nul" \notin S
  PROVE  /\ Ahead(Len(l), p, Parse(l, e)!RunOf(p, S)) /\ Parse(l, e)!RunOf(p, S) # 0
         /\ Parse(l, e)!At(p) \in S => Past(Len(l), p, Parse(l, e)!RunOf(p, S))
<1> DEFINE at(q) == Parse(l, e)!At(q)
           n == Len(l)
           D == 1..n + 2
           IsRun(f) == f = [q \in D |-> IF at(q) \in S THEN f[q + 1] ELSE q]
           run == CHOOSE f : IsRun(f)
<1>1. n \in Nat
  OBVIOUS
<1>2. \A q \in D : at(q) \in S => q \in 1..n
  BY AtEnd
<1>3. PICK step, base : /\ step = [q \in D |-> IF at(q) \in S THEN q + 1 ELSE 0]
                        /\ base = [q \in D |-> q]
  OBVIOUS
<1> HIDE DEF at, n
<1>4. Steps(D, step, n + 2) /\ D \subseteq Nat /\ n + 2 \in Nat
  BY <1>1, <1>2, <1>3 DEF Steps
<1>5. PICK f : Stepwise(f, D, step, base)
  BY <1>4, StepwiseExists
<1>6. IsRun(f)
  <2>1. \A q \in D : (IF step[q] # 0 THEN f[step[q]] ELSE base[q]) = IF at(q) \in S THEN f[q + 1] ELSE q
    BY <1>1, <1>3
  <2> QED
    BY <1>5, <2>1 DEF Stepwise
<1>7. IsRun(run)
  BY <1>6
<1>8. Parse(l, e)!RunOf(p, S) = run[p]
  BY DEF Parse!RunOf, Parse!Places, n, at
<1> HIDE DEF run
<1>9. \A q \in D : run[q] = IF at(q) \in S THEN run[q + 1] ELSE q
  BY <1>7
<1>10. AllPast(n, step) /\ AllAhead(n, base) /\ AllFound(n, base) /\ Leads(n, run, step, base)
  BY <1>1, <1>2, <1>3, <1>9 DEF Past, Ahead, AllPast, AllAhead, AllFound, Leads
<1>11. AllAhead(n, run) /\ AllFound(n, run)
  BY <1>1, <1>10, StepwiseAhead
<1>12. p \in D
  BY DEF n
<1>13. at(p) \in S => run[p] = run[p + 1] /\ p + 1 \in D
  BY <1>1, <1>2, <1>9, <1>12
<1>14. at(p) \in S => Past(n, p, run[p])
  BY <1>1, <1>2, <1>11, <1>12, <1>13 DEF Past, Ahead, AllAhead
<1> QED
  BY <1>8, <1>11, <1>12, <1>14 DEF n, at, AllAhead, AllFound

LEMMA SkipRunFits ==
  ASSUME NEW l \in Seq(Chars), NEW e, NEW p \in 0..Len(l) + 2, NEW S, "nul" \notin S
  PROVE  Past(Len(l), p, Parse(l, e)!skip_run(p, S))
<1>1. CASE p = 0
  BY <1>1 DEF Parse!skip_run, Parse!Found, Past, Ahead
<1>2. CASE p # 0 /\ Parse(l, e)!At(p) \in S
  <2>1. Past(Len(l), p, Parse(l, e)!RunOf(p, S))
    BY <1>2, RunFits
  <2> QED
    BY <1>2, <2>1 DEF Parse!skip_run, Parse!Found
<1>3. CASE p # 0 /\ Parse(l, e)!At(p) \notin S
  BY <1>3 DEF Parse!skip_run, Parse!Found, Parse!NULL, Past, Ahead
<1> QED
  BY <1>1, <1>2, <1>3
(* Elements of a list, and lists of elements.                              *)

LEMMA SeqFits ==
  ASSUME NEW l \in Seq(Chars), NEW e, NEW p \in 0..Len(l) + 2, NEW skip, AllAhead(Len(l), skip),
         NEW delim, delim # "nul"
  PROVE  /\ Ahead(Len(l), p, Parse(l, e)!skip_2822_seq(p, skip, delim))
         /\ AllPast(Len(l), skip) => Past(Len(l), p, Parse(l, e)!skip_2822_seq(p, skip, delim))
<1> DEFINE at(q) == Parse(l, e)!At(q)
           n == Len(l)
           D == 1..n + 2
           App(f, q) == IF q > 0 THEN f[q] ELSE q
           IsRest(f) == f = [q \in D |-> IF at(q) = delim THEN App(f, App(skip, q + 1)) ELSE q]
           rest == CHOOSE f : IsRest(f)
<1>1. n \in Nat
  OBVIOUS
<1>2. \A q \in D : at(q) = delim => q \in 1..n
  BY AtEnd
<1>3. PICK step, base : /\ step = [q \in D |-> IF at(q) = delim THEN skip[q + 1] ELSE 0]
                        /\ base = [q \in D |-> IF at(q) = delim THEN 0 ELSE q]
  OBVIOUS
<1>4. Parse(l, e)!skip_2822_seq(p, skip, delim) = App(rest, App(skip, p))
  BY DEF Parse!skip_2822_seq, Parse!Apply, Parse!Found, Parse!Places
<1>5. AllAhead(n, skip)
  OBVIOUS
<1> HIDE DEF at, n
<1>6. \A q \in D : at(q) = delim => Past(n, q, skip[q + 1])
  <2> SUFFICES ASSUME NEW q \in D, at(q) = delim PROVE Past(n, q, skip[q + 1])
    OBVIOUS
  <2>1. q \in 1..n /\ q + 1 \in 1..n + 2
    BY <1>1, <1>2
  <2>2. Ahead(n, q + 1, skip[q + 1])
    BY <1>5, <2>1 DEF AllAhead
  <2> QED
    BY <1>1, <2>1, <2>2 DEF Past, Ahead
<1>7. AllPast(n, step) /\ AllAhead(n, base)
  BY <1>1, <1>2, <1>3, <1>6 DEF Past, Ahead, AllPast, AllAhead
<1>8. Steps(D, step, n + 2) /\ D \subseteq Nat /\ n + 2 \in Nat
  BY <1>1, <1>7 DEF Steps, AllPast, Past, Ahead
<1>9. PICK f : Stepwise(f, D, step, base)
  BY <1>8, StepwiseExists
<1>10. \A q \in D : /\ at(q) = delim => step[q] = skip[q + 1] /\ base[q] = 0
                    /\ at(q) # delim => step[q] = 0 /\ base[q] = q
                    /\ q > 0 /\ q + 1 > 0
                    /\ at(q) = delim => (skip[q + 1] # 0 <=> skip[q + 1] > 0)
  BY <1>1, <1>3, <1>6 DEF Past, Ahead
<1>11. IsRest(f)
  <2>1. \A q \in D : (IF step[q] # 0 THEN f[step[q]] ELSE base[q]) =
                     IF at(q) = delim THEN App(f, App(skip, q + 1)) ELSE q
    <3> SUFFICES ASSUME NEW q \in D
                 PROVE  (IF step[q] # 0 THEN f[step[q]] ELSE base[q]) =
                          IF at(q) = delim THEN App(f, App(skip, q + 1)) ELSE q
      OBVIOUS
    <3>3. /\ at(q) = delim => step[q] = skip[q + 1] /\ base[q] = 0 /\ (skip[q + 1] # 0 <=> skip[q + 1] > 0)
          /\ at(q) # delim => step[q] = 0 /\ base[q] = q
          /\ q + 1 > 0
      BY <1>10
    <3> HIDE DEF at
    <3>1. CASE at(q) = delim
      BY <3>1, <3>3
    <3>2. CASE at(q) # delim
      BY <3>2, <3>3
    <3> QED
      BY <3>1, <3>2
  <2> QED
    BY <1>9, <2>1 DEF Stepwise
<1>12. IsRest(rest)
  BY <1>11
<1> HIDE DEF rest
<1>13. \A q \in D : rest[q] = IF at(q) = delim THEN App(rest, App(skip, q + 1)) ELSE q
  BY <1>12
<1>14. Leads(n, rest, step, base)
  <2> SUFFICES ASSUME NEW q \in D
               PROVE  rest[q] = base[q] \/ (step[q] # 0 /\ rest[q] = rest[step[q]])
    BY DEF Leads
  <2>3. /\ at(q) = delim => step[q] = skip[q + 1] /\ base[q] = 0 /\ (skip[q + 1] # 0 <=> skip[q + 1] > 0)
        /\ at(q) # delim => step[q] = 0 /\ base[q] = q
        /\ q + 1 > 0
        /\ rest[q] = IF at(q) = delim THEN App(rest, App(skip, q + 1)) ELSE q
    BY <1>10, <1>13
  <2>1. CASE at(q) = delim
    BY <2>1, <2>3
  <2>2. CASE at(q) # delim
    BY <2>2, <2>3
  <2> QED
    BY <2>1, <2>2
<1>15. AllAhead(n, rest)
  BY <1>1, <1>7, <1>14, StepwiseAhead
<1>16. p = 0 \/ p \in 1..n + 2
  BY DEF n
<1> QED
  BY <1>1, <1>4, <1>5, <1>15, <1>16 DEF n, AllAhead, AllPast, Ahead, Past

(* The place a recogniser goes on from, if there is one.                   *)
App(f, q) == IF q > 0 THEN f[q] ELSE q
Other(p, q) == IF p > 0 THEN p ELSE q

IsEither(f, n, step, base) == f = [q \in 1..n + 2 |-> Other(App(f, step[q]), base[q])]

LEMMA EitherFits ==
  ASSUME NEW n \in Nat, NEW step, NEW base, AllPast(n, step), AllAhead(n, base), AllFound(n, base)
  PROVE  /\ \E f : IsEither(f, n, step, base)
         /\ \A f : IsEither(f, n, step, base) => AllAhead(n, f) /\ AllFound(n, f)
<1> DEFINE D == 1..n + 2
<1>1. Steps(D, step, n + 2) /\ D \subseteq Nat /\ n + 2 \in Nat
  BY DEF Steps, AllPast, Past, Ahead
<1>2. PICK f : Stepwise(f, D, step, base)
  BY <1>1, StepwiseExists
<1>3. \A q \in D : f[q] = IF step[q] # 0 THEN f[step[q]] ELSE base[q]
  BY <1>2 DEF Stepwise
<1>4. AllAhead(n, f) /\ AllFound(n, f)
  <2>1. Leads(n, f, step, base)
    BY <1>3 DEF Leads
  <2> QED
    BY <2>1, StepwiseAhead
<1>5. IsEither(f, n, step, base)
  <2>1. \A q \in D : (IF step[q] # 0 THEN f[step[q]] ELSE base[q]) = Other(App(f, step[q]), base[q])
    BY <1>3, <1>4 DEF AllAhead, AllFound, AllPast, Past, Ahead, App, Other
  <2> QED
    BY <1>2, <2>1 DEF Stepwise, IsEither
<1>6. ASSUME NEW g, IsEither(g, n, step, base)
      PROVE  AllAhead(n, g) /\ AllFound(n, g)
  <2>1. \A q \in D : g[q] = Other(App(g, step[q]), base[q])
    BY <1>6 DEF IsEither
  <2>2. Leads(n, g, step, base)
    BY <2>1 DEF Leads, AllPast, Past, Ahead, App, Other
  <2> QED
    BY <2>2, StepwiseAhead
<1> QED
  BY <1>5, <1>6

LEMMA RepeatFits ==
  ASSUME NEW l \in Seq(Chars), NEW e, NEW p \in 0..Len(l) + 2, NEW skip, AllPast(Len(l), skip)
  PROVE  Past(Len(l), p, Parse(l, e)!Repeat(p, skip))
<1> DEFINE n == Len(l)
           IsRest(f) == f = [q \in 1..n + 2 |-> Other(App(f, App(skip, q)), q)]
           rest == CHOOSE f : IsRest(f)
<1>1. n \in Nat /\ AllPast(n, skip) /\ (p = 0 \/ p \in 1..n + 2)
  OBVIOUS
<1>2. PICK base : base = [q \in 1..n + 2 |-> q]
  OBVIOUS
<1>3. Parse(l, e)!Repeat(p, skip) = App(rest, App(skip, p))
  BY DEF Parse!Repeat, Parse!Apply, Parse!Found, Parse!Places, Parse!Or, App, Other
<1> HIDE DEF n
<1>4. AllAhead(n, base) /\ AllFound(n, base)
  BY <1>1, <1>2 DEF AllAhead, AllFound, Ahead
<1>5. \A f : IsEither(f, n, skip, base) <=> IsRest(f)
  <2>1. \A f : \A q \in 1..n + 2 : Other(App(f, skip[q]), base[q]) = Other(App(f, App(skip, q)), q)
    BY <1>1, <1>2 DEF App
  <2> QED
    BY <2>1 DEF IsEither
<1>6. IsRest(rest)
  BY <1>1, <1>4, <1>5, EitherFits
<1> HIDE DEF rest
<1>7. AllAhead(n, rest)
  BY <1>1, <1>4, <1>5, <1>6, EitherFits
<1> QED
  BY <1>1, <1>3, <1>7 DEF n, AllAhead, AllPast, Ahead, Past, App
(* What the ends of the simplest tokens have to be.                        *)
EndsFit(l, e) ==
  /\ AllAhead(Len(l), [p \in 1..Len(l) + 2 |-> e.cfws[p][0]])
  /\ AllPast(Len(l), [p \in 1..Len(l) + 2 |-> e.cfws[p][1]])
  /\ AllPast(Len(l), e.quoted) /\ AllPast(Len(l), e.literal)

LEMMA CfwsFits ==
  ASSUME NEW l \in Seq(Chars), NEW e, EndsFit(l, e), NEW p \in 0..Len(l) + 2
  PROVE  /\ Ahead(Len(l), p, Parse(l, e)!Cfws(p)) /\ Past(Len(l), p, Parse(l, e)!Cfws1(p))
         /\ Past(Len(l), p, Parse(l, e)!Quoted(p)) /\ Past(Len(l), p, Parse(l, e)!Literal(p))
<1>1. CASE p = 0
  BY <1>1 DEF Parse!Cfws, Parse!Cfws1, Parse!Quoted, Parse!Literal, Parse!Found, Past, Ahead
<1>2. CASE p # 0
  <2>1. p \in 1..Len(l) + 2 /\ p > 0
    BY <1>2
  <2>2. /\ Ahead(Len(l), p, e.cfws[p][0]) /\ Past(Len(l), p, e.cfws[p][1])
        /\ Past(Len(l), p, e.quoted[p]) /\ Past(Len(l), p, e.literal[p])
    BY <2>1 DEF EndsFit, AllAhead, AllPast
  <2> QED
    BY <2>1, <2>2 DEF Parse!Cfws, Parse!Cfws1, Parse!Quoted, Parse!Literal, Parse!Found
<1> QED
  BY <1>1, <1>2

LEMMA AtextFits ==
  ASSUME NEW l \in Seq(Chars), NEW e, NEW p \in 0..Len(l) + 2, NEW opt
  PROVE  Past(Len(l), p, Parse(l, e)!skip_2822_1atext(p, opt))
<1>1. Parse(l, e)!Atext = Atext
  BY DEF Parse!Atext, Parse!Alpha, Parse!Words, Parse!DayNames, Parse!MonthNames, Parse!ZoneNames,
         Parse!ReceivedWords, Atext, Alpha, Words, DayNames, MonthNames, ZoneNames, ReceivedWords
<1>2. Past(Len(l), p, Parse(l, e)!skip_run(p, Atext))
  BY CharIsNotNul, SkipRunFits
<1> QED
  BY <1>1, <1>2 DEF Parse!skip_2822_1atext

LEMMA PastSeq ==
  ASSUME NEW l \in Seq(Chars), NEW e, NEW p \in 0..Len(l) + 2, NEW skip, AllPast(Len(l), skip),
         NEW delim, delim # "nul"
  PROVE  Past(Len(l), p, Parse(l, e)!skip_2822_seq(p, skip, delim))
<1>1. AllAhead(Len(l), skip)
  BY DEF AllPast, AllAhead, Past
<1> QED
  BY <1>1, SeqFits

LEMMA ObsListFits ==
  ASSUME NEW l \in Seq(Chars), NEW e, EndsFit(l, e), NEW p \in 0..Len(l) + 2, NEW skip,
         AllPast(Len(l), skip)
  PROVE  Past(Len(l), p, Parse(l, e)!skip_2822_obs_list(p, skip))
<1> DEFINE n == Len(l)
           comma(q) == Parse(l, e)!Cfws(Parse(l, e)!skip_single_char(Parse(l, e)!Cfws(q), ","))
           element(q) == Other(App(skip, q), q)
           IsRest(f) == f = [q \in 1..n + 2 |-> Other(App(f, comma(element(q))), element(q))]
           rest == CHOOSE f : IsRest(f)
<1>1. n \in Nat /\ AllPast(n, skip) /\ (p = 0 \/ p \in 1..n + 2)
  OBVIOUS
<1>2. ASSUME NEW q \in 0..n + 2
      PROVE  /\ Past(n, q, comma(element(q))) /\ Ahead(n, q, element(q)) /\ (q # 0 => element(q) # 0)
  <2>1. Ahead(n, q, element(q)) /\ (q # 0 => element(q) # 0)
    BY <1>1 DEF AllPast, Past, Ahead, App, Other
  <2> DEFINE a == element(q)
             b == Parse(l, e)!Cfws(a)
             c == Parse(l, e)!skip_single_char(b, ",")
  <2>2. Ahead(n, a, b)
    BY <2>1, CfwsFits DEF Ahead
  <2>3. Past(n, b, c)
    BY <2>2, SingleCharFits DEF Ahead
  <2>4. Ahead(n, c, Parse(l, e)!Cfws(c))
    BY <2>3, CfwsFits DEF Past, Ahead
  <2>5. Past(n, q, Parse(l, e)!Cfws(c))
    <3> HIDE DEF a, b, c
    <3> QED
      BY <2>1, <2>2, <2>3, <2>4 DEF Past, Ahead, a
  <2> QED
    BY <2>1, <2>5
<1>3. Parse(l, e)!skip_2822_obs_list(p, skip) = App(rest, comma(element(p)))
  BY DEF Parse!skip_2822_obs_list, Parse!Apply, Parse!Found, Parse!Places, Parse!Or, App, Other
<1> HIDE DEF n, comma, element
<1>4. PICK step, base : /\ step = [q \in 1..n + 2 |-> comma(element(q))]
                        /\ base = [q \in 1..n + 2 |-> element(q)]
  OBVIOUS
<1>5. AllPast(n, step) /\ AllAhead(n, base) /\ AllFound(n, base)
  BY <1>1, <1>2, <1>4 DEF AllAhead, AllFound, AllPast
<1>6. \A f : IsEither(f, n, step, base) <=> IsRest(f)
  BY <1>4 DEF IsEither
<1>7. IsRest(rest)
  BY <1>1, <1>5, <1>6, EitherFits
<1> HIDE DEF rest
<1>8. AllAhead(n, rest)
  BY <1>1, <1>5, <1>6, <1>7, EitherFits
<1>9. Past(n, p, comma(element(p)))
  BY <1>2 DEF n
<1> QED
  BY <1>1, <1>3, <1>8, <1>9 DEF n, AllAhead, Ahead, Past, App

(* White space, comments and commas.                                       *)
LEMMA MulticommaFits ==
  ASSUME NEW l \in Seq(Chars), NEW e, EndsFit(l, e), NEW p \in 0..Len(l) + 2
  PROVE  Ahead(Len(l), p, Parse(l, e)!skip_2822_multicomma(p))
<1> DEFINE n == Len(l)
           comma(q) == Parse(l, e)!Cfws(Parse(l, e)!skip_single_char(q, ","))
           IsCommas(f) == f = [q \in 1..n + 2 |-> Other(App(f, comma(q)), q)]
           commas == CHOOSE f : IsCommas(f)
           start == Parse(l, e)!Cfws(p)
<1>1. n \in Nat /\ (p = 0 \/ p \in 1..n + 2)
  OBVIOUS
<1>2. ASSUME NEW q \in 0..n + 2 PROVE Past(n, q, comma(q))
  <2> DEFINE c == Parse(l, e)!skip_single_char(q, ",")
  <2>1. Past(n, q, c)
    BY SingleCharFits
  <2>2. Ahead(n, c, Parse(l, e)!Cfws(c))
    BY <2>1, CfwsFits DEF Past, Ahead
  <2> HIDE DEF c
  <2>3. Past(n, q, Parse(l, e)!Cfws(c))
    BY <2>1, <2>2 DEF Past, Ahead
  <2> QED
    BY <2>3 DEF c
<1>3. Parse(l, e)!skip_2822_multicomma(p) = Other(App(commas, start), p)
  BY DEF Parse!skip_2822_multicomma, Parse!Apply, Parse!Found, Parse!Places, Parse!Or, App, Other
<1>4. Ahead(n, p, start)
  BY CfwsFits
<1> HIDE DEF n, comma, start
<1>5. PICK step, base : /\ step = [q \in 1..n + 2 |-> comma(q)] /\ base = [q \in 1..n + 2 |-> q]
  OBVIOUS
<1>6. AllPast(n, step) /\ AllAhead(n, base) /\ AllFound(n, base)
  BY <1>1, <1>2, <1>5 DEF AllAhead, AllFound, AllPast, Ahead
<1>7. \A f : IsEither(f, n, step, base) <=> IsCommas(f)
  BY <1>5 DEF IsEither
<1>8. IsCommas(commas)
  BY <1>1, <1>6, <1>7, EitherFits
<1> HIDE DEF commas
<1>9. AllAhead(n, commas)
  BY <1>1, <1>6, <1>7, <1>8, EitherFits
<1> QED
  BY <1>1, <1>3, <1>4, <1>9 DEF n, AllAhead, Ahead, App, Other

LEMMA AtDomainsFits ==
  ASSUME NEW l \in Seq(Chars), NEW e, EndsFit(l, e), NEW p \in 0..Len(l) + 2, NEW at,
         AllPast(Len(l), at)
  PROVE  Past(Len(l), p, Parse(l, e)!AtDomains(p, at))
<1> DEFINE n == Len(l)
           next(q) == App(at, Parse(l, e)!skip_2822_multicomma(q))
           IsRest(f) == f = [q \in 1..n + 2 |-> Other(App(f, next(q)), q)]
           rest == CHOOSE f : IsRest(f)
<1>1. n \in Nat /\ AllPast(n, at) /\ (p = 0 \/ p \in 1..n + 2)
  OBVIOUS
<1>2. ASSUME NEW q \in 0..n + 2 PROVE Past(n, q, next(q))
  <2> DEFINE c == Parse(l, e)!skip_2822_multicomma(q)
  <2>1. Ahead(n, q, c)
    BY MulticommaFits
  <2> HIDE DEF c
  <2>2. Past(n, q, App(at, c))
    BY <1>1, <2>1 DEF Past, Ahead, AllPast, App
  <2> QED
    BY <2>2 DEF c
<1>3. Parse(l, e)!AtDomains(p, at) = App(rest, App(at, p))
  BY DEF Parse!AtDomains, Parse!Apply, Parse!Found, Parse!Places, Parse!Or, App, Other
<1> HIDE DEF n, next
<1>4. PICK step, base : /\ step = [q \in 1..n + 2 |-> next(q)] /\ base = [q \in 1..n + 2 |-> q]
  OBVIOUS
<1>5. AllPast(n, step) /\ AllAhead(n, base) /\ AllFound(n, base)
  BY <1>1, <1>2, <1>4 DEF AllAhead, AllFound, AllPast, Ahead
<1>6. \A f : IsEither(f, n, step, base) <=> IsRest(f)
  BY <1>4 DEF IsEither
<1>7. IsRest(rest)
  BY <1>1, <1>5, <1>6, EitherFits
<1> HIDE DEF rest
<1>8. AllAhead(n, rest)
  BY <1>1, <1>5, <1>6, <1>7, EitherFits
<1> QED
  BY <1>1, <1>3, <1>8 DEF n, AllAhead, AllPast, Ahead, Past, App

LEMMA QuotedStringFits ==
  ASSUME NEW l \in Seq(Chars), NEW e, EndsFit(l, e), NEW p \in 0..Len(l) + 2, NEW opt
  PROVE  Past(Len(l), p, Parse(l, e)!skip_2822_quoted_string(p, opt))
<1> DEFINE a == Parse(l, e)!Cfws(p)
           b == Parse(l, e)!Quoted(a)
           c == Parse(l, e)!Cfws(b)
<1>1. Ahead(Len(l), p, a)
  BY CfwsFits DEF Ahead, Past
<1>2. Past(Len(l), a, b)
  BY <1>1, CfwsFits DEF Ahead, Past
<1>3. Ahead(Len(l), b, c)
  BY <1>1, <1>2, CfwsFits DEF Ahead, Past
<1>4. Parse(l, e)!skip_2822_quoted_string(p, opt) = c
  BY DEF Parse!skip_2822_quoted_string
<1> HIDE DEF a, b, c
<1> QED
  BY <1>1, <1>2, <1>3, <1>4 DEF Ahead, Past

LEMMA AtomFits ==
  ASSUME NEW l \in Seq(Chars), NEW e, EndsFit(l, e), NEW p \in 0..Len(l) + 2, NEW opt
  PROVE  Past(Len(l), p, Parse(l, e)!skip_2822_atom(p, opt))
<1> DEFINE a == Parse(l, e)!Cfws(p)
           b == Parse(l, e)!skip_2822_1atext(a, opt)
           c == Parse(l, e)!Cfws(b)
<1>1. Ahead(Len(l), p, a)
  BY CfwsFits DEF Ahead, Past
<1>2. Past(Len(l), a, b)
  BY <1>1, AtextFits DEF Ahead, Past
<1>3. Ahead(Len(l), b, c)
  BY <1>1, <1>2, CfwsFits DEF Ahead, Past
<1>4. Parse(l, e)!skip_2822_atom(p, opt) = c
  BY DEF Parse!skip_2822_atom
<1> HIDE DEF a, b, c
<1> QED
  BY <1>1, <1>2, <1>3, <1>4 DEF Ahead, Past

LEMMA WordFits ==
  ASSUME NEW l \in Seq(Chars), NEW e, EndsFit(l, e), NEW p \in 0..Len(l) + 2, NEW opt
  PROVE  Past(Len(l), p, Parse(l, e)!skip_2822_word(p, opt))
<1> DEFINE a == Parse(l, e)!skip_2822_quoted_string(p, opt)
           b == Parse(l, e)!skip_2822_atom(p, opt)
<1>1. Past(Len(l), p, a)
  BY QuotedStringFits DEF Ahead, Past
<1>2. Past(Len(l), p, b)
  BY <1>1, AtomFits DEF Ahead, Past
<1>3. Parse(l, e)!skip_2822_word(p, opt) = Parse(l, e)!Or(a, b)
  BY DEF Parse!skip_2822_word
<1> HIDE DEF a, b
<1> QED
  BY <1>1, <1>2, <1>3 DEF Ahead, Past, Parse!Or, Parse!Found

(* Words, dots and white space, the first of them a word.                  *)
LEMMA ObsPhraseFits ==
  ASSUME NEW l \in Seq(Chars), NEW e, EndsFit(l, e), NEW p \in 0..Len(l) + 2, NEW opt
  PROVE  Past(Len(l), p, Parse(l, e)!skip_2822_obs_phrase(p, opt))
<1> DEFINE n == Len(l)
           word(q) == Parse(l, e)!skip_2822_word(q, opt \cup Parse(l, e)!Obsolete)
           at(q) == Parse(l, e)!At(q)
           space == Parse(l, e)!Space
           white(q) == Parse(l, e)!Cfws1(q)
           element(q) == CASE at(q) = "." -> q + 1 [] at(q) \in space -> white(q) [] OTHER -> word(q)
           IsRest(f) == f = [q \in 1..n + 2 |-> Other(App(f, element(q)), q)]
           rest == CHOOSE f : IsRest(f)
<1>1. n \in Nat /\ (p = 0 \/ p \in 1..n + 2)
  OBVIOUS
<1>2. \A q \in 0..n + 2 : Past(n, q, word(q)) /\ Past(n, q, white(q)) /\ (at(q) = "." => q \in 1..n)
  BY WordFits, CfwsFits, AtEnd
<1>3. Parse(l, e)!skip_2822_obs_phrase(p, opt) = App(rest, word(p))
  BY DEF Parse!skip_2822_obs_phrase, Parse!Apply, Parse!Found, Parse!Places, Parse!Or, App, Other
<1>4. "." \notin space
  BY DEF Parse!Space, Parse!Blank
<1> HIDE DEF n, word, at, space, white
<1>5. \A q \in 0..n + 2 : Past(n, q, element(q))
  BY <1>1, <1>2, <1>4 DEF Past, Ahead
<1> HIDE DEF element
<1>6. PICK step, base : /\ step = [q \in 1..n + 2 |-> element(q)] /\ base = [q \in 1..n + 2 |-> q]
  OBVIOUS
<1>7. AllPast(n, step) /\ AllAhead(n, base) /\ AllFound(n, base)
  BY <1>1, <1>5, <1>6 DEF AllAhead, AllFound, AllPast, Ahead
<1>8. \A f : IsEither(f, n, step, base) <=> IsRest(f)
  BY <1>6 DEF IsEither
<1>9. IsRest(rest)
  BY <1>1, <1>7, <1>8, EitherFits
<1> HIDE DEF rest
<1>10. AllAhead(n, rest)
  BY <1>1, <1>7, <1>8, <1>9, EitherFits
<1>11. Past(n, p, word(p))
  BY <1>1, <1>2
<1> QED
  BY <1>1, <1>3, <1>10, <1>11 DEF n, AllAhead, Ahead, Past, App

LEMMA DotAtomTextFits ==
  ASSUME NEW l \in Seq(Chars), NEW e, EndsFit(l, e), NEW p \in 0..Len(l) + 2, NEW opt
  PROVE  Past(Len(l), p, Parse(l, e)!skip_2822_dot_atom_text(p, opt))
<1> DEFINE s == [q \in Parse(l, e)!Places |-> Parse(l, e)!skip_2822_1atext(q, opt)]
           a == Parse(l, e)!skip_2822_seq(p, s, ".")
<1>1. AllPast(Len(l), s)
  BY AtextFits DEF AllPast, Parse!Places
<1>2. Past(Len(l), p, a)
  BY <1>1, PastSeq DEF Ahead, Past
<1>3. Parse(l, e)!skip_2822_dot_atom_text(p, opt) = a
  BY DEF Parse!skip_2822_dot_atom_text
<1> HIDE DEF s, a
<1> QED
  BY <1>1, <1>2, <1>3 DEF Ahead, Past

LEMMA DotAtomFits ==
  ASSUME NEW l \in Seq(Chars), NEW e, EndsFit(l, e), NEW p \in 0..Len(l) + 2, NEW opt
  PROVE  Past(Len(l), p, Parse(l, e)!skip_2822_dot_atom(p, opt))
<1> DEFINE a == Parse(l, e)!Cfws(p)
           b == Parse(l, e)!skip_2822_dot_atom_text(a, opt)
           c == Parse(l, e)!Cfws(b)
<1>1. Ahead(Len(l), p, a)
  BY CfwsFits DEF Ahead, Past
<1>2. Past(Len(l), a, b)
  BY <1>1, DotAtomTextFits DEF Ahead, Past
<1>3. Ahead(Len(l), b, c)
  BY <1>1, <1>2, CfwsFits DEF Ahead, Past
<1>4. Parse(l, e)!skip_2822_dot_atom(p, opt) = c
  BY DEF Parse!skip_2822_dot_atom
<1> HIDE DEF a, b, c
<1> QED
  BY <1>1, <1>2, <1>3, <1>4 DEF Ahead, Past

LEMMA DomainLiteralFits ==
  ASSUME NEW l \in Seq(Chars), NEW e, EndsFit(l, e), NEW p \in 0..Len(l) + 2, NEW opt
  PROVE  Past(Len(l), p, Parse(l, e)!skip_2822_domain_literal(p, opt))
<1> DEFINE a == Parse(l, e)!Cfws(p)
           b == Parse(l, e)!Literal(a)
           c == Parse(l, e)!Cfws(b)
<1>1. Ahead(Len(l), p, a)
  BY CfwsFits DEF Ahead, Past
<1>2. Past(Len(l), a, b)
  BY <1>1, CfwsFits DEF Ahead, Past
<1>3. Ahead(Len(l), b, c)
  BY <1>1, <1>2, CfwsFits DEF Ahead, Past
<1>4. Parse(l, e)!skip_2822_domain_literal(p, opt) = c
  BY DEF Parse!skip_2822_domain_literal
<1> HIDE DEF a, b, c
<1> QED
  BY <1>1, <1>2, <1>3, <1>4 DEF Ahead, Past

LEMMA ObsDomainFits ==
  ASSUME NEW l \in Seq(Chars), NEW e, EndsFit(l, e), NEW p \in 0..Len(l) + 2, NEW opt
  PROVE  Past(Len(l), p, Parse(l, e)!skip_2822_obs_domain(p, opt))
<1> DEFINE s == [q \in Parse(l, e)!Places |-> Parse(l, e)!skip_2822_atom(q, opt)]
           a == Parse(l, e)!skip_2822_seq(p, s, ".")
<1>1. AllPast(Len(l), s)
  BY AtomFits DEF AllPast, Parse!Places
<1>2. Past(Len(l), p, a)
  BY <1>1, PastSeq DEF Ahead, Past
<1>3. Parse(l, e)!skip_2822_obs_domain(p, opt) = a
  BY DEF Parse!skip_2822_obs_domain
<1> HIDE DEF s, a
<1> QED
  BY <1>1, <1>2, <1>3 DEF Ahead, Past

LEMMA DomainFits ==
  ASSUME NEW l \in Seq(Chars), NEW e, EndsFit(l, e), NEW p \in 0..Len(l) + 2, NEW opt
  PROVE  Past(Len(l), p, Parse(l, e)!skip_2822_domain(p, opt))
<1> DEFINE a == Parse(l, e)!skip_2822_domain_literal(p, opt)
           b == Parse(l, e)!skip_2822_obs_domain(p, opt)
           c == Parse(l, e)!skip_2822_dot_atom(p, opt)
<1>1. Past(Len(l), p, a)
  BY DomainLiteralFits DEF Ahead, Past
<1>2. Past(Len(l), p, b)
  BY <1>1, ObsDomainFits DEF Ahead, Past
<1>3. Past(Len(l), p, c)
  BY <1>1, <1>2, DotAtomFits DEF Ahead, Past
<1>4. Parse(l, e)!skip_2822_domain(p, opt) =
        IF Parse(l, e)!At(p) = "[" THEN a ELSE IF Parse(l, e)!IsObs(opt) THEN b ELSE c
  BY DEF Parse!skip_2822_domain
<1> HIDE DEF a, b, c
<1> QED
  BY <1>1, <1>2, <1>3, <1>4 DEF Ahead, Past

LEMMA DomainListFits ==
  ASSUME NEW l \in Seq(Chars), NEW e, EndsFit(l, e), NEW p \in 0..Len(l) + 2, NEW opt
  PROVE  Past(Len(l), p, Parse(l, e)!skip_2822_obs_domain_list(p, opt))
<1> DEFINE s == [q \in Parse(l, e)!Places |->
                   Parse(l, e)!skip_2822_domain(Parse(l, e)!skip_single_char(q, "@"),
                                                opt \cup Parse(l, e)!Obsolete)]
           a == Parse(l, e)!AtDomains(p, s)
<1>1. AllPast(Len(l), s)
  BY SingleCharFits, DomainFits DEF AllPast, Parse!Places, Past, Ahead
<1>2. Past(Len(l), p, a)
  BY <1>1, AtDomainsFits DEF Ahead, Past
<1>3. Parse(l, e)!skip_2822_obs_domain_list(p, opt) = a
  BY DEF Parse!skip_2822_obs_domain_list
<1> HIDE DEF s, a
<1> QED
  BY <1>1, <1>2, <1>3 DEF Ahead, Past

LEMMA ObsRouteFits ==
  ASSUME NEW l \in Seq(Chars), NEW e, EndsFit(l, e), NEW p \in 0..Len(l) + 2, NEW opt
  PROVE  Past(Len(l), p, Parse(l, e)!skip_2822_obs_route(p, opt))
<1> DEFINE a == Parse(l, e)!Cfws(p)
           b == Parse(l, e)!skip_2822_obs_domain_list(a, opt)
           c == Parse(l, e)!skip_single_char(b, ":")
           d == Parse(l, e)!Cfws(c)
<1>1. Ahead(Len(l), p, a)
  BY CfwsFits DEF Ahead, Past
<1>2. Past(Len(l), a, b)
  BY <1>1, DomainListFits DEF Ahead, Past
<1>3. Past(Len(l), b, c)
  BY <1>1, <1>2, SingleCharFits DEF Ahead, Past
<1>4. Ahead(Len(l), c, d)
  BY <1>1, <1>2, <1>3, CfwsFits DEF Ahead, Past
<1>5. Parse(l, e)!skip_2822_obs_route(p, opt) = d
  BY DEF Parse!skip_2822_obs_route
<1> HIDE DEF a, b, c, d
<1> QED
  BY <1>1, <1>2, <1>3, <1>4, <1>5 DEF Ahead, Past

LEMMA ObsLocalPartFits ==
  ASSUME NEW l \in Seq(Chars), NEW e, EndsFit(l, e), NEW p \in 0..Len(l) + 2, NEW opt
  PROVE  Past(Len(l), p, Parse(l, e)!skip_2822_obs_local_part(p, opt))
<1> DEFINE s == [q \in Parse(l, e)!Places |-> Parse(l, e)!skip_2822_word(q, opt \cup Parse(l, e)!Obsolete)]
           a == Parse(l, e)!skip_2822_seq(p, s, ".")
<1>1. AllPast(Len(l), s)
  BY WordFits DEF AllPast, Parse!Places
<1>2. Past(Len(l), p, a)
  BY <1>1, PastSeq DEF Ahead, Past
<1>3. Parse(l, e)!skip_2822_obs_local_part(p, opt) = a
  BY DEF Parse!skip_2822_obs_local_part
<1> HIDE DEF s, a
<1> QED
  BY <1>1, <1>2, <1>3 DEF Ahead, Past

LEMMA LocalPartFits ==
  ASSUME NEW l \in Seq(Chars), NEW e, EndsFit(l, e), NEW p \in 0..Len(l) + 2, NEW opt
  PROVE  Past(Len(l), p, Parse(l, e)!skip_2822_local_part(p, opt))
<1> DEFINE a == Parse(l, e)!skip_2822_quoted_string(p, opt)
           b == Parse(l, e)!skip_2822_dot_atom(p, opt)
           c == Parse(l, e)!skip_2822_obs_local_part(p, opt)
<1>1. Past(Len(l), p, a)
  BY QuotedStringFits DEF Ahead, Past
<1>2. Past(Len(l), p, b)
  BY <1>1, DotAtomFits DEF Ahead, Past
<1>3. Past(Len(l), p, c)
  BY <1>1, <1>2, ObsLocalPartFits DEF Ahead, Past
<1>4. Parse(l, e)!skip_2822_local_part(p, opt) = Parse(l, e)!OrObs(Parse(l, e)!Or(a, b), c, opt)
  BY DEF Parse!skip_2822_local_part
<1> HIDE DEF a, b, c
<1> QED
  BY <1>1, <1>2, <1>3, <1>4 DEF Ahead, Past, Parse!OrObs, Parse!Or, Parse!Found

LEMMA AddrSpecFits ==
  ASSUME NEW l \in Seq(Chars), NEW e, EndsFit(l, e), NEW p \in 0..Len(l) + 2, NEW opt
  PROVE  Past(Len(l), p, Parse(l, e)!skip_2822_addr_spec(p, opt))
<1> DEFINE a == Parse(l, e)!skip_2822_local_part(p, opt)
           b == Parse(l, e)!skip_single_char(a, "@")
           c == Parse(l, e)!skip_2822_domain(b, opt)
<1>1. Past(Len(l), p, a)
  BY LocalPartFits DEF Ahead, Past
<1>2. Past(Len(l), a, b)
  BY <1>1, SingleCharFits DEF Ahead, Past
<1>3. Past(Len(l), b, c)
  BY <1>1, <1>2, DomainFits DEF Ahead, Past
<1>4. Parse(l, e)!skip_2822_addr_spec(p, opt) = c
  BY DEF Parse!skip_2822_addr_spec
<1> HIDE DEF a, b, c
<1> QED
  BY <1>1, <1>2, <1>3, <1>4 DEF Ahead, Past

LEMMA ObsAngleAddrFits ==
  ASSUME NEW l \in Seq(Chars), NEW e, EndsFit(l, e), NEW p \in 0..Len(l) + 2, NEW opt
  PROVE  Past(Len(l), p, Parse(l, e)!skip_2822_obs_angle_addr(p, opt))
<1> DEFINE o == opt \cup Parse(l, e)!Obsolete
           a == Parse(l, e)!Cfws(p)
           b == Parse(l, e)!skip_single_char(a, "<")
           c == Parse(l, e)!skip_2822_obs_route(b, o)
           d == Parse(l, e)!Or(c, b)
           g == Parse(l, e)!skip_2822_addr_spec(d, o)
           h == Parse(l, e)!skip_single_char(g, ">")
           i == Parse(l, e)!Cfws(h)
<1>1. Ahead(Len(l), p, a)
  BY CfwsFits DEF Ahead, Past
<1>2. Past(Len(l), a, b)
  BY <1>1, SingleCharFits DEF Ahead, Past
<1>3. Past(Len(l), b, c)
  BY <1>1, <1>2, ObsRouteFits DEF Ahead, Past
<1>4. Ahead(Len(l), b, d)
  BY <1>1, <1>2, <1>3 DEF Ahead, Past, Parse!OrObs, Parse!Or, Parse!Found
<1>5. Past(Len(l), d, g)
  BY <1>1, <1>2, <1>3, <1>4, AddrSpecFits DEF Ahead, Past
<1>6. Past(Len(l), g, h)
  BY <1>1, <1>2, <1>3, <1>4, <1>5, SingleCharFits DEF Ahead, Past
<1>7. Ahead(Len(l), h, i)
  BY <1>1, <1>2, <1>3, <1>4, <1>5, <1>6, CfwsFits DEF Ahead, Past
<1>8. Parse(l, e)!skip_2822_obs_angle_addr(p, opt) = i
  BY DEF Parse!skip_2822_obs_angle_addr
<1> HIDE DEF o, a, b, c, d, g, h, i
<1> QED
  BY <1>1, <1>2, <1>3, <1>4, <1>5, <1>6, <1>7, <1>8 DEF Ahead, Past

LEMMA AngleAddrFits ==
  ASSUME NEW l \in Seq(Chars), NEW e, EndsFit(l, e), NEW p \in 0..Len(l) + 2, NEW opt
  PROVE  Past(Len(l), p, Parse(l, e)!skip_2822_angle_addr(p, opt))
<1> DEFINE a == Parse(l, e)!Cfws(p)
           b == Parse(l, e)!skip_single_char(a, "<")
           c == Parse(l, e)!skip_2822_addr_spec(b, opt)
           d == Parse(l, e)!skip_single_char(c, ">")
           f == Parse(l, e)!skip_2822_obs_angle_addr(p, opt)
           g == Parse(l, e)!OrObs(d, f, opt)
           h == Parse(l, e)!Cfws(g)
<1>1. Ahead(Len(l), p, a)
  BY CfwsFits DEF Ahead, Past
<1>2. Past(Len(l), a, b)
  BY <1>1, SingleCharFits DEF Ahead, Past
<1>3. Past(Len(l), b, c)
  BY <1>1, <1>2, AddrSpecFits DEF Ahead, Past
<1>4. Past(Len(l), c, d)
  BY <1>1, <1>2, <1>3, SingleCharFits DEF Ahead, Past
<1>5. Past(Len(l), p, f)
  BY <1>1, <1>2, <1>3, <1>4, ObsAngleAddrFits DEF Ahead, Past
<1>6. Past(Len(l), p, g)
  BY <1>1, <1>2, <1>3, <1>4, <1>5 DEF Ahead, Past, Parse!OrObs, Parse!Or, Parse!Found
<1>7. Ahead(Len(l), g, h)
  BY <1>1, <1>2, <1>3, <1>4, <1>5, <1>6, CfwsFits DEF Ahead, Past
<1>8. Parse(l, e)!skip_2822_angle_addr(p, opt) = h
  BY DEF Parse!skip_2822_angle_addr
<1> HIDE DEF a, b, c, d, f, g, h
<1> QED
  BY <1>1, <1>2, <1>3, <1>4, <1>5, <1>6, <1>7, <1>8 DEF Ahead, Past

LEMMA PhraseFits ==
  ASSUME NEW l \in Seq(Chars), NEW e, EndsFit(l, e), NEW p \in 0..Len(l) + 2, NEW opt
  PROVE  Past(Len(l), p, Parse(l, e)!skip_2822_phrase(p, opt))
<1> DEFINE a == Parse(l, e)!skip_2822_obs_phrase(p, opt)
           s == [q \in Parse(l, e)!Places |-> Parse(l, e)!skip_2822_word(q, opt)]
           b == Parse(l, e)!Repeat(p, s)
<1>1. Past(Len(l), p, a)
  BY ObsPhraseFits DEF Ahead, Past
<1>2. AllPast(Len(l), s)
  BY WordFits DEF AllPast, Parse!Places
<1>3. Past(Len(l), p, b)
  BY <1>1, <1>2, RepeatFits DEF Ahead, Past
<1>4. Parse(l, e)!skip_2822_phrase(p, opt) = IF Parse(l, e)!IsObs(opt) THEN a ELSE b
  BY DEF Parse!skip_2822_phrase
<1> HIDE DEF a, s, b
<1> QED
  BY <1>1, <1>2, <1>3, <1>4 DEF Ahead, Past

LEMMA NameAddrFits ==
  ASSUME NEW l \in Seq(Chars), NEW e, EndsFit(l, e), NEW p \in 0..Len(l) + 2, NEW opt
  PROVE  Past(Len(l), p, Parse(l, e)!skip_2822_name_addr(p, opt))
<1> DEFINE a == Parse(l, e)!skip_2822_phrase(p, opt)
           b == Parse(l, e)!Or(a, p)
           c == Parse(l, e)!skip_2822_angle_addr(b, opt)
<1>1. Past(Len(l), p, a)
  BY PhraseFits DEF Ahead, Past
<1>2. Ahead(Len(l), p, b)
  BY <1>1 DEF Ahead, Past, Parse!OrObs, Parse!Or, Parse!Found
<1>3. Past(Len(l), b, c)
  BY <1>1, <1>2, AngleAddrFits DEF Ahead, Past
<1>4. Parse(l, e)!skip_2822_name_addr(p, opt) = c
  BY DEF Parse!skip_2822_name_addr, Parse!skip_2822_display_name
<1> HIDE DEF a, b, c
<1> QED
  BY <1>1, <1>2, <1>3, <1>4 DEF Ahead, Past

LEMMA MailboxFits ==
  ASSUME NEW l \in Seq(Chars), NEW e, EndsFit(l, e), NEW p \in 0..Len(l) + 2, NEW opt
  PROVE  Past(Len(l), p, Parse(l, e)!skip_2822_mailbox(p, opt))
<1> DEFINE a == Parse(l, e)!skip_2822_addr_spec(p, opt)
           b == Parse(l, e)!skip_2822_name_addr(p, opt)
<1>1. Past(Len(l), p, a)
  BY AddrSpecFits DEF Ahead, Past
<1>2. Past(Len(l), p, b)
  BY <1>1, NameAddrFits DEF Ahead, Past
<1>3. Parse(l, e)!skip_2822_mailbox(p, opt) = Parse(l, e)!Or(a, b)
  BY DEF Parse!skip_2822_mailbox
<1> HIDE DEF a, b
<1> QED
  BY <1>1, <1>2, <1>3 DEF Ahead, Past, Parse!Or, Parse!Found

LEMMA ListOfFits ==
  ASSUME NEW l \in Seq(Chars), NEW e, EndsFit(l, e), NEW p \in 0..Len(l) + 2, NEW opt,
         NEW skip, AllPast(Len(l), skip)
  PROVE  Past(Len(l), p, Parse(l, e)!ListOf(p, skip, opt))
<1> DEFINE a == Parse(l, e)!skip_2822_seq(p, skip, ",")
           b == Parse(l, e)!skip_2822_obs_list(p, skip)
<1>1. Past(Len(l), p, a)
  BY PastSeq DEF Ahead, Past
<1>2. Past(Len(l), p, b)
  BY <1>1, ObsListFits DEF Ahead, Past
<1>3. Parse(l, e)!ListOf(p, skip, opt) = Parse(l, e)!OrObs(a, b, opt)
  BY DEF Parse!ListOf
<1> HIDE DEF a, b
<1> QED
  BY <1>1, <1>2, <1>3 DEF Ahead, Past, Parse!OrObs, Parse!Or, Parse!Found

LEMMA MailboxListFits ==
  ASSUME NEW l \in Seq(Chars), NEW e, EndsFit(l, e), NEW p \in 0..Len(l) + 2, NEW opt
  PROVE  Past(Len(l), p, Parse(l, e)!skip_2822_mailbox_list(p, opt))
<1> DEFINE s == [q \in Parse(l, e)!Places |-> Parse(l, e)!skip_2822_mailbox(q, opt)]
           a == Parse(l, e)!ListOf(p, s, opt)
<1>1. AllPast(Len(l), s)
  BY MailboxFits DEF AllPast, Parse!Places
<1>2. Past(Len(l), p, a)
  BY <1>1, ListOfFits DEF Ahead, Past
<1>3. Parse(l, e)!skip_2822_mailbox_list(p, opt) = a
  BY DEF Parse!skip_2822_mailbox_list
<1> HIDE DEF s, a
<1> QED
  BY <1>1, <1>2, <1>3 DEF Ahead, Past

LEMMA GroupFits ==
  ASSUME NEW l \in Seq(Chars), NEW e, EndsFit(l, e), NEW p \in 0..Len(l) + 2, NEW opt
  PROVE  Past(Len(l), p, Parse(l, e)!skip_2822_group(p, opt))
<1> DEFINE a == Parse(l, e)!skip_2822_phrase(p, opt)
           b == Parse(l, e)!skip_single_char(a, ":")
           c == Parse(l, e)!skip_2822_mailbox_list(b, opt)
           d == Parse(l, e)!Cfws1(b)
           f == Parse(l, e)!Or(c, Parse(l, e)!Or(d, b))
           g == Parse(l, e)!skip_single_char(f, ";")
           h == Parse(l, e)!Cfws(g)
<1>1. Past(Len(l), p, a)
  BY PhraseFits DEF Ahead, Past
<1>2. Past(Len(l), a, b)
  BY <1>1, SingleCharFits DEF Ahead, Past
<1>3. Past(Len(l), b, c)
  BY <1>1, <1>2, MailboxListFits DEF Ahead, Past
<1>4. Past(Len(l), b, d)
  BY <1>1, <1>2, <1>3, CfwsFits DEF Ahead, Past
<1>5. Ahead(Len(l), b, f)
  BY <1>1, <1>2, <1>3, <1>4 DEF Ahead, Past, Parse!OrObs, Parse!Or, Parse!Found
<1>6. Past(Len(l), f, g)
  BY <1>1, <1>2, <1>3, <1>4, <1>5, SingleCharFits DEF Ahead, Past
<1>7. Ahead(Len(l), g, h)
  BY <1>1, <1>2, <1>3, <1>4, <1>5, <1>6, CfwsFits DEF Ahead, Past
<1>8. Parse(l, e)!skip_2822_group(p, opt) = h
  BY DEF Parse!skip_2822_group, Parse!skip_2822_display_name
<1> HIDE DEF a, b, c, d, f, g, h
<1> QED
  BY <1>1, <1>2, <1>3, <1>4, <1>5, <1>6, <1>7, <1>8 DEF Ahead, Past

LEMMA AddressFits ==
  ASSUME NEW l \in Seq(Chars), NEW e, EndsFit(l, e), NEW p \in 0..Len(l) + 2, NEW opt
  PROVE  Past(Len(l), p, Parse(l, e)!skip_2822_address(p, opt))
<1> DEFINE a == Parse(l, e)!skip_2822_mailbox(p, opt)
           b == Parse(l, e)!skip_2822_group(p, opt)
<1>1. Past(Len(l), p, a)
  BY MailboxFits DEF Ahead, Past
<1>2. Past(Len(l), p, b)
  BY <1>1, GroupFits DEF Ahead, Past
<1>3. Parse(l, e)!skip_2822_address(p, opt) = Parse(l, e)!Or(a, b)
  BY DEF Parse!skip_2822_address
<1> HIDE DEF a, b
<1> QED
  BY <1>1, <1>2, <1>3 DEF Ahead, Past, Parse!Or, Parse!Found

LEMMA AddressListFits ==
  ASSUME NEW l \in Seq(Chars), NEW e, EndsFit(l, e), NEW p \in 0..Len(l) + 2, NEW opt
  PROVE  Past(Len(l), p, Parse(l, e)!skip_2822_address_list(p, opt))
<1> DEFINE s == [q \in Parse(l, e)!Places |-> Parse(l, e)!skip_2822_address(q, opt)]
           a == Parse(l, e)!ListOf(p, s, opt)
<1>1. AllPast(Len(l), s)
  BY AddressFits DEF AllPast, Parse!Places
<1>2. Past(Len(l), p, a)
  BY <1>1, ListOfFits DEF Ahead, Past
<1>3. Parse(l, e)!skip_2822_address_list(p, opt) = a
  BY DEF Parse!skip_2822_address_list
<1> HIDE DEF s, a
<1> QED
  BY <1>1, <1>2, <1>3 DEF Ahead, Past

(* Bracketed texts: the place a text ends that is k deep in brackets at q. *)
Inner(f, at, opening, closing, quote, q, k) ==
  IF at[q] = "nul" THEN 0
  ELSE IF at[q] = closing THEN IF k = 1 THEN q + 1 ELSE f[q + 1][k - 1]
  ELSE IF at[q] = opening THEN f[q + 1][k + 1]
  ELSE f[IF at[q] = quote THEN q + 2 ELSE q + 1][k]

IsInside(f, m, n, at, opening, closing, quote) ==
  f = [q \in m..n + 2 |-> [k \in Nat \ {0} |-> Inner(f, at, opening, closing, quote, q, k)]]

LEMMA InsideExtends ==
  ASSUME NEW n \in Nat, NEW m \in 1..n + 2, NEW at, \A q \in n + 1..n + 2 : at[q] = "nul",
         NEW opening, NEW closing, NEW quote, NEW g, IsInside(g, m + 1, n, at, opening, closing, quote)
  PROVE  \E f : IsInside(f, m, n, at, opening, closing, quote)
<1> DEFINE inner(f, q, k) == Inner(f, at, opening, closing, quote, q, k)
<1>1. PICK h : h = [q \in m..n + 2 |-> [k \in Nat \ {0} |-> inner(g, q, k)]]
  OBVIOUS
<1>2. \A q \in m + 1..n + 2 : g[q] = [k \in Nat \ {0} |-> inner(g, q, k)]
  BY DEF IsInside
<1>3. \A q \in m + 1..n + 2 : h[q] = g[q]
  BY <1>1, <1>2
<1>4. \A q \in m..n + 2, k \in Nat \ {0} : inner(h, q, k) = inner(g, q, k)
  <2> SUFFICES ASSUME NEW q \in m..n + 2, NEW k \in Nat \ {0}
               PROVE  inner(h, q, k) = inner(g, q, k)
    OBVIOUS
  <2>1. CASE at[q] = "nul"
    BY <2>1 DEF Inner
  <2>2. CASE at[q] # "nul"
    <3>1. q + 1 \in m + 1..n + 2 /\ q + 2 \in m + 1..n + 2
      BY <2>2
    <3>2. h[q + 1] = g[q + 1] /\ h[q + 2] = g[q + 2]
      BY <1>3, <3>1
    <3> QED
      BY <3>2 DEF Inner
  <2> QED
    BY <2>1, <2>2
<1> HIDE DEF inner
<1>5. \A q \in m..n + 2 : h[q] = [k \in Nat \ {0} |-> inner(h, q, k)]
  BY <1>1, <1>4
<1>6. h = [q \in m..n + 2 |-> h[q]]
  BY <1>1
<1>7. h = [q \in m..n + 2 |-> [k \in Nat \ {0} |-> inner(h, q, k)]]
  BY <1>5, <1>6
<1> QED
  BY <1>7 DEF IsInside, inner

LEMMA InsideExists ==
  ASSUME NEW n \in Nat, NEW at, \A q \in n + 1..n + 2 : at[q] = "nul",
         NEW opening, NEW closing, NEW quote
  PROVE  \E f : IsInside(f, 1, n, at, opening, closing, quote)
<1> DEFINE is(f, m) == IsInside(f, m, n, at, opening, closing, quote)
           T == {j \in Nat : j <= n + 2 /\ ~\E f : is(f, n + 3 - j)}
<1>1. T \subseteq Nat /\ \A j \in Nat : j <= n + 2 => (j \notin T <=> \E f : is(f, n + 3 - j))
  OBVIOUS
<1>2. \A j \in T : j <= n + 2
  OBVIOUS
<1> HIDE DEF T, is
<1>3. T = {}
  <2> SUFFICES ASSUME T # {} PROVE FALSE
    OBVIOUS
  <2>1. PICK j \in T : \A y \in T : ~(y < j)
    BY <1>1, SmallestOfNat
  <2>2. j \in Nat /\ j <= n + 2
    BY <1>1, <1>2
  <2>3. j # 0
    <3>1. PICK f : f = [q \in {} |-> 0]
      OBVIOUS
    <3>2. f = [q \in n + 3..n + 2 |-> [k \in Nat \ {0} |-> Inner(f, at, opening, closing, quote, q, k)]]
      <4>1. n + 3..n + 2 = {}
        OBVIOUS
      <4> QED
        BY <3>1, <4>1
    <3>3. is(f, n + 3)
      BY <3>2 DEF is, IsInside
    <3>4. n + 3 - 0 = n + 3
      OBVIOUS
    <3>5. 0 \notin T
      BY <1>1, <3>3, <3>4
    <3> QED
      BY <3>5
  <2>4. j - 1 \in Nat /\ j - 1 < j /\ n + 3 - (j - 1) = (n + 3 - j) + 1 /\ n + 3 - j \in 1..n + 2
    BY <2>2, <2>3
  <2>5. PICK g : is(g, (n + 3 - j) + 1)
    BY <1>1, <2>1, <2>2, <2>4
  <2>6. \E f : is(f, n + 3 - j)
    BY <2>4, <2>5, InsideExtends DEF is
  <2> QED
    BY <1>1, <2>1, <2>2, <2>6
<1>4. n + 2 \in Nat /\ n + 3 - (n + 2) = 1
  OBVIOUS
<1>5. \E f : is(f, 1)
  BY <1>1, <1>3, <1>4
<1> QED
  BY <1>5 DEF is

LEMMA InsideFits ==
  ASSUME NEW n \in Nat, NEW at, \A q \in n + 1..n + 2 : at[q] = "nul",
         NEW opening, NEW closing, NEW quote,
         NEW f, IsInside(f, 1, n, at, opening, closing, quote)
  PROVE  \A q \in 1..n + 2, k \in Nat \ {0} : Past(n, q, f[q][k])
<1> DEFINE Good(q) == \A k \in Nat \ {0} : Past(n, q, f[q][k])
           T == {j \in Nat : j <= n + 1 /\ ~Good(n + 2 - j)}
<1>1. T \subseteq Nat /\ \A j \in Nat : j <= n + 1 => (j \notin T <=> Good(n + 2 - j))
  OBVIOUS
<1>2. \A j \in T : j <= n + 1
  OBVIOUS
<1> HIDE DEF T, Good
<1>3. T = {}
  <2> SUFFICES ASSUME T # {} PROVE FALSE
    OBVIOUS
  <2>1. PICK j \in T : \A y \in T : ~(y < j)
    BY <1>1, SmallestOfNat
  <2>2. PICK q : q = n + 2 - j
    OBVIOUS
  <2>3. q \in 1..n + 2 /\ j \in Nat /\ j <= n + 1
    BY <1>1, <1>2, <2>2
  <2>4. ASSUME NEW r \in q + 1..n + 2 PROVE Good(r)
    <3>1. n + 2 - r \in Nat /\ n + 2 - r < j /\ n + 2 - r <= n + 1 /\ n + 2 - (n + 2 - r) = r
      BY <2>2, <2>3
    <3> QED
      BY <1>1, <2>1, <3>1
  <2>5. ASSUME NEW k \in Nat \ {0} PROVE Past(n, q, f[q][k])
    <3>1. f[q][k] = Inner(f, at, opening, closing, quote, q, k)
      BY <2>3 DEF IsInside
    <3>2. CASE at[q] = "nul"
      BY <2>3, <3>1, <3>2 DEF Inner, Past, Ahead
    <3>3. CASE at[q] # "nul"
      <4>1. q <= n /\ q + 1 \in q + 1..n + 2 /\ q + 2 \in q + 1..n + 2
        BY <2>3, <3>3
      <4>2. \A i \in Nat \ {0} : Past(n, q + 1, f[q + 1][i]) /\ Past(n, q + 2, f[q + 2][i])
        BY <2>4, <4>1 DEF Good
      <4>3. k + 1 \in Nat \ {0} /\ (k # 1 => k - 1 \in Nat \ {0})
        OBVIOUS
      <4>4. /\ Past(n, q + 1, f[q + 1][k]) /\ Past(n, q + 2, f[q + 2][k])
            /\ Past(n, q + 1, f[q + 1][k + 1]) /\ (k # 1 => Past(n, q + 1, f[q + 1][k - 1]))
        BY <4>2, <4>3
      <4> QED
        BY <2>3, <3>1, <3>3, <4>1, <4>4 DEF Inner, Past, Ahead
    <3> QED
      BY <3>2, <3>3
  <2>6. Good(q)
    BY <2>5 DEF Good
  <2> QED
    BY <1>1, <2>1, <2>2, <2>3, <2>6
<1> SUFFICES ASSUME NEW q \in 1..n + 2 PROVE Good(q)
  BY DEF Good
<1>4. n + 2 - q \in Nat /\ n + 2 - q <= n + 1 /\ n + 2 - (n + 2 - q) = q
  OBVIOUS
<1> QED
  BY <1>1, <1>3, <1>4

LEMMA RecursiveFits ==
  ASSUME NEW l \in Seq(Chars), NEW e, NEW p \in 0..Len(l) + 2,
         NEW opening, opening # "nul", NEW closing, NEW quote
  PROVE  Past(Len(l), p, Parse(l, e)!skip_recursive(p, opening, closing, quote))
<1> DEFINE n == Len(l)
           D == 1..n + 2
           K == Nat \ {0}
           ch(q) == Parse(l, e)!At(q)
           inner(f, q, k) ==
             IF ch(q) = "nul" THEN 0
             ELSE IF ch(q) = closing THEN IF k = 1 THEN q + 1 ELSE f[q + 1][k - 1]
             ELSE IF ch(q) = opening THEN f[q + 1][k + 1]
             ELSE f[IF ch(q) = quote THEN q + 2 ELSE q + 1][k]
           Is(f) == f = [q \in D |-> [k \in K |-> inner(f, q, k)]]
           inside == CHOOSE f : Is(f)
<1>1. n \in Nat
  OBVIOUS
<1>2. PICK at : at = [q \in D |-> ch(q)]
  OBVIOUS
<1>3. \A q \in n + 1..n + 2 : at[q] = "nul"
  BY <1>2, AtEnd
<1>4. Parse(l, e)!skip_recursive(p, opening, closing, quote) =
        IF p > 0 THEN IF ch(p) = opening THEN inside[p + 1][1] ELSE 0 ELSE p
  BY DEF Parse!skip_recursive, Parse!Found, Parse!Places, Parse!NULL
<1>5. ch(p) = opening => p \in 1..n
  BY AtEnd
<1>6. \A f : Is(f) <=> IsInside(f, 1, n, at, opening, closing, quote)
  <2> HIDE DEF ch
  <2>1. \A q \in D : at[q] = ch(q)
    BY <1>2
  <2>2. \A f, k : \A q \in D : Inner(f, at, opening, closing, quote, q, k) = inner(f, q, k)
    BY <2>1 DEF Inner
  <2> HIDE DEF inner
  <2>3. \A f : \A q \in D : [k \in K |-> Inner(f, at, opening, closing, quote, q, k)] =
                           [k \in K |-> inner(f, q, k)]
    BY <2>2
  <2>4. \A f : [q \in D |-> [k \in K |-> Inner(f, at, opening, closing, quote, q, k)]] =
             [q \in D |-> [k \in K |-> inner(f, q, k)]]
    BY <2>3
  <2> QED
    BY <2>4 DEF IsInside
<1> HIDE DEF n, ch, Is
<1>7. Is(inside)
  BY <1>1, <1>3, <1>6, InsideExists
<1> HIDE DEF inside
<1>8. \A q \in 1..n + 2, k \in Nat \ {0} : Past(n, q, inside[q][k])
  BY <1>1, <1>3, <1>6, <1>7, InsideFits
<1>9. ch(p) = opening => Past(n, p + 1, inside[p + 1][1])
  BY <1>1, <1>5, <1>8
<1>10. p \in 0..n + 2
  BY DEF n
<1> QED
  BY <1>1, <1>4, <1>5, <1>9, <1>10 DEF n, Past, Ahead

LEMMA BlankFits ==
  ASSUME NEW l \in Seq(Chars), NEW e, NEW p \in 0..Len(l) + 2
  PROVE  Past(Len(l), p, Parse(l, e)!skip_2822_fws(p))
<1>1. CASE p = 0
  BY <1>1 DEF Parse!skip_2822_fws, Parse!Found, Past, Ahead
<1>2. CASE p # 0
  <2> DEFINE r == Parse(l, e)!RunOf(p, {"nl"})
             s == Parse(l, e)!skip_run(r, Parse(l, e)!Blank)
  <2>1. p \in 1..Len(l) + 2 /\ p > 0
    BY <1>2
  <2>2. Ahead(Len(l), p, r)
    BY <2>1, RunFits
  <2>3. "nul" \notin Parse(l, e)!Blank
    BY DEF Parse!Blank
  <2>4. Past(Len(l), r, s)
    BY <2>2, <2>3, SkipRunFits DEF Ahead
  <2>5. Parse(l, e)!skip_2822_fws(p) = s
    BY <2>1 DEF Parse!skip_2822_fws, Parse!Found
  <2> HIDE DEF r, s
  <2> QED
    BY <2>2, <2>4, <2>5 DEF Ahead, Past
<1> QED
  BY <1>1, <1>2

(* White space and comments; an unclosed comment leads nowhere.            *)
LEMMA WhiteFits ==
  ASSUME NEW l \in Seq(Chars), NEW e, NEW p \in 0..Len(l) + 2, NEW min \in 0..1
  PROVE  /\ Ahead(Len(l), p, Parse(l, e)!skip_2822_cfws(p, min))
         /\ min = 1 => Past(Len(l), p, Parse(l, e)!skip_2822_cfws(p, min))
<1> DEFINE n == Len(l)
           D == 1..n + 2
           fws(q) == Parse(l, e)!skip_2822_fws(q)
           comment(q) == Parse(l, e)!skip_recursive(q, "(", ")", "\\")
           ch(q) == Parse(l, e)!At(q)
           space == Parse(l, e)!Space
           one(q) == IF ch(q) \in space THEN fws(q) ELSE comment(q)
           Is(f) == f = [q \in D |-> IF one(q) > 0 THEN f[one(q)] ELSE IF ch(q) = "(" THEN 0 ELSE q]
           cfws == CHOOSE f : Is(f)
           start == IF p > 0 /\ min = 1 THEN one(p) ELSE p
<1>1. n \in Nat /\ p \in 0..n + 2
  OBVIOUS
<1>2. \A q \in 0..n + 2 : Past(n, q, one(q))
  <2>1. \A q \in 0..n + 2 : Past(n, q, fws(q)) /\ Past(n, q, comment(q))
    BY BlankFits, RecursiveFits
  <2> HIDE DEF fws, comment, ch
  <2> QED
    BY <2>1
<1>3. Parse(l, e)!skip_2822_cfws(p, min) = IF start > 0 THEN cfws[start] ELSE start
  BY DEF Parse!skip_2822_cfws, Parse!Found, Parse!Places, Parse!NULL, Parse!skip_comment
<1> HIDE DEF n, one, ch
<1>4. PICK step, base : /\ step = [q \in D |-> one(q)]
                        /\ base = [q \in D |-> IF ch(q) = "(" THEN 0 ELSE q]
  OBVIOUS
<1>5. AllPast(n, step) /\ AllAhead(n, base)
  BY <1>1, <1>2, <1>4 DEF AllPast, AllAhead, Ahead
<1>6. Steps(D, step, n + 2) /\ D \subseteq Nat /\ n + 2 \in Nat
  BY <1>1, <1>5 DEF Steps, AllPast, Past, Ahead
<1>7. \A f : Stepwise(f, D, step, base) <=> Is(f)
  <2>1. \A q \in D : /\ step[q] = one(q) /\ (one(q) # 0 <=> one(q) > 0)
                     /\ base[q] = IF ch(q) = "(" THEN 0 ELSE q
    BY <1>1, <1>2, <1>4 DEF Past, Ahead
  <2> QED
    BY <2>1 DEF Stepwise
<1>8. Is(cfws)
  BY <1>6, <1>7, StepwiseExists
<1> HIDE DEF cfws, Is
<1>9. Stepwise(cfws, D, step, base)
  BY <1>7, <1>8
<1>10. Leads(n, cfws, step, base)
  BY <1>9 DEF Leads, Stepwise
<1>11. AllAhead(n, cfws)
  BY <1>1, <1>5, <1>10, StepwiseAhead
<1>12. Past(n, p, one(p))
  BY <1>1, <1>2
<1> QED
  BY <1>1, <1>3, <1>11, <1>12 DEF n, AllAhead, Ahead, Past

LEMMA EndsAreFit ==
  ASSUME NEW l \in Seq(Chars)
  PROVE  EndsFit(l, Scan(l)!Ends)
<1> DEFINE n == Len(l)
<1>1. PICK e : e = Scan(l)!Ends
  OBVIOUS
<1>2. /\ \A p, a, b, q : Scan(l)!skip_recursive(p, a, b, q) = Parse(l, e)!skip_recursive(p, a, b, q)
      /\ \A p : Scan(l)!skip_2822_fws(p) = Parse(l, e)!skip_2822_fws(p)
  BY DEF Scan!skip_recursive, Parse!skip_recursive, Scan!Found, Parse!Found, Scan!At, Parse!At,
         Scan!NULL, Parse!NULL, Scan!Places, Parse!Places, Scan!skip_2822_fws, Parse!skip_2822_fws,
         Scan!skip_run, Parse!skip_run, Scan!RunOf, Parse!RunOf, Scan!Blank, Parse!Blank
<1>3. \A p, min : Scan(l)!skip_2822_cfws(p, min) = Parse(l, e)!skip_2822_cfws(p, min)
  BY DEF Scan!skip_2822_cfws, Parse!skip_2822_cfws, Scan!skip_recursive, Parse!skip_recursive,
         Scan!Found, Parse!Found, Scan!At, Parse!At, Scan!NULL, Parse!NULL, Scan!Places,
         Parse!Places, Scan!skip_2822_fws, Parse!skip_2822_fws, Scan!skip_run, Parse!skip_run,
         Scan!RunOf, Parse!RunOf, Scan!skip_comment, Parse!skip_comment, Scan!Space, Parse!Space,
         Scan!Blank, Parse!Blank
<1>4. /\ \A p \in 1..n + 2 : e.cfws[p][0] = Scan(l)!skip_2822_cfws(p, 0)
      /\ \A p \in 1..n + 2 : e.cfws[p][1] = Scan(l)!skip_2822_cfws(p, 1)
      /\ \A p \in 1..n + 2 : e.quoted[p] = Scan(l)!skip_recursive(p, "\"", "\"", "\\")
      /\ \A p \in 1..n + 2 : e.literal[p] = Scan(l)!skip_recursive(p, "[", "]", "\\")
  <2>1. /\ e.cfws = [p \in 1..n + 2 |-> [min \in 0..1 |-> Scan(l)!skip_2822_cfws(p, min)]]
        /\ e.quoted = [p \in 1..n + 2 |-> Scan(l)!skip_recursive(p, "\"", "\"", "\\")]
        /\ e.literal = [p \in 1..n + 2 |-> Scan(l)!skip_recursive(p, "[", "]", "\\")]
    BY <1>1 DEF Scan!Ends, Scan!Places
  <2>2. /\ \A p \in 1..n + 2 : e.cfws[p][0] = Scan(l)!skip_2822_cfws(p, 0)
        /\ \A p \in 1..n + 2 : e.cfws[p][1] = Scan(l)!skip_2822_cfws(p, 1)
    <3>1. \A p \in 1..n + 2 : e.cfws[p] = [min \in 0..1 |-> Scan(l)!skip_2822_cfws(p, min)]
      BY <2>1, Zenon
    <3>2. \A p \in 1..n + 2 :
            /\ [min \in 0..1 |-> Scan(l)!skip_2822_cfws(p, min)][0] = Scan(l)!skip_2822_cfws(p, 0)
            /\ [min \in 0..1 |-> Scan(l)!skip_2822_cfws(p, min)][1] = Scan(l)!skip_2822_cfws(p, 1)
      OBVIOUS
    <3> QED
      BY <3>1, <3>2, Zenon
  <2>3. \A p \in 1..n + 2 : e.quoted[p] = Scan(l)!skip_recursive(p, "\"", "\"", "\\")
    BY <2>1
  <2>4. \A p \in 1..n + 2 : e.literal[p] = Scan(l)!skip_recursive(p, "[", "]", "\\")
    BY <2>1
  <2> QED
    BY <2>2, <2>3, <2>4
<1>5. /\ \A p \in 1..n + 2 : Ahead(n, p, e.cfws[p][0])
      /\ \A p \in 1..n + 2 : Past(n, p, e.cfws[p][1])
      /\ \A p \in 1..n + 2 : Past(n, p, e.quoted[p])
      /\ \A p \in 1..n + 2 : Past(n, p, e.literal[p])
  <2>1. ASSUME NEW p \in 1..n + 2
        PROVE  /\ Ahead(n, p, e.cfws[p][0]) /\ Past(n, p, e.cfws[p][1])
               /\ Past(n, p, e.quoted[p]) /\ Past(n, p, e.literal[p])
    <3>1. p \in 0..Len(l) + 2 /\ 0 \in 0..1 /\ 1 \in 0..1 /\ "\"" # "nul" /\ "[" # "nul"
      OBVIOUS
    <3>2. /\ Ahead(n, p, Parse(l, e)!skip_2822_cfws(p, 0))
          /\ Past(n, p, Parse(l, e)!skip_2822_cfws(p, 1))
      BY <3>1, WhiteFits
    <3>3. /\ Past(n, p, Parse(l, e)!skip_recursive(p, "\"", "\"", "\\"))
          /\ Past(n, p, Parse(l, e)!skip_recursive(p, "[", "]", "\\"))
      BY <3>1, RecursiveFits
    <3>4. /\ e.cfws[p][0] = Parse(l, e)!skip_2822_cfws(p, 0)
          /\ e.cfws[p][1] = Parse(l, e)!skip_2822_cfws(p, 1)
          /\ e.quoted[p] = Parse(l, e)!skip_recursive(p, "\"", "\"", "\\")
          /\ e.literal[p] = Parse(l, e)!skip_recursive(p, "[", "]", "\\")
      <4>1. e.cfws[p][0] = Parse(l, e)!skip_2822_cfws(p, 0) /\ e.cfws[p][1] = Parse(l, e)!skip_2822_cfws(p, 1)
        BY <1>3, <1>4
      <4>2. /\ e.quoted[p] = Parse(l, e)!skip_recursive(p, "\"", "\"", "\\")
            /\ e.literal[p] = Parse(l, e)!skip_recursive(p, "[", "]", "\\")
        <5>1. \A a, b, q : Scan(l)!skip_recursive(p, a, b, q) = Parse(l, e)!skip_recursive(p, a, b, q)
          BY <1>2
        <5>2. e.quoted[p] = Scan(l)!skip_recursive(p, "\"", "\"", "\\")
          BY <1>4
        <5>3. e.literal[p] = Scan(l)!skip_recursive(p, "[", "]", "\\")
          BY <1>4
        <5> QED
          BY <5>1, <5>2, <5>3
      <4> QED
        BY <4>1, <4>2
    <3> QED
      BY <3>2, <3>3, <3>4
  <2> QED
    BY <2>1
<1>6. EndsFit(l, e)
  BY <1>5 DEF EndsFit, AllPast, AllAhead
<1> QED
  BY <1>6, <1>1

(* The token of a header lies in its text, and only a header whose         *)
(* mailboxes are looked for has one.                                       *)
TokenFits(f, l, token) ==
  /\ token \in (0..Len(l) + 1) \X (0..Len(l) + 1)
  /\ IF token[1] = 0 THEN token[2] = 0 ELSE f \in Printable /\ token[1] < token[2]

LEMMA TokenIsFit ==
  ASSUME NEW l \in Seq(Chars), NEW f, NEW state
  PROVE  TokenFits(f, l, Parse(l, Scan(l)!Ends)!Token(f, state))
<1>1. PICK e : e = Scan(l)!Ends
  OBVIOUS
<1>2. EndsFit(l, e)
  BY <1>1, EndsAreFit
<1> DEFINE opt == Parse(l, e)!TriedLast(state)
           start == Parse(l, e)!ObsCfws(1, opt)
           begin == Parse(l, e)!Value2822(opt)
           address == Parse(l, e)!skip_2822_address_list(begin, opt)
           list == Parse(l, e)!skip_2822_mailbox_list(begin, opt)
           mailbox == Parse(l, e)!skip_2822_mailbox(begin, opt)
           end == CASE f \in Parse(l, e)!AddressLists -> address
                    [] f \in Parse(l, e)!MailboxLists -> list
                    [] OTHER -> mailbox
<1>3. Ahead(Len(l), 1, start)
  BY <1>2, CfwsFits DEF Parse!ObsCfws, Ahead
<1>4. Past(Len(l), start, begin)
  BY <1>3, SingleCharFits DEF Parse!Value2822, Parse!skip_2822_field_name, Ahead
<1>5. Past(Len(l), begin, address) /\ Past(Len(l), begin, list) /\ Past(Len(l), begin, mailbox)
  BY <1>2, <1>4, AddressListFits, MailboxListFits, MailboxFits DEF Past, Ahead
<1>6. Parse(l, e)!Printable = Printable
  BY DEF Parse!Printable, Printable, Parse!AddressLists, AddressLists, Parse!MailboxLists,
         MailboxLists, Parse!Mailboxes, Mailboxes
<1>7. Parse(l, e)!AddressLists \cap Parse(l, e)!MailboxLists = {}
  BY DEF Parse!AddressLists, Parse!MailboxLists
<1>8. Parse(l, e)!Token(f, state) =
        IF f \in Printable /\ end > 0 THEN <<begin, end>> ELSE <<0, 0>>
  BY <1>6 DEF Parse!Token, Parse!Found, Parse!NULL
<1> HIDE DEF opt, start, begin, address, list, mailbox
<1>9. Past(Len(l), begin, end)
  BY <1>5, <1>7
<1> HIDE DEF end
<1>10. /\ end > 0 => /\ begin \in 0..Len(l) + 1 /\ end \in 0..Len(l) + 1
                      /\ begin # 0 /\ begin < end
       /\ 0 \in 0..Len(l) + 1
  BY <1>3, <1>4, <1>9 DEF Past, Ahead
<1>11. TokenFits(f, l, Parse(l, e)!Token(f, state))
  BY <1>8, <1>10 DEF TokenFits
<1> QED
  BY <1>1, <1>11

-----------------------------------------------------------------------------
(* Flattening, and the characters that are not white space or delimiters.  *)

LEMMA FlattenAppend ==
  ASSUME NEW S, NEW s \in Seq(Seq(S)), NEW x \in Seq(S)
  PROVE  FlattenSeq(Append(s, x)) = FlattenSeq(s) \o x /\ FlattenSeq(<<>>) = <<>>
<1> DEFINE t == Append(s, x)
<1>1. /\ t \in Seq(Seq(S)) /\ Len(t) = Len(s) + 1 /\ Len(s) \in Nat
      /\ t[Len(s) + 1] = x /\ \A i \in 1..Len(s) : t[i] = s[i]
  BY AppendProperties, LenProperties
<1>2. FlattenSeq(<<>>) = <<>>
  <2>1. Len(<<>>) = 0
    OBVIOUS
  <2> QED
    BY <2>1 DEF FlattenSeq
<1> HIDE DEF t
<1>3. CASE s = <<>>
  <2>1. Len(t) = 1 /\ t[1] = x
    BY <1>1, <1>3
  <2>2. FlattenSeq(t) = x
    BY <1>1, <2>1, FlattenOne
  <2> QED
    BY <1>2, <1>3, <2>2, ConcatEmptySeq DEF t
<1>4. CASE s # <<>>
  <2>1. FlattenSeq(t) = FlattenSeq(s) \o t[Len(t)]
    BY <1>1, <1>4, FlattenOneMore
  <2> QED
    BY <1>1, <1>2, <2>1 DEF t
<1> QED
  BY <1>3, <1>4

LEMMA FlattenInSeq ==
  ASSUME NEW S, NEW s \in Seq(Seq(S))
  PROVE  FlattenSeq(s) \in Seq(S)
<1> DEFINE T == {k \in Nat : \E t \in Seq(Seq(S)) : Len(t) = k /\ FlattenSeq(t) \notin Seq(S)}
<1>1. T \subseteq Nat /\ \A t \in Seq(Seq(S)) : Len(t) \notin T => FlattenSeq(t) \in Seq(S)
  BY LenProperties
<1>2. \A k \in T : \E t \in Seq(Seq(S)) : Len(t) = k /\ FlattenSeq(t) \notin Seq(S)
  OBVIOUS
<1> HIDE DEF T
<1>3. ASSUME T # {} PROVE FALSE
  <2>1. PICK k \in T : \A y \in T : ~(y < k)
    BY <1>1, <1>3, SmallestOfNat
  <2>2. PICK t \in Seq(Seq(S)) : Len(t) = k /\ FlattenSeq(t) \notin Seq(S)
    BY <1>2
  <2>3. <<>> \in Seq(S) /\ <<>> \in Seq(Seq(S))
    BY EmptySeq
  <2>4. t # <<>>
    BY <2>2, <2>3, FlattenAppend
  <2>5. PICK r \in Seq(Seq(S)), x \in Seq(S) : t = Append(r, x)
    BY <2>4, SequenceEmptyOrAppend
  <2>6. Len(r) \in Nat /\ Len(r) < k
    BY <2>2, <2>5, AppendProperties, LenProperties
  <2>7. FlattenSeq(r) \in Seq(S)
    BY <1>1, <2>1, <2>6
  <2> QED
    BY <2>2, <2>5, <2>7, FlattenAppend, ConcatProperties
<1> QED
  BY <1>1, <1>3

LEMMA FlattenConcat ==
  ASSUME NEW S, NEW s \in Seq(Seq(S)), NEW t \in Seq(Seq(S))
  PROVE  FlattenSeq(s \o t) = FlattenSeq(s) \o FlattenSeq(t)
<1> DEFINE Joins(u) == FlattenSeq(s \o u) = FlattenSeq(s) \o FlattenSeq(u)
           T == {k \in Nat : \E u \in Seq(Seq(S)) : Len(u) = k /\ ~Joins(u)}
<1>1. T \subseteq Nat /\ \A u \in Seq(Seq(S)) : Len(u) \notin T => Joins(u)
  BY LenProperties
<1>2. \A k \in T : \E u \in Seq(Seq(S)) : Len(u) = k /\ ~Joins(u)
  OBVIOUS
<1> HIDE DEF T
<1>3. ASSUME T # {} PROVE FALSE
  <2>1. PICK k \in T : \A y \in T : ~(y < k)
    BY <1>1, <1>3, SmallestOfNat
  <2>2. PICK u \in Seq(Seq(S)) : Len(u) = k /\ ~Joins(u)
    BY <1>2
  <2>3. FlattenSeq(s) \in Seq(S)
    BY FlattenInSeq
  <2>4. u # <<>>
    <3>1. FlattenSeq(<<>>) = <<>> /\ s \o <<>> = s
      BY FlattenAppend, EmptySeq, ConcatEmptySeq
    <3>2. FlattenSeq(s) \o <<>> = FlattenSeq(s)
      BY <2>3, ConcatEmptySeq
    <3>3. Joins(<<>>)
      BY <3>1, <3>2
    <3> QED
      BY <2>2, <3>3
  <2>5. PICK r \in Seq(Seq(S)), x \in Seq(S) : u = Append(r, x)
    BY <2>4, SequenceEmptyOrAppend
  <2>6. Len(r) \in Nat /\ Len(r) < k
    BY <2>2, <2>5, AppendProperties, LenProperties
  <2>7. Joins(r)
    BY <1>1, <2>1, <2>6
  <2>8. FlattenSeq(u) = FlattenSeq(r) \o x /\ FlattenSeq(r) \in Seq(S)
    BY <2>5, FlattenAppend, FlattenInSeq
  <2>9. s \o u = Append(s \o r, x) /\ s \o r \in Seq(Seq(S))
    <3>1. u = r \o <<x>> /\ <<x>> \in Seq(Seq(S))
      BY <2>5, AppendIsConcat
    <3>2. s \o (r \o <<x>>) = (s \o r) \o <<x>>
      BY <3>1, ConcatAssociative
    <3>3. s \o r \in Seq(Seq(S))
      BY ConcatProperties
    <3>4. (s \o r) \o <<x>> = Append(s \o r, x)
      BY <3>3, AppendIsConcat
    <3> QED
      BY <3>1, <3>2, <3>3, <3>4
  <2>10. FlattenSeq(s \o u) = FlattenSeq(s \o r) \o x
    BY <2>9, FlattenAppend
  <2>11. (FlattenSeq(s) \o FlattenSeq(r)) \o x = FlattenSeq(s) \o (FlattenSeq(r) \o x)
    <3>1. PICK v, w : v = FlattenSeq(s) /\ w = FlattenSeq(r)
      OBVIOUS
    <3>2. v \in Seq(S) /\ w \in Seq(S)
      BY <2>3, <2>8, <3>1
    <3>3. (v \o w) \o x = v \o (w \o x)
      BY <3>2, ConcatAssociative
    <3> QED
      BY <3>1, <3>3
  <2> QED
    BY <2>2, <2>7, <2>8, <2>10, <2>11
<1> QED
  BY <1>1, <1>3

(* What is left of a character. *)
Kept(c) == IF c \in Space \cup {"<", ">", ","} THEN <<>> ELSE <<c>>
KeptOf(text) == [i \in DOMAIN text |-> Kept(text[i])]

LEMMA KeptInSeq ==
  ASSUME NEW text \in Seq(Chars)
  PROVE  /\ KeptOf(text) \in Seq(Seq(Chars)) /\ Bare(text) = FlattenSeq(KeptOf(text))
         /\ Len(KeptOf(text)) = Len(text) /\ Bare(text) \in Seq(Chars)
<1>1. DOMAIN text = 1..Len(text) /\ Len(text) \in Nat
  BY LenProperties
<1>2. \A i \in DOMAIN text : Kept(text[i]) \in Seq(Chars)
  <2>1. \A c \in Chars : <<>> \in Seq(Chars) /\ <<c>> \in Seq(Chars)
    OBVIOUS
  <2>2. \A i \in DOMAIN text : text[i] \in Chars
    BY <1>1, ElementOfSeq
  <2> QED
    BY <2>1, <2>2 DEF Kept
<1>3. KeptOf(text) \in Seq(Seq(Chars)) /\ Len(KeptOf(text)) = Len(text)
  BY <1>2, <1>1 DEF KeptOf
<1>4. Bare(text) = FlattenSeq(KeptOf(text))
  BY DEF Bare, KeptOf, Kept
<1> QED
  BY <1>3, <1>4, FlattenInSeq

LEMMA BareConcat ==
  ASSUME NEW s \in Seq(Chars), NEW t \in Seq(Chars)
  PROVE  Bare(s \o t) = Bare(s) \o Bare(t)
<1>1. s \o t \in Seq(Chars)
  BY ConcatProperties
<1>2. KeptOf(s \o t) = KeptOf(s) \o KeptOf(t)
  <2>1. /\ KeptOf(s \o t) \in Seq(Seq(Chars)) /\ Len(KeptOf(s \o t)) = Len(s) + Len(t)
        /\ KeptOf(s) \in Seq(Seq(Chars)) /\ Len(KeptOf(s)) = Len(s)
        /\ KeptOf(t) \in Seq(Seq(Chars)) /\ Len(KeptOf(t)) = Len(t)
    BY <1>1, KeptInSeq, ConcatProperties
  <2>2. KeptOf(s) \o KeptOf(t) \in Seq(Seq(Chars)) /\ Len(KeptOf(s) \o KeptOf(t)) = Len(s) + Len(t)
    <3>1. PICK v, w : v = KeptOf(s) /\ w = KeptOf(t)
      OBVIOUS
    <3>2. PICK R : R = Seq(Chars)
      OBVIOUS
    <3>3. v \in Seq(R) /\ w \in Seq(R) /\ Len(v) = Len(s) /\ Len(w) = Len(t)
      BY <2>1, <3>1, <3>2
    <3>4. v \o w \in Seq(R) /\ Len(v \o w) = Len(v) + Len(w)
      BY <3>3, ConcatProperties
    <3> QED
      BY <3>1, <3>2, <3>3, <3>4
  <2>3. ASSUME NEW i \in 1..Len(s) + Len(t)
        PROVE  KeptOf(s \o t)[i] = (KeptOf(s) \o KeptOf(t))[i]
    <3>1. Len(s) \in Nat /\ Len(t) \in Nat /\ DOMAIN s = 1..Len(s) /\ DOMAIN t = 1..Len(t)
          /\ DOMAIN (s \o t) = 1..Len(s) + Len(t)
      BY <1>1, LenProperties, ConcatProperties
    <3>2. KeptOf(s \o t)[i] = Kept((s \o t)[i])
      BY <3>1 DEF KeptOf
    <3>3. (s \o t)[i] = IF i <= Len(s) THEN s[i] ELSE t[i - Len(s)]
      BY ConcatProperties
    <3>4. (KeptOf(s) \o KeptOf(t))[i] = IF i <= Len(s) THEN KeptOf(s)[i] ELSE KeptOf(t)[i - Len(s)]
      BY <2>1, ConcatProperties
    <3>5. CASE i <= Len(s)
      <4>1. KeptOf(s)[i] = Kept(s[i])
        BY <3>1, <3>5 DEF KeptOf
      <4> QED
        BY <3>2, <3>3, <3>4, <3>5, <4>1
    <3>6. CASE ~(i <= Len(s))
      <4>1. KeptOf(t)[i - Len(s)] = Kept(t[i - Len(s)])
        BY <3>1, <3>6 DEF KeptOf
      <4> QED
        BY <3>2, <3>3, <3>4, <3>6, <4>1
    <3> QED
      BY <3>5, <3>6
  <2> QED
    BY <2>1, <2>2, <2>3, SeqEqual
<1>3. PICK v, w : v = KeptOf(s) /\ w = KeptOf(t)
  OBVIOUS
<1>4. v \in Seq(Seq(Chars)) /\ w \in Seq(Seq(Chars))
  BY <1>3, KeptInSeq
<1>5. FlattenSeq(v \o w) = FlattenSeq(v) \o FlattenSeq(w)
  BY <1>4, FlattenConcat
<1> QED
  BY <1>1, <1>2, <1>3, <1>5, KeptInSeq

LEMMA BareOne ==
  ASSUME NEW c \in Chars
  PROVE  Bare(<<c>>) = Kept(c) /\ Bare(<<>>) = <<>>
<1>1. <<c>> \in Seq(Chars) /\ Len(<<c>>) = 1 /\ <<>> \in Seq(Chars) /\ Len(<<>>) = 0
  OBVIOUS
<1>2. KeptOf(<<c>>)[1] = Kept(c)
  BY DEF KeptOf
<1>3. Bare(<<c>>) = Kept(c)
  BY <1>1, <1>2, KeptInSeq, FlattenOne
<1>4. KeptOf(<<>>) = <<>>
  <2>1. PICK v : v = KeptOf(<<>>)
    OBVIOUS
  <2>2. v \in Seq(Seq(Chars)) /\ Len(v) = 0
    BY <1>1, <2>1, KeptInSeq
  <2>3. v = <<>>
    BY <2>2, EmptySeq
  <2> QED
    BY <2>1, <2>3
<1>5. FlattenSeq(<<>>) = <<>>
  <2>1. <<>> \in Seq(Seq(Chars))
    BY EmptySeq
  <2> QED
    BY <1>1, <2>1, FlattenAppend
<1> QED
  BY <1>1, <1>3, <1>4, <1>5, KeptInSeq

-----------------------------------------------------------------------------
(* What holds where a stepwise function ends, and at each place if it does *)
(* at the place it goes on to, holds everywhere.                           *)

Inherited(D, step, G) == \A q \in D : step[q] = 0 \/ step[q] \in G => q \in G

LEMMA StepsInduct ==
  ASSUME NEW D, D \subseteq Nat, NEW last \in Nat, NEW step, Steps(D, step, last), NEW G,
         Inherited(D, step, G)
  PROVE  D \subseteq G
<1> DEFINE T == {k \in Nat : \E q \in D : q >= last - k /\ q \notin G}
<1>1. T \subseteq Nat /\ \A k \in Nat : k \in T <=> \E q \in D : q >= last - k /\ q \notin G
  OBVIOUS
<1> HIDE DEF T
<1>2. ASSUME T # {} PROVE FALSE
  <2>1. PICK k \in T : \A y \in T : ~(y < k)
    BY <1>1, <1>2, SmallestOfNat
  <2>2. k \in Nat
    BY <1>1
  <2>3. PICK q \in D : q >= last - k /\ q \notin G
    BY <1>1, <2>2
  <2>4. q \in Nat /\ step[q] # 0 /\ step[q] \notin G
    BY <2>3 DEF Inherited
  <2>5. step[q] \in D /\ step[q] \in Nat /\ q < step[q] /\ q < last
    BY <2>4 DEF Steps
  <2>6. k # 0 /\ k - 1 \in Nat /\ k - 1 < k /\ step[q] >= last - (k - 1)
    BY <2>2, <2>3, <2>4, <2>5
  <2>7. k - 1 \in T
    BY <1>1, <2>4, <2>5, <2>6
  <2> QED
    BY <2>1, <2>6, <2>7
<1>3. ASSUME NEW q \in D, q \notin G PROVE FALSE
  <2>1. last \in T
    <3>1. q >= last - last
      OBVIOUS
    <3> QED
      BY <1>1, <1>3, <3>1
  <2> QED
    BY <1>2, <2>1
<1> QED
  BY <1>3

(* Functions that gather what is found at each place.                      *)
Gathers(f, D, step, found) ==
  f = [q \in D |-> IF step[q] # 0 THEN found[q] \o f[step[q]] ELSE found[q]]

LEMMA GathersExists ==
  ASSUME NEW D, D \subseteq Nat, NEW last \in Nat, NEW step, NEW found, Steps(D, step, last)
  PROVE  \E f : Gathers(f, D, step, found)
<1> DEFINE From(k) == {q \in D : q >= last - k}
           T == {k \in Nat : ~\E f : Gathers(f, From(k), step, found)}
<1>1. \A j \in Nat : From(j) \subseteq Nat /\ \A q : q \in From(j) <=> q \in D /\ q >= last - j
  OBVIOUS
<1>2. From(last) = D
  <2>1. \A q \in D : q \in Nat /\ q >= last - last
    OBVIOUS
  <2> HIDE DEF From
  <2>2. \A q : q \in From(last) <=> q \in D
    BY <1>1, <2>1
  <2>3. From(last) \subseteq D /\ D \subseteq From(last)
    BY <2>2, Zenon
  <2> QED
    BY <2>3, Zenon
<1>3. T \subseteq Nat /\ \A k \in Nat : k \notin T <=> \E f : Gathers(f, From(k), step, found)
  OBVIOUS
<1> HIDE DEF From, T
<1> SUFFICES T = {}
  BY <1>2, <1>3
<1> SUFFICES ASSUME T # {} PROVE FALSE
  OBVIOUS
<1>4. PICK k \in T : \A y \in T : ~(y < k)
  BY <1>3, SmallestOfNat
<1>5. k \in Nat
  BY <1>3
<1>6. CASE k = 0
  <2>1. PICK g : g = [q \in From(0) |-> found[q]]
    OBVIOUS
  <2>2. \A q \in From(0) : step[q] = 0
    <3> SUFFICES ASSUME NEW q \in From(0), step[q] # 0 PROVE FALSE
      OBVIOUS
    <3>1. q \in D /\ q >= last - 0 /\ q \in Nat
      BY <1>1
    <3> QED
      BY <3>1 DEF Steps
  <2>3. Gathers(g, From(0), step, found)
    BY <2>1, <2>2 DEF Gathers
  <2> QED
    BY <1>3, <1>6, <2>3
<1>7. CASE k # 0
  <2>1. k - 1 \in Nat /\ k - 1 < k
    BY <1>5, <1>7
  <2>2. PICK g : Gathers(g, From(k - 1), step, found)
    BY <1>3, <1>4, <2>1
  <2>3. PICK h : h = [q \in From(k) |->
                       IF q \in From(k - 1) THEN g[q]
                       ELSE IF step[q] # 0 THEN found[q] \o g[step[q]] ELSE found[q]]
    OBVIOUS
  <2>4. ASSUME NEW q \in From(k), step[q] # 0
        PROVE  step[q] \in From(k - 1)
    <3>1. q \in D /\ q \in Nat /\ q >= last - k
      BY <1>1, <1>5
    <3>2. step[q] \in D /\ q < step[q]
      BY <2>4, <3>1 DEF Steps
    <3>3. step[q] \in Nat
      BY <3>2
    <3>4. step[q] >= last - (k - 1)
      BY <1>5, <3>1, <3>2, <3>3
    <3> QED
      BY <1>1, <2>1, <3>2, <3>4
  <2>5. From(k - 1) \subseteq From(k)
    <3> SUFFICES ASSUME NEW q \in From(k - 1) PROVE q \in From(k)
      OBVIOUS
    <3>1. q \in D /\ q >= last - (k - 1) /\ q \in Nat
      BY <1>1, <2>1
    <3>2. q >= last - k
      BY <1>5, <3>1
    <3> QED
      BY <1>1, <1>5, <3>1, <3>2
  <2>6. \A q \in From(k) : h[q] = IF step[q] # 0 THEN found[q] \o h[step[q]] ELSE found[q]
    <3> SUFFICES ASSUME NEW q \in From(k)
                 PROVE  h[q] = IF step[q] # 0 THEN found[q] \o h[step[q]] ELSE found[q]
      OBVIOUS
    <3>1. step[q] # 0 => h[step[q]] = g[step[q]]
      BY <2>3, <2>4, <2>5
    <3>2. q \in From(k - 1) => g[q] = IF step[q] # 0 THEN found[q] \o g[step[q]] ELSE found[q]
      BY <2>2 DEF Gathers
    <3> QED
      BY <2>3, <3>1, <3>2
  <2>7. h = [q \in From(k) |-> h[q]]
    BY <2>3
  <2>8. Gathers(h, From(k), step, found)
    BY <2>6, <2>7 DEF Gathers
  <2> QED
    BY <1>3, <1>4, <1>5, <2>8
<1> QED
  BY <1>5, <1>6, <1>7

(* What is left of the text from p on up to end.                           *)
Rest(text, end, p) == Bare(SubSeq(text, p, end - 1))

LEMMA RestBegins ==
  ASSUME NEW text \in Seq(Chars), NEW end \in 0..Len(text) + 1, NEW p \in Nat \ {0}
  PROVE  /\ Rest(text, end, p) \in Seq(Chars)
         /\ p >= end => Rest(text, end, p) = <<>>
         /\ p < end => text[p] \in Chars /\ Rest(text, end, p) = Kept(text[p]) \o Rest(text, end, p + 1)
<1>1. Len(text) \in Nat /\ end \in Nat
  BY LenProperties
<1>2. \A i \in 1..Len(text) : text[i] \in Chars
  BY ElementOfSeq
<1>3. \A q \in Nat \ {0} : SubSeq(text, q, end - 1) \in Seq(Chars)
  <2> SUFFICES ASSUME NEW q \in Nat \ {0} PROVE SubSeq(text, q, end - 1) \in Seq(Chars)
    OBVIOUS
  <2>1. \A i \in q..end - 1 : text[i] \in Chars
    BY <1>1, <1>2
  <2>2. q \in Int /\ end - 1 \in Int
    BY <1>1
  <2> QED
    BY <2>1, <2>2, SubSeqProperties
<1>4. Rest(text, end, p) \in Seq(Chars)
  BY <1>3, KeptInSeq DEF Rest
<1>5. ASSUME p >= end
      PROVE  Rest(text, end, p) = <<>>
  <2>1. SubSeq(text, p, end - 1) = <<>>
    <3>1. p \in Int /\ end - 1 \in Int /\ end - 1 < p
      BY <1>1, <1>5
    <3> QED
      BY <3>1, SubSeqEmpty
  <2>2. PICK c : c \in Chars
    BY DEF Chars, Atext, Specials
  <2> QED
    BY <2>1, <2>2, BareOne DEF Rest
<1>6. ASSUME p < end
      PROVE  text[p] \in Chars /\ Rest(text, end, p) = Kept(text[p]) \o Rest(text, end, p + 1)
  <2>1. p \in 1..Len(text) /\ end - 1 \in p..Len(text) /\ p + 1 \in Nat \ {0}
    BY <1>1, <1>6
  <2>2. SubSeq(text, p, end - 1) = <<text[p]>> \o SubSeq(text, p + 1, end - 1)
    BY <2>1, SubSeqRecursiveFirst
  <2>3. text[p] \in Chars /\ <<text[p]>> \in Seq(Chars) /\ SubSeq(text, p + 1, end - 1) \in Seq(Chars)
    BY <1>2, <1>3, <2>1
  <2>4. Bare(<<text[p]>>) = Kept(text[p])
    BY <2>3, BareOne
  <2> QED
    BY <2>2, <2>3, <2>4, BareConcat DEF Rest
<1> QED
  BY <1>4, <1>5, <1>6

-----------------------------------------------------------------------------
(* Unfolding.                                                              *)

IsSkip(text, end, past) ==
  past = [p \in Nat |-> IF p < end /\ text[p] \in Space THEN past[p + 1] ELSE p]

LEMMA PastExists ==
  ASSUME NEW text, NEW end \in Nat
  PROVE  \E past : IsSkip(text, end, past)
<1>1. PICK step, base : /\ step = [p \in Nat |-> IF p < end /\ text[p] \in Space THEN p + 1 ELSE 0]
                        /\ base = [p \in Nat |-> p]
  OBVIOUS
<1>2. Steps(Nat, step, end) /\ Nat \subseteq Nat
  BY <1>1 DEF Steps
<1>3. PICK f : Stepwise(f, Nat, step, base)
  BY <1>2, StepwiseExists
<1>4. \A p \in Nat : (IF step[p] # 0 THEN f[step[p]] ELSE base[p]) =
                     IF p < end /\ text[p] \in Space THEN f[p + 1] ELSE p
  BY <1>1
<1> QED
  BY <1>3, <1>4 DEF Stepwise, IsSkip

LEMMA PastSkips ==
  ASSUME NEW text \in Seq(Chars), NEW end \in 0..Len(text) + 1, NEW past, IsSkip(text, end, past),
         NEW p \in Nat
  PROVE  /\ past[p] \in Nat /\ p <= past[p]
         /\ p # 0 => Rest(text, end, past[p]) = Rest(text, end, p)
<1>1. end \in Nat
  BY LenProperties
<1> DEFINE Good(q) == /\ past[q] \in Nat /\ q <= past[q]
                      /\ q # 0 => Rest(text, end, past[q]) = Rest(text, end, q)
           G == {q \in Nat : Good(q)}
<1>2. PICK step : step = [q \in Nat |-> IF q < end /\ text[q] \in Space THEN q + 1 ELSE 0]
  OBVIOUS
<1>3. Steps(Nat, step, end) /\ Nat \subseteq Nat
  BY <1>1, <1>2 DEF Steps
<1>4. ASSUME NEW q \in Nat, step[q] = 0 \/ step[q] \in G
      PROVE  Good(q)
  <2>1. past[q] = IF q < end /\ text[q] \in Space THEN past[q + 1] ELSE q
    BY DEF IsSkip
  <2>2. CASE q < end /\ text[q] \in Space
    <3>1. step[q] = q + 1 /\ q + 1 # 0 /\ q + 1 \in Nat
      BY <1>2, <2>2
    <3>2. Good(q + 1)
      BY <1>4, <3>1
    <3>3. q # 0 => Rest(text, end, q) = Rest(text, end, q + 1)
      <4>1. Kept(text[q]) = <<>>
        BY <2>2 DEF Kept
      <4>2. q # 0 => Rest(text, end, q) = <<>> \o Rest(text, end, q + 1)
        BY <2>2, <4>1, RestBegins
      <4>3. Rest(text, end, q + 1) \in Seq(Chars)
        BY <3>1, RestBegins
      <4> QED
        BY <4>2, <4>3, ConcatEmptySeq
    <3> QED
      BY <2>1, <2>2, <3>2, <3>3
  <2>3. CASE ~(q < end /\ text[q] \in Space)
    BY <2>1, <2>3
  <2> QED
    BY <2>2, <2>3
<1>5. Inherited(Nat, step, G)
  BY <1>4 DEF Inherited
<1>6. Nat \subseteq G
  <2> HIDE DEF G, Good
  <2> QED
    BY <1>1, <1>3, <1>5, StepsInduct
<1>7. Good(p)
  BY <1>6
<1> QED
  BY <1>7

IsComma(text, p) == text[p] = ","
IsFold(text, p) == text[p] = "nl"
Printed(text, p) == <<IF text[p] = "nl" THEN "sp" ELSE text[p]>>

FoldedAt(text, end, past, g, n, p) ==
  IF p >= end \/ n = 0 THEN [text |-> <<>>, next |-> p]
  ELSE IF IsComma(text, p) THEN [text |-> <<>>, next |-> p + 1]
  ELSE LET rest == g[n - 1][(IF IsFold(text, p) THEN past[p] ELSE p) + 1]
       IN [text |-> Printed(text, p) \o rest.text, next |-> rest.next]

IsUnfold(g, k, text, end, past) ==
  g = [n \in 0..k |-> [p \in Nat |-> FoldedAt(text, end, past, g, n, p)]]

LEMMA UnfoldExtends ==
  ASSUME NEW k \in Nat, NEW text, NEW end, NEW past, NEW g, IsUnfold(g, k, text, end, past)
  PROVE  \E h : IsUnfold(h, k + 1, text, end, past)
<1>1. PICK h : h = [n \in 0..k + 1 |-> IF n = k + 1 THEN [p \in Nat |-> FoldedAt(text, end, past, g, n, p)]
                                       ELSE g[n]]
  OBVIOUS
<1>2. \A n \in 0..k : h[n] = g[n]
  BY <1>1
<1>3. \A n \in 0..k : g[n] = [p \in Nat |-> FoldedAt(text, end, past, g, n, p)]
  BY DEF IsUnfold
<1>4. \A n \in 0..k + 1, p \in Nat : FoldedAt(text, end, past, h, n, p) = FoldedAt(text, end, past, g, n, p)
  <2> SUFFICES ASSUME NEW n \in 0..k + 1, NEW p \in Nat
               PROVE  FoldedAt(text, end, past, h, n, p) = FoldedAt(text, end, past, g, n, p)
    OBVIOUS
  <2>1. CASE n = 0
    BY <2>1 DEF FoldedAt
  <2>2. CASE n # 0
    <3>1. h[n - 1] = g[n - 1]
      BY <1>2, <2>2
    <3> QED
      BY <3>1 DEF FoldedAt
  <2> QED
    BY <2>1, <2>2
<1>5. \A n \in 0..k + 1 : h[n] = [p \in Nat |-> FoldedAt(text, end, past, h, n, p)]
  <2> SUFFICES ASSUME NEW n \in 0..k + 1 PROVE h[n] = [p \in Nat |-> FoldedAt(text, end, past, h, n, p)]
    OBVIOUS
  <2>1. h[n] = [p \in Nat |-> FoldedAt(text, end, past, g, n, p)]
    <3>1. n \in 0..k \/ n = k + 1
      OBVIOUS
    <3> QED
      BY <1>1, <1>2, <1>3, <3>1
  <2> QED
    BY <1>4, <2>1
<1>6. h = [n \in 0..k + 1 |-> h[n]]
  BY <1>1
<1> QED
  BY <1>5, <1>6 DEF IsUnfold

LEMMA UnfoldExists ==
  ASSUME NEW k \in Nat, NEW text, NEW end, NEW past
  PROVE  \E g : IsUnfold(g, k, text, end, past)
<1> DEFINE Exists(m) == \E g : IsUnfold(g, m, text, end, past)
           T == {m \in Nat : ~Exists(m)}
<1> SUFFICES ASSUME T # {} PROVE FALSE
  OBVIOUS
<1>1. PICK m \in T : \A y \in T : ~(y < m)
  <2>1. T \subseteq Nat
    OBVIOUS
  <2> HIDE DEF T
  <2> QED
    BY <2>1, SmallestOfNat
<1>2. m # 0
  <2>1. PICK g : g = [n \in 0..0 |-> [p \in Nat |-> [text |-> <<>>, next |-> p]]]
    OBVIOUS
  <2>2. \A n \in 0..0, p \in Nat : FoldedAt(text, end, past, g, n, p) = [text |-> <<>>, next |-> p]
    BY DEF FoldedAt
  <2>3. IsUnfold(g, 0, text, end, past)
    BY <2>1, <2>2 DEF IsUnfold
  <2> QED
    BY <2>3
<1>3. m - 1 \in Nat /\ Exists(m - 1) /\ (m - 1) + 1 = m
  BY <1>1, <1>2
<1>4. Exists(m)
  BY <1>3, UnfoldExtends
<1> QED
  BY <1>4

(* The text that is not folded. *)
Plain(text, b, end) == \A i \in b..end - 1 : ~IsFold(text, i)

Unfolds(text, b, end, n, p, u) ==
  /\ u.next \in Nat /\ p <= u.next /\ (n # 0 /\ p < end => p < u.next)
  /\ p >= b => u.text \in Seq(Chars)
  /\ p >= b /\ Plain(text, b, end) => Bare(u.text) \o Rest(text, end, u.next) = Rest(text, end, p)

AllUnfold(text, b, end, n, f) == \A q \in Nat : Unfolds(text, b, end, n, q, f[q])

UnfoldBefore(text, b, end, n, g) == n # 0 => AllUnfold(text, b, end, n - 1, g[n - 1])

LEMMA ConcatOfThree ==
  \A x, y, z \in Seq(Chars) : (x \o y) \o z = x \o (y \o z)
<1>1. PICK S : S = Chars
  OBVIOUS
<1> SUFFICES ASSUME NEW x \in Seq(S), NEW y \in Seq(S), NEW z \in Seq(S)
             PROVE  (x \o y) \o z = x \o (y \o z)
  BY <1>1
<1> QED
  BY ConcatAssociative

LEMMA FoldUnfolds ==
  ASSUME NEW text \in Seq(Chars), NEW end \in 0..Len(text) + 1, NEW b \in Nat \ {0},
         NEW past, IsSkip(text, end, past), NEW n \in Nat, NEW p \in Nat, NEW g,
         UnfoldBefore(text, b, end, n, g)
  PROVE  Unfolds(text, b, end, n, p, FoldedAt(text, end, past, g, n, p))
<1>1. end \in Nat
  BY LenProperties
<1>2. PICK u : u = FoldedAt(text, end, past, g, n, p)
  OBVIOUS
<1>3. Bare(<<>>) = <<>>
  <2>1. "sp" \in Chars
    BY DEF Chars, Space, Blank
  <2> QED
    BY <2>1, BareOne
<1>4. CASE p >= end \/ n = 0
  <2>1. u.text = <<>> /\ u.next = p
    BY <1>2, <1>4 DEF FoldedAt
  <2>2. p >= b => <<>> \o Rest(text, end, p) = Rest(text, end, p)
    BY RestBegins, ConcatEmptySeq
  <2>3. p >= b => Bare(u.text) \o Rest(text, end, u.next) = Rest(text, end, p)
    BY <1>3, <2>1, <2>2
  <2>4. u.next \in Nat /\ p <= u.next /\ (n # 0 /\ p < end => p < u.next)
    BY <1>1, <1>4, <2>1
  <2>5. u.text \in Seq(Chars)
    BY <2>1, EmptySeq
  <2> QED
    BY <1>2, <2>3, <2>4, <2>5 DEF Unfolds
<1>5. CASE p < end /\ n # 0 /\ IsComma(text, p)
  <2>1. u.text = <<>> /\ u.next = p + 1
    BY <1>1, <1>2, <1>5 DEF FoldedAt
  <2>2. p >= b => Rest(text, end, p) = <<>> \o Rest(text, end, p + 1)
    <3>1. Kept(text[p]) = <<>>
      BY <1>5 DEF Kept, IsComma
    <3>2. p >= b => p \in Nat \ {0} /\ p < end
      BY <1>5
    <3>3. p >= b => Rest(text, end, p) = Kept(text[p]) \o Rest(text, end, p + 1)
      BY <3>2, RestBegins
    <3> QED
      BY <3>1, <3>3
  <2>3. p >= b => Bare(u.text) \o Rest(text, end, u.next) = Rest(text, end, p)
    BY <1>3, <2>1, <2>2
  <2>4. u.next \in Nat /\ p <= u.next /\ p < u.next
    BY <2>1
  <2>5. u.text \in Seq(Chars)
    BY <2>1, EmptySeq
  <2> QED
    BY <1>2, <2>3, <2>4, <2>5 DEF Unfolds
<1>6. CASE p < end /\ n # 0 /\ ~IsComma(text, p)
  <2>1. PICK q, rest : /\ q = (IF IsFold(text, p) THEN past[p] ELSE p) + 1
                       /\ rest = g[n - 1][q]
    OBVIOUS
  <2>2. q \in Nat /\ p < q
    <3>1. past[p] \in Nat /\ p <= past[p]
      BY PastSkips
    <3>2. q = past[p] + 1 \/ q = p + 1
      BY <2>1
    <3> QED
      BY <3>1, <3>2
  <2>3. Unfolds(text, b, end, n - 1, q, rest)
    <3>1. AllUnfold(text, b, end, n - 1, g[n - 1])
      BY <1>6 DEF UnfoldBefore
    <3> QED
      BY <2>1, <2>2, <3>1 DEF AllUnfold
  <2>4. u.text = Printed(text, p) \o rest.text /\ u.next = rest.next
    <3>1. ~(p >= end \/ n = 0)
      BY <1>1, <1>6
    <3>2. u = [text |-> Printed(text, p) \o rest.text, next |-> rest.next]
      BY <1>2, <1>6, <2>1, <3>1 DEF FoldedAt
    <3> QED
      BY <3>2
  <2>5. p >= b => p \in Nat \ {0} /\ p < end
    BY <1>6
  <2>6. p >= b => text[p] \in Chars
    BY <2>5, RestBegins
  <2>7. p >= b => Printed(text, p) \in Seq(Chars)
    <3>1. "sp" \in Chars
      BY DEF Chars, Space, Blank
    <3>2. \A c \in Chars : <<c>> \in Seq(Chars)
      OBVIOUS
    <3> QED
      BY <2>6, <3>1, <3>2 DEF Printed
  <2>8. p >= b => u.text \in Seq(Chars) /\ rest.text \in Seq(Chars)
    <3>1. p >= b => rest.text \in Seq(Chars)
      BY <2>2, <2>3 DEF Unfolds
    <3> QED
      BY <2>4, <2>7, <3>1, ConcatProperties
  <2>9. ASSUME p >= b, Plain(text, b, end)
        PROVE  Bare(u.text) \o Rest(text, end, u.next) = Rest(text, end, p)
    <3>1. ~IsFold(text, p)
      BY <1>1, <1>6, <2>9 DEF Plain
    <3>2. q = p + 1
      BY <2>1, <3>1
    <3>3. Bare(rest.text) \o Rest(text, end, rest.next) = Rest(text, end, p + 1)
      BY <2>3, <2>9, <3>2 DEF Unfolds
    <3>4. Printed(text, p) = <<text[p]>>
      BY <3>1 DEF Printed, IsFold
    <3>5. PICK k, v, w : k = Kept(text[p]) /\ v = Bare(rest.text) /\ w = Rest(text, end, rest.next)
      OBVIOUS
    <3>6. Bare(u.text) = k \o v
      <4>1. Printed(text, p) \in Seq(Chars) /\ rest.text \in Seq(Chars) /\ text[p] \in Chars
        BY <2>8, <2>9, <2>6, <2>7
      <4>2. Bare(Printed(text, p)) = k
        BY <3>4, <3>5, <4>1, BareOne
      <4>3. Bare(Printed(text, p) \o rest.text) = Bare(Printed(text, p)) \o Bare(rest.text)
        BY <4>1, BareConcat
      <4> QED
        BY <2>4, <3>5, <4>2, <4>3
    <3>7. Rest(text, end, p) = k \o Rest(text, end, p + 1)
      BY <2>9, <2>5, <3>5, RestBegins
    <3>8. v \in Seq(Chars) /\ w \in Seq(Chars)
      <4>1. rest.text \in Seq(Chars) /\ rest.next \in Nat \ {0}
        BY <2>2, <2>3, <2>8, <2>9 DEF Unfolds
      <4> QED
        BY <3>5, <4>1, KeptInSeq, RestBegins
    <3>9. k \in Seq(Chars)
      <4>1. text[p] \in Chars
        BY <2>9, <2>6
      <4>2. \A c \in Chars : <<c>> \in Seq(Chars) /\ <<>> \in Seq(Chars)
        OBVIOUS
      <4> QED
        BY <3>5, <4>1, <4>2 DEF Kept
    <3>10. (k \o v) \o w = k \o (v \o w)
      BY <3>8, <3>9, ConcatOfThree
    <3>11. v \o w = Rest(text, end, p + 1)
      BY <3>3, <3>5
    <3>12. Rest(text, end, u.next) = w
      BY <2>4, <3>5
    <3> QED
      BY <3>6, <3>7, <3>10, <3>11, <3>12
  <2> QED
    BY <1>2, <2>2, <2>3, <2>4, <2>8, <2>9 DEF Unfolds
<1> QED
  BY <1>1, <1>4, <1>5, <1>6

LEMMA UnfoldUnfolds ==
  ASSUME NEW text \in Seq(Chars), NEW end \in 0..Len(text) + 1, NEW b \in Nat \ {0},
         NEW past, IsSkip(text, end, past), NEW k \in Nat, NEW g, IsUnfold(g, k, text, end, past),
         NEW p \in Nat
  PROVE  Unfolds(text, b, end, k, p, g[k][p])
<1> DEFINE Good(n) == \A q \in Nat : Unfolds(text, b, end, n, q, g[n][q])
           T == {n \in 0..k : ~Good(n)}
<1>1. T \subseteq Nat /\ \A n \in 0..k : n \notin T => Good(n)
  OBVIOUS
<1>2. \A n \in T : n \in 0..k /\ ~Good(n)
  OBVIOUS
<1> HIDE DEF T, Good
<1>3. ASSUME T # {} PROVE FALSE
  <2>1. PICK n \in T : \A y \in T : ~(y < n)
    BY <1>1, <1>3, SmallestOfNat
  <2>2. n \in 0..k /\ n \in Nat /\ (n # 0 => n - 1 \in 0..k /\ n - 1 < n)
    BY <1>2
  <2>3. n # 0 => Good(n - 1)
    BY <1>1, <2>1, <2>2
  <2>4. \A q \in Nat : g[n][q] = FoldedAt(text, end, past, g, n, q)
    <3>1. g[n] = [q \in Nat |-> FoldedAt(text, end, past, g, n, q)]
      BY <2>2 DEF IsUnfold
    <3> QED
      BY <3>1
  <2>5. \A q \in Nat : Unfolds(text, b, end, n, q, g[n][q])
    <3> SUFFICES ASSUME NEW q \in Nat PROVE Unfolds(text, b, end, n, q, g[n][q])
      OBVIOUS
    <3>1. UnfoldBefore(text, b, end, n, g)
      BY <2>3 DEF Good, AllUnfold, UnfoldBefore
    <3> QED
      BY <2>2, <2>4, <3>1, FoldUnfolds
  <2> QED
    BY <1>2, <2>5 DEF Good
<1>4. Good(k)
  BY <1>1, <1>3
<1> QED
  BY <1>4 DEF Good

LEMMA TokenUnfolds ==
  ASSUME NEW text \in Seq(Chars), NEW end \in 0..Len(text) + 1, NEW b \in Nat \ {0}, NEW p \in Nat
  PROVE  Unfolds(text, b, end, 1, p, unfold_token(text, p, end))
<1> DEFINE Is(f) == f = [q \in Nat |-> IF q < end /\ text[q] \in Space THEN f[q + 1] ELSE q]
           past == CHOOSE f : Is(f)
           Isn(f) == f = [n \in 0..BufLen - 1 |-> [q \in Nat |->
             IF q >= end \/ n = 0 THEN [text |-> <<>>, next |-> q]
             ELSE IF text[q] = "," THEN [text |-> <<>>, next |-> q + 1]
             ELSE [text |-> <<IF text[q] = "nl" THEN "sp" ELSE text[q]>>
                              \o f[n - 1][(IF text[q] = "nl" THEN past[q] ELSE q) + 1].text,
                   next |-> f[n - 1][(IF text[q] = "nl" THEN past[q] ELSE q) + 1].next]]]
           unfold == CHOOSE f : Isn(f)
<1>1. end \in Nat /\ BufLen - 1 \in Nat \ {0}
  BY LenProperties, SizesAssumption
<1>2. unfold_token(text, p, end) = unfold[BufLen - 1][past[p]]
  BY DEF unfold_token
<1>3. Is(past)
  <2>1. \E f : Is(f)
    <3>1. PICK f : IsSkip(text, end, f)
      BY <1>1, PastExists
    <3>2. Is(f)
      BY <3>1 DEF IsSkip
    <3> HIDE DEF Is
    <3> QED
      BY <3>2
  <2> HIDE DEF Is
  <2> QED
    BY <2>1
<1>4. IsSkip(text, end, past)
  BY <1>3 DEF IsSkip
<1> HIDE DEF Is, past
<1>5. \A f : Isn(f) <=> IsUnfold(f, BufLen - 1, text, end, past)
  BY DEF IsUnfold, FoldedAt, IsComma, IsFold, Printed
<1> HIDE DEF Isn
<1>6. Isn(unfold)
  BY <1>1, <1>5, UnfoldExists
<1> HIDE DEF unfold
<1>7. IsUnfold(unfold, BufLen - 1, text, end, past)
  BY <1>5, <1>6
<1>8. /\ past[p] \in Nat /\ p <= past[p]
      /\ p # 0 => Rest(text, end, past[p]) = Rest(text, end, p)
  BY <1>4, PastSkips
<1>9. PICK q, u : q = past[p] /\ u = unfold[BufLen - 1][q]
  OBVIOUS
<1>10. Unfolds(text, b, end, BufLen - 1, q, u)
  BY <1>1, <1>4, <1>7, <1>8, <1>9, UnfoldUnfolds
<1>11. Unfolds(text, b, end, 1, p, u)
  <2>1. q \in Nat /\ p <= q /\ u.next \in Nat /\ q <= u.next /\ (q < end => q < u.next)
    BY <1>1, <1>8, <1>9, <1>10 DEF Unfolds
  <2>2. u.next \in Nat /\ p <= u.next /\ (p < end => p < u.next)
    BY <1>1, <2>1
  <2>3. p >= b => q >= b /\ p # 0
    BY <2>1
  <2>4. p >= b => u.text \in Seq(Chars)
    BY <1>10, <2>3 DEF Unfolds
  <2>5. p >= b /\ Plain(text, b, end) => Bare(u.text) \o Rest(text, end, u.next) = Rest(text, end, p)
    <3>1. p >= b => Rest(text, end, q) = Rest(text, end, p)
      BY <1>8, <1>9, <2>3
    <3> QED
      BY <1>10, <2>3, <3>1 DEF Unfolds
  <2> QED
    BY <2>2, <2>4, <2>5 DEF Unfolds
<1> QED
  BY <1>2, <1>9, <1>11

-----------------------------------------------------------------------------
(* Printing.                                                               *)

LEMMA BracketsOnly ==
  ASSUME NEW text \in Seq(Chars)
  PROVE  bracketize_mailbox(text) \in Seq(Chars) /\ Bare(bracketize_mailbox(text)) = Bare(text)
<1>1. PICK open, close : open = <<"<">> /\ close = <<">">>
  OBVIOUS
<1>2. open \in Seq(Chars) /\ close \in Seq(Chars) /\ Bare(open) = <<>> /\ Bare(close) = <<>>
  <2>1. "<" \in Chars /\ ">" \in Chars
    BY DEF Chars, Specials
  <2>2. \A c \in Chars : <<c>> \in Seq(Chars)
    OBVIOUS
  <2>3. Kept("<") = <<>> /\ Kept(">") = <<>>
    BY DEF Kept
  <2> QED
    BY <1>1, <2>1, <2>2, <2>3, BareOne
<1>3. Bare(text) \in Seq(Chars) /\ open \o text \in Seq(Chars) /\ (open \o text) \o close \in Seq(Chars)
  BY <1>2, KeptInSeq, ConcatProperties
<1>4. Bare((open \o text) \o close) = Bare(text)
  <2>1. Bare(open \o text) = <<>> \o Bare(text)
    BY <1>2, BareConcat
  <2>2. Bare((open \o text) \o close) = Bare(open \o text) \o <<>>
    <3>1. PICK m : m = open \o text
      OBVIOUS
    <3>2. Bare(m \o close) = Bare(m) \o Bare(close)
      BY <1>2, <1>3, <3>1, BareConcat
    <3> QED
      BY <1>2, <3>1, <3>2
  <2> QED
    BY <1>3, <2>1, <2>2, ConcatEmptySeq
<1>5. bracketize_mailbox(text) \in {text, (open \o text) \o close}
  BY <1>1 DEF bracketize_mailbox
<1> QED
  BY <1>3, <1>4, <1>5

(* The pieces that are printed from p on. *)
Covers(text, b, end, p, out) ==
  p >= b => /\ out \in Seq(Seq(Chars)) /\ out # <<>>
            /\ Plain(text, b, end) => Bare(FlattenSeq(out)) = Rest(text, end, p)

LEMMA OnePiece ==
  ASSUME NEW x \in Seq(Chars), NEW t \in Seq(Seq(Chars))
  PROVE  /\ <<x>> \in Seq(Seq(Chars)) /\ <<x>> # <<>> /\ FlattenSeq(<<x>>) = x
         /\ <<x>> \o t \in Seq(Seq(Chars)) /\ <<x>> \o t # <<>>
         /\ FlattenSeq(<<x>> \o t) = x \o FlattenSeq(t) /\ FlattenSeq(t) \in Seq(Chars)
<1>1. PICK R, s : R = Seq(Chars) /\ s = <<x>>
  OBVIOUS
<1>2. s \in Seq(R) /\ Len(s) = 1 /\ s[1] = x /\ s # <<>> /\ t \in Seq(R)
  BY <1>1
<1>3. s \o t \in Seq(R) /\ s \o t # <<>>
  BY <1>2, ConcatProperties, ConcatEqualIffEmpty
<1>4. FlattenSeq(s) = x
  BY <1>2, FlattenOne
<1>5. s \in Seq(Seq(Chars)) /\ FlattenSeq(t) \in Seq(Chars)
  BY <1>1, <1>2, FlattenInSeq
<1>6. FlattenSeq(s \o t) = FlattenSeq(s) \o FlattenSeq(t)
  BY <1>5, FlattenConcat
<1> QED
  BY <1>1, <1>2, <1>3, <1>4, <1>5, <1>6

LEMMA LastPiece ==
  ASSUME NEW text \in Seq(Chars), NEW end \in 0..Len(text) + 1, NEW b \in Nat \ {0}, NEW p \in Nat,
         NEW u, Unfolds(text, b, end, 1, p, u), u.next >= end
  PROVE  Covers(text, b, end, p, <<bracketize_mailbox(u.text)>>)
<1>1. PICK x : x = bracketize_mailbox(u.text)
  OBVIOUS
<1> SUFFICES ASSUME p >= b PROVE Covers(text, b, end, p, <<x>>)
  BY <1>1 DEF Covers
<1>2. u.text \in Seq(Chars) /\ u.next \in Nat \ {0}
  BY DEF Unfolds
<1>3. x \in Seq(Chars) /\ Bare(x) = Bare(u.text) /\ Bare(u.text) \in Seq(Chars)
  BY <1>1, <1>2, BracketsOnly, KeptInSeq
<1>4. <<x>> \in Seq(Seq(Chars)) /\ <<x>> # <<>> /\ FlattenSeq(<<x>>) = x
  <2>1. <<>> \in Seq(Seq(Chars))
    BY EmptySeq
  <2> QED
    BY <1>3, <2>1, OnePiece
<1>5. Rest(text, end, u.next) = <<>>
  BY <1>2, RestBegins
<1>6. Bare(u.text) \o <<>> = Bare(u.text)
  BY <1>3, ConcatEmptySeq
<1>7. Plain(text, b, end) => Bare(x) = Rest(text, end, p)
  BY <1>3, <1>5, <1>6 DEF Unfolds
<1> QED
  BY <1>4, <1>7 DEF Covers

LEMMA PieceMore ==
  ASSUME NEW text \in Seq(Chars), NEW end \in 0..Len(text) + 1, NEW b \in Nat \ {0}, NEW p \in Nat,
         NEW u, Unfolds(text, b, end, 1, p, u), NEW out, Covers(text, b, end, u.next, out)
  PROVE  Covers(text, b, end, p, <<bracketize_mailbox(u.text)>> \o out)
<1>1. PICK x : x = bracketize_mailbox(u.text)
  OBVIOUS
<1> SUFFICES ASSUME p >= b PROVE Covers(text, b, end, p, <<x>> \o out)
  BY <1>1 DEF Covers
<1>2. u.text \in Seq(Chars) /\ u.next \in Nat \ {0} /\ u.next >= b
  BY DEF Unfolds
<1>3. x \in Seq(Chars) /\ Bare(x) = Bare(u.text)
  BY <1>1, <1>2, BracketsOnly
<1>4. out \in Seq(Seq(Chars)) /\ (Plain(text, b, end) => Bare(FlattenSeq(out)) = Rest(text, end, u.next))
  BY <1>2 DEF Covers
<1>5. /\ <<x>> \o out \in Seq(Seq(Chars)) /\ <<x>> \o out # <<>>
      /\ FlattenSeq(<<x>> \o out) = x \o FlattenSeq(out) /\ FlattenSeq(out) \in Seq(Chars)
  BY <1>3, <1>4, OnePiece
<1>6. Bare(x \o FlattenSeq(out)) = Bare(x) \o Bare(FlattenSeq(out))
  BY <1>3, <1>5, BareConcat
<1>7. Plain(text, b, end) => Bare(FlattenSeq(<<x>> \o out)) = Rest(text, end, p)
  BY <1>3, <1>4, <1>5, <1>6 DEF Unfolds
<1> QED
  BY <1>5, <1>7 DEF Covers

LEMMA PiecesCover ==
  ASSUME NEW text \in Seq(Chars), NEW end \in 0..Len(text) + 1, NEW b \in Nat \ {0}
  PROVE  Covers(text, b, end, b, PrintedPieces(text, b, end))
<1> DEFINE piece(p) == unfold_token(text, p, end)
           first(p) == <<bracketize_mailbox(piece(p).text)>>
           Is(f) == f = [p \in Nat |-> IF piece(p).next >= end THEN first(p)
                                       ELSE first(p) \o f[piece(p).next]]
           pieces == CHOOSE f : Is(f)
<1>1. PrintedPieces(text, b, end) = pieces[b]
  BY DEF PrintedPieces
<1>2. end \in Nat
  BY LenProperties
<1>3. \A p \in Nat : Unfolds(text, b, end, 1, p, piece(p))
  BY TokenUnfolds
<1> HIDE DEF piece
<1>4. PICK step, found : /\ step = [p \in Nat |-> IF piece(p).next >= end THEN 0 ELSE piece(p).next]
                         /\ found = [p \in Nat |-> first(p)]
  OBVIOUS
<1>5. \A p \in Nat : /\ piece(p).next >= end => step[p] = 0
                     /\ ~(piece(p).next >= end) =>
                          step[p] = piece(p).next /\ step[p] \in Nat /\ p < step[p] /\ p < end
  BY <1>2, <1>3, <1>4 DEF Unfolds
<1>6. Steps(Nat, step, end) /\ Nat \subseteq Nat
  BY <1>5 DEF Steps
<1>7. \A f : Gathers(f, Nat, step, found) <=> Is(f)
  <2>1. \A p \in Nat : found[p] = first(p)
    BY <1>4
  <2>2. \A p \in Nat : (step[p] # 0 <=> ~(piece(p).next >= end)) /\ (step[p] # 0 => step[p] = piece(p).next)
    BY <1>5
  <2> HIDE DEF first
  <2>3. \A f : \A p \in Nat : (IF step[p] # 0 THEN found[p] \o f[step[p]] ELSE found[p]) =
                  IF piece(p).next >= end THEN first(p) ELSE first(p) \o f[piece(p).next]
    BY <2>1, <2>2
  <2> QED
    BY <2>3 DEF Gathers
<1> HIDE DEF first, Is
<1>8. Is(pieces)
  BY <1>2, <1>6, <1>7, GathersExists
<1> HIDE DEF pieces
<1>9. \A p \in Nat : pieces[p] = IF piece(p).next >= end THEN first(p) ELSE first(p) \o pieces[piece(p).next]
  BY <1>8 DEF Is
<1> DEFINE G == {p \in Nat : Covers(text, b, end, p, pieces[p])}
<1>10. \A p \in Nat : step[p] = 0 \/ step[p] \in G => p \in G
  <2> SUFFICES ASSUME NEW p \in Nat, step[p] = 0 \/ step[p] \in G
               PROVE  Covers(text, b, end, p, pieces[p])
    OBVIOUS
  <2>1. PICK u : u = piece(p)
    OBVIOUS
  <2>2. Unfolds(text, b, end, 1, p, u)
    BY <1>3, <2>1
  <2>3. CASE u.next >= end
    <3>1. pieces[p] = <<bracketize_mailbox(u.text)>>
      BY <1>9, <2>1, <2>3 DEF first
    <3> QED
      BY <2>2, <2>3, <3>1, LastPiece
  <2>4. CASE ~(u.next >= end)
    <3>1. pieces[p] = <<bracketize_mailbox(u.text)>> \o pieces[u.next]
      BY <1>9, <2>1, <2>4 DEF first
    <3>2. step[p] = u.next /\ p < step[p]
      BY <1>5, <2>1, <2>4
    <3>3. Covers(text, b, end, u.next, pieces[u.next])
      BY <3>2
    <3> QED
      BY <2>2, <3>1, <3>3, PieceMore
  <2> QED
    BY <2>3, <2>4
<1>11. Nat \subseteq G
  <2>1. Inherited(Nat, step, G)
    <3> HIDE DEF G
    <3> QED
      BY <1>10 DEF Inherited
  <2> HIDE DEF G
  <2> QED
    BY <1>2, <1>6, <2>1, StepsInduct
<1> QED
  BY <1>1, <1>11

-----------------------------------------------------------------------------
(* The states of headers.                                                  *)

AnyState == States \cup {"hang"}

LEMMA StatesKnown ==
  ASSUME NEW l, NEW e, NEW f, NEW s \in Parse(l, e)!make_new_header(f)
  PROVE  s \subseteq AnyState
<1>1. \A r : Parse(l, e)!Read822(r) \subseteq AnyState /\ Parse(l, e)!Read821(r) \subseteq AnyState
  BY DEF Parse!Read822, Parse!Read821, AnyState, States
<1>2. \A r : Parse(l, e)!Read2822(r) \subseteq AnyState
  <2> SUFFICES ASSUME NEW r, NEW x \in Parse(l, e)!Read2822(r) PROVE x \in AnyState
    OBVIOUS
  <2>1. PICK S : /\ S \subseteq 1..3 /\ S # {}
                 /\ x = <<"2822", "2822obs", "2822lax">>[CHOOSE i \in S : \A j \in S : i <= j]
    BY DEF Parse!Read2822, Parse!Forms
  <2>2. \E i \in S : \A j \in S : i <= j
    <3>1. S \subseteq Nat
      BY <2>1
    <3>2. PICK i \in S : \A j \in S : ~(j < i)
      BY <2>1, <3>1, SmallestOfNat
    <3> QED
      BY <3>1, <3>2
  <2>3. PICK i \in 1..3 : x = <<"2822", "2822obs", "2822lax">>[i]
    BY <2>1, <2>2
  <2>4. x \in {"2822", "2822obs", "2822lax"}
    BY <2>3
  <2> QED
    BY <2>4 DEF AnyState, States
<1>3. {"2821"} \subseteq AnyState /\ {"2821lax"} \subseteq AnyState /\ {"BAD_DATA"} \subseteq AnyState
  BY DEF AnyState, States
<1>4.
      /\ Parse(l, e)!mkh_return_path \subseteq AnyState
      /\ Parse(l, e)!mkh_received \subseteq AnyState
      /\ Parse(l, e)!mkh_reply_to \subseteq AnyState
      /\ Parse(l, e)!mkh_from \subseteq AnyState
      /\ Parse(l, e)!mkh_sender \subseteq AnyState
      /\ Parse(l, e)!mkh_to \subseteq AnyState
      /\ Parse(l, e)!mkh_cc \subseteq AnyState
      /\ Parse(l, e)!mkh_bcc \subseteq AnyState
      /\ Parse(l, e)!mkh_message_id \subseteq AnyState
      /\ Parse(l, e)!mkh_in_reply_to \subseteq AnyState
      /\ Parse(l, e)!mkh_references \subseteq AnyState
      /\ Parse(l, e)!mkh_subject \subseteq AnyState
      /\ Parse(l, e)!mkh_resent_from \subseteq AnyState
      /\ Parse(l, e)!mkh_resent_reply_to \subseteq AnyState
      /\ Parse(l, e)!mkh_resent_sender \subseteq AnyState
      /\ Parse(l, e)!mkh_resent_to \subseteq AnyState
      /\ Parse(l, e)!mkh_resent_cc \subseteq AnyState
      /\ Parse(l, e)!mkh_resent_bcc \subseteq AnyState
      /\ Parse(l, e)!mkh_resent_date \subseteq AnyState
      /\ Parse(l, e)!mkh_resent_message_id \subseteq AnyState
  BY <1>1, <1>2, <1>3, Zenon
     DEF Parse!mkh_return_path, Parse!mkh_received, Parse!mkh_reply_to, Parse!mkh_from,
         Parse!mkh_sender, Parse!mkh_to, Parse!mkh_cc, Parse!mkh_bcc, Parse!mkh_message_id,
         Parse!mkh_in_reply_to, Parse!mkh_references, Parse!mkh_subject, Parse!mkh_resent_from,
         Parse!mkh_resent_reply_to, Parse!mkh_resent_sender, Parse!mkh_resent_to,
         Parse!mkh_resent_cc, Parse!mkh_resent_bcc, Parse!mkh_resent_date,
         Parse!mkh_resent_message_id
<1>5. \A x \in Parse(l, e)!mkh_date : x \subseteq AnyState
  BY <1>1, <1>2, <1>3, Zenon DEF Parse!mkh_date
<1> QED
  BY <1>4, <1>5 DEF Parse!make_new_header

-----------------------------------------------------------------------------
(* The headers of the stack and the text buffer.                           *)

Header == [field : Fields, text : Seq(Chars), state : SUBSET States,
           token : Nat \X Nat, live : BOOLEAN]

(* A header whose text is among the first m characters of the buffer. *)
HeaderFits(h, m) ==
  /\ h \in Header /\ TokenFits(h.field, h.text, h.token)
  /\ h.token \in (0..m) \X (0..m)

StackFits(s, m) == s \in Seq(Header) /\ \A i \in 1..Len(s) : HeaderFits(s[i], m)

LineFits(f, l, m) ==
  /\ l \in Seq(Chars) /\ f \in Fields \cup {NoLine} /\ Len(l) <= m
  /\ f \notin {NoLine, Continued} => Len(l) < m

LEMMA PrintableIsField ==
  /\ Printable \subseteq Fields /\ NoLine \notin Printable /\ Continued \notin Printable
BY DEF Fields, Printable, NoLine, Continued, AddressLists, MailboxLists, Mailboxes

LEMMA MadeFits ==
  ASSUME NEW f \in Fields, NEW l, NEW m \in Nat, LineFits(f, l, m), NEW h \in Made(f, l),
         "hang" \notin h.state
  PROVE  HeaderFits(h, m)
<1>1. PICK e : e = Scan(l)!Ends
  OBVIOUS
<1>2. PICK state \in Parse(l, e)!make_new_header(f) :
        h = [field |-> f, text |-> l, state |-> state, token |-> Parse(l, e)!Token(f, state),
             live |-> TRUE]
  BY <1>1 DEF Made
<1>3. PICK token : token = Parse(l, e)!Token(f, state)
  OBVIOUS
<1>4. h = [field |-> f, text |-> l, state |-> state, token |-> token, live |-> TRUE]
  BY <1>2, <1>3
<1>5. l \in Seq(Chars) /\ Len(l) \in Nat
  BY LenProperties DEF LineFits
<1>6. TokenFits(f, l, token)
  BY <1>1, <1>3, <1>5, TokenIsFit
<1>7. state \in SUBSET States
  <2>1. state \subseteq AnyState
    BY <1>2, StatesKnown
  <2> QED
    BY <1>4, <2>1 DEF AnyState
<1>8. token \in (0..m) \X (0..m) /\ token \in Nat \X Nat
  <2>1. PICK a \in 0..Len(l) + 1, b \in 0..Len(l) + 1 : token = <<a, b>>
    BY <1>6 DEF TokenFits
  <2>2. IF a = 0 THEN b = 0 ELSE f \in Printable
    BY <1>6, <2>1 DEF TokenFits
  <2>3. a # 0 => Len(l) < m
    BY <2>2, PrintableIsField DEF LineFits
  <2>4. a \in 0..m /\ b \in 0..m
    BY <1>5, <2>2, <2>3
  <2> QED
    BY <2>1, <2>4
<1>9. h \in Header
  BY <1>4, <1>5, <1>7, <1>8 DEF Header
<1> QED
  BY <1>4, <1>6, <1>8, <1>9 DEF HeaderFits

LEMMA StackGrows ==
  ASSUME NEW s, NEW m \in Nat, NEW k \in Nat, m <= k, StackFits(s, m)
  PROVE  StackFits(s, k)
<1>1. ASSUME NEW i \in 1..Len(s) PROVE HeaderFits(s[i], k)
  <2>1. HeaderFits(s[i], m)
    BY DEF StackFits
  <2>2. (0..m) \X (0..m) \subseteq (0..k) \X (0..k)
    OBVIOUS
  <2> QED
    BY <2>1, <2>2 DEF HeaderFits
<1> QED
  BY <1>1 DEF StackFits

LEMMA StackPushed ==
  ASSUME NEW s, NEW m \in Nat, StackFits(s, m), NEW h, HeaderFits(h, m)
  PROVE  StackFits(Append(s, h), m)
<1>1. PICK t : t = Append(s, h)
  OBVIOUS
<1>2. s \in Seq(Header) /\ h \in Header
  BY DEF StackFits, HeaderFits
<1>3. /\ t \in Seq(Header) /\ Len(t) = Len(s) + 1 /\ t[Len(s) + 1] = h /\ Len(s) \in Nat
      /\ \A i \in 1..Len(s) : t[i] = s[i]
  BY <1>1, <1>2, AppendProperties, LenProperties
<1>4. ASSUME NEW i \in 1..Len(t) PROVE HeaderFits(t[i], m)
  <2>1. CASE i = Len(s) + 1
    BY <1>3, <2>1
  <2>2. CASE i \in 1..Len(s)
    BY <1>3, <2>2 DEF StackFits
  <2> QED
    BY <1>3, <2>1, <2>2
<1> QED
  BY <1>1, <1>3, <1>4 DEF StackFits

LEMMA StackMoved ==
  ASSUME NEW s, NEW m \in Nat, StackFits(s, m)
  PROVE  StackFits([i \in DOMAIN s |-> [s[i] EXCEPT !.live = FALSE]], m)
<1>1. PICK t : t = [i \in DOMAIN s |-> [s[i] EXCEPT !.live = FALSE]]
  OBVIOUS
<1>2. s \in Seq(Header) /\ DOMAIN s = 1..Len(s) /\ Len(s) \in Nat
  BY LenProperties DEF StackFits
<1>3. ASSUME NEW i \in 1..Len(s)
      PROVE  HeaderFits(t[i], m)
  <2>1. HeaderFits(s[i], m)
    BY DEF StackFits
  <2>2. PICK g, h : g = s[i] /\ h = t[i]
    OBVIOUS
  <2>3. h = [g EXCEPT !.live = FALSE]
    BY <1>1, <1>2, <2>2
  <2>4. g \in Header
    BY <2>1, <2>2 DEF HeaderFits
  <2>5. h \in Header /\ h.field = g.field /\ h.text = g.text /\ h.token = g.token
    BY <2>3, <2>4 DEF Header
  <2> QED
    BY <2>1, <2>2, <2>5 DEF HeaderFits
<1>4. t \in Seq(Header) /\ Len(t) = Len(s)
  <2>1. \A i \in 1..Len(s) : t[i] \in Header
    BY <1>3 DEF HeaderFits
  <2> QED
    BY <1>1, <1>2, <2>1
<1> QED
  BY <1>1, <1>3, <1>4 DEF StackFits

(* The buffer is doubled until the line fits.                              *)
LEMMA EnoughRoom ==
  ASSUME NEW n \in Nat, NEW r \in Nat \ {0}, NEW enough,
         enough = CHOOSE f : f = [q \in Nat \ {0} |-> IF n >= q THEN f[2 * q] ELSE q]
  PROVE  enough[r] \in Nat /\ n < enough[r]
<1> DEFINE D == Nat \ {0}
           Is(f) == f = [q \in D |-> IF n >= q THEN f[2 * q] ELSE q]
<1>1. PICK step, base : /\ step = [q \in D |-> IF n >= q THEN 2 * q ELSE 0]
                        /\ base = [q \in D |-> q]
  OBVIOUS
<1>2. Steps(D, step, n + 1) /\ D \subseteq Nat /\ n + 1 \in Nat
  BY <1>1 DEF Steps
<1>3. PICK g : Stepwise(g, D, step, base)
  BY <1>2, StepwiseExists
<1>4. Is(g)
  <2>1. \A q \in D : (IF step[q] # 0 THEN g[step[q]] ELSE base[q]) = IF n >= q THEN g[2 * q] ELSE q
    BY <1>1
  <2> QED
    BY <1>3, <2>1 DEF Stepwise
<1>5. Is(enough)
  <2>1. enough = CHOOSE f : Is(f)
    OBVIOUS
  <2> HIDE DEF Is
  <2> QED
    BY <1>4, <2>1
<1>6. \A q \in D : enough[q] = IF n >= q THEN enough[2 * q] ELSE q
  BY <1>5
<1>7. PICK G : G = {q \in D : enough[q] \in Nat /\ n < enough[q]}
  OBVIOUS
<1>8. \A q \in D : step[q] = 0 \/ step[q] \in G => q \in G
  <2> SUFFICES ASSUME NEW q \in D, step[q] = 0 \/ step[q] \in G PROVE q \in G
    OBVIOUS
  <2>1. CASE n >= q
    <3>1. step[q] = 2 * q /\ 2 * q # 0
      BY <1>1, <2>1
    <3>2. enough[q] = enough[2 * q]
      BY <1>6, <2>1
    <3> QED
      BY <1>7, <3>1, <3>2
  <2>2. CASE ~(n >= q)
    BY <1>6, <1>7, <2>2
  <2> QED
    BY <2>1, <2>2
<1>9. D \subseteq G
  <2>1. PICK last, E : last = n + 1 /\ E = D
    OBVIOUS
  <2>2. Steps(E, step, last) /\ E \subseteq Nat /\ last \in Nat
    BY <1>2, <2>1
  <2>3. Inherited(E, step, G)
    BY <1>8, <2>1 DEF Inherited
  <2>4. E \subseteq G
    BY <2>2, <2>3, StepsInduct
  <2> QED
    BY <2>1, <2>4
<1> QED
  BY <1>7, <1>9

Buffered ==
  /\ room \in Nat \ {0} /\ used \in Nat /\ used <= room

(* The two things that become of a line: it is kept, or there is no room.  *)
Keeps(l, enough) ==
  /\ room' = enough[room]
  /\ used' = used + Len(l.text) + (IF l.field = Continued THEN 0 ELSE 1)
  /\ line' = IF l.field = Continued THEN line \o l.text ELSE l.text
  /\ field' = IF l.field = Continued /\ field # NoLine THEN field ELSE l.field

Loses(l) == room' \in room..used + Len(l.text) /\ UNCHANGED <<used, line, field>>

LEMMA AppendFits ==
  ASSUME Buffered, LineFits(field, line, used), NEW l \in Line, l.field # Empty,
         NEW stack, StackFits(stack, used), NEW intact, head_append_hline(l, stack, intact)
  PROVE  Buffered' /\ LineFits(field', line', used') /\ StackFits(hlines', used')
<1>1. PICK n, r, m, u, f, s, t, moved, enough :
        /\ n = Len(l.text) /\ r = room /\ m = used /\ u = used' /\ f = field' /\ s = line
        /\ t = line' /\ moved = [i \in DOMAIN stack |-> [stack[i] EXCEPT !.live = FALSE]]
        /\ enough = CHOOSE g : g = [q \in Nat \ {0} |-> IF m + n >= q THEN g[2 * q] ELSE q]
  OBVIOUS
<1>2. l.text \in Seq(Chars) /\ l.field \in Fields /\ n \in Nat
  BY <1>1, LenProperties DEF Line
<1>3. hlines' \in {stack, moved} /\ (Keeps(l, enough) \/ Loses(l))
  BY <1>1 DEF head_append_hline, Keeps, Loses
<1>4. m \in Nat /\ r \in Nat \ {0} /\ m <= r /\ m + n \in Nat
  BY <1>1, <1>2 DEF Buffered
<1>5. StackFits(stack, m) /\ StackFits(moved, m)
  BY <1>1, <1>4, StackMoved
<1>6. CASE Loses(l)
  <2>1. Buffered'
    BY <1>1, <1>4, <1>6 DEF Buffered, Loses
  <2>2. StackFits(hlines', m)
    BY <1>3, <1>5
  <2>3. UNCHANGED <<used, line, field>>
    BY <1>6 DEF Loses
  <2> QED
    BY <1>1, <2>1, <2>2, <2>3
<1>7. CASE Keeps(l, enough)
  <2>1. /\ u = m + n + (IF l.field = Continued THEN 0 ELSE 1)
        /\ t = IF l.field = Continued THEN s \o l.text ELSE l.text
        /\ f = IF l.field = Continued /\ field # NoLine THEN field ELSE l.field
    BY <1>1, <1>7 DEF Keeps
  <2>2. u \in Nat /\ m <= u
    BY <1>2, <1>4, <2>1
  <2>3. room' \in Nat /\ m + n < room'
    <3>1. room' = enough[r]
      BY <1>1, <1>7 DEF Keeps
    <3> QED
      BY <1>1, <1>4, <3>1, EnoughRoom
  <2>4. Buffered'
    <3>1. u <= room' /\ room' # 0
      BY <1>2, <1>4, <2>1, <2>3
    <3> QED
      BY <1>1, <2>2, <2>3, <3>1 DEF Buffered
  <2>5. StackFits(hlines', u)
    BY <1>3, <1>4, <1>5, <2>2, StackGrows
  <2>6. LineFits(f, t, u)
    <3>1. s \in Seq(Chars) /\ Len(s) \in Nat /\ Len(s) <= m /\ field \in Fields \cup {NoLine}
          /\ (field \notin {NoLine, Continued} => Len(s) < m)
      BY <1>1, LenProperties DEF LineFits
    <3>2. CASE l.field = Continued
      <4>1. t \in Seq(Chars) /\ Len(t) = Len(s) + n
        BY <1>1, <1>2, <2>1, <3>1, <3>2, ConcatProperties
      <4>2. u = m + n /\ (field # NoLine => f = field) /\ (field = NoLine => f = Continued)
        BY <1>2, <1>4, <2>1, <3>2
      <4> QED
        BY <1>2, <1>4, <3>1, <3>2, <4>1, <4>2 DEF LineFits
    <3>3. CASE l.field # Continued
      <4>1. t = l.text /\ u = m + n + 1 /\ f = l.field
        BY <2>1, <3>3
      <4> QED
        BY <1>1, <1>2, <1>4, <4>1 DEF LineFits
    <3> QED
      BY <3>2, <3>3
  <2> QED
    BY <1>1, <2>4, <2>5, <2>6
<1> QED
  BY <1>3, <1>6, <1>7

-----------------------------------------------------------------------------
(* The invariant of the whole program.                                     *)

PrintedRight(h, out) ==
  /\ h.live /\ h.token[1] # 0 /\ h.field \notin Mailboxes
  /\ Plain(h.text, h.token[1], h.token[2])
  => Bare(FlattenSeq(out)) = Rest(h.text, h.token[2], h.token[1])

PrintedFits ==
  /\ buf \in Seq(Chars) /\ printed \in Seq(Seq(Seq(Chars)))
  /\ Len(printed) <= Len(hlines) /\ (printed # <<>> => pc \in {"print", "done"})
  /\ \A i \in 1..Len(printed) : PrintedRight(hlines[i], printed[i])

PInv ==
  /\ IInv /\ Buffered /\ LineFits(field, line, used) /\ StackFits(hlines, used)
  /\ pc \in {"read", "print", "done", "hung", "overrun"} /\ mem \in {"fine", "failed", "null"}
  /\ PrintedFits

LEMMA NothingPrinted ==
  ASSUME PrintedFits, pc = "read", UNCHANGED <<buf, printed>>, NEW m, StackFits(hlines', m)
  PROVE  PrintedFits'
<1>1. printed = <<>> /\ printed' = <<>> /\ Len(printed) = 0 /\ Len(printed') = 0
  BY DEF PrintedFits
<1>2. Len(hlines') \in Nat
  <2>1. PICK s : s = hlines'
    OBVIOUS
  <2>2. s \in Seq(Header)
    BY <2>1 DEF StackFits
  <2> QED
    BY <2>1, <2>2, LenProperties
<1> QED
  BY <1>1, <1>2 DEF PrintedFits

LEMMA LinesKeepFits == ASSUME PInv, CollectLine \/ CompleteLine \/ LeaveHeaderOut PROVE PInv'
<1>1. IInv'
  BY NextKeeps DEF PInv, Next
<1>2. pc = "read" /\ UNCHANGED <<input, buf, printed>> /\ read < Len(input)
  BY DEF CollectLine, CompleteLine, LeaveHeaderOut, GetLine
<1>3. PICK l : l = NextLine
  OBVIOUS
<1>4. l \in Line /\ l.field # Empty
  <2>1. PICK inp, r : inp = input /\ r = read
    OBVIOUS
  <2>2. inp \in Seq(Line) /\ r \in 0..Len(inp) /\ r < Len(inp) /\ Len(inp) \in Nat
    <3>1. input \in Seq(Line) /\ read \in 0..Len(input)
      BY InputsAssumption DEF PInv, IInv, Line
    <3> QED
      BY <1>2, <2>1, <3>1, LenProperties
  <2>3. r + 1 \in 1..Len(inp)
    BY <2>2
  <2>4. inp[r + 1] \in Line
    BY <2>2, <2>3, ElementOfSeq
  <2> QED
    BY <1>3, <2>1, <2>4 DEF NextLine, CollectLine, CompleteLine, LeaveHeaderOut
<1>5. Buffered /\ LineFits(field, line, used) /\ StackFits(hlines, used) /\ PrintedFits
  BY DEF PInv
<1>6. ASSUME NEW stack, StackFits(stack, used), NEW intact,
             head_append_hline(l, stack, intact), pc' = pc
      PROVE  PInv'
  <2>1. Buffered' /\ LineFits(field', line', used') /\ StackFits(hlines', used')
    BY <1>4, <1>5, <1>6, AppendFits
  <2>2. PrintedFits'
    BY <1>2, <1>5, <2>1, NothingPrinted
  <2>3. mem' \in {"fine", "failed", "null"}
    BY <1>6 DEF head_append_hline
  <2> QED
    BY <1>1, <1>2, <1>6, <2>1, <2>2, <2>3 DEF PInv
<1>7. CASE CollectLine \/ LeaveHeaderOut
  <2>1. pc' = pc /\ \E intact : head_append_hline(l, hlines, intact)
    BY <1>3, <1>7 DEF CollectLine, LeaveHeaderOut
  <2> QED
    BY <1>5, <1>6, <2>1
<1>8. CASE CompleteLine
  <2>1. Completes(l) /\ field # NoLine
    BY <1>3, <1>8 DEF CompleteLine, Completes
  <2>2. CASE pc' = "hung" /\ UNCHANGED <<line, field, hlines, used, room, mem>>
    <3>1. Buffered' /\ LineFits(field', line', used') /\ StackFits(hlines', used')
      BY <1>5, <2>2 DEF Buffered
    <3>2. PrintedFits'
      BY <1>2, <1>5, <3>1, NothingPrinted
    <3> QED
      BY <1>1, <2>2, <3>1, <3>2 DEF PInv
  <2>3. ASSUME NEW stack \in head_push_header, "hang" \notin stack[Len(stack)].state,
               head_append_hline(l, stack, mem = "fine"), pc' = pc
        PROVE  PInv'
    <3>1. PICK h \in Made(field, line) : stack = Append(hlines, h)
      BY <2>3 DEF head_push_header
    <3>2. stack[Len(stack)] = h
      <4>1. PICK s, t : s = hlines /\ t = stack
        OBVIOUS
      <4>2. s \in Seq(Header)
        BY <1>5, <4>1 DEF StackFits
      <4>3. t = Append(s, h) /\ Len(t) = Len(s) + 1 /\ t[Len(s) + 1] = h
        BY <3>1, <4>1, <4>2
      <4> QED
        BY <4>1, <4>3
    <3>3. field \in Fields /\ used \in Nat
      BY <1>5, <2>1 DEF LineFits, Buffered
    <3>4. HeaderFits(h, used)
      BY <1>5, <2>3, <3>1, <3>2, <3>3, MadeFits
    <3>5. StackFits(stack, used)
      BY <1>5, <3>1, <3>3, <3>4, StackPushed
    <3> QED
      BY <1>6, <2>3, <3>5
  <2>4. \/ pc' = "hung" /\ UNCHANGED <<line, field, hlines, used, room, mem>>
        \/ \E stack \in head_push_header :
             /\ "hang" \notin stack[Len(stack)].state /\ pc' = pc
             /\ head_append_hline(l, stack, mem = "fine")
    BY <1>3, <1>8 DEF CompleteLine
  <2> QED
    BY <2>2, <2>3, <2>4
<1> QED
  BY <1>7, <1>8

LEMMA MailboxPrinted ==
  ASSUME NEW h, NEW m \in Nat, HeaderFits(h, m), NEW text \in TextOf(h), NEW content \in Seq(Chars),
         print_mailbox(h, text, content), buf \in Seq(Chars)
  PROVE  /\ buf' \in Seq(Chars)
         /\ \E out \in Seq(Seq(Chars)) : printed' = Append(printed, out) /\ PrintedRight(h, out)
<1>1. PICK a, b : a = h.token[1] /\ b = h.token[2]
  OBVIOUS
<1>2. h.text \in Seq(Chars) /\ Len(h.text) \in Nat
  BY LenProperties DEF HeaderFits, Header
<1>3. /\ text \in Seq(Chars) /\ Len(text) = Len(h.text) /\ (h.live => text = h.text)
  <2>1. PICK s : s = h.text
    OBVIOUS
  <2>2. s \in Seq(Chars) /\ DOMAIN s = 1..Len(s) /\ Len(s) \in Nat
    BY <1>2, <2>1, LenProperties
  <2>3. "a" \in Chars
    BY DEF Chars, Atext, Alpha
  <2>4. PICK t : t = [i \in DOMAIN s |-> "a"]
    OBVIOUS
  <2>5. t \in Seq(Chars) /\ Len(t) = Len(s)
    BY <2>2, <2>3, <2>4
  <2>6. text \in {s, t} /\ (h.live => text = s)
    BY <2>1, <2>4 DEF TextOf
  <2> QED
    BY <2>1, <2>2, <2>5, <2>6
<1>4. a # 0 => a \in Nat \ {0} /\ b \in 0..Len(text) + 1 /\ a < b /\ h.field \in Printable
  <2>1. h.token \in (0..Len(h.text) + 1) \X (0..Len(h.text) + 1)
    BY DEF HeaderFits, TokenFits
  <2>2. a \in 0..Len(h.text) + 1 /\ b \in 0..Len(h.text) + 1
    BY <1>1, <2>1
  <2>3. a # 0 => h.field \in Printable /\ a < b
    BY <1>1 DEF HeaderFits, TokenFits
  <2> QED
    BY <1>2, <1>3, <2>2, <2>3
<1>5. a # 0 => Covers(text, a, b, a, PrintedPieces(text, a, b))
  BY <1>3, <1>4, PiecesCover
<1>6. PICK one : one = bracketize_mailbox(IF a # 0 THEN unfold_token(text, a, b).text ELSE content)
  OBVIOUS
<1>7. one \in Seq(Chars)
  <2>1. a # 0 => unfold_token(text, a, b).text \in Seq(Chars)
    <3>1. ASSUME a # 0 PROVE unfold_token(text, a, b).text \in Seq(Chars)
      <4>2. PICK u : u = unfold_token(text, a, b)
        OBVIOUS
      <4>3. Unfolds(text, a, b, 1, a, u)
        BY <1>3, <1>4, <3>1, <4>2, TokenUnfolds
      <4>4. a \in Nat
        BY <1>4, <3>1
      <4> QED
        BY <4>2, <4>3, <4>4 DEF Unfolds
    <3> QED
      BY <3>1
  <2>2. PICK x : x = IF a # 0 THEN unfold_token(text, a, b).text ELSE content
    OBVIOUS
  <2>3. x \in Seq(Chars)
    BY <2>1, <2>2
  <2> QED
    BY <1>6, <2>2, <2>3, BracketsOnly
<1>8. PICK out : out = CASE h.field \in AddressLists \cup MailboxLists /\ a # 0
                            -> PrintedPieces(text, a, b)
                          [] h.field \in Mailboxes -> <<one>>
                          [] OTHER -> <<>>
  OBVIOUS
<1>9. /\ printed' = Append(printed, out)
      /\ buf' = IF out = <<>> THEN buf ELSE out[Len(out)]
  BY <1>1, <1>6, <1>8 DEF print_mailbox, NULL
<1>10. Mailboxes \cap (AddressLists \cup MailboxLists) = {}
  BY DEF Mailboxes, AddressLists, MailboxLists
<1>11. \/ h.field \in AddressLists \cup MailboxLists /\ a # 0 /\ out = PrintedPieces(text, a, b)
       \/ ~(h.field \in AddressLists \cup MailboxLists /\ a # 0) /\ out \in {<<one>>, <<>>}
  BY <1>10, <1>8
<1>12. out \in Seq(Seq(Chars))
  <2>1. <<one>> \in Seq(Seq(Chars)) /\ <<>> \in Seq(Seq(Chars))
    BY <1>7, EmptySeq, OnePiece
  <2>2. a # 0 => PrintedPieces(text, a, b) \in Seq(Seq(Chars))
    BY <1>4, <1>5 DEF Covers
  <2> QED
    BY <1>11, <2>1, <2>2
<1>13. buf' \in Seq(Chars)
  <2>1. PICK R : R = Seq(Chars)
    OBVIOUS
  <2>2. out # <<>> => out[Len(out)] \in R
    BY <1>12, <2>1
  <2> QED
    BY <1>9, <2>1, <2>2
<1>14. PrintedRight(h, out)
  <2> SUFFICES ASSUME h.live, a # 0, h.field \notin Mailboxes, Plain(h.text, a, b)
               PROVE  Bare(FlattenSeq(out)) = Rest(h.text, b, a)
    BY <1>1 DEF PrintedRight
  <2>1. h.field \in AddressLists \cup MailboxLists
    BY <1>4 DEF Printable
  <2>2. out = PrintedPieces(text, a, b) /\ text = h.text /\ a \in Nat
    BY <1>3, <1>4, <1>11, <2>1
  <2> QED
    BY <1>5, <2>2 DEF Covers
<1> QED
  BY <1>9, <1>12, <1>13, <1>14

LEMMA PrintKeepsFits == ASSUME PInv, PrintHeader PROVE PInv'
<1>1. IInv'
  BY NextKeeps DEF PInv, Next
<1>2. /\ pc = "print" /\ Len(printed) < Len(hlines)
      /\ UNCHANGED <<line, input, read, field, in_header, hlines, used, room, mem, pc>>
  BY DEF PrintHeader
<1>3. Buffered /\ LineFits(field, line, used) /\ StackFits(hlines, used) /\ PrintedFits
  BY DEF PInv
<1>4. PICK s, old, new : s = hlines /\ old = printed /\ new = printed'
  OBVIOUS
<1>5. s \in Seq(Header) /\ old \in Seq(Seq(Seq(Chars))) /\ Len(s) \in Nat /\ Len(old) \in Nat
      /\ Len(old) < Len(s)
  BY <1>2, <1>3, <1>4, LenProperties DEF StackFits, PrintedFits
<1>6. PICK h : h = s[Len(old) + 1]
  OBVIOUS
<1>7. HeaderFits(h, used) /\ used \in Nat
  BY <1>3, <1>4, <1>5, <1>6 DEF StackFits, Buffered
<1>8. PICK text \in TextOf(h), content \in Content : print_mailbox(h, text, content)
  BY <1>4, <1>6 DEF PrintHeader
<1>9. content \in Seq(Chars) /\ buf \in Seq(Chars)
  <2>1. "a" \in Chars
    BY DEF Chars, Atext, Alpha
  <2>2. <<>> \in Seq(Chars) /\ <<"a">> \in Seq(Chars)
    BY <2>1
  <2> QED
    BY <1>3, <2>2 DEF Content, PrintedFits
<1>10. PICK out \in Seq(Seq(Chars)) :
         buf' \in Seq(Chars) /\ new = Append(old, out) /\ PrintedRight(h, out)
  BY <1>4, <1>7, <1>8, <1>9, MailboxPrinted
<1>11. /\ new \in Seq(Seq(Seq(Chars))) /\ Len(new) = Len(old) + 1 /\ new[Len(old) + 1] = out
       /\ \A i \in 1..Len(old) : new[i] = old[i]
  <2>1. PICK R : R = Seq(Seq(Chars))
    OBVIOUS
  <2>2. old \in Seq(R) /\ out \in R
    BY <1>5, <1>10, <2>1
  <2> QED
    BY <1>10, <2>1, <2>2, AppendProperties
<1>12. \A i \in 1..Len(new) : PrintedRight(s[i], new[i])
  <2> SUFFICES ASSUME NEW i \in 1..Len(new) PROVE PrintedRight(s[i], new[i])
    OBVIOUS
  <2>1. CASE i = Len(old) + 1
    BY <1>6, <1>10, <1>11, <2>1
  <2>2. CASE i \in 1..Len(old)
    <3>1. PrintedRight(s[i], old[i])
      BY <1>3, <1>4, <2>2 DEF PrintedFits
    <3> QED
      BY <1>11, <2>2, <3>1
  <2> QED
    BY <1>5, <1>11, <2>1, <2>2
<1>13. PrintedFits'
  <2>1. Len(new) <= Len(s)
    BY <1>5, <1>11
  <2>2. hlines' = s /\ pc' = "print"
    BY <1>2, <1>4
  <2> QED
    BY <1>4, <1>10, <1>11, <1>12, <2>1, <2>2 DEF PrintedFits
<1> QED
  BY <1>1, <1>2, <1>3, <1>13 DEF PInv, Buffered

LEMMA RestKeepsFits ==
  ASSUME PInv, OverrunStack \/ EndHeader \/ SkipBody \/ EndOfFile \/ Exit \/ UNCHANGED vars
  PROVE  PInv'
<1>1. IInv'
  BY NextKeeps DEF PInv, Next
<1>2. UNCHANGED <<line, field, hlines, used, room, mem, buf, printed>>
  BY DEF OverrunStack, EndHeader, SkipBody, EndOfFile, Exit, vars
<1>3. /\ pc' \in {"read", "print", "done", "hung", "overrun"}
      /\ pc' = pc \/ pc = "read" \/ (pc = "print" /\ pc' = "done")
  BY DEF PInv, OverrunStack, EndHeader, SkipBody, EndOfFile, Exit, vars, GetLine
<1>4. Buffered' /\ LineFits(field', line', used') /\ StackFits(hlines', used')
  BY <1>2 DEF PInv, Buffered
<1>5. PrintedFits'
  BY <1>2, <1>3 DEF PInv, PrintedFits
<1> QED
  BY <1>1, <1>2, <1>3, <1>4, <1>5 DEF PInv

LEMMA InitFits == Init => PInv
<1> SUFFICES ASSUME Init PROVE PInv
  OBVIOUS
<1>1. IInv
  BY InitKeeps
<1>2. Buffered
  BY SizesAssumption DEF Init, Buffered
<1>3. PICK none : none = <<>>
  OBVIOUS
<1>4. none \in Seq(Chars) /\ Len(none) = 0 /\ none \in Seq(Header) /\ none \in Seq(Seq(Seq(Chars)))
  BY <1>3
<1>5. line = none /\ hlines = none /\ buf = none /\ printed = none /\ field = NoLine /\ used = 0
      /\ pc = "read" /\ mem = "fine"
  BY <1>3 DEF Init
<1>6. LineFits(field, line, used) /\ StackFits(hlines, used)
  BY <1>4, <1>5 DEF LineFits, StackFits
<1>7. PrintedFits
  BY <1>3, <1>4, <1>5 DEF PrintedFits
<1> QED
  BY <1>1, <1>2, <1>5, <1>6, <1>7 DEF PInv

LEMMA NextFits == PInv /\ [Next]_vars => PInv'
BY LinesKeepFits, PrintKeepsFits, RestKeepsFits DEF Next

(* Whatever the message, and however the recognisers of RFC 2822 go over   *)
(* its lines: the place that they find a mailbox at lies in the line and   *)
(* in the text buffer, which has room for every line that was collected,   *)
(* and what is printed consists of characters.                             *)
THEOREM HeadersFit == Spec => []TypeOK
<1>1. PInv => TypeOK
  <2> SUFFICES ASSUME PInv PROVE TypeOK
    OBVIOUS
  <2>1. PICK s, m : s = hlines /\ m = used
    OBVIOUS
  <2>2. s \in Seq(Header) /\ \A i \in 1..Len(s) : HeaderFits(s[i], m)
    BY <2>1 DEF PInv, StackFits
  <2>3. s \in Seq([field : Fields, text : Seq(Chars), state : SUBSET States,
                   token : (0..m) \X (0..m), live : BOOLEAN])
    <3>1. PICK R : R = [field : Fields, text : Seq(Chars), state : SUBSET States,
                        token : (0..m) \X (0..m), live : BOOLEAN]
      OBVIOUS
    <3>2. ASSUME NEW i \in 1..Len(s) PROVE s[i] \in R
      <4>1. PICK h : h = s[i]
        OBVIOUS
      <4>2. h \in Header /\ h.token \in (0..m) \X (0..m)
        BY <2>2, <4>1 DEF HeaderFits
      <4>3. h \in R
        BY <3>1, <4>2 DEF Header
      <4> QED
        BY <4>1, <4>3
    <3>3. s \in Seq(R)
      BY <2>2, <3>2
    <3> QED
      BY <3>1, <3>3
  <2> QED
    BY <2>1, <2>3 DEF PInv, IInv, Buffered, LineFits, PrintedFits, TypeOK
<1> QED
  BY <1>1, InitFits, NextFits, PTL DEF Spec

(* print_mailbox() and unfold_token(): however many commas divide it and   *)
(* however little fits into the buffer, of a list that is not folded and   *)
(* whose text was not moved every character but the blanks, commas and     *)
(* brackets is printed once, in its order, for any message.                *)
THEOREM ListsArePrintedWhole == Spec => []PrintedInFull
<1>1. PInv => PrintedInFull
  <2> SUFFICES ASSUME PInv, NEW i \in DOMAIN printed, NEW h, h = hlines[i], NEW token,
                      token = SubSeq(h.text, h.token[1], h.token[2] - 1),
                      h.live, h.token[1] # NULL, h.field \notin Mailboxes,
                      ~(\E j \in DOMAIN token : token[j] = "nl")
               PROVE  Bare(FlattenSeq(printed[i])) = Bare(token)
    BY DEF PrintedInFull
  <2>1. PICK a, b, s, out : a = h.token[1] /\ b = h.token[2] /\ s = hlines /\ out = printed
    OBVIOUS
  <2>2. i \in 1..Len(out) /\ i \in 1..Len(s) /\ HeaderFits(h, used) /\ PrintedRight(h, out[i])
    <3>1. out \in Seq(Seq(Seq(Chars))) /\ Len(out) <= Len(s) /\ s \in Seq(Header)
      BY <2>1 DEF PInv, PrintedFits, StackFits
    <3>2. i \in 1..Len(out) /\ Len(out) \in Nat /\ Len(s) \in Nat
      BY <2>1, <3>1, LenProperties
    <3>3. i \in 1..Len(s)
      BY <3>1, <3>2
    <3> QED
      BY <2>1, <3>2, <3>3 DEF PInv, PrintedFits, StackFits
  <2>3. h.text \in Seq(Chars) /\ a \in Nat \ {0} /\ b \in 0..Len(h.text) + 1 /\ Len(h.text) \in Nat
    <3>1. h.text \in Seq(Chars)
      BY <2>2 DEF HeaderFits, Header
    <3>2. h.token \in (0..Len(h.text) + 1) \X (0..Len(h.text) + 1)
      BY <2>2 DEF HeaderFits, TokenFits
    <3>3. a \in 0..Len(h.text) + 1 /\ b \in 0..Len(h.text) + 1
      BY <2>1, <3>2
    <3>4. Len(h.text) \in Nat
      BY <3>1, LenProperties
    <3> QED
      BY <2>1, <3>1, <3>3, <3>4 DEF NULL
  <2>4. Plain(h.text, a, b)
    <3> SUFFICES ASSUME NEW k \in a..b - 1 PROVE ~IsFold(h.text, k)
      BY DEF Plain
    <3>1. PICK t : t = h.text
      OBVIOUS
    <3>2. /\ token = SubSeq(t, a, b - 1) /\ a \in Int /\ b - 1 \in Int /\ a <= b - 1
          /\ \A j \in a..b - 1 : t[j] \in Chars
      <4>1. \A j \in a..b - 1 : j \in 1..Len(t)
        BY <2>3, <3>1
      <4> QED
        BY <2>1, <2>3, <3>1, <4>1, ElementOfSeq
    <3>3. /\ token \in Seq(Chars) /\ Len(token) = (b - 1) - a + 1
          /\ \A j \in 1..(b - 1) - a + 1 : token[j] = t[a + j - 1]
      <4>1. PICK c, d : c = a /\ d = b - 1
        OBVIOUS
      <4>2. token = SubSeq(t, c, d) /\ c \in Int /\ d \in Int /\ c <= d /\ \A j \in c..d : t[j] \in Chars
        BY <3>2, <4>1
      <4>3. SubSeq(t, c, d) \in Seq(Chars) /\ Len(SubSeq(t, c, d)) = (IF c <= d THEN d - c + 1 ELSE 0)
        BY <4>2, SubSeqProperties
      <4>4. \A j \in 1..d - c + 1 : SubSeq(t, c, d)[j] = t[c + j - 1]
        BY <4>2, SubSeqProperties
      <4> QED
        BY <4>1, <4>2, <4>3, <4>4
    <3>4. k - a + 1 \in 1..(b - 1) - a + 1 /\ a + (k - a + 1) - 1 = k
      BY <2>3
    <3>5. token[k - a + 1] = t[k]
      BY <3>3, <3>4
    <3>6. k - a + 1 \in DOMAIN token
      BY <3>3, <3>4, LenProperties
    <3> QED
      BY <3>1, <3>5, <3>6 DEF IsFold
  <2> QED
    BY <2>1, <2>2, <2>4 DEF PrintedRight, Rest, NULL
<1> QED
  BY <1>1, InitFits, NextFits, PTL DEF Spec
==============================================================================
