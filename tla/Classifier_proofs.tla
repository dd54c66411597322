-------------------------- MODULE Classifier_proofs --------------------------
(***************************************************************************)
(* Proofs about Classifier and its empirical measure, for any tables,       *)
(* documents, categories and signals.                                      *)
(***************************************************************************)
EXTENDS Classifier, FiniteSetTheorems, SequenceTheorems, WellFoundedInduction, TLAPS

(* A set of naturals has a smallest element. *)
LEMMA SmallestOfNat ==
  ASSUME NEW T, T \subseteq Nat, T # {}
  PROVE  \E m \in T : \A y \in T : ~(y < m)
<1> DEFINE R == {d \in Nat \X Nat : d[1] < d[2]}
<1>1. IsWellFoundedOn(R, Nat)
  <2>1. R = OpToRel(<, Nat)
    BY Zenon DEF OpToRel
  <2> QED
    BY <2>1, NatLessThanWellFounded, Zenon
<1>2. PICK m \in T : \A y \in T : <<y, m>> \notin R
  <2> HIDE DEF R
  <2> QED
    BY <1>1, WFMin
<1>3. \A y \in T : ~(y < m)
  BY <1>2
<1> QED
  BY <1>3

-----------------------------------------------------------------------------
(* FlattenSeq, one sequence at a time.                                     *)

IsFlat(g, s, n) == g = [m \in 1..n |-> IF m = 1 THEN s[m] ELSE g[m - 1] \o s[m]]

LEMMA FlatExtends ==
  ASSUME NEW s, NEW n \in Nat, NEW g, IsFlat(g, s, n)
  PROVE  \E h : IsFlat(h, s, n + 1)
<1> DEFINE new == IF n = 0 THEN s[1] ELSE g[n] \o s[n + 1]
           h == [m \in 1..n + 1 |-> IF m = n + 1 THEN new ELSE g[m]]
<1>1. \A m \in 1..n : g[m] = IF m = 1 THEN s[m] ELSE g[m - 1] \o s[m]
  BY DEF IsFlat
<1>2. \A m \in 1..n + 1 : h[m] = IF m = 1 THEN s[m] ELSE h[m - 1] \o s[m]
  <2> SUFFICES ASSUME NEW m \in 1..n + 1
               PROVE  h[m] = IF m = 1 THEN s[m] ELSE h[m - 1] \o s[m]
    OBVIOUS
  <2>1. CASE m = n + 1 /\ n = 0
    BY <2>1
  <2>2. CASE m = n + 1 /\ n # 0
    <3>1. h[m] = g[n] \o s[n + 1]
      BY <2>2
    <3>2. h[m - 1] = g[n] /\ m # 1
      BY <2>2
    <3> QED
      BY <2>2, <3>1, <3>2
  <2>3. CASE m \in 1..n
    <3>1. h[m] = g[m]
      BY <2>3
    <3>2. m # 1 => h[m - 1] = g[m - 1]
      BY <2>3
    <3> QED
      BY <1>1, <2>3, <3>1, <3>2
  <2> QED
    BY <2>1, <2>2, <2>3
<1>3. h = [m \in 1..n + 1 |-> h[m]]
  OBVIOUS
<1> HIDE DEF h
<1>4. h = [m \in 1..n + 1 |-> IF m = 1 THEN s[m] ELSE h[m - 1] \o s[m]]
  BY <1>2, <1>3
<1> QED
  BY <1>4 DEF IsFlat

LEMMA FlatExists ==
  ASSUME NEW s, NEW n \in Nat
  PROVE  \E g : IsFlat(g, s, n)
<1> DEFINE T == {m \in Nat : ~\E g : IsFlat(g, s, m)}
<1> SUFFICES ASSUME T # {}
             PROVE  FALSE
  OBVIOUS
<1>1. PICK m \in T : \A y \in T : ~(y < m)
  <2>1. T \subseteq Nat
    OBVIOUS
  <2> HIDE DEF T
  <2> QED
    BY <2>1, SmallestOfNat
<1>2. m # 0
  <2>1. PICK g : g = [i \in {} |-> 0]
    OBVIOUS
  <2>2. IsFlat(g, s, 0)
    BY <2>1 DEF IsFlat
  <2> QED
    BY <2>2
<1>3. m - 1 \in Nat
  BY <1>2
<1>4. PICK g : IsFlat(g, s, m - 1)
  BY <1>1, <1>3
<1>5. \E h : IsFlat(h, s, (m - 1) + 1)
  BY <1>3, <1>4, FlatExtends
<1> QED
  BY <1>3, <1>5

LEMMA FlatsAgree ==
  ASSUME NEW s, NEW t, NEW n \in Nat, NEW m \in Nat, NEW g, IsFlat(g, s, n), NEW h, IsFlat(h, t, m),
         NEW k \in 1..n, k <= m, \A i \in 1..k : s[i] = t[i]
  PROVE  g[k] = h[k]
<1> DEFINE T == {i \in 1..k : g[i] # h[i]}
<1> SUFFICES ASSUME T # {}
             PROVE  FALSE
  OBVIOUS
<1>1. PICK i \in T : \A j \in T : ~(j < i)
  <2>1. T \subseteq Nat
    OBVIOUS
  <2> HIDE DEF T
  <2> QED
    BY <2>1, SmallestOfNat
<1>2. g[i] = IF i = 1 THEN s[i] ELSE g[i - 1] \o s[i]
  <2>1. i \in 1..n
    OBVIOUS
  <2> QED
    BY <2>1 DEF IsFlat
<1>3. h[i] = IF i = 1 THEN t[i] ELSE h[i - 1] \o t[i]
  <2>1. i \in 1..m
    OBVIOUS
  <2> QED
    BY <2>1 DEF IsFlat
<1>4. s[i] = t[i]
  OBVIOUS
<1>5. i # 1
  BY <1>2, <1>3, <1>4
<1>6. g[i - 1] = h[i - 1]
  BY <1>1, <1>5
<1> QED
  BY <1>2, <1>3, <1>4, <1>5, <1>6

LEMMA FlattenIsFlat ==
  ASSUME NEW S, NEW s \in Seq(S), s # <<>>
  PROVE  \E g : IsFlat(g, s, Len(s)) /\ FlattenSeq(s) = g[Len(s)]
<1> DEFINE n == Len(s)
           f == CHOOSE g : IsFlat(g, s, n)
<1>1. n \in Nat /\ n # 0
  OBVIOUS
<1>2. IsFlat(f, s, n)
  BY <1>1, FlatExists
<1>3. FlattenSeq(s) = f[n]
  BY <1>1 DEF FlattenSeq, IsFlat
<1> HIDE DEF f
<1> QED
  BY <1>2, <1>3

LEMMA FlattenOne ==
  ASSUME NEW S, NEW s \in Seq(S), Len(s) = 1
  PROVE  FlattenSeq(s) = s[1]
<1>1. s # <<>>
  OBVIOUS
<1>2. PICK g : IsFlat(g, s, Len(s)) /\ FlattenSeq(s) = g[Len(s)]
  BY <1>1, FlattenIsFlat
<1> QED
  BY <1>2 DEF IsFlat

LEMMA FlattenOneMore ==
  ASSUME NEW S, NEW s \in Seq(S), NEW t \in Seq(S), s # <<>>, Len(t) = Len(s) + 1,
         \A i \in 1..Len(s) : t[i] = s[i]
  PROVE  FlattenSeq(t) = FlattenSeq(s) \o t[Len(t)]
<1>1. PICK g : IsFlat(g, s, Len(s)) /\ FlattenSeq(s) = g[Len(s)]
  BY FlattenIsFlat
<1>2. PICK h : IsFlat(h, t, Len(t)) /\ FlattenSeq(t) = h[Len(t)]
  <2>1. t # <<>>
    OBVIOUS
  <2> QED
    BY <2>1, FlattenIsFlat
<1>3. Len(s) \in 1..Len(s) /\ Len(t) \in Nat /\ Len(s) \in Nat /\ Len(t) = Len(s) + 1
  OBVIOUS
<1>4. h[Len(s)] = g[Len(s)]
  <2>1. Len(s) <= Len(t) /\ \A i \in 1..Len(s) : s[i] = t[i]
    BY <1>3
  <2> QED
    BY <1>1, <1>2, <1>3, <2>1, FlatsAgree
<1>5. h[Len(t)] = h[Len(t) - 1] \o t[Len(t)]
  <2>1. Len(t) \in 1..Len(t) /\ Len(t) # 1
    BY <1>3
  <2> QED
    BY <1>2, <2>1 DEF IsFlat
<1>6. Len(t) - 1 = Len(s)
  BY <1>3
<1> QED
  BY <1>1, <1>2, <1>4, <1>5, <1>6

LEMMA FlattenNone == FlattenSeq(<<>>) = <<>>
BY DEF FlattenSeq

LEMMA FlattenType ==
  ASSUME NEW S, NEW s \in Seq(Seq(S))
  PROVE  FlattenSeq(s) \in Seq(S)
<1>1. CASE s = <<>>
  <2>1. <<>> \in Seq(S)
    OBVIOUS
  <2> QED
    BY <1>1, <2>1, FlattenNone, Zenon
<1>2. CASE s # <<>>
  <2>1. PICK g : IsFlat(g, s, Len(s)) /\ FlattenSeq(s) = g[Len(s)]
    BY <1>2, FlattenIsFlat
  <2> DEFINE T == {i \in 1..Len(s) : g[i] \notin Seq(S)}
  <2>2. T = {}
    <3> SUFFICES ASSUME T # {}
                 PROVE  FALSE
      OBVIOUS
    <3>1. PICK i \in T : \A j \in T : ~(j < i)
      <4>1. T \subseteq Nat
        OBVIOUS
      <4> HIDE DEF T
      <4> QED
        BY <4>1, SmallestOfNat
    <3>2. g[i] = IF i = 1 THEN s[i] ELSE g[i - 1] \o s[i]
      BY <2>1 DEF IsFlat
    <3>3. s[i] \in Seq(S)
      OBVIOUS
    <3>4. i # 1
      BY <3>2, <3>3
    <3>5. g[i - 1] \in Seq(S)
      BY <3>1, <3>4
    <3>6. g[i] = g[i - 1] \o s[i]
      BY <3>2, <3>4
    <3>7. g[i - 1] \o s[i] \in Seq(S)
      BY <3>3, <3>5
    <3> QED
      BY <3>1, <3>6, <3>7, Zenon
  <2>3. Len(s) \in 1..Len(s)
    BY <1>2
  <2> QED
    BY <2>1, <2>2, <2>3
<1> QED
  BY <1>1, <1>2

LEMMA FlattenAppend ==
  ASSUME NEW S, NEW s \in Seq(Seq(S)), NEW t \in Seq(Seq(S)), Len(t) = Len(s) + 1,
         \A i \in 1..Len(s) : t[i] = s[i]
  PROVE  FlattenSeq(t) = FlattenSeq(s) \o t[Len(t)]
<1>1. CASE s # <<>>
  BY <1>1, FlattenOneMore
<1>2. CASE s = <<>>
  <2>1. Len(t) = 1 /\ t[1] \in Seq(S)
    BY <1>2
  <2>2. FlattenSeq(t) = t[1]
    BY <2>1, FlattenOne
  <2>3. <<>> \o t[1] = t[1]
    BY <2>1
  <2> QED
    BY <1>2, <2>1, <2>2, <2>3, FlattenNone
<1> QED
  BY <1>1, <1>2

-----------------------------------------------------------------------------

Tokens == DOMAIN Token

Items == [id : Nat, count : Nat]
Empirical == [hash : [Slots -> Items], full : Nat, unique : Nat, track : BOOLEAN,
              stack : Seq(Slots)]

-----------------------------------------------------------------------------
(* Probing.                                                                *)

Probe(id, k) == (id + k) % max_tokens

LEMMA ProbeInSlots ==
  ASSUME NEW id \in Nat, NEW k \in Nat
  PROVE  Probe(id, k) \in Slots
<1>1. \A a \in Nat, n \in Nat \ {0} : a % n \in 0..(n - 1)
  OBVIOUS
<1>2. id + k \in Nat
  OBVIOUS
<1> QED
  BY <1>1, <1>2, EmpiricalAssumption DEF Probe, Slots

LEMMA ProbesInSlots == \A id \in Nat, k \in Slots : Probe(id, k) \in Slots
BY ProbeInSlots, EmpiricalAssumption DEF Slots

LEMMA Remainder ==
  ASSUME NEW n \in Nat \ {0}, NEW q \in Nat, NEW r \in 0..(n - 1)
  PROVE  (n * q + r) % n = r
OBVIOUS

LEMMA Division ==
  ASSUME NEW n \in Nat \ {0}, NEW a \in Nat
  PROVE  \E q \in Nat, r \in 0..(n - 1) : a = n * q + r
<1>1. a \div n \in Nat /\ a % n \in 0..(n - 1)
  OBVIOUS
<1>2. a = n * (a \div n) + (a % n)
  OBVIOUS
<1> QED
  BY <1>1, <1>2

(* Probing comes to every slot. *)
LEMMA ProbeCovers ==
  ASSUME NEW id \in Nat, NEW u \in Slots
  PROVE  \E k \in Slots : Probe(id, k) = u
<1>1. PICK n \in Nat \ {0} : n = max_tokens
  BY EmpiricalAssumption
<1>2. PICK q \in Nat, h \in 0..(n - 1) : id = n * q + h
  BY Division
<1>3. u \in 0..(n - 1)
  BY <1>1 DEF Slots
<1>4. PICK k \in 0..(n - 1) : \E p \in Nat : id + k = n * p + u
  <2>1. CASE u >= h
    <3>1. u - h \in 0..(n - 1) /\ id + (u - h) = n * q + u
      BY <1>2, <1>3, <2>1
    <3> QED
      BY <3>1
  <2>2. CASE u < h
    <3>1. (u + n) - h \in 0..(n - 1) /\ q + 1 \in Nat
      BY <1>3, <2>2
    <3>2. n * (q + 1) = n * q + n /\ n * q \in Nat
      OBVIOUS
    <3>3. id + ((u + n) - h) = n * (q + 1) + u
      BY <1>2, <1>3, <2>2, <3>2
    <3> QED
      BY <3>1, <3>3
  <2> QED
    BY <1>3, <2>1, <2>2
<1>5. (id + k) % n = u
  BY <1>3, <1>4, Remainder
<1> QED
  BY <1>1, <1>5 DEF Probe, Slots

(* Probing for id stops after k slots: it has come to id, or to a free slot. *)
Stops(e, id, k) == k \in Slots /\ e.hash[Probe(id, k)].id \in {0, id}
StopsFirst(e, id, k) == Stops(e, id, k) /\ \A j \in 0..k - 1 : ~Stops(e, id, j)

LEMMA LeastStop ==
  ASSUME NEW e, NEW id, NEW k, Stops(e, id, k)
  PROVE  \E m : StopsFirst(e, id, m)
<1> DEFINE R == {d \in Nat \X Nat : d[1] < d[2]}
           T == {j \in Slots : Stops(e, id, j)}
<1>1. IsWellFoundedOn(R, Nat)
  <2>1. R = OpToRel(<, Nat)
    BY Zenon DEF OpToRel
  <2> QED
    BY <2>1, NatLessThanWellFounded, Zenon
<1>2. T \subseteq Nat /\ k \in T
  BY DEF Stops, Slots
<1>3. PICK m \in T : \A y \in T : <<y, m>> \notin R
  <2> HIDE DEF R, T
  <2> QED
    BY <1>1, <1>2, WFMin
<1>4. ASSUME NEW j \in 0..m - 1, Stops(e, id, j)
      PROVE  FALSE
  <2>1. j \in T /\ m \in Nat /\ j < m
    BY <1>2, <1>4 DEF Stops
  <2> QED
    BY <1>2, <1>3, <2>1
<1> QED
  BY <1>3, <1>4 DEF StopsFirst

LEMMA FindsFirstStop ==
  ASSUME NEW e, NEW id \in Nat, NEW k, StopsFirst(e, id, k)
  PROVE  find_in_empirical(e, id) = Probe(id, k)
<1> DEFINE S == {j \in Slots : e.hash[Probe(id, j)].id \in {0, id}}
           m == CHOOSE j \in S : \A i \in S : j <= i
<1>1. k \in S /\ \A i \in S : k <= i
  BY EmpiricalAssumption DEF StopsFirst, Stops, Slots
<1>2. m \in S /\ \A i \in S : m <= i
  BY <1>1
<1>3. m = k
  BY <1>1, <1>2 DEF Slots
<1>4. find_in_empirical(e, id) = IF S = {} THEN NoSlot ELSE Probe(id, m)
  BY DEF find_in_empirical, Probe
<1> HIDE DEF m, S
<1> QED
  BY <1>1, <1>3, <1>4

LEMMA FindsNoSlot ==
  ASSUME NEW e, NEW id \in Nat, \A k \in Slots : ~Stops(e, id, k)
  PROVE  find_in_empirical(e, id) = NoSlot
<1> DEFINE S == {j \in Slots : e.hash[Probe(id, j)].id \in {0, id}}
           m == CHOOSE j \in S : \A i \in S : j <= i
<1>1. S = {}
  BY DEF Stops
<1>2. find_in_empirical(e, id) = IF S = {} THEN NoSlot ELSE Probe(id, m)
  BY DEF find_in_empirical, Probe
<1> HIDE DEF m, S
<1> QED
  BY <1>1, <1>2

LEMMA FindCases ==
  ASSUME NEW e \in Empirical, NEW id \in Nat
  PROVE  \/ /\ \A k \in Slots : ~Stops(e, id, k)
            /\ find_in_empirical(e, id) = NoSlot
         \/ \E k : /\ StopsFirst(e, id, k)
                   /\ find_in_empirical(e, id) = Probe(id, k)
                   /\ Probe(id, k) \in Slots
                   /\ e.hash[Probe(id, k)].id \in {0, id}
<1>1. CASE \A k \in Slots : ~Stops(e, id, k)
  BY <1>1, FindsNoSlot
<1>2. CASE \E k \in Slots : Stops(e, id, k)
  <2>1. PICK k : StopsFirst(e, id, k)
    BY <1>2, LeastStop
  <2>2. find_in_empirical(e, id) = Probe(id, k)
    BY <2>1, FindsFirstStop
  <2>3. k \in Nat /\ e.hash[Probe(id, k)].id \in {0, id}
    BY <2>1, EmpiricalAssumption DEF StopsFirst, Stops, Slots
  <2>4. Probe(id, k) \in Slots
    BY <2>3, ProbeInSlots
  <2> QED
    BY <2>1, <2>2, <2>3, <2>4
<1> QED
  BY <1>1, <1>2

-----------------------------------------------------------------------------
(* The empirical measure in itself.                                        *)

Saturated(n) == IF n < K_TOKEN_COUNT_MAX THEN n ELSE K_TOKEN_COUNT_MAX

(* Every token in the table is where probing for it first stops. *)
Reached(e) ==
  \A s \in Filled(e) : \E k : StopsFirst(e, e.hash[s].id, k) /\ Probe(e.hash[s].id, k) = s

(* A slot is free just if nothing was counted there. *)
FreeUncounted(e) == \A s \in Slots : e.hash[s].id = 0 <=> e.hash[s].count = 0

StackTracks(e) ==
  e.track => Range(e.stack) = Filled(e) /\ Len(e.stack) = Cardinality(Filled(e))

EmpInv(e) ==
  /\ e \in Empirical
  /\ Reached(e)
  /\ FreeUncounted(e)
  /\ e.unique = Saturated(Cardinality(Filled(e)))
  /\ StackTracks(e)

LEMMA FilledFinite ==
  ASSUME NEW e
  PROVE  /\ IsFiniteSet(Filled(e)) /\ Cardinality(Filled(e)) \in Nat
         /\ Filled(e) \subseteq Slots
         /\ IsFiniteSet(Slots) /\ Cardinality(Slots) = max_tokens
<1>1. IsFiniteSet(Slots) /\ Cardinality(Slots) = max_tokens
  <2>1. 0 \in Int /\ max_tokens - 1 \in Int /\ ~(0 > max_tokens - 1)
    BY EmpiricalAssumption
  <2>2. IsFiniteSet(0 .. max_tokens - 1)
        /\ Cardinality(0 .. max_tokens - 1) = (max_tokens - 1) - 0 + 1
    BY <2>1, FS_Interval
  <2> QED
    BY <2>2, EmpiricalAssumption DEF Slots
<1>2. Filled(e) \subseteq Slots
  BY DEF Filled
<1> QED
  BY <1>1, <1>2, FS_Subset, FS_CardinalityType

LEMMA NoneFilled ==
  ASSUME NEW e, e.hash = [s \in Slots |-> Unfilled], e.unique = 0, e.stack = <<>>,
         e \in Empirical
  PROVE  EmpInv(e) /\ Filled(e) = {}
<1>1. Filled(e) = {}
  BY DEF Filled, Unfilled
<1>2. Cardinality(Filled(e)) = 0
  BY <1>1, FS_EmptySet
<1>3. Saturated(0) = 0
  BY EmpiricalAssumption DEF Saturated
<1>4. Range(<<>>) = {} /\ Len(<<>>) = 0
  BY DEF Range
<1>5. FreeUncounted(e)
  BY DEF FreeUncounted, Unfilled
<1>6. Reached(e)
  BY <1>1 DEF Reached
<1>7. StackTracks(e)
  BY <1>1, <1>2, <1>4 DEF StackTracks
<1> QED
  BY <1>1, <1>2, <1>3, <1>5, <1>6, <1>7 DEF EmpInv

LEMMA InitEmpirical == EmpInv(init_empirical) /\ Filled(init_empirical) = {}
<1>1. init_empirical \in Empirical
  BY DEF init_empirical, Empirical, Unfilled, Items
<1>2. /\ init_empirical.hash = [s \in Slots |-> Unfilled]
      /\ init_empirical.unique = 0 /\ init_empirical.stack = <<>>
  BY DEF init_empirical
<1> QED
  BY <1>1, <1>2, NoneFilled

(* Clearing what is tracked clears the table. *)
LEMMA ClearFacts ==
  ASSUME NEW e, EmpInv(e), NEW f \in BOOLEAN
  PROVE  EmpInv(clear_empirical(e, f)) /\ Filled(clear_empirical(e, f)) = {}
<1> DEFINE c == clear_empirical(e, f)
<1>1. e \in Empirical /\ FreeUncounted(e) /\ StackTracks(e)
  BY DEF EmpInv
<1>2. /\ c.hash = IF e.track
                  THEN [s \in Slots |-> IF \E i \in 1 .. Len(e.stack) : e.stack[i] = s
                                        THEN Unfilled ELSE e.hash[s]]
                  ELSE [s \in Slots |-> Unfilled]
      /\ c.unique = 0 /\ c.stack = <<>> /\ c.full = 0 /\ c.track = (e.track \/ f)
  BY DEF clear_empirical
<1>3. ASSUME e.track, NEW s \in Slots, ~\E i \in 1 .. Len(e.stack) : e.stack[i] = s
      PROVE  e.hash[s] = Unfilled
  <2>1. e.stack \in Seq(Slots) /\ e.hash[s] \in Items
    BY <1>1 DEF Empirical
  <2>2. s \notin Range(e.stack)
    BY <1>3, <2>1 DEF Range
  <2>3. e.hash[s].id = 0
    BY <1>1, <1>3, <2>2 DEF StackTracks, Filled
  <2>4. e.hash[s].count = 0
    BY <1>1, <2>3 DEF FreeUncounted
  <2> QED
    BY <2>1, <2>3, <2>4 DEF Items, Unfilled
<1>4. c.hash = [s \in Slots |-> Unfilled]
  BY <1>2, <1>3
<1>5. c \in Empirical
  <2>1. Unfilled \in Items /\ e.track \in BOOLEAN
    BY <1>1 DEF Unfilled, Items, Empirical
  <2>2. [s \in Slots |-> Unfilled] \in [Slots -> Items]
    BY <2>1
  <2>3. c.track \in BOOLEAN
    BY DEF clear_empirical
  <2>4. c = [hash |-> c.hash, full |-> c.full, unique |-> c.unique, track |-> c.track,
             stack |-> c.stack]
    BY DEF clear_empirical
  <2> HIDE DEF c
  <2>5. c.hash \in [Slots -> Items] /\ c.full \in Nat /\ c.unique \in Nat /\ c.stack \in Seq(Slots)
    BY <1>2, <1>4, <2>2
  <2> QED
    BY <2>3, <2>4, <2>5 DEF Empirical
<1> HIDE DEF c
<1>6. EmpInv(c) /\ Filled(c) = {}
  BY <1>2, <1>4, <1>5, NoneFilled
<1> QED
  BY <1>6 DEF c

LEMMA IncreasedFacts ==
  ASSUME NEW n \in Nat
  PROVE  /\ Increased(n) \in Nat /\ Increased(n) > 0
         /\ Increased(Saturated(n)) = Saturated(n + 1)
BY EmpiricalAssumption DEF Increased, Saturated

(* The two ways of counting a token: it is met again, or takes a free slot. *)
CountedAgain(e, s) == [e EXCEPT !.hash[s].count = Increased(@), !.full = Increased(@)]
TakenUp(e, s, id) == Tracked([e EXCEPT !.hash[s] = [id |-> id, count |-> 1],
                                       !.unique = Increased(@), !.full = Increased(@)], s)

(* A token that was met before is counted where it is. *)
LEMMA CountKnown ==
  ASSUME NEW e, EmpInv(e), NEW s \in Slots, e.hash[s].id # 0, NEW c,
         c = CountedAgain(e, s)
  PROVE  /\ EmpInv(c) /\ Filled(c) = Filled(e)
         /\ \A u \in Slots : c.hash[u].id = e.hash[u].id
         /\ \A u \in Slots : c.hash[u].count =
              IF u = s THEN Increased(e.hash[u].count) ELSE e.hash[u].count
<1>1. e \in Empirical /\ FreeUncounted(e) /\ StackTracks(e) /\ Reached(e)
      /\ e.unique = Saturated(Cardinality(Filled(e)))
  BY DEF EmpInv
<1>2. e.hash \in [Slots -> Items] /\ e.full \in Nat /\ e.unique \in Nat
      /\ e.track \in BOOLEAN /\ e.stack \in Seq(Slots)
  BY <1>1 DEF Empirical
<1>3. /\ c.hash = [e.hash EXCEPT ![s] = [e.hash[s] EXCEPT !.count = Increased(e.hash[s].count)]]
      /\ c.full = Increased(e.full) /\ c.unique = e.unique /\ c.track = e.track
      /\ c.stack = e.stack
      /\ c = [hash |-> c.hash, full |-> c.full, unique |-> c.unique, track |-> c.track,
              stack |-> c.stack]
  BY <1>1 DEF Empirical, CountedAgain
<1>4. \A u \in Slots : e.hash[u] \in Items
  BY <1>2
<1>5. Increased(e.hash[s].count) \in Nat /\ Increased(e.hash[s].count) > 0
      /\ Increased(e.full) \in Nat
  BY <1>2, <1>4, IncreasedFacts DEF Items
<1>6. /\ \A u \in Slots : c.hash[u].id = e.hash[u].id
      /\ \A u \in Slots : c.hash[u].count =
            IF u = s THEN Increased(e.hash[u].count) ELSE e.hash[u].count
      /\ c.hash \in [Slots -> Items]
  <2>1. PICK i \in Items : i = e.hash[s]
    BY <1>4
  <2>2. PICK n \in Nat : n = Increased(i.count)
    BY <1>5, <2>1
  <2>3. PICK j : j = [i EXCEPT !.count = n]
    OBVIOUS
  <2>4. j \in Items /\ j.id = i.id /\ j.count = n
    BY <2>3 DEF Items
  <2>5. c.hash = [e.hash EXCEPT ![s] = j]
    BY <1>3, <2>1, <2>2, <2>3
  <2>6. c.hash[s] = j /\ \A u \in Slots : u # s => c.hash[u] = e.hash[u]
    BY <1>2, <2>5
  <2>7. c.hash \in [Slots -> Items]
    BY <1>2, <2>4, <2>5
  <2> QED
    BY <2>1, <2>2, <2>4, <2>6, <2>7
<1>7. c \in Empirical
  BY <1>2, <1>3, <1>5, <1>6 DEF Empirical
<1>8. Filled(c) = Filled(e)
  BY <1>6 DEF Filled
<1>9. FreeUncounted(c)
  BY <1>1, <1>5, <1>6 DEF FreeUncounted
<1>10. Reached(c)
  <2>1. \A u \in Slots : e.hash[u].id \in Nat
    BY <1>4 DEF Items
  <2>2. \A id \in Nat : \A k : Stops(c, id, k) <=> Stops(e, id, k)
    BY <1>6, ProbesInSlots DEF Stops
  <2>3. \A id \in Nat : \A k : StopsFirst(e, id, k) => StopsFirst(c, id, k)
    BY <2>2 DEF StopsFirst
  <2> SUFFICES ASSUME NEW u \in Filled(e)
               PROVE  \E k : StopsFirst(c, c.hash[u].id, k) /\ Probe(c.hash[u].id, k) = u
    BY <1>8 DEF Reached
  <2>4. u \in Slots /\ c.hash[u].id = e.hash[u].id
    BY <1>6 DEF Filled
  <2>5. PICK k : StopsFirst(e, e.hash[u].id, k) /\ Probe(e.hash[u].id, k) = u
    BY <1>1 DEF Reached
  <2> QED
    BY <2>1, <2>3, <2>4, <2>5
<1>11. StackTracks(c)
  BY <1>1, <1>3, <1>8 DEF StackTracks
<1> QED
  BY <1>1, <1>3, <1>6, <1>7, <1>8, <1>9, <1>10, <1>11 DEF EmpInv

LEMMA RangeAppend ==
  ASSUME NEW T, NEW q \in Seq(T), NEW x \in T
  PROVE  /\ Append(q, x) \in Seq(T) /\ Len(Append(q, x)) = Len(q) + 1
         /\ Range(Append(q, x)) = Range(q) \cup {x}
<1>1. /\ Append(q, x) \in Seq(T) /\ Len(Append(q, x)) = Len(q) + 1
      /\ \A i \in 1..Len(q) : Append(q, x)[i] = q[i]
      /\ Append(q, x)[Len(q) + 1] = x
  BY AppendProperties
<1>2. Len(q) \in Nat /\ DOMAIN q = 1..Len(q)
  OBVIOUS
<1>3. DOMAIN Append(q, x) = 1..Len(q) + 1
  BY <1>1
<1>4. DOMAIN Append(q, x) = DOMAIN q \cup {Len(q) + 1}
  BY <1>2, <1>3
<1> QED
  BY <1>1, <1>2, <1>4 DEF Range

(* A token that was not met before takes the free slot where probing stops. *)
LEMMA CountNew ==
  ASSUME NEW e, EmpInv(e), NEW id \in Nat, id # 0, NEW n, StopsFirst(e, id, n),
         NEW s \in Slots, s = Probe(id, n), e.hash[s].id = 0, NEW c,
         c = TakenUp(e, s, id)
  PROVE  /\ EmpInv(c) /\ Filled(c) = Filled(e) \cup {s} /\ s \notin Filled(e)
         /\ c.hash[s] = [id |-> id, count |-> 1]
         /\ \A u \in Slots : u # s => c.hash[u] = e.hash[u]
<1>1. e \in Empirical /\ FreeUncounted(e) /\ StackTracks(e) /\ Reached(e)
      /\ e.unique = Saturated(Cardinality(Filled(e)))
  BY DEF EmpInv
<1>2. e.hash \in [Slots -> Items] /\ e.full \in Nat /\ e.unique \in Nat
      /\ e.track \in BOOLEAN /\ e.stack \in Seq(Slots)
  BY <1>1 DEF Empirical
<1>3. PICK b : b = [e EXCEPT !.hash[s] = [id |-> id, count |-> 1],
                             !.unique = Increased(@), !.full = Increased(@)]
  OBVIOUS
<1>4. /\ b.hash = [e.hash EXCEPT ![s] = [id |-> id, count |-> 1]]
      /\ b.full = Increased(e.full) /\ b.unique = Increased(e.unique)
      /\ b.track = e.track /\ b.stack = e.stack
      /\ b = [hash |-> b.hash, full |-> b.full, unique |-> b.unique, track |-> b.track,
              stack |-> b.stack]
  BY <1>1, <1>3 DEF Empirical
<1>5. c = Tracked(b, s)
  BY <1>3 DEF TakenUp
<1>6. /\ c.hash = b.hash /\ c.full = b.full /\ c.unique = b.unique
      /\ c = [hash |-> c.hash, full |-> c.full, unique |-> c.unique, track |-> c.track,
              stack |-> c.stack]
      /\ \/ ~c.track /\ c.track = FALSE /\ c.stack \in {<<>>, e.stack}
         \/ c.track = e.track /\ c.track /\ c.stack = Append(e.stack, s)
  <2>1. CASE ~b.track
    <3>1. c = b /\ c.track = FALSE
      BY <1>2, <1>4, <1>5, <2>1 DEF Tracked
    <3> QED
      BY <1>4, <3>1
  <2>2. CASE b.track /\ Len(b.stack) < MAX_TOKEN_LINE_STACK
    <3>1. c = [b EXCEPT !.stack = Append(b.stack, s)]
      BY <1>5, <2>2 DEF Tracked
    <3> QED
      BY <1>4, <2>2, <3>1
  <2>3. CASE b.track /\ ~(Len(b.stack) < MAX_TOKEN_LINE_STACK)
    <3>1. c = [b EXCEPT !.track = FALSE, !.stack = <<>>]
      BY <1>5, <2>3 DEF Tracked
    <3> QED
      BY <1>4, <3>1
  <2> QED
    BY <2>1, <2>2, <2>3
<1>7. /\ c.hash[s] = [id |-> id, count |-> 1]
      /\ \A u \in Slots : u # s => c.hash[u] = e.hash[u]
      /\ c.hash \in [Slots -> Items]
  <2>1. [id |-> id, count |-> 1] \in Items
    BY DEF Items
  <2> QED
    BY <1>2, <1>4, <1>6, <2>1
<1>8. c \in Empirical
  <2>1. c.full \in Nat /\ c.unique \in Nat
    BY <1>2, <1>4, <1>6, IncreasedFacts
  <2>2. c.track \in BOOLEAN
    BY <1>2, <1>6
  <2>3. Append(e.stack, s) \in Seq(Slots)
    BY <1>2, AppendProperties
  <2>4. c.stack \in Seq(Slots)
    <3>1. <<>> \in Seq(Slots)
      OBVIOUS
    <3> QED
      BY <1>2, <1>6, <2>3, <3>1
  <2> QED
    BY <1>6, <1>7, <2>1, <2>2, <2>4 DEF Empirical
<1>9. Filled(c) = Filled(e) \cup {s} /\ s \notin Filled(e)
  BY <1>7 DEF Filled
<1>10. Cardinality(Filled(c)) = Cardinality(Filled(e)) + 1
  <2>1. PICK S : S = Filled(e)
    OBVIOUS
  <2>2. IsFiniteSet(S)
    BY <2>1, FilledFinite
  <2>3. Cardinality(S \cup {s}) = IF s \in S THEN Cardinality(S) ELSE Cardinality(S) + 1
    BY <2>2, FS_AddElement
  <2> QED
    BY <1>9, <2>1, <2>3
<1>11. c.unique = Saturated(Cardinality(Filled(c)))
  BY <1>1, <1>4, <1>6, <1>10, FilledFinite, IncreasedFacts
<1>12. FreeUncounted(c)
  BY <1>1, <1>7 DEF FreeUncounted
<1>13. Reached(c)
  <2>1. \A x \in Nat, k \in Slots : Probe(x, k) \in Slots
    BY ProbesInSlots
  <2>2. ASSUME NEW x \in Nat, NEW k, StopsFirst(e, x, k)
        PROVE  \A j \in 0..k - 1 : ~Stops(c, x, j)
    <3> SUFFICES ASSUME NEW j \in 0..k - 1
                 PROVE  ~Stops(c, x, j)
      OBVIOUS
    <3>1. j \in Slots
      BY <2>2, EmpiricalAssumption DEF StopsFirst, Stops, Slots
    <3>2. ~Stops(e, x, j) /\ Probe(x, j) \in Slots
      BY <2>1, <2>2, <3>1 DEF StopsFirst
    <3>3. Probe(x, j) # s
      BY <3>1, <3>2 DEF Stops
    <3> QED
      BY <1>7, <3>2, <3>3 DEF Stops
  <2> SUFFICES ASSUME NEW u \in Filled(c)
               PROVE  \E k : StopsFirst(c, c.hash[u].id, k) /\ Probe(c.hash[u].id, k) = u
    BY DEF Reached
  <2>3. CASE u = s
    <3>1. c.hash[u].id = id
      BY <1>7, <2>3
    <3>2. Stops(c, id, n)
      BY <1>7 DEF StopsFirst, Stops
    <3> QED
      BY <2>2, <2>3, <3>1, <3>2 DEF StopsFirst
  <2>4. CASE u # s
    <3>1. u \in Slots /\ c.hash[u] = e.hash[u] /\ u \in Filled(e)
      BY <1>7, <1>9, <2>4 DEF Filled
    <3>2. PICK x \in Nat : x = e.hash[u].id
      BY <1>2, <3>1 DEF Items
    <3>3. PICK k : StopsFirst(e, x, k) /\ Probe(x, k) = u
      BY <1>1, <3>1, <3>2 DEF Reached
    <3>4. Stops(c, x, k)
      BY <3>1, <3>2, <3>3 DEF StopsFirst, Stops
    <3>5. StopsFirst(c, x, k)
      BY <2>2, <3>3, <3>4 DEF StopsFirst
    <3> QED
      BY <3>1, <3>2, <3>3, <3>5
  <2> QED
    BY <2>3, <2>4
<1>14. StackTracks(c)
  <2> SUFFICES ASSUME c.track
               PROVE  Range(c.stack) = Filled(c) /\ Len(c.stack) = Cardinality(Filled(c))
    BY DEF StackTracks
  <2>1. e.track /\ c.stack = Append(e.stack, s)
    BY <1>6
  <2>2. Range(e.stack) = Filled(e) /\ Len(e.stack) = Cardinality(Filled(e))
    BY <1>1, <2>1 DEF StackTracks
  <2>3. Len(c.stack) = Len(e.stack) + 1 /\ Range(c.stack) = Range(e.stack) \cup {s}
    <3>1. PICK q \in Seq(Slots) : q = e.stack
      BY <1>2
    <3>2. Len(Append(q, s)) = Len(q) + 1 /\ Range(Append(q, s)) = Range(q) \cup {s}
      BY RangeAppend
    <3> QED
      BY <2>1, <3>1, <3>2
  <2> QED
    BY <1>9, <1>10, <2>2, <2>3
<1> QED
  BY <1>7, <1>8, <1>9, <1>11, <1>12, <1>13, <1>14 DEF EmpInv

(* What counting a token does, whether it is met, taken up or refused. *)
LEMMA CountedFacts ==
  ASSUME NEW e, EmpInv(e), NEW id \in Nat, id # 0, NEW c, c = Counted(e, id)
  PROVE  \/ /\ c = e
            /\ Refused(e, id) \/ find_in_empirical(e, id) = NoSlot
         \/ \E s \in Slots :
              /\ e.hash[s].id = id
              /\ c = CountedAgain(e, s)
              /\ ~Refused(e, id)
         \/ \E s \in Slots : \E n :
              /\ StopsFirst(e, id, n) /\ s = Probe(id, n) /\ e.hash[s].id = 0
              /\ HasRoom(e) /\ ~Refused(e, id)
              /\ c = TakenUp(e, s, id)
<1>1. e \in Empirical
  BY DEF EmpInv
<1>2. CASE find_in_empirical(e, id) = NoSlot
  BY <1>2 DEF Counted
<1>3. CASE \E n : StopsFirst(e, id, n)
  <2>1. PICK n : StopsFirst(e, id, n)
    BY <1>3
  <2>2. PICK s : s = Probe(id, n)
    OBVIOUS
  <2>3. /\ find_in_empirical(e, id) = s /\ s \in Slots /\ e.hash[s].id \in {0, id}
        /\ s # NoSlot
    <3>1. n \in Nat /\ e.hash[s].id \in {0, id}
      BY <2>1, <2>2, EmpiricalAssumption DEF StopsFirst, Stops, Slots
    <3>2. s \in Slots
      BY <2>2, <3>1, ProbeInSlots
    <3>3. s # NoSlot
      BY <3>2, EmpiricalAssumption DEF Slots, NoSlot
    <3> QED
      BY <2>1, <2>2, <3>1, <3>2, <3>3, FindsFirstStop
  <2>4. CASE Refused(e, id)
    BY <2>4 DEF Counted
  <2>5. CASE ~Refused(e, id) /\ e.hash[s].id = id
    <3>1. c = CountedAgain(e, s)
      BY <2>3, <2>5 DEF Counted, CountedAgain
    <3> QED
      BY <2>3, <2>5, <3>1
  <2>6. CASE ~Refused(e, id) /\ e.hash[s].id = 0
    <3>1. HasRoom(e)
      BY <2>3, <2>6 DEF Refused
    <3>2. c = TakenUp(e, s, id)
      BY <2>3, <2>6 DEF Counted, TakenUp
    <3> QED
      BY <2>1, <2>2, <2>3, <2>6, <3>1, <3>2
  <2> QED
    BY <2>3, <2>4, <2>5, <2>6
<1> QED
  BY <1>1, <1>2, <1>3, FindCases

LEMMA CountedSound ==
  ASSUME NEW e, EmpInv(e), NEW id \in Nat, id # 0
  PROVE  EmpInv(Counted(e, id))
<1>1. PICK c : c = Counted(e, id)
  OBVIOUS
<1>2. CASE c = e
  BY <1>1, <1>2
<1>3. ASSUME NEW s \in Slots, e.hash[s].id = id,
             c = CountedAgain(e, s)
      PROVE  EmpInv(c)
  BY <1>3, CountKnown
<1>4. ASSUME NEW s \in Slots, NEW n, StopsFirst(e, id, n), s = Probe(id, n),
             e.hash[s].id = 0,
             c = TakenUp(e, s, id)
      PROVE  EmpInv(c)
  BY <1>4, CountNew
<1>5. EmpInv(c)
  BY <1>1, <1>2, <1>3, <1>4, CountedFacts
<1> QED
  BY <1>1, <1>5

-----------------------------------------------------------------------------
(* The classifier's state.                                                 *)

InputFile == [left : Seq(FileLine), closed : BOOLEAN, eof : BOOLEAN, extra_lines : Nat]
Scores == [score : Seq(Tokens), fmiss : Nat]

TypeOK ==
  /\ run \in Inputs
  /\ pc \in {"next", "entry", "fill", "score", "close", "done", "exited", "crashed"}
  /\ argi \in Nat
  /\ entries \in Seq(Files)
  /\ input \in InputFile
  /\ numbered \in Nat
  /\ tokens \in Seq(Tokens)
  /\ cat \in [Cats -> Scores]

(* What the actions that only read or open files leave alone. *)
LEMMA WhoScores ==
  ASSUME [Next]_vars
  PROVE  /\ run' = run
         /\ ScoreWord \/ EndLine \/ CloseFile \/ UNCHANGED <<cat, emp, loaded>>
<1>1. CASE UNCHANGED vars
  BY <1>1 DEF vars, models
<1>2. CASE OpenFile \/ OpenDirectory \/ OpenFails \/ OpenStdin \/ NextEntry \/ LeaveDirectory
  BY <1>2 DEF OpenFile, OpenDirectory, OpenFails, OpenStdin, NextEntry, LeaveDirectory,
              Untouched, models
<1>3. CASE ExitOnSignal \/ ReadLine \/ ReadClosed \/ ReadExtraLine \/ EndOfFile
  BY <1>3 DEF ExitOnSignal, ReadLine, ReadClosed, ReadExtraLine, EndOfFile, Rest, models
<1>4. CASE ScoreWord \/ EndLine \/ CloseFile
  BY <1>4 DEF ScoreWord, EndLine, CloseFile
<1>5. CASE Finish
  BY <1>5 DEF Finish, models
<1>6. CASE \E sig \in Signals : Raise(sig)
  BY <1>6 DEF Raise, models
<1>7. CASE \E c \in Cats : Relearn(c)
  BY <1>7 DEF Relearn
<1> QED
  BY <1>1, <1>2, <1>3, <1>4, <1>5, <1>6, <1>7 DEF Next, Program

LEMMA TokensOfLine ==
  ASSUME NEW n, NEW l \in FileLine, handle_indents_and_appends(n, l)
  PROVE  tokens' \in Seq(Tokens) /\ pc' \in {"fill", "score"}
         /\ (pc' # "score" => tokens' = <<>>) /\ (l.tokens = <<>> => tokens' = <<>>)
<1>1. l.tokens \in Seq(Tokens) /\ <<>> \in Seq(Tokens)
  BY DEF FileLine, Tokens
<1> QED
  BY <1>1 DEF handle_indents_and_appends

LEMMA BlankLine == Blank \in FileLine /\ Blank.tokens = <<>>
BY DEF Blank, FileLine

LEMMA StartTypes ==
  ASSUME NEW f \in Files, StartFile(f)
  PROVE  input' \in InputFile /\ pc' = "fill"
<1>1. f.lines \in Seq(FileLine)
  BY ClassifierAssumption
<1> QED
  BY <1>1 DEF StartFile, NoFile, InputFile

LEMMA NoFileType == NoFile \in InputFile
BY DEF NoFile, InputFile

LEMMA ResetTypes ==
  ASSUME NEW k \in [Cats -> Scores]
  PROVE  /\ reset_all_scores(k) \in [Cats -> Scores]
         /\ \A c \in Cats : reset_all_scores(k)[c].score = <<>>
         /\ \A c \in Cats : reset_all_scores(k)[c].fmiss = k[c].fmiss
<1>1. \A c \in Cats : [k[c] EXCEPT !.score = <<>>] \in Scores
  <2> SUFFICES ASSUME NEW c \in Cats
               PROVE  [k[c] EXCEPT !.score = <<>>] \in Scores
    OBVIOUS
  <2>1. PICK x \in Scores : x = k[c]
    OBVIOUS
  <2>2. <<>> \in Seq(Tokens)
    OBVIOUS
  <2>3. [x EXCEPT !.score = <<>>] \in Scores
    BY <2>2 DEF Scores
  <2> QED
    BY <2>1, <2>3
<1> QED
  BY <1>1 DEF reset_all_scores, Scores

LEMMA NothingScored == [c \in Cats |-> init_category] \in [Cats -> Scores]
BY DEF init_category, Scores

LEMMA TypeInit == Init => TypeOK
<1> SUFFICES ASSUME Init PROVE TypeOK
  OBVIOUS
<1>1. <<>> \in Seq(Files) /\ <<>> \in Seq(Tokens)
  OBVIOUS
<1> QED
  BY <1>1, NoFileType, NothingScored DEF Init, TypeOK

(* A token is scored by the categories that it applies to. *)
LEMMA WordScored ==
  ASSUME NEW t \in Tokens, cat \in [Cats -> Scores], score_word(t)
  PROVE  cat' \in [Cats -> Scores]
<1>1. \A c \in Cats : cat[c].score \in Seq(Tokens) /\ cat[c].fmiss \in Nat
  BY DEF Scores
<1>2. \A c \in Cats : Append(cat[c].score, t) \in Seq(Tokens)
  BY <1>1, AppendProperties
<1>3. \A c \in Cats :
        [score |-> Append(cat[c].score, t),
         fmiss |-> cat[c].fmiss + IF find_in_category(Version(c), t) THEN 0 ELSE 1] \in Scores
  BY <1>1, <1>2 DEF Scores
<1>4. CASE UNCHANGED <<cat, emp>>
  BY <1>4
<1>5. CASE cat' = [c \in Cats |->
            IF ~Applies(Version(c), t) THEN cat[c]
            ELSE [score |-> Append(cat[c].score, t),
                  fmiss |-> cat[c].fmiss + IF find_in_category(Version(c), t) THEN 0 ELSE 1]]
  BY <1>3, <1>5
<1> QED
  BY <1>4, <1>5 DEF score_word

LEMMA TypeStep == TypeOK /\ [Next]_vars => TypeOK'
<1> SUFFICES ASSUME TypeOK, [Next]_vars PROVE TypeOK'
  OBVIOUS
<1>0. run' \in Inputs
  BY WhoScores DEF TypeOK
<1>1. CASE UNCHANGED vars
  BY <1>1 DEF TypeOK, vars, where, line, models, signals
<1>2. CASE OpenFile \/ OpenDirectory
  <2>1. run.args \in Seq(Args) /\ argi \in Nat /\ argi < Len(run.args)
    BY <1>2, ClassifierAssumption DEF TypeOK, OpenFile, OpenDirectory, HasArg
  <2>2. NextArg \in Args
    BY <2>1 DEF NextArg
  <2>3. NextArg.files \in Seq(Files)
    BY <2>2, ClassifierAssumption
  <2>4. argi' \in Nat
    BY <1>2, <2>1 DEF OpenFile, OpenDirectory
  <2>5. CASE OpenFile
    <3>1. NextArg.files # <<>> /\ StartFile(NextArg.files[1])
      BY <2>2, <2>5, ClassifierAssumption DEF OpenFile
    <3>2. NextArg.files[1] \in Files
      BY <2>3, <3>1
    <3>3. input' \in InputFile /\ pc' = "fill"
      BY <3>1, <3>2, StartTypes
    <3> QED
      BY <1>0, <2>4, <2>5, <3>3 DEF TypeOK, OpenFile, Untouched, line
  <2>6. CASE OpenDirectory
    BY <1>0, <2>3, <2>4, <2>6 DEF TypeOK, OpenDirectory, Untouched, line
  <2> QED
    BY <1>2, <2>5, <2>6
<1>3. CASE OpenFails
  BY <1>0, <1>3 DEF TypeOK, OpenFails, Untouched, line
<1>4. CASE OpenStdin
  <2>1. run.stdin \in {r.stdin : r \in Inputs}
    BY DEF TypeOK
  <2>2. run.stdin \in Files
    BY <2>1, Zenon DEF Files
  <2>3. input' \in InputFile /\ pc' = "fill"
    BY <1>4, <2>2, StartTypes DEF OpenStdin
  <2> QED
    BY <1>0, <1>4, <2>3 DEF TypeOK, OpenStdin, Untouched, line
<1>5. CASE NextEntry
  <2>1. Head(entries) \in Files /\ Tail(entries) \in Seq(Files)
    BY <1>5 DEF TypeOK, NextEntry
  <2>2. input' \in InputFile /\ pc' = "fill"
    BY <1>5, <2>1, StartTypes DEF NextEntry
  <2> QED
    BY <1>0, <1>5, <2>1, <2>2 DEF TypeOK, NextEntry, Untouched, line
<1>6. CASE LeaveDirectory
  BY <1>0, <1>6, NoFileType DEF TypeOK, LeaveDirectory, Untouched, line
<1>7. CASE ReadLine
  <2>1. CASE input.left = <<>>
    <3>1. handle_indents_and_appends(NotInput, Blank) /\ input' = [input EXCEPT !.eof = TRUE]
          /\ numbered' = numbered
      BY <1>7, <2>1 DEF ReadLine
    <3>2. tokens' \in Seq(Tokens) /\ pc' \in {"fill", "score"}
      BY <3>1, BlankLine, TokensOfLine
    <3>3. input' \in InputFile
      BY <3>1 DEF TypeOK, InputFile
    <3> QED
      BY <1>0, <1>7, <3>1, <3>2, <3>3 DEF TypeOK, ReadLine, Rest, where
  <2>2. CASE input.left # <<>>
    <3>1. PICK l : l = Head(input.left)
      OBVIOUS
    <3>2. l \in FileLine /\ Tail(input.left) \in Seq(FileLine)
      BY <2>2, <3>1 DEF TypeOK, InputFile
    <3>3. /\ input' = [input EXCEPT !.left = Tail(@), !.eof = ~l.nl]
          /\ handle_indents_and_appends(numbered + 1, l)
          /\ numbered' = numbered + 1
      BY <1>7, <2>2, <3>1 DEF ReadLine
    <3>4. tokens' \in Seq(Tokens) /\ pc' \in {"fill", "score"}
      BY <3>2, <3>3, TokensOfLine
    <3>5. input' \in InputFile
      <4>1. l.nl \in BOOLEAN
        BY <3>2 DEF FileLine
      <4> QED
        BY <3>2, <3>3, <4>1 DEF TypeOK, InputFile
    <3> QED
      BY <1>0, <1>7, <3>3, <3>4, <3>5 DEF TypeOK, ReadLine, Rest, where
  <2> QED
    BY <2>1, <2>2
<1>8. CASE ReadClosed
  <2>1. tokens' \in Seq(Tokens) /\ pc' \in {"fill", "score", "crashed"}
    <3>1. CASE handle_indents_and_appends(NotInput, Blank)
      BY <3>1, BlankLine, TokensOfLine
    <3>2. CASE pc' = "crashed" /\ UNCHANGED <<at, tokens, echoed>>
      BY <3>2 DEF TypeOK
    <3> QED
      BY <1>8, <3>1, <3>2 DEF ReadClosed
  <2>2. input' \in InputFile
    BY <1>8 DEF TypeOK, ReadClosed, InputFile
  <2> QED
    BY <1>0, <1>8, <2>1, <2>2 DEF TypeOK, ReadClosed, Rest, where
<1>9. CASE ReadExtraLine
  <2>1. tokens' \in Seq(Tokens) /\ pc' \in {"fill", "score"}
    BY <1>9, BlankLine, TokensOfLine DEF ReadExtraLine
  <2>2. input' \in InputFile
    BY <1>9 DEF TypeOK, ReadExtraLine, InputFile
  <2> QED
    BY <1>0, <1>9, <2>1, <2>2 DEF TypeOK, ReadExtraLine, Rest, where
<1>10. CASE ExitOnSignal \/ EndOfFile
  BY <1>0, <1>10 DEF TypeOK, ExitOnSignal, EndOfFile, Rest, where, line
<1>11. CASE ScoreWord
  <2>1. Head(tokens) \in Tokens /\ Tail(tokens) \in Seq(Tokens)
    BY <1>11 DEF TypeOK, ScoreWord
  <2>2. cat' \in [Cats -> Scores]
    BY <1>11, <2>1, WordScored DEF TypeOK, ScoreWord
  <2> QED
    BY <1>0, <1>11, <2>1, <2>2 DEF TypeOK, ScoreWord, where
<1>12. CASE EndLine
  <2>1. ScoresAfterLine \in [Cats -> Scores]
    BY ResetTypes DEF TypeOK, ScoresAfterLine
  <2>2. cat' \in [Cats -> Scores] /\ pc' \in {"fill", "exited"}
    BY <1>12, <2>1, NothingScored DEF EndLine
  <2> QED
    BY <1>0, <1>12, <2>2 DEF TypeOK, EndLine, where, line
<1>13. CASE CloseFile
  <2>1. cat' \in [Cats -> Scores]
    BY <1>13, ResetTypes DEF TypeOK, CloseFile, file_score_categories
  <2>2. pc' \in {"entry", "next", "crashed"}
    BY <1>13 DEF CloseFile
  <2> QED
    BY <1>0, <1>13, <2>1, <2>2, NoFileType DEF TypeOK, CloseFile, where, line
<1>14. CASE Finish
  BY <1>0, <1>14 DEF TypeOK, Finish, where, line
<1>15. CASE \E sig \in Signals : Raise(sig)
  BY <1>0, <1>15 DEF TypeOK, Raise, where, line
<1>16. CASE \E c \in Cats : Relearn(c)
  BY <1>0, <1>16 DEF TypeOK, Relearn, where, line
<1> QED
  BY <1>1, <1>2, <1>3, <1>4, <1>5, <1>6, <1>7, <1>8, <1>9, <1>10, <1>11, <1>12, <1>13, <1>14,
     <1>15, <1>16 DEF Next, Program

(* The program never holds anything but the tokens, lines and files it was *)
(* given, and its scores are sums of tokens, for any run and signals.      *)
THEOREM TypeCorrect == Spec => []TypeOK
<1> QED
  BY TypeInit, TypeStep, PTL DEF Spec

-----------------------------------------------------------------------------
(* The empirical measure, through a run. A hash of 0 is what FILLEDP() takes *)
(* for a free slot, so a token with that hash would be lost.                *)

NoZeroId == \A t \in Tokens : Token[t].id # 0

LEMMA ClearedSound ==
  ASSUME EmpInv(emp)
  PROVE  EmpInv(Cleared) /\ (run.entropy => Filled(Cleared) = {})
<1>1. PICK e : e = emp
  OBVIOUS
<1>2. PICK f \in BOOLEAN : f = (run.mode = "filter")
  OBVIOUS
<1>3. EmpInv(clear_empirical(e, f)) /\ Filled(clear_empirical(e, f)) = {}
  BY <1>1, ClearFacts
<1>4. Cleared = IF run.entropy THEN clear_empirical(e, f) ELSE emp
  BY <1>1, <1>2 DEF Cleared
<1> QED
  BY <1>3, <1>4

LEMMA EmpStep == NoZeroId /\ TypeOK /\ EmpInv(emp) /\ [Next]_vars => EmpInv(emp')
<1> SUFFICES ASSUME NoZeroId, TypeOK, EmpInv(emp), [Next]_vars PROVE EmpInv(emp')
  OBVIOUS
<1>1. CASE ScoreWord
  <2>1. PICK t \in Tokens : t = Head(tokens)
    BY <1>1 DEF TypeOK, ScoreWord
  <2>2. PICK id \in Nat : id = Token[t].id /\ id # 0
    BY ClassifierAssumption DEF NoZeroId, Tokens
  <2>3. PICK e : e = emp
    OBVIOUS
  <2>4. EmpInv(Counted(e, id))
    BY <2>2, <2>3, CountedSound
  <2>5. emp' = emp \/ emp' = Counted(e, id)
    BY <1>1, <2>1, <2>2, <2>3 DEF ScoreWord, score_word
  <2> QED
    BY <2>4, <2>5
<1>2. CASE EndLine
  <2>1. emp' = emp \/ emp' = Cleared
    BY <1>2 DEF EndLine, line_score_categories
  <2> QED
    BY <2>1, ClearedSound
<1>3. CASE CloseFile
  <2>1. emp' = emp \/ emp' = Cleared
    BY <1>3 DEF CloseFile, file_score_categories
  <2> QED
    BY <2>1, ClearedSound
<1>4. CASE UNCHANGED <<cat, emp, loaded>>
  BY <1>4
<1> QED
  BY <1>1, <1>2, <1>3, <1>4, WhoScores

LEMMA SoundMeasure == EmpInv(emp) => EmpiricalSound
<1> SUFFICES ASSUME EmpInv(emp) PROVE EmpiricalSound
  OBVIOUS
<1>1. emp \in Empirical /\ Reached(emp) /\ FreeUncounted(emp) /\ StackTracks(emp)
      /\ emp.unique = Saturated(Cardinality(Filled(emp)))
  BY DEF EmpInv
<1>2. ASSUME NEW s \in Filled(emp)
      PROVE  find_in_empirical(emp, emp.hash[s].id) = s /\ emp.hash[s].count > 0
  <2>1. s \in Slots /\ emp.hash[s] \in Items /\ emp.hash[s].id # 0
    BY <1>1 DEF Empirical, Filled
  <2>2. emp.hash[s].count \in Nat /\ emp.hash[s].count # 0
    BY <1>1, <2>1 DEF Items, FreeUncounted
  <2>3. PICK id \in Nat : id = emp.hash[s].id
    BY <2>1 DEF Items
  <2>4. PICK k : StopsFirst(emp, id, k) /\ Probe(id, k) = s
    BY <1>1, <2>3 DEF Reached
  <2>5. PICK e : e = emp
    OBVIOUS
  <2>6. find_in_empirical(e, id) = Probe(id, k)
    BY <2>4, <2>5, FindsFirstStop
  <2> QED
    BY <2>2, <2>3, <2>4, <2>5, <2>6
<1> QED
  BY <1>1, <1>2 DEF EmpiricalSound, Saturated, StackTracks

(* However many tokens are counted, refused and cleared, and whether or not *)
(* the filled slots could be remembered, the empirical measure finds every  *)
(* token it has counted, knows how many they are, and while it tracks them  *)
(* remembers every slot to clear (catfun.c:373, 424, 473).                  *)
THEOREM MeasureSound == NoZeroId /\ Spec => []EmpiricalSound
<1>1. CASE NoZeroId
  <2>1. Init => EmpInv(emp)
    BY InitEmpirical DEF Init
  <2>2. TypeOK /\ EmpInv(emp) /\ [Next]_vars => EmpInv(emp')
    BY <1>1, EmpStep
  <2>3. EmpInv(emp)' <=> EmpInv(emp')
    OBVIOUS
  <2>4. TypeOK /\ EmpInv(emp) /\ [Next]_vars => EmpInv(emp)'
    BY <2>2, <2>3
  <2> QED
    BY <2>1, <2>4, SoundMeasure, TypeCorrect, PTL DEF Spec
<1>2. CASE ~NoZeroId
  BY <1>2
<1> QED
  BY <1>1, <1>2

-----------------------------------------------------------------------------
(* The tokens that were not recognised.                                    *)

Missed(s, v) == {i \in 1 .. Len(s) : ~find_in_category(v, s[i])}

LEMMA MissedNone == ASSUME NEW v PROVE Unrecognised(<<>>, v) = 0
<1>1. Missed(<<>>, v) = {}
  BY DEF Missed
<1> QED
  BY <1>1, FS_EmptySet DEF Unrecognised, Missed

LEMMA MissedOneMore ==
  ASSUME NEW s \in Seq(Tokens), NEW t \in Tokens, NEW v
  PROVE  /\ Unrecognised(s, v) \in Nat
         /\ Unrecognised(Append(s, t), v)
              = Unrecognised(s, v) + IF find_in_category(v, t) THEN 0 ELSE 1
<1> DEFINE n == Len(s) + 1
           q == Append(s, t)
<1>1. /\ Len(s) \in Nat /\ Len(q) = n /\ q[n] = t
      /\ \A i \in 1 .. Len(s) : q[i] = s[i]
  BY AppendProperties
<1>2. IsFiniteSet(Missed(s, v)) /\ Cardinality(Missed(s, v)) \in Nat
  <2>1. IsFiniteSet(1 .. Len(s))
    BY <1>1, FS_Interval
  <2>2. Missed(s, v) \subseteq 1 .. Len(s)
    BY DEF Missed
  <2> QED
    BY <2>1, <2>2, FS_Subset, FS_CardinalityType
<1>3. n \notin Missed(s, v)
  BY <1>1 DEF Missed
<1>4. /\ Unrecognised(s, v) = Cardinality(Missed(s, v))
      /\ Unrecognised(Append(s, t), v) = Cardinality(Missed(q, v))
  BY DEF Unrecognised, Missed
<1> HIDE DEF q
<1>5. CASE find_in_category(v, t)
  <2>1. Missed(q, v) = Missed(s, v)
    BY <1>1, <1>5 DEF Missed
  <2> QED
    BY <1>2, <1>4, <1>5, <2>1
<1>6. CASE ~find_in_category(v, t)
  <2>1. Missed(q, v) = Missed(s, v) \cup {n}
    BY <1>1, <1>6 DEF Missed
  <2>2. Cardinality(Missed(q, v)) = Cardinality(Missed(s, v)) + 1
    BY <1>2, <1>3, <2>1, FS_AddElement
  <2> QED
    BY <1>2, <1>4, <1>6, <2>2
<1> QED
  BY <1>5, <1>6

LEMMA MissesStep == TypeOK /\ MissesAreScored /\ [Next]_vars => MissesAreScored'
<1> SUFFICES ASSUME TypeOK, MissesAreScored, [Next]_vars, run'.mode = "plain", NEW c \in Cats
             PROVE  cat'[c].fmiss = Unrecognised(cat'[c].score, Versions[c][loaded'[c]])
  BY DEF MissesAreScored, Version
<1>1. run' = run
  BY WhoScores
<1>2. cat[c].fmiss = Unrecognised(cat[c].score, Versions[c][loaded[c]])
  BY <1>1 DEF MissesAreScored, Version
<1>3. cat \in [Cats -> Scores]
  BY DEF TypeOK
<1>4. CASE ScoreWord
  <2>1. PICK t \in Tokens : t = Head(tokens)
    BY <1>4 DEF TypeOK, ScoreWord
  <2>2. score_word(t) /\ loaded' = loaded
    BY <1>4, <2>1 DEF ScoreWord, models
  <2>3. PICK v : v = Versions[c][loaded[c]]
    OBVIOUS
  <2>4. \/ cat' = cat
        \/ cat' = [d \in Cats |->
            IF ~Applies(Version(d), t) THEN cat[d]
            ELSE [score |-> Append(cat[d].score, t),
                  fmiss |-> cat[d].fmiss + IF find_in_category(Version(d), t) THEN 0 ELSE 1]]
    BY <2>2 DEF score_word
  <2>5. \/ cat'[c] = cat[c]
        \/ cat'[c] = [score |-> Append(cat[c].score, t),
                      fmiss |-> cat[c].fmiss + IF find_in_category(v, t) THEN 0 ELSE 1]
    BY <2>3, <2>4 DEF Version
  <2>6. PICK s \in Seq(Tokens) : s = cat[c].score
    BY <1>3 DEF Scores
  <2>7. Unrecognised(Append(s, t), v)
          = Unrecognised(s, v) + IF find_in_category(v, t) THEN 0 ELSE 1
    BY MissedOneMore
  <2>8. cat[c].fmiss = Unrecognised(s, v)
    BY <1>2, <2>3, <2>6
  <2>9. cat'[c].fmiss = Unrecognised(cat'[c].score, v)
    <3>1. CASE cat'[c] = cat[c]
      BY <2>6, <2>8, <3>1
    <3>2. CASE cat'[c] = [score |-> Append(cat[c].score, t),
                          fmiss |-> cat[c].fmiss + IF find_in_category(v, t) THEN 0 ELSE 1]
      <4>1. cat'[c].score = Append(s, t)
        BY <2>6, <3>2
      <4>2. cat'[c].fmiss = Unrecognised(s, v) + IF find_in_category(v, t) THEN 0 ELSE 1
        BY <2>8, <3>2
      <4> QED
        BY <2>7, <4>1, <4>2
    <3> QED
      BY <2>5, <3>1, <3>2
  <2> QED
    BY <2>2, <2>3, <2>9
<1>5. CASE EndLine
  <2>1. ScoresAfterLine = cat
    BY <1>1 DEF ScoresAfterLine
  <2>2. \/ cat' = cat /\ loaded' = loaded
        \/ cat' = [d \in Cats |-> init_category]
    BY <1>5, <2>1 DEF EndLine
  <2>3. CASE cat' = [d \in Cats |-> init_category]
    BY <2>3, MissedNone DEF init_category
  <2> QED
    BY <1>2, <2>2, <2>3
<1>6. CASE CloseFile
  BY <1>1, <1>2, <1>6 DEF CloseFile, models
<1>7. CASE UNCHANGED <<cat, emp, loaded>>
  BY <1>2, <1>7
<1> QED
  BY <1>4, <1>5, <1>6, <1>7, WhoScores

(* The number of tokens that a category did not recognise is that of the    *)
(* tokens in its score, whatever files are read and however often the      *)
(* categories are loaded anew in between (catfun.c:795, dbacl.c:509).       *)
THEOREM MissesCounted == Spec => []MissesAreScored
<1>1. Init => MissesAreScored
  BY MissedNone DEF Init, MissesAreScored, init_category
<1> QED
  BY <1>1, MissesStep, TypeCorrect, PTL DEF Spec

-----------------------------------------------------------------------------
(* Termination.                                                            *)

(* Tokens are left only while a line is scored, and never once termination *)
(* was asked for.                                                          *)
LineInv ==
  /\ pc # "score" => tokens = <<>>
  /\ "QUITNOW" \in cmd => tokens = <<>>

LEMMA LineStep == TypeOK /\ LineInv /\ [Next]_vars => LineInv'
<1> SUFFICES ASSUME TypeOK, LineInv, [Next]_vars PROVE LineInv'
  OBVIOUS
<1>1. CASE UNCHANGED vars
  BY <1>1 DEF LineInv, vars, line
<1>2. CASE \/ OpenFile \/ OpenDirectory \/ OpenFails \/ OpenStdin \/ NextEntry \/ LeaveDirectory
  <2>1. pc # "score" /\ tokens' = tokens
    BY <1>2 DEF OpenFile, OpenDirectory, OpenFails, OpenStdin, NextEntry, LeaveDirectory, HasArg,
                Untouched, line
  <2> QED
    BY <2>1 DEF LineInv
<1>3. CASE ReadLine
  <2>1. "QUITNOW" \notin cmd'
    BY <1>3 DEF ReadLine, Reading
  <2>2. pc' # "score" => tokens' = <<>>
    <3>1. CASE input.left = <<>>
      BY <1>3, <3>1, BlankLine, TokensOfLine DEF ReadLine
    <3>2. CASE input.left # <<>>
      <4>1. PICK l \in FileLine : l = Head(input.left)
        BY <3>2 DEF TypeOK, InputFile
      <4>2. handle_indents_and_appends(numbered + 1, l)
        BY <1>3, <3>2, <4>1 DEF ReadLine
      <4> QED
        BY <4>2, TokensOfLine
    <3> QED
      BY <3>1, <3>2
  <2> QED
    BY <2>1, <2>2 DEF LineInv
<1>4. CASE ReadClosed
  <2>1. CASE handle_indents_and_appends(NotInput, Blank)
    BY <2>1, BlankLine, TokensOfLine DEF LineInv
  <2>2. CASE pc' = "crashed" /\ UNCHANGED <<at, tokens, echoed>>
    BY <1>4, <2>2 DEF LineInv, ReadClosed, Reading
  <2> QED
    BY <1>4, <2>1, <2>2 DEF ReadClosed
<1>5. CASE ReadExtraLine
  BY <1>5, BlankLine, TokensOfLine DEF LineInv, ReadExtraLine
<1>6. CASE ExitOnSignal \/ EndOfFile
  BY <1>6 DEF LineInv, ExitOnSignal, EndOfFile, Reading, line
<1>7. CASE ScoreWord
  <2>1. "QUITNOW" \notin cmd /\ cmd' = cmd /\ pc' = "score"
    BY <1>7 DEF LineInv, ScoreWord
  <2> QED
    BY <2>1 DEF LineInv
<1>8. CASE EndLine
  BY <1>8 DEF LineInv, EndLine, line
<1>9. CASE CloseFile \/ Finish
  BY <1>9 DEF LineInv, CloseFile, Finish, line
<1>10. CASE \E sig \in Signals : Raise(sig)
  BY <1>10 DEF LineInv, Raise, line
<1>11. CASE \E c \in Cats : Relearn(c)
  BY <1>11 DEF LineInv, Relearn, line
<1> QED
  BY <1>1, <1>2, <1>3, <1>4, <1>5, <1>6, <1>7, <1>8, <1>9, <1>10, <1>11 DEF Next, Program

NoInput == ("QUITNOW" \in cmd) => /\ numbered' = numbered
                                  /\ \A c \in Cats : Len(cat'[c].score) <= Len(cat[c].score)

LEMMA NoInputStep == TypeOK /\ LineInv /\ [Next]_vars => NoInput
<1> SUFFICES ASSUME TypeOK, LineInv, [Next]_vars, "QUITNOW" \in cmd PROVE NoInput
  BY DEF NoInput
<1>1. \A c \in Cats : cat[c].score \in Seq(Tokens) /\ Len(cat[c].score) \in Nat
  BY DEF TypeOK, Scores
<1>2. ~ReadLine /\ ~ScoreWord
  BY DEF LineInv, ReadLine, Reading, ScoreWord
<1>3. numbered' = numbered
  <2>1. CASE UNCHANGED vars
    BY <2>1 DEF vars, line
  <2>2. CASE \/ OpenFile \/ OpenDirectory \/ OpenFails \/ OpenStdin \/ NextEntry
             \/ LeaveDirectory
    BY <2>2 DEF OpenFile, OpenDirectory, OpenFails, OpenStdin, NextEntry, LeaveDirectory,
                Untouched, line
  <2>3. CASE ExitOnSignal \/ ReadClosed \/ ReadExtraLine \/ EndOfFile
    BY <2>3 DEF ExitOnSignal, ReadClosed, ReadExtraLine, EndOfFile, line
  <2>4. CASE EndLine \/ CloseFile \/ Finish
    BY <2>4 DEF EndLine, CloseFile, Finish, line
  <2>5. CASE (\E sig \in Signals : Raise(sig)) \/ (\E c \in Cats : Relearn(c))
    BY <2>5 DEF Raise, Relearn, line
  <2> QED
    BY <1>2, <2>1, <2>2, <2>3, <2>4, <2>5 DEF Next, Program
<1>4. ASSUME NEW c \in Cats
      PROVE  Len(cat'[c].score) <= Len(cat[c].score)
  <2>1. reset_all_scores(cat)[c].score = <<>> /\ Len(<<>>) = 0
    <3>1. PICK k \in [Cats -> Scores] : k = cat
      BY DEF TypeOK
    <3> QED
      BY <3>1, ResetTypes
  <2>2. CASE cat' = cat
    BY <1>1, <2>2
  <2>3. CASE cat' = reset_all_scores(cat)
    BY <1>1, <2>1, <2>3
  <2>4. CASE cat' = [d \in Cats |-> init_category]
    <3>1. cat'[c].score = <<>>
      BY <2>4 DEF init_category
    <3> QED
      BY <1>1, <2>1, <3>1
  <2>5. CASE EndLine
    BY <2>2, <2>3, <2>4, <2>5 DEF EndLine, ScoresAfterLine
  <2>6. CASE CloseFile
    BY <2>2, <2>3, <2>6 DEF CloseFile, file_score_categories
  <2> QED
    BY <1>2, <2>2, <2>5, <2>6, WhoScores
<1> QED
  BY <1>3, <1>4 DEF NoInput

(* After a signal has asked for termination nothing more is read as input  *)
(* and nothing more is scored, whatever files are still opened, closed or  *)
(* judged on the way (util.c:255, fh.c:529).                                *)
THEOREM TerminationHeeded == Spec => NoFurtherInput
<1>1. Init => LineInv
  BY DEF Init, LineInv
<1>2. Spec => []LineInv
  BY <1>1, LineStep, TypeCorrect, PTL DEF Spec
<1>3. TypeOK /\ LineInv /\ [Next]_vars => [NoInput]_vars
  BY NoInputStep
<1>4. Spec => [][NoInput]_vars
  BY <1>2, <1>3, TypeCorrect, PTL DEF Spec
<1> QED
  BY <1>4 DEF NoInput, NoFurtherInput

-----------------------------------------------------------------------------
(* Counts and scores.                                                      *)

DifferentIds == \A t, u \in Tokens : Token[t].id = Token[u].id => t = u

(* The counters reach the number of slots that may be filled, and one slot *)
(* at least remains free then. With HASH_FULL = 95 it takes 20 slots.      *)
FreeSlotRemains ==
  /\ HASH_FULL * max_tokens <= 100 * K_TOKEN_COUNT_MAX
  /\ HASH_FULL * max_tokens <= 100 * (max_tokens - 1)

SlotFree(e) == Cardinality(Filled(e)) <= max_tokens - 1

LEMMA FreeSlotFound ==
  ASSUME NEW e, EmpInv(e), SlotFree(e), NEW id \in Nat
  PROVE  find_in_empirical(e, id) # NoSlot
<1>1. e \in Empirical
  BY DEF EmpInv
<1>2. PICK u \in Slots : u \notin Filled(e)
  <2>1. CASE \A u \in Slots : u \in Filled(e)
    <3>1. Filled(e) = Slots
      BY <2>1, FilledFinite
    <3> QED
      BY <3>1, FilledFinite, EmpiricalAssumption DEF SlotFree
  <2> QED
    BY <2>1
<1>3. PICK k \in Slots : Probe(id, k) = u
  BY ProbeCovers
<1>4. Stops(e, id, k)
  BY <1>2, <1>3 DEF Stops, Filled
<1>5. ASSUME NEW j, Probe(id, j) \in Slots
      PROVE  Probe(id, j) # NoSlot
  BY <1>5, EmpiricalAssumption DEF Slots, NoSlot
<1> QED
  BY <1>1, <1>4, <1>5, FindCases

LEMMA StillFree ==
  ASSUME FreeSlotRemains, NEW e, EmpInv(e), SlotFree(e), NEW id \in Nat, id # 0
  PROVE  SlotFree(Counted(e, id))
<1>1. PICK c : c = Counted(e, id)
  OBVIOUS
<1>2. CASE c = e
  BY <1>1, <1>2
<1>3. ASSUME NEW s \in Slots, e.hash[s].id = id,
             c = CountedAgain(e, s)
      PROVE  SlotFree(c)
  <2>1. EmpInv(c) /\ Filled(c) = Filled(e)
    BY <1>3, CountKnown
  <2> QED
    BY <2>1 DEF SlotFree
<1>4. ASSUME NEW s \in Slots, NEW n, StopsFirst(e, id, n), s = Probe(id, n),
             e.hash[s].id = 0, HasRoom(e),
             c = TakenUp(e, s, id)
      PROVE  SlotFree(c)
  <2>1. Filled(c) = Filled(e) \cup {s} /\ s \notin Filled(e)
    <3>1. /\ EmpInv(c) /\ Filled(c) = Filled(e) \cup {s} /\ s \notin Filled(e)
          /\ c.hash[s] = [id |-> id, count |-> 1]
          /\ \A u \in Slots : u # s => c.hash[u] = e.hash[u]
      BY <1>4, CountNew, SMTT(30)
    <3> QED
      BY <3>1
  <2>2. Cardinality(Filled(c)) = Cardinality(Filled(e)) + 1
    BY <2>1, FilledFinite, FS_AddElement
  <2>3. e.unique = Saturated(Cardinality(Filled(e))) /\ Cardinality(Filled(e)) \in Nat
    BY FilledFinite DEF EmpInv
  <2>4. PICK p \in Nat : p = HASH_FULL * max_tokens
    BY EmpiricalAssumption
  <2>5. 100 * e.unique < p /\ p <= 100 * K_TOKEN_COUNT_MAX /\ p <= 100 * (max_tokens - 1)
    BY <1>4, <2>4 DEF HasRoom, FreeSlotRemains
  <2>6. e.unique = Cardinality(Filled(e))
    BY <2>3, <2>5, EmpiricalAssumption DEF Saturated
  <2>7. Cardinality(Filled(e)) < max_tokens - 1
    BY <2>3, <2>5, <2>6, EmpiricalAssumption
  <2> QED
    BY <2>2, <2>3, <2>7, EmpiricalAssumption DEF SlotFree
<1>5. SlotFree(c)
  BY <1>1, <1>2, <1>3, <1>4, CountedFacts
<1> QED
  BY <1>1, <1>5

(* How often a token was counted. *)
CountOf(e, id) ==
  LET s == find_in_empirical(e, id) IN IF s = NoSlot THEN 0 ELSE e.hash[s].count

LEMMA CountThere ==
  ASSUME NEW e, EmpInv(e), NEW s \in Slots, e.hash[s].id # 0, NEW id, id = e.hash[s].id
  PROVE  CountOf(e, id) = e.hash[s].count
<1>1. s \in Filled(e) /\ e \in Empirical /\ Reached(e)
  BY DEF Filled, EmpInv
<1>2. PICK x \in Nat : x = id
  BY <1>1 DEF Empirical, Items
<1>3. PICK k : StopsFirst(e, x, k) /\ Probe(x, k) = s
  BY <1>1, <1>2 DEF Reached
<1>4. find_in_empirical(e, x) = s
  BY <1>3, FindsFirstStop
<1>5. s # NoSlot
  BY EmpiricalAssumption DEF Slots, NoSlot
<1> QED
  BY <1>2, <1>4, <1>5 DEF CountOf

LEMMA CountAbsent ==
  ASSUME NEW e, EmpInv(e), NEW id \in Nat, \A s \in Slots : e.hash[s].id # id
  PROVE  CountOf(e, id) = 0
<1>1. e \in Empirical /\ FreeUncounted(e)
  BY DEF EmpInv
<1>2. CASE find_in_empirical(e, id) = NoSlot
  BY <1>2 DEF CountOf
<1>3. CASE \E s \in Slots : find_in_empirical(e, id) = s /\ e.hash[s].id \in {0, id}
  <2>1. PICK s \in Slots : find_in_empirical(e, id) = s /\ e.hash[s].id \in {0, id}
    BY <1>3
  <2>2. e.hash[s].count = 0
    BY <1>1, <2>1 DEF FreeUncounted
  <2> QED
    BY <2>1, <2>2 DEF CountOf
<1> QED
  BY <1>1, <1>2, <1>3, FindCases

LEMMA CountInNat ==
  ASSUME NEW e, EmpInv(e), NEW id \in Nat
  PROVE  CountOf(e, id) \in Nat
<1>1. e \in Empirical
  BY DEF EmpInv
<1>2. \A s \in Slots : e.hash[s] \in Items
  BY <1>1 DEF Empirical
<1>3. find_in_empirical(e, id) = NoSlot \/ find_in_empirical(e, id) \in Slots
  BY <1>1, FindCases
<1> QED
  BY <1>2, <1>3 DEF CountOf, Items

LEMMA CountNone ==
  ASSUME NEW e, EmpInv(e), Filled(e) = {}, NEW id \in Nat, id # 0
  PROVE  CountOf(e, id) = 0
<1>1. \A s \in Slots : e.hash[s].id # id
  BY DEF Filled
<1> QED
  BY <1>1, CountAbsent

(* Counting a token that is not refused counts it once, and no other. *)
LEMMA CountedOnce ==
  ASSUME NEW e, EmpInv(e), SlotFree(e), NEW id \in Nat, id # 0, ~Refused(e, id),
         NEW c, c = Counted(e, id), NEW x \in Nat, x # 0
  PROVE  CountOf(c, x) = IF x = id THEN Increased(CountOf(e, x)) ELSE CountOf(e, x)
<1>0. EmpInv(c) /\ e \in Empirical /\ FreeUncounted(e)
  BY CountedSound DEF EmpInv
<1>1. c # e \/ ~(c = e /\ (Refused(e, id) \/ find_in_empirical(e, id) = NoSlot))
  BY FreeSlotFound
<1>2. ASSUME NEW s \in Slots, e.hash[s].id = id,
             c = CountedAgain(e, s)
      PROVE  CountOf(c, x) = IF x = id THEN Increased(CountOf(e, x)) ELSE CountOf(e, x)
  <2>1. /\ \A u \in Slots : c.hash[u].id = e.hash[u].id
        /\ \A u \in Slots : c.hash[u].count =
             IF u = s THEN Increased(e.hash[u].count) ELSE e.hash[u].count
    BY <1>2, CountKnown
  <2>2. CASE x = id
    <3>1. CountOf(e, x) = e.hash[s].count
      BY <1>2, <2>2, CountThere
    <3>2. CountOf(c, x) = c.hash[s].count
      BY <1>0, <1>2, <2>1, <2>2, CountThere
    <3> QED
      BY <2>1, <2>2, <3>1, <3>2
  <2>3. ASSUME x # id, NEW u \in Slots, e.hash[u].id = x
        PROVE  CountOf(c, x) = CountOf(e, x)
    <3>1. u # s
      BY <1>2, <2>3
    <3>2. CountOf(e, x) = e.hash[u].count
      BY <2>3, CountThere
    <3>3. CountOf(c, x) = c.hash[u].count
      BY <1>0, <2>1, <2>3, CountThere
    <3> QED
      BY <2>1, <3>1, <3>2, <3>3
  <2>4. CASE \A u \in Slots : e.hash[u].id # x
    <3>1. x # id
      BY <1>2, <2>4
    <3>2. CountOf(e, x) = 0
      BY <2>4, CountAbsent
    <3>3. \A u \in Slots : c.hash[u].id # x
      BY <2>1, <2>4
    <3>4. CountOf(c, x) = 0
      BY <1>0, <3>3, CountAbsent
    <3> QED
      BY <3>1, <3>2, <3>4
  <2> QED
    BY <2>2, <2>3, <2>4
<1>3. ASSUME NEW s \in Slots, NEW n, StopsFirst(e, id, n), s = Probe(id, n),
             e.hash[s].id = 0,
             c = TakenUp(e, s, id)
      PROVE  CountOf(c, x) = IF x = id THEN Increased(CountOf(e, x)) ELSE CountOf(e, x)
  <2>1. /\ c.hash[s] = [id |-> id, count |-> 1]
        /\ \A u \in Slots : u # s => c.hash[u] = e.hash[u]
    BY <1>3, CountNew
  <2>2. CASE x = id
    <3>1. find_in_empirical(e, id) = s
      BY <1>3, FindsFirstStop
    <3>2. s # NoSlot /\ e.hash[s].count = 0
      BY <1>0, <1>3, EmpiricalAssumption DEF Slots, NoSlot, FreeUncounted
    <3>3. CountOf(e, x) = 0
      BY <2>2, <3>1, <3>2 DEF CountOf
    <3>4. c.hash[s].id = id /\ c.hash[s].count = 1
      BY <2>1
    <3>5. CountOf(c, x) = 1
      BY <1>0, <2>2, <3>4, CountThere
    <3>6. Increased(0) = 1
      BY EmpiricalAssumption DEF Increased
    <3> QED
      BY <2>2, <3>3, <3>5, <3>6
  <2>3. ASSUME x # id, NEW u \in Slots, e.hash[u].id = x
        PROVE  CountOf(c, x) = CountOf(e, x)
    <3>1. c.hash[u] = e.hash[u]
      BY <1>3, <2>1, <2>3
    <3>2. CountOf(e, x) = e.hash[u].count
      BY <2>3, CountThere
    <3>3. CountOf(c, x) = c.hash[u].count
      BY <1>0, <2>3, <3>1, CountThere
    <3> QED
      BY <3>1, <3>2, <3>3
  <2>4. CASE x # id /\ \A u \in Slots : e.hash[u].id # x
    <3>1. CountOf(e, x) = 0
      BY <2>4, CountAbsent
    <3>2. \A u \in Slots : c.hash[u].id # x
      BY <2>1, <2>4
    <3>3. CountOf(c, x) = 0
      BY <1>0, <3>2, CountAbsent
    <3> QED
      BY <2>4, <3>1, <3>3
  <2> QED
    BY <2>2, <2>3, <2>4
<1> QED
  BY <1>1, <1>2, <1>3, CountedFacts

LEMMA OccurrencesNone == ASSUME NEW t PROVE Occurrences(<<>>, t) = 0
<1>1. {i \in 1 .. Len(<<>>) : <<>>[i] = t} = {}
  OBVIOUS
<1> QED
  BY <1>1, FS_EmptySet DEF Occurrences

LEMMA OneMoreOccurrence ==
  ASSUME NEW s \in Seq(Tokens), NEW t \in Tokens, NEW u
  PROVE  /\ Occurrences(s, u) \in Nat
         /\ Occurrences(Append(s, t), u) = Occurrences(s, u) + IF t = u THEN 1 ELSE 0
<1> DEFINE n == Len(s) + 1
           q == Append(s, t)
           old == {i \in 1 .. Len(s) : s[i] = u}
           new == {i \in 1 .. Len(q) : q[i] = u}
<1>1. /\ Len(s) \in Nat /\ Len(q) = n /\ q[n] = t
      /\ \A i \in 1 .. Len(s) : q[i] = s[i]
  BY AppendProperties
<1>2. IsFiniteSet(old) /\ Cardinality(old) \in Nat
  <2>1. IsFiniteSet(1 .. Len(s)) /\ old \subseteq 1 .. Len(s)
    BY <1>1, FS_Interval
  <2> HIDE DEF old
  <2> QED
    BY <2>1, FS_Subset, FS_CardinalityType
<1>3. n \notin old
  BY <1>1
<1>4. Occurrences(s, u) = Cardinality(old) /\ Occurrences(Append(s, t), u) = Cardinality(new)
  BY DEF Occurrences
<1>5. CASE t = u
  <2>1. new = old \cup {n}
    <3> HIDE DEF q
    <3> QED
      BY <1>1, <1>5
  <2>2. Cardinality(old \cup {n}) = Cardinality(old) + 1
    <3> HIDE DEF old
    <3> QED
      BY <1>2, <1>3, FS_AddElement
  <2> HIDE DEF old, new
  <2> QED
    BY <1>2, <1>4, <1>5, <2>1, <2>2
<1>6. CASE t # u
  <2>1. new = old
    <3> HIDE DEF q
    <3> QED
      BY <1>1, <1>6
  <2> HIDE DEF old, new
  <2> QED
    BY <1>2, <1>4, <1>6, <2>1
<1> QED
  BY <1>5, <1>6

-----------------------------------------------------------------------------
(* While no signal has come no category is loaded anew. *)
SignalInv ==
  /\ raised \in Nat
  /\ raised = 0 => sa_signal = NoSignal /\ "RELOAD_CATS" \notin cmd

LEMMA SignalStep == SignalInv /\ [Next]_vars => SignalInv' /\ (raised' = 0 => raised = 0)
<1> SUFFICES ASSUME SignalInv, [Next]_vars PROVE SignalInv' /\ (raised' = 0 => raised = 0)
  OBVIOUS
<1>1. CASE UNCHANGED vars
  BY <1>1 DEF SignalInv, vars, signals
<1>2. CASE OpenFile \/ OpenDirectory \/ OpenFails \/ OpenStdin \/ NextEntry \/ LeaveDirectory
  BY <1>2 DEF SignalInv, OpenFile, OpenDirectory, OpenFails, OpenStdin, NextEntry,
              LeaveDirectory, Untouched, signals
<1>3. CASE ReadLine
  <2>1. raised' = raised /\ sa_signal' = NoSignal
        /\ (sa_signal # "USR1" => cmd' = cmd)
    BY <1>3 DEF ReadLine, Rest
  <2>2. NoSignal # "USR1"
    BY DEF NoSignal
  <2> QED
    BY <2>1, <2>2 DEF SignalInv
<1>4. CASE ExitOnSignal \/ ReadClosed
  <2>1. raised' = raised /\ sa_signal' = NoSignal /\ (cmd' = cmd \/ cmd' = cmd \cup {"QUITNOW"})
    BY <1>4 DEF ExitOnSignal, ReadClosed, Rest
  <2> QED
    BY <2>1 DEF SignalInv
<1>5. CASE ReadExtraLine \/ EndOfFile
  BY <1>5 DEF SignalInv, ReadExtraLine, EndOfFile, Rest
<1>6. CASE ScoreWord \/ CloseFile \/ Finish
  BY <1>6 DEF SignalInv, ScoreWord, CloseFile, Finish, signals
<1>7. CASE EndLine
  <2>1. raised' = raised /\ sa_signal' = sa_signal
        /\ (cmd' = cmd \/ cmd' = cmd \ {"RELOAD_CATS"})
    BY <1>7 DEF EndLine, signals
  <2> QED
    BY <2>1 DEF SignalInv
<1>8. CASE \E sig \in Signals : Raise(sig)
  <2>1. raised' = raised + 1
    BY <1>8 DEF Raise
  <2> QED
    BY <2>1 DEF SignalInv
<1>9. CASE \E c \in Cats : Relearn(c)
  BY <1>9 DEF SignalInv, Relearn, signals
<1> QED
  BY <1>1, <1>2, <1>3, <1>4, <1>5, <1>6, <1>7, <1>8, <1>9 DEF Next, Program

(* How a token's count bounds its score, and settles it without signals.   *)
Agree(c, t) ==
  LET n == Occurrences(cat[c].score, t)
      count == CountOf(emp, Token[t].id)
  IN /\ count < K_TOKEN_COUNT_MAX => n <= count
     /\ raised = 0 /\ Applies(Version(c), t) => count = Saturated(n)

CountInv == run.entropy => SlotFree(emp) /\ \A c \in Cats, t \in Tokens : Agree(c, t)

LEMMA CountInvImplies == CountInv => CountedAsScored
BY DEF CountInv, Agree, CountOf, Saturated, CountedAsScored, Tokens

(* The hypotheses on hashes and on the table. *)
GoodHashes == NoZeroId /\ DifferentIds /\ FreeSlotRemains

LEMMA EmptyAgrees ==
  ASSUME NEW e, EmpInv(e), Filled(e) = {}, NEW id \in Nat, id # 0, NEW t, NEW s, s = <<>>
  PROVE  /\ CountOf(e, id) = 0 /\ Occurrences(s, t) = 0 /\ Saturated(0) = 0
<1>1. Occurrences(<<>>, t) = 0
  BY OccurrencesNone
<1> QED
  BY <1>1, CountNone, EmpiricalAssumption DEF Saturated

LEMMA EmptySlotFree ==
  ASSUME FreeSlotRemains, NEW e, Filled(e) = {}
  PROVE  SlotFree(e)
<1>1. Cardinality(Filled(e)) = 0
  BY FS_EmptySet
<1> QED
  BY <1>1, EmpiricalAssumption DEF SlotFree

LEMMA CountInit ==
  ASSUME GoodHashes, Init
  PROVE  CountInv /\ SignalInv
<1>1. EmpInv(emp) /\ Filled(emp) = {}
  BY InitEmpirical DEF Init
<1>2. ASSUME NEW c \in Cats, NEW t \in Tokens
      PROVE  Agree(c, t)
  <2>1. PICK id \in Nat : id = Token[t].id /\ id # 0
    BY ClassifierAssumption DEF GoodHashes, NoZeroId, Tokens
  <2>2. cat[c].score = <<>>
    BY DEF Init, init_category
  <2>3. CountOf(emp, id) = 0 /\ Occurrences(cat[c].score, t) = 0 /\ Saturated(0) = 0
    BY <1>1, <2>1, <2>2, EmptyAgrees
  <2> QED
    BY <2>1, <2>3 DEF Agree
<1>3. SlotFree(emp)
  BY <1>1, EmptySlotFree DEF GoodHashes
<1>4. SignalInv
  BY DEF Init, SignalInv
<1> QED
  BY <1>2, <1>3, <1>4 DEF CountInv

(* After scores and counts have been cleared together they agree. *)
LEMMA ClearedAgree ==
  ASSUME GoodHashes, EmpInv(emp), run.entropy, emp' = Cleared, run' = run,
         \A c \in Cats : cat'[c].score = <<>>
  PROVE  CountInv'
<1>1. EmpInv(emp') /\ Filled(emp') = {}
  BY ClearedSound
<1>2. ASSUME NEW c \in Cats, NEW t \in Tokens
      PROVE  Agree(c, t)'
  <2>1. PICK id \in Nat : id = Token[t].id /\ id # 0
    BY ClassifierAssumption DEF GoodHashes, NoZeroId, Tokens
  <2>2. CountOf(emp', id) = 0 /\ Occurrences(cat'[c].score, t) = 0 /\ Saturated(0) = 0
    BY <1>1, <2>1, EmptyAgrees
  <2> QED
    BY <2>1, <2>2 DEF Agree
<1>3. SlotFree(emp')
  BY <1>1, EmptySlotFree DEF GoodHashes
<1> QED
  BY <1>2, <1>3 DEF CountInv

(* After the scores alone have been cleared there has been a signal. *)
LEMMA ReloadedAgree ==
  ASSUME EmpInv(emp), CountInv, emp' = emp, run' = run, raised' # 0, NoZeroId,
         \A c \in Cats : cat'[c].score = <<>>
  PROVE  CountInv'
<1>1. ASSUME NEW c \in Cats, NEW t \in Tokens
      PROVE  Agree(c, t)'
  <2>1. PICK id \in Nat : id = Token[t].id /\ id # 0
    BY ClassifierAssumption DEF NoZeroId, Tokens
  <2>2. Occurrences(cat'[c].score, t) = 0
    BY OccurrencesNone
  <2>3. CountOf(emp, id) \in Nat
    BY <2>1, CountInNat
  <2> QED
    BY <2>1, <2>2, <2>3 DEF Agree
<1> QED
  BY <1>1 DEF CountInv

LEMMA WordAgrees ==
  ASSUME GoodHashes, TypeOK, EmpInv(emp), CountInv, ScoreWord
  PROVE  CountInv'
<1> SUFFICES ASSUME run.entropy
             PROVE  SlotFree(emp') /\ \A c \in Cats, u \in Tokens : Agree(c, u)'
  BY DEF CountInv, ScoreWord
<1>1. PICK t \in Tokens : t = Head(tokens)
  BY DEF TypeOK, ScoreWord
<1>2. PICK id \in Nat : id = Token[t].id /\ id # 0
  BY ClassifierAssumption DEF GoodHashes, NoZeroId, Tokens
<1>3. score_word(t) /\ run' = run /\ loaded' = loaded /\ raised' = raised
  BY <1>1 DEF ScoreWord, models, signals
<1>4. SlotFree(emp) /\ \A c \in Cats, u \in Tokens : Agree(c, u)
  BY DEF CountInv
<1>5. CASE Refused(emp, id)
  <2>1. UNCHANGED <<cat, emp>>
    BY <1>2, <1>3, <1>5 DEF score_word
  <2> QED
    BY <1>3, <1>4, <2>1 DEF Agree, Version
<1>6. CASE ~Refused(emp, id)
  <2>1. /\ emp' = Counted(emp, id)
        /\ cat' = [c \in Cats |->
             IF ~Applies(Version(c), t) THEN cat[c]
             ELSE [score |-> Append(cat[c].score, t),
                   fmiss |-> cat[c].fmiss + IF find_in_category(Version(c), t) THEN 0 ELSE 1]]
    BY <1>2, <1>3, <1>6 DEF score_word
  <2>2. SlotFree(emp')
    BY <1>2, <1>4, <2>1, StillFree DEF GoodHashes
  <2>3. ASSUME NEW c \in Cats, NEW u \in Tokens
        PROVE  Agree(c, u)'
    <3>1. PICK x \in Nat : x = Token[u].id /\ x # 0
      BY ClassifierAssumption DEF GoodHashes, NoZeroId, Tokens
    <3>2. x = id <=> u = t
      BY <1>2, <3>1 DEF GoodHashes, DifferentIds
    <3>3. CountOf(emp', x) = IF x = id THEN Increased(CountOf(emp, x)) ELSE CountOf(emp, x)
      BY <1>2, <1>4, <1>6, <2>1, <3>1, CountedOnce
    <3>4. PICK s \in Seq(Tokens) : s = cat[c].score
      BY DEF TypeOK, Scores
    <3>5. PICK n \in Nat : n = Occurrences(s, u)
      BY OneMoreOccurrence, <1>1
    <3>6. PICK k \in Nat : k = CountOf(emp, x)
      BY <3>1, CountInNat
    <3>7. PICK a \in BOOLEAN : a <=> Applies(Version(c), t)
      OBVIOUS
    <3>8. cat'[c].score = IF a THEN Append(s, t) ELSE s
      BY <2>1, <3>4, <3>7
    <3>9. Occurrences(Append(s, t), u) = n + IF t = u THEN 1 ELSE 0
      BY <1>1, <3>5, OneMoreOccurrence
    <3>10. Occurrences(cat'[c].score, u) = IF a /\ t = u THEN n + 1 ELSE n
      BY <3>5, <3>8, <3>9
    <3>11. /\ k < K_TOKEN_COUNT_MAX => n <= k
           /\ raised = 0 /\ Applies(Version(c), u) => k = Saturated(n)
      BY <1>4, <3>1, <3>4, <3>5, <3>6 DEF Agree
    <3>12. CountOf(emp', x) = IF t = u THEN Increased(k) ELSE k
      BY <3>2, <3>3, <3>6
    <3>13. Version(c)' = Version(c)
      BY <1>3 DEF Version
    <3>14. ASSUME t = u
           PROVE  Agree(c, u)'
      <4>1. Increased(k) < K_TOKEN_COUNT_MAX => k < K_TOKEN_COUNT_MAX /\ Increased(k) = k + 1
        BY EmpiricalAssumption DEF Increased
      <4>2. Increased(Saturated(n)) = Saturated(n + 1)
        BY IncreasedFacts
      <4>3. CountOf(emp', x) = Increased(k)
            /\ Occurrences(cat'[c].score, u) = IF a THEN n + 1 ELSE n
        BY <3>10, <3>12, <3>14
      <4>4. Increased(k) < K_TOKEN_COUNT_MAX => Occurrences(cat'[c].score, u) <= Increased(k)
        BY <3>11, <4>1, <4>3
      <4>5. raised = 0 /\ Applies(Version(c), u)
              => Increased(k) = Saturated(Occurrences(cat'[c].score, u))
        BY <3>7, <3>11, <3>14, <4>2, <4>3
      <4> QED
        BY <1>3, <3>1, <3>13, <4>3, <4>4, <4>5 DEF Agree
    <3>15. ASSUME t # u
           PROVE  Agree(c, u)'
      <4>1. CountOf(emp', x) = k /\ Occurrences(cat'[c].score, u) = n
        BY <3>10, <3>12, <3>15
      <4> QED
        BY <1>3, <3>1, <3>11, <3>13, <4>1 DEF Agree
    <3> QED
      BY <3>14, <3>15
  <2> QED
    BY <2>2, <2>3
<1> QED
  BY <1>5, <1>6

LEMMA CountStep ==
  ASSUME GoodHashes
  PROVE  TypeOK /\ EmpInv(emp) /\ SignalInv /\ CountInv /\ [Next]_vars => CountInv'
<1> SUFFICES ASSUME TypeOK, EmpInv(emp), SignalInv, CountInv, [Next]_vars PROVE CountInv'
  OBVIOUS
<1>1. run' = run /\ (raised' = 0 => raised = 0)
  BY WhoScores, SignalStep
<1>2. \A c \in Cats : reset_all_scores(cat)[c].score = <<>>
  <2>1. PICK k \in [Cats -> Scores] : k = cat
    BY DEF TypeOK
  <2> QED
    BY <2>1, ResetTypes
<1>3. CASE UNCHANGED <<cat, emp, loaded>>
  BY <1>1, <1>3 DEF CountInv, Agree, Version
<1>4. CASE ~run.entropy
  BY <1>1, <1>4 DEF CountInv
<1>5. CASE run.entropy /\ EndLine
  <2>1. emp' = (IF run.mode = "filter" THEN Cleared ELSE emp) /\ raised' = raised
    BY <1>5 DEF EndLine, line_score_categories, signals
  <2>2. CASE run.mode = "filter"
    <3>1. \A c \in Cats : cat'[c].score = <<>>
      BY <1>2, <1>5, <2>2 DEF EndLine, ScoresAfterLine, init_category
    <3> QED
      BY <1>1, <1>5, <2>1, <2>2, <3>1, ClearedAgree
  <2>3. CASE run.mode # "filter" /\ "RELOAD_CATS" \notin cmd
    <3>1. UNCHANGED <<cat, emp, loaded>>
      BY <1>5, <2>1, <2>3 DEF EndLine, ScoresAfterLine
    <3> QED
      BY <1>3, <3>1
  <2>4. CASE run.mode # "filter" /\ "RELOAD_CATS" \in cmd
    <3>1. raised' # 0 /\ emp' = emp
      BY <2>1, <2>4 DEF SignalInv
    <3>2. CASE Reloadable
      <4>1. \A c \in Cats : cat'[c].score = <<>>
        BY <1>5, <2>4, <3>2 DEF EndLine, init_category
      <4> QED
        BY <1>1, <3>1, <4>1, ReloadedAgree DEF GoodHashes
    <3>3. CASE ~Reloadable
      <4>1. UNCHANGED <<cat, emp, loaded>>
        BY <1>5, <2>4, <3>1, <3>3 DEF EndLine, ScoresAfterLine
      <4> QED
        BY <1>3, <4>1
    <3> QED
      BY <3>2, <3>3
  <2> QED
    BY <2>2, <2>3, <2>4
<1>6. CASE run.entropy /\ CloseFile
  <2>1. CASE cat' = reset_all_scores(cat) /\ emp' = Cleared
    BY <1>1, <1>2, <1>6, <2>1, ClearedAgree
  <2>2. CASE UNCHANGED <<cat, emp>>
    <3>1. loaded' = loaded
      BY <1>6 DEF CloseFile, models
    <3> QED
      BY <1>3, <2>2, <3>1
  <2> QED
    BY <1>6, <2>1, <2>2 DEF CloseFile, file_score_categories
<1>7. CASE ScoreWord
  BY <1>7, WordAgrees
<1> QED
  BY <1>3, <1>4, <1>5, <1>6, <1>7, WhoScores

(* A token is counted at least as often as any category has scored it, up   *)
(* to where the counters stop, and just as often where no signal has come, *)
(* provided that different tokens have different hashes, none of them 0,    *)
(* and that the table cannot fill to its last slot. So the correction for   *)
(* the entropy is that of the same tokens as the score (catfun.c:806).      *)
THEOREM CountsMatchScores == GoodHashes /\ Spec => []CountedAsScored
<1>1. CASE GoodHashes
  <2>1. Init => EmpInv(emp) /\ CountInv /\ SignalInv
    BY <1>1, CountInit, InitEmpirical DEF Init
  <2>2. TypeOK /\ EmpInv(emp) /\ [Next]_vars => EmpInv(emp)'
    <3>1. TypeOK /\ EmpInv(emp) /\ [Next]_vars => EmpInv(emp')
      BY <1>1, EmpStep DEF GoodHashes
    <3>2. EmpInv(emp)' <=> EmpInv(emp')
      OBVIOUS
    <3> QED
      BY <3>1, <3>2
  <2>3. TypeOK /\ EmpInv(emp) /\ SignalInv /\ CountInv /\ [Next]_vars => CountInv'
    BY <1>1, CountStep
  <2>4. SignalInv /\ [Next]_vars => SignalInv'
    BY SignalStep
  <2> QED
    BY <2>1, <2>2, <2>3, <2>4, CountInvImplies, TypeCorrect, PTL DEF Spec
<1>2. CASE ~GoodHashes
  BY <1>2
<1> QED
  BY <1>1, <1>2

-----------------------------------------------------------------------------
(* Verdicts on files, among the verdicts: vs is the list of verdicts, names *)
(* are those of files, given is the list of the names of the files that    *)
(* have been opened, and left those among them that are not judged yet.    *)

Judged(names, vs) == {i \in 1..Len(vs) : vs[i].name \in names}
Rank(names, vs, i) == Cardinality({j \in Judged(names, vs) : j <= i})

InOrder(given, names, vs, left) ==
  LET n == Cardinality(Judged(names, vs))
  IN /\ \E V : vs \in Seq(V)
     /\ \E N : given \in Seq(N) /\ left \in Seq(N)
     /\ Len(given) = n + Len(left)
     /\ \A i \in Judged(names, vs) : vs[i].name = given[Rank(names, vs, i)]
     /\ \A k \in 1..Len(left) : left[k] = given[n + k]

LEMMA JudgedFinite ==
  ASSUME NEW names, NEW V, NEW vs \in Seq(V)
  PROVE  /\ Judged(names, vs) \subseteq 1..Len(vs)
         /\ IsFiniteSet(Judged(names, vs)) /\ Cardinality(Judged(names, vs)) \in Nat
<1>1. Judged(names, vs) \subseteq 1..Len(vs)
  BY DEF Judged
<1>2. IsFiniteSet(1..Len(vs))
  BY FS_Interval
<1> QED
  BY <1>1, <1>2, FS_Subset, FS_CardinalityType

LEMMA RankInRange ==
  ASSUME NEW names, NEW V, NEW vs \in Seq(V), NEW i \in Judged(names, vs)
  PROVE  Rank(names, vs, i) \in 1..Cardinality(Judged(names, vs))
<1> DEFINE J == Judged(names, vs)
           P == {j \in J : j <= i}
<1>1. P \subseteq J /\ IsFiniteSet(J) /\ J \subseteq Nat
  BY JudgedFinite
<1>2. IsFiniteSet(P) /\ Cardinality(P) <= Cardinality(J)
  BY <1>1, FS_Subset
<1>3. i \in P
  BY <1>1
<1>4. Cardinality(P) # 0
  BY <1>2, <1>3, FS_EmptySet
<1>5. Cardinality(P) \in Nat /\ Cardinality(J) \in Nat
  BY <1>1, <1>2, FS_CardinalityType
<1>6. Cardinality(P) \in 1..Cardinality(J)
  BY <1>2, <1>4, <1>5
<1> QED
  BY <1>6 DEF Rank

(* More files are opened.                                                  *)
LEMMA MoreGiven ==
  ASSUME NEW given, NEW names, NEW vs, NEW left, InOrder(given, names, vs, left),
         NEW M, NEW more \in Seq(M)
  PROVE  InOrder(given \o more, names, vs, left \o more)
<1> DEFINE n == Cardinality(Judged(names, vs))
<1>1. PICK V : vs \in Seq(V)
  BY DEF InOrder
<1>2. PICK N : given \in Seq(N) /\ left \in Seq(N)
  BY DEF InOrder
<1>3. n \in Nat
  BY <1>1, JudgedFinite
<1>4. Len(given) = n + Len(left)
  BY DEF InOrder
<1>5. given \in Seq(N \cup M) /\ left \in Seq(N \cup M) /\ more \in Seq(N \cup M)
  BY <1>2
<1>6. given \o more \in Seq(N \cup M) /\ left \o more \in Seq(N \cup M)
  BY <1>5
<1> DEFINE g == given \o more
           l == left \o more
<1>7. /\ Len(g) = Len(given) + Len(more) /\ Len(l) = Len(left) + Len(more)
      /\ \A k \in 1..Len(given) + Len(more) :
           g[k] = IF k <= Len(given) THEN given[k] ELSE more[k - Len(given)]
      /\ \A k \in 1..Len(left) + Len(more) :
           l[k] = IF k <= Len(left) THEN left[k] ELSE more[k - Len(left)]
  BY <1>5
<1>8. Len(given) \in Nat /\ Len(left) \in Nat /\ Len(more) \in Nat
  BY <1>5
<1> HIDE DEF g, l, n
<1>9. ASSUME NEW i \in Judged(names, vs)
      PROVE  vs[i].name = g[Rank(names, vs, i)]
  <2>1. Rank(names, vs, i) \in 1..n
    BY <1>1, RankInRange DEF n
  <2>2. Rank(names, vs, i) \in 1..Len(given)
    BY <1>3, <1>4, <1>8, <2>1
  <2>3. g[Rank(names, vs, i)] = given[Rank(names, vs, i)]
    BY <1>7, <1>8, <2>2
  <2>4. vs[i].name = given[Rank(names, vs, i)]
    BY DEF InOrder
  <2> QED
    BY <2>3, <2>4
<1>10. ASSUME NEW k \in 1..Len(l)
       PROVE  l[k] = g[n + k]
  <2>1. k \in 1..Len(left) + Len(more) /\ n + k \in 1..Len(given) + Len(more)
    BY <1>3, <1>4, <1>7, <1>8
  <2>2. CASE k <= Len(left)
    <3>1. l[k] = left[k] /\ g[n + k] = given[n + k]
      BY <1>3, <1>4, <1>7, <1>8, <2>1, <2>2
    <3>2. left[k] = given[n + k]
      BY <1>8, <2>1, <2>2 DEF InOrder, n
    <3> QED
      BY <3>1, <3>2
  <2>3. CASE ~(k <= Len(left))
    <3>1. l[k] = more[k - Len(left)] /\ g[n + k] = more[n + k - Len(given)]
      BY <1>3, <1>4, <1>7, <1>8, <2>1, <2>3
    <3>2. n + k - Len(given) = k - Len(left)
      BY <1>3, <1>4, <1>8
    <3> QED
      BY <3>1, <3>2
  <2> QED
    BY <2>2, <2>3
<1>11. Len(g) = n + Len(l)
  BY <1>3, <1>4, <1>7, <1>8
<1>12. InOrder(g, names, vs, l)
  BY <1>1, <1>6, <1>9, <1>10, <1>11 DEF InOrder, g, l, n
<1> QED
  BY <1>12 DEF g, l

(* A verdict on something else than a file.                                *)
LEMMA OtherVerdict ==
  ASSUME NEW given, NEW names, NEW vs, NEW left, InOrder(given, names, vs, left),
         NEW v, v.name \notin names
  PROVE  InOrder(given, names, Append(vs, v), left)
<1>1. PICK V : vs \in Seq(V)
  BY DEF InOrder
<1>2. vs \in Seq(V \cup {v})
  BY <1>1
<1>3. PICK w : w = Append(vs, v)
  OBVIOUS
<1>4. w \in Seq(V \cup {v}) /\ Len(w) = Len(vs) + 1 /\ w[Len(vs) + 1] = v
      /\ \A i \in 1..Len(vs) : w[i] = vs[i]
  BY <1>2, <1>3
<1>5. Len(vs) \in Nat
  BY <1>1
<1>6. Judged(names, w) = Judged(names, vs)
  BY <1>4, <1>5 DEF Judged
<1>7. \A i \in Judged(names, vs) : w[i] = vs[i] /\ Rank(names, w, i) = Rank(names, vs, i)
  BY <1>4, <1>6 DEF Judged, Rank
<1>8. InOrder(given, names, w, left)
  BY <1>4, <1>6, <1>7 DEF InOrder
<1> QED
  BY <1>3, <1>8

(* The verdict on the file that is next.                                   *)
LEMMA NextVerdict ==
  ASSUME NEW given, NEW names, NEW vs, NEW N, NEW name \in N, NEW left \in Seq(N),
         InOrder(given, names, vs, <<name>> \o left),
         NEW v, v.name = name, name \in names
  PROVE  InOrder(given, names, Append(vs, v), left)
<1> DEFINE D == Judged(names, vs)
           n == Cardinality(D)
           last == Len(vs) + 1
<1>1. PICK V : vs \in Seq(V)
  BY DEF InOrder
<1>2. vs \in Seq(V \cup {v}) /\ Len(vs) \in Nat
  BY <1>1
<1>3. PICK w : w = Append(vs, v)
  OBVIOUS
<1>4. w \in Seq(V \cup {v}) /\ Len(w) = last /\ w[last] = v
      /\ \A i \in 1..Len(vs) : w[i] = vs[i]
  BY <1>2, <1>3
<1> DEFINE E == Judged(names, w)
<1>5. D \subseteq 1..Len(vs) /\ IsFiniteSet(D) /\ n \in Nat
  BY <1>1, JudgedFinite
<1>6. E = D \cup {last} /\ last \notin D
  <2>1. 1..last = 1..Len(vs) \cup {last}
    BY <1>2
  <2> QED
    BY <1>2, <1>4, <1>5, <2>1 DEF Judged
<1>7. PICK old : old = <<name>> \o left
  OBVIOUS
<1>8. Len(left) \in Nat /\ Len(old) = Len(left) + 1 /\ old[1] = name
      /\ \A k \in 1..Len(left) : old[k + 1] = left[k]
  BY <1>7
<1>9. /\ Len(given) = n + Len(old)
      /\ \A i \in D : vs[i].name = given[Rank(names, vs, i)]
      /\ \A k \in 1..Len(old) : old[k] = given[n + k]
  BY <1>7 DEF InOrder
<1> HIDE DEF D, E, n, last
<1>10. Cardinality(E) = n + 1
  BY <1>5, <1>6, FS_AddElement DEF n
<1>11. Rank(names, w, last) = n + 1
  <2>1. \A j \in E : j <= last
    BY <1>2, <1>5, <1>6 DEF last
  <2>2. {j \in E : j <= last} = E
    BY <2>1
  <2> QED
    BY <1>10, <2>2 DEF Rank, E
<1>12. ASSUME NEW i \in D
       PROVE  w[i] = vs[i] /\ Rank(names, w, i) = Rank(names, vs, i)
  <2>1. {j \in E : j <= i} = {j \in D : j <= i}
    BY <1>2, <1>5, <1>6 DEF last
  <2> QED
    BY <1>4, <1>5, <2>1 DEF Rank, E, D
<1>13. given[n + 1] = name
  <2>1. 1 \in 1..Len(old)
    BY <1>8
  <2> QED
    BY <1>8, <1>9, <2>1
<1>14. \A i \in E : w[i].name = given[Rank(names, w, i)]
  <2> SUFFICES ASSUME NEW i \in E
               PROVE  w[i].name = given[Rank(names, w, i)]
    OBVIOUS
  <2>1. CASE i = last
    BY <1>4, <1>11, <1>13, <2>1
  <2>2. CASE i \in D
    BY <1>9, <1>12, <2>2
  <2> QED
    BY <1>6, <2>1, <2>2
<1>15. \A k \in 1..Len(left) : left[k] = given[(n + 1) + k]
  <2> SUFFICES ASSUME NEW k \in 1..Len(left)
               PROVE  left[k] = given[(n + 1) + k]
    OBVIOUS
  <2>1. k + 1 \in 1..Len(old) /\ n + (k + 1) = (n + 1) + k
    BY <1>5, <1>8
  <2>2. old[k + 1] = given[n + (k + 1)] /\ old[k + 1] = left[k]
    BY <1>8, <1>9, <2>1
  <2> QED
    BY <2>1, <2>2
<1>16. Len(given) = (n + 1) + Len(left)
  BY <1>5, <1>8, <1>9
<1>17. \E M : given \in Seq(M) /\ left \in Seq(M)
  <2>1. PICK M : given \in Seq(M)
    BY DEF InOrder
  <2>2. given \in Seq(M \cup N) /\ left \in Seq(M \cup N)
    BY <2>1
  <2> QED
    BY <2>2
<1>18. InOrder(given, names, w, left)
  BY <1>4, <1>10, <1>14, <1>15, <1>16, <1>17 DEF InOrder, E
<1> QED
  BY <1>3, <1>18

-----------------------------------------------------------------------------
(* The files of a run, in the order in which they are judged.              *)

NamesOf(files) == [k \in 1..Len(files) |-> files[k].name]

Named == {f.name : f \in Files}

(* No directory has the name of a file, nor does a buffer that is no more. *)
NamesDiffer ==
  /\ \A a \in Args : a.kind = "directory" => a.name \notin Named
  /\ Dangling \notin Named

FilesTo(n) == FlattenSeq([i \in 1..n |-> run.args[i].files])
Opened ==
  IF run.args # <<>> THEN FilesTo(argi) ELSE IF argi = 0 THEN <<>> ELSE <<run.stdin>>
Current ==
  IF pc \in {"fill", "score", "close"} /\ inputfile \in FileNames THEN <<inputfile>> ELSE <<>>

Ledger == InOrder(NamesOf(Opened), FileNames, verdicts, Current \o NamesOf(entries))

Filing ==
  /\ "QUITNOW" \notin cmd
  /\ argi <= IF run.args = <<>> THEN 1 ELSE Len(run.args)
  /\ in_dir => argi # 0 /\ run.args # <<>> /\ run.args[argi].kind = "directory"
  /\ pc = "entry" => in_dir
  /\ pc \in {"next", "done"} => ~in_dir
  /\ pc = "done" => argi = IF run.args = <<>> THEN 1 ELSE Len(run.args)
  /\ pc \in {"fill", "score"} => inputfile \in FileNames
  /\ ~in_dir => entries = <<>>
  /\ \A k \in 1..Len(entries) : entries[k].name \in FileNames

Undisturbed == run.mode = "multifile" /\ raised = 0 /\ pc \notin {"exited", "crashed"}
JudgeInv == Undisturbed => Filing /\ Ledger

LEMMA NamesAppended ==
  ASSUME NEW s \in Seq(Files), NEW t \in Seq(Files)
  PROVE  /\ NamesOf(s) \in Seq(Named)
         /\ NamesOf(s \o t) = NamesOf(s) \o NamesOf(t)
<1>1. \A i \in 1..Len(s) : s[i].name \in Named
  BY DEF Named
<1>2. \A i \in 1..Len(t) : t[i].name \in Named
  BY DEF Named
<1>3. NamesOf(s) \in Seq(Named) /\ Len(NamesOf(s)) = Len(s)
      /\ \A i \in 1..Len(s) : NamesOf(s)[i] = s[i].name
  BY <1>1 DEF NamesOf
<1>4. NamesOf(t) \in Seq(Named) /\ Len(NamesOf(t)) = Len(t)
      /\ \A i \in 1..Len(t) : NamesOf(t)[i] = t[i].name
  BY <1>2 DEF NamesOf
<1>5. PICK u : u = s \o t
  OBVIOUS
<1>6. u \in Seq(Files) /\ Len(u) = Len(s) + Len(t)
      /\ \A i \in 1..Len(s) + Len(t) : u[i] = IF i <= Len(s) THEN s[i] ELSE t[i - Len(s)]
  BY <1>5
<1>7. \A i \in 1..Len(u) : u[i].name \in Named
  BY <1>6 DEF Named
<1>8. NamesOf(u) \in Seq(Named) /\ Len(NamesOf(u)) = Len(u)
      /\ \A i \in 1..Len(u) : NamesOf(u)[i] = u[i].name
  BY <1>6, <1>7 DEF NamesOf
<1>9. PICK v : v = NamesOf(s) \o NamesOf(t)
  OBVIOUS
<1>10. v \in Seq(Named) /\ Len(v) = Len(s) + Len(t)
       /\ \A i \in 1..Len(s) + Len(t) :
            v[i] = IF i <= Len(s) THEN NamesOf(s)[i] ELSE NamesOf(t)[i - Len(s)]
  <2>1. PICK a : a = NamesOf(s)
    OBVIOUS
  <2>2. PICK b : b = NamesOf(t)
    OBVIOUS
  <2>3. a \in Seq(Named) /\ Len(a) = Len(s) /\ b \in Seq(Named) /\ Len(b) = Len(t)
    BY <1>3, <1>4, <2>1, <2>2
  <2>4. a \o b \in Seq(Named) /\ Len(a \o b) = Len(a) + Len(b)
        /\ \A i \in 1..Len(a) + Len(b) :
             (a \o b)[i] = IF i <= Len(a) THEN a[i] ELSE b[i - Len(a)]
    BY <2>3
  <2> QED
    BY <1>9, <2>1, <2>2, <2>3, <2>4, Zenon
<1>11. \A i \in 1..Len(s) + Len(t) : NamesOf(u)[i] = v[i]
  <2> SUFFICES ASSUME NEW i \in 1..Len(s) + Len(t)
               PROVE  NamesOf(u)[i] = v[i]
    OBVIOUS
  <2>1. Len(s) \in Nat /\ Len(t) \in Nat
    OBVIOUS
  <2>2. CASE i <= Len(s)
    <3>1. i \in 1..Len(s)
      BY <2>1, <2>2
    <3> QED
      BY <1>3, <1>6, <1>8, <1>10, <2>2, <3>1
  <2>3. CASE ~(i <= Len(s))
    <3>1. i - Len(s) \in 1..Len(t)
      BY <2>1, <2>3
    <3> QED
      BY <1>4, <1>6, <1>8, <1>10, <2>3, <3>1
  <2> QED
    BY <2>2, <2>3
<1>12. NamesOf(u) = v
  <2>1. Len(NamesOf(u)) = Len(v) /\ Len(v) = Len(s) + Len(t)
    BY <1>6, <1>8, <1>10
  <2> QED
    BY <1>8, <1>10, <1>11, <2>1
<1> QED
  BY <1>3, <1>5, <1>9, <1>12

(* The files of one more argument. *)
LEMMA ArgumentOpened ==
  ASSUME TypeOK, NEW n \in Nat, n + 1 <= Len(run.args)
  PROVE  /\ FilesTo(n) \in Seq(Files)
         /\ run.args[n + 1].files \in Seq(Files)
         /\ FilesTo(n + 1) = FilesTo(n) \o run.args[n + 1].files
<1>1. run.args \in Seq(Args)
  BY ClassifierAssumption DEF TypeOK
<1>2. \A i \in 1..Len(run.args) : run.args[i].files \in Seq(Files)
  BY <1>1, ClassifierAssumption
<1>3. PICK s : s = [i \in 1..n |-> run.args[i].files]
  OBVIOUS
<1>4. PICK t : t = [i \in 1..n + 1 |-> run.args[i].files]
  OBVIOUS
<1>5. Len(run.args) \in Nat
  BY <1>1
<1>6. \A i \in 1..n + 1 : i \in 1..Len(run.args)
  BY <1>5
<1>7. s \in Seq(Seq(Files)) /\ Len(s) = n
  <2>1. \A i \in 1..n : run.args[i].files \in Seq(Files)
    BY <1>2, <1>6
  <2> QED
    BY <1>3, <2>1
<1>8. t \in Seq(Seq(Files)) /\ Len(t) = n + 1
  <2>1. \A i \in 1..n + 1 : run.args[i].files \in Seq(Files)
    BY <1>2, <1>6
  <2> QED
    BY <1>4, <2>1
<1>9. \A i \in 1..Len(s) : t[i] = s[i]
  BY <1>3, <1>4, <1>7
<1>10. Len(t) = Len(s) + 1
  BY <1>7, <1>8
<1>11. FlattenSeq(t) = FlattenSeq(s) \o t[Len(t)]
  BY <1>7, <1>8, <1>9, <1>10, FlattenAppend
<1>12. t[Len(t)] = run.args[n + 1].files
  BY <1>4, <1>8
<1>13. FlattenSeq(s) \in Seq(Files)
  BY <1>7, FlattenType
<1>14. FilesTo(n) = FlattenSeq(s) /\ FilesTo(n + 1) = FlattenSeq(t)
  BY <1>3, <1>4, Zenon DEF FilesTo
<1>15. run.args[n + 1].files \in Seq(Files)
  BY <1>2, <1>6
<1> QED
  BY <1>11, <1>12, <1>13, <1>14, <1>15

LEMMA NamesOfArgument ==
  ASSUME TypeOK, NEW i \in 1..Len(run.args), NEW k \in 1..Len(run.args[i].files)
  PROVE  run.args[i].files[k].name \in FileNames
<1>1. run.args # <<>>
  <2>1. run.args \in Seq(Args)
    BY ClassifierAssumption DEF TypeOK
  <2> QED
    BY <2>1
<1>2. run.args[i].files \in Seq(Files)
  <2>1. run.args \in Seq(Args)
    BY ClassifierAssumption DEF TypeOK
  <2> QED
    BY <2>1, ClassifierAssumption
<1>3. run.args[i].files[k] \in Range(run.args[i].files)
  BY <1>2 DEF Range
<1> QED
  BY <1>1, <1>3 DEF FileNames

LEMMA FileNamesNamed == ASSUME TypeOK PROVE FileNames \subseteq Named
<1>1. run.args \in Seq(Args) /\ run.stdin \in {r.stdin : r \in Inputs}
  BY ClassifierAssumption DEF TypeOK
<1>2. run.stdin \in Files
  BY <1>1, Zenon DEF Files
<1>3. ASSUME NEW i \in 1..Len(run.args), NEW f \in Range(run.args[i].files)
      PROVE  f \in Files
  <2>1. run.args[i].files \in Seq(Files)
    BY <1>1, ClassifierAssumption
  <2> QED
    BY <1>3, <2>1 DEF Range
<1> QED
  BY <1>2, <1>3 DEF FileNames, Named

-----------------------------------------------------------------------------
(* What each step does to the files and verdicts.                          *)

LEMMA NoNames == NamesOf(<<>>) = <<>>
BY DEF NamesOf

LEMMA OneName == ASSUME NEW f PROVE NamesOf(<<f>>) = <<f.name>>
<1>1. PICK s : s = <<f>>
  OBVIOUS
<1>2. Len(s) = 1 /\ s[1] = f
  BY <1>1
<1>3. NamesOf(s) = [k \in 1..1 |-> s[k].name]
  BY <1>2 DEF NamesOf
<1>4. [k \in 1..1 |-> s[k].name] = <<f.name>>
  BY <1>2
<1> QED
  BY <1>1, <1>3, <1>4

LEMMA OnlyOne == ASSUME NEW S, NEW s \in Seq(S), Len(s) = 1 PROVE s = <<s[1]>>
OBVIOUS

LEMMA LedgerKept ==
  ASSUME run' = run, argi' = argi, entries' = entries, verdicts' = verdicts,
         Current' = Current, Ledger
  PROVE  Ledger'
<1>1. Opened' = Opened
  BY DEF Opened, FilesTo
<1>2. FileNames' = FileNames
  BY DEF FileNames
<1>3. NamesOf(Opened)' = NamesOf(Opened) /\ NamesOf(entries)' = NamesOf(entries)
  BY <1>1
<1>4. (Current \o NamesOf(entries))' = Current \o NamesOf(entries)
  BY <1>3
<1> QED
  BY <1>2, <1>3, <1>4 DEF Ledger

(* Reading and scoring. *)
LEMMA ReadingFiles ==
  ASSUME Filing, Ledger, run' = run, UNCHANGED where, verdicts' = verdicts,
         "QUITNOW" \notin cmd', pc \in {"fill", "score"}, pc' \in {"fill", "score", "close"}
  PROVE  Filing' /\ Ledger'
<1>1. Current' = Current
  BY DEF Current, FileNames, where
<1>2. FileNames' = FileNames
  BY DEF FileNames
<1> QED
  BY <1>1, <1>2, LedgerKept DEF Filing, where

(* Nothing is left to judge when the next argument is opened. *)
LEMMA NothingLeft ==
  ASSUME Filing, pc \in {"next", "entry"}
  PROVE  /\ Current = <<>>
         /\ pc = "next" => entries = <<>> /\ Current \o NamesOf(entries) = <<>>
<1>1. Current = <<>>
  BY DEF Current
<1>2. pc = "next" => entries = <<>>
  BY DEF Filing
<1>3. <<>> \o <<>> = <<>>
  OBVIOUS
<1>4. entries = <<>> => NamesOf(entries) = <<>>
  BY NoNames
<1> QED
  BY <1>1, <1>2, <1>3, <1>4

LEMMA OpenedType ==
  ASSUME TypeOK, Filing
  PROVE  Opened \in Seq(Files)
<1>1. run.args \in Seq(Args) /\ run.stdin \in {r.stdin : r \in Inputs} /\ argi \in Nat
  BY ClassifierAssumption DEF TypeOK
<1>2. run.stdin \in Files
  BY <1>1, Zenon DEF Files
<1>3. CASE run.args = <<>>
  BY <1>2, <1>3 DEF Opened
<1>4. CASE run.args # <<>>
  <2>1. argi <= Len(run.args) /\ Opened = FilesTo(argi)
    BY <1>4 DEF Filing, Opened
  <2>2. PICK s : s = [i \in 1..argi |-> run.args[i].files]
    OBVIOUS
  <2>3. \A i \in 1..argi : run.args[i].files \in Seq(Files)
    <3> SUFFICES ASSUME NEW i \in 1..argi
                 PROVE  run.args[i].files \in Seq(Files)
      OBVIOUS
    <3>1. i \in 1..Len(run.args)
      BY <1>1, <2>1
    <3>2. run.args[i] \in Args
      BY <1>1, <3>1
    <3> QED
      BY <3>2, ClassifierAssumption
  <2>4. s \in Seq(Seq(Files))
    BY <1>1, <2>2, <2>3
  <2>5. FlattenSeq(s) \in Seq(Files)
    BY <2>4, FlattenType
  <2> QED
    BY <2>1, <2>2, <2>5, Zenon DEF FilesTo
<1> QED
  BY <1>3, <1>4

(* The files of an argument, or standard input, are to be judged next. *)
LEMMA LedgerOpened ==
  ASSUME TypeOK, Filing, Ledger, pc = "next", NEW more \in Seq(Files), run' = run,
         verdicts' = verdicts, Opened' = Opened \o more,
         Current' \o NamesOf(entries') = NamesOf(more)
  PROVE  Ledger'
<1>1. Opened \in Seq(Files)
  BY OpenedType
<1>2. NamesOf(more) \in Seq(Named) /\ NamesOf(Opened \o more) = NamesOf(Opened) \o NamesOf(more)
  BY <1>1, NamesAppended
<1>3. InOrder(NamesOf(Opened), FileNames, verdicts, <<>>)
  BY NothingLeft DEF Ledger
<1>4. InOrder(NamesOf(Opened) \o NamesOf(more), FileNames, verdicts, <<>> \o NamesOf(more))
  <2>1. PICK g : g = NamesOf(Opened)
    OBVIOUS
  <2>2. PICK v : v = verdicts
    OBVIOUS
  <2>3. PICK fn : fn = FileNames
    OBVIOUS
  <2>4. PICK m : m = NamesOf(more)
    OBVIOUS
  <2>5. InOrder(g \o m, fn, v, <<>> \o m)
    <3>1. m \in Seq(Named) /\ InOrder(g, fn, v, <<>>)
      BY <1>2, <1>3, <2>1, <2>2, <2>3, <2>4
    <3> QED
      BY <3>1, MoreGiven
  <2> QED
    BY <2>1, <2>2, <2>3, <2>4, <2>5
<1>5. <<>> \o NamesOf(more) = NamesOf(more)
  BY <1>2
<1>6. FileNames' = FileNames
  BY DEF FileNames
<1>7. NamesOf(Opened') = NamesOf(Opened) \o NamesOf(more)
  BY <1>2
<1>8. InOrder(NamesOf(Opened'), FileNames', verdicts', Current' \o NamesOf(entries'))
  BY <1>4, <1>5, <1>6, <1>7
<1> QED
  BY <1>8 DEF Ledger

LEMMA FilesOpened ==
  ASSUME TypeOK, Filing, Ledger, OpenFile \/ OpenDirectory
  PROVE  Filing' /\ Ledger'
<1>1. /\ pc = "next" /\ argi < Len(run.args) /\ argi' = argi + 1 /\ run' = run
      /\ verdicts' = verdicts /\ cmd' = cmd
  BY DEF OpenFile, OpenDirectory, HasArg, Untouched
<1>2. run.args \in Seq(Args) /\ argi \in Nat
  BY ClassifierAssumption DEF TypeOK
<1>3. run.args # <<>> /\ argi + 1 \in 1..Len(run.args) /\ Len(run.args) \in Nat
  BY <1>1, <1>2
<1>4. /\ FilesTo(argi) \in Seq(Files) /\ NextArg.files \in Seq(Files)
      /\ FilesTo(argi + 1) = FilesTo(argi) \o NextArg.files
  <2>1. PICK n \in Nat : n = argi
    BY <1>2
  <2>2. n + 1 <= Len(run.args)
    BY <1>1, <1>3, <2>1
  <2>3. /\ FilesTo(n) \in Seq(Files) /\ run.args[n + 1].files \in Seq(Files)
        /\ FilesTo(n + 1) = FilesTo(n) \o run.args[n + 1].files
    BY <2>2, ArgumentOpened
  <2> QED
    BY <2>1, <2>3 DEF NextArg
<1>5. Opened = FilesTo(argi) /\ Opened' = FilesTo(argi + 1)
  BY <1>1, <1>2, <1>3 DEF Opened, FilesTo
<1>6. Opened' = Opened \o NextArg.files
  BY <1>4, <1>5
<1>7. \A k \in 1..Len(NextArg.files) : NextArg.files[k].name \in FileNames
  BY <1>3, NamesOfArgument DEF NextArg
<1>8. FileNames' = FileNames
  BY <1>1 DEF FileNames
<1>9. NextArg \in Args
  BY <1>2, <1>3 DEF NextArg
<1>10. entries = <<>> /\ ~in_dir /\ "QUITNOW" \notin cmd
  BY <1>1, NothingLeft DEF Filing
<1>11. argi' <= IF run'.args = <<>> THEN 1 ELSE Len(run'.args)
  BY <1>1, <1>2, <1>3
<1>12. CASE OpenFile
  <2>1. Len(NextArg.files) = 1
    BY <1>9, <1>12, ClassifierAssumption DEF OpenFile
  <2>2. PICK f : f = NextArg.files[1]
    OBVIOUS
  <2>3. NextArg.files = <<f>>
    BY <1>4, <2>1, <2>2, OnlyOne
  <2>4. inputfile' = f.name /\ pc' = "fill" /\ entries' = entries /\ in_dir' = in_dir
    BY <1>12, <2>2 DEF OpenFile, StartFile
  <2>5. f.name \in FileNames
    BY <1>7, <2>1, <2>2
  <2>6. Current' = <<f.name>>
    BY <1>8, <2>4, <2>5 DEF Current
  <2>7. Current' \o NamesOf(entries') = NamesOf(NextArg.files)
    <3>1. NamesOf(entries') = <<>> /\ NamesOf(NextArg.files) = <<f.name>>
      BY <1>10, <2>3, <2>4, NoNames, OneName
    <3>2. <<f.name>> \o <<>> = <<f.name>>
      OBVIOUS
    <3> QED
      BY <2>6, <3>1, <3>2
  <2>8. Ledger'
    <3>1. PICK more \in Seq(Files) : more = NextArg.files
      BY <1>4
    <3>2. Opened' = Opened \o more /\ Current' \o NamesOf(entries') = NamesOf(more)
      BY <1>6, <2>7, <3>1
    <3> QED
      BY <1>1, <3>2, LedgerOpened
  <2>9. Filing'
    BY <1>1, <1>8, <1>10, <1>11, <2>4, <2>5 DEF Filing
  <2> QED
    BY <2>8, <2>9
<1>13. CASE OpenDirectory
  <2>1. pc' = "entry" /\ in_dir' = TRUE /\ entries' = NextArg.files /\ NextArg.kind = "directory"
    BY <1>13 DEF OpenDirectory
  <2>2. Current' \o NamesOf(entries') = NamesOf(NextArg.files)
    <3>1. Current' = <<>>
      BY <2>1 DEF Current
    <3>2. NamesOf(NextArg.files) \in Seq(Named)
      BY <1>4, NamesAppended
    <3>3. <<>> \o NamesOf(NextArg.files) = NamesOf(NextArg.files)
      BY <3>2
    <3> QED
      BY <2>1, <3>1, <3>3
  <2>3. Ledger'
    <3>1. PICK more \in Seq(Files) : more = NextArg.files
      BY <1>4
    <3>2. Opened' = Opened \o more /\ Current' \o NamesOf(entries') = NamesOf(more)
      BY <1>6, <2>2, <3>1
    <3> QED
      BY <1>1, <3>2, LedgerOpened
  <2>4. argi' # 0 /\ run'.args # <<>> /\ run'.args[argi'].kind = "directory"
    BY <1>1, <1>2, <1>3, <2>1 DEF NextArg
  <2>5. \A k \in 1..Len(entries') : entries'[k].name \in FileNames'
    BY <1>7, <1>8, <2>1
  <2>6. Filing'
    BY <1>1, <1>10, <1>11, <2>1, <2>4, <2>5 DEF Filing
  <2> QED
    BY <2>3, <2>6
<1> QED
  BY <1>12, <1>13

LEMMA StdinOpened ==
  ASSUME TypeOK, Filing, Ledger, OpenStdin
  PROVE  Filing' /\ Ledger'
<1>1. /\ pc = "next" /\ run.args = <<>> /\ argi = 0 /\ argi' = 1 /\ run' = run
      /\ verdicts' = verdicts /\ cmd' = cmd /\ entries' = entries /\ in_dir' = in_dir
      /\ inputfile' = run.stdin.name /\ pc' = "fill"
  BY DEF OpenStdin, StartFile, Untouched
<1>2. run.stdin \in Files
  <2>1. run.stdin \in {r.stdin : r \in Inputs}
    BY DEF TypeOK
  <2> QED
    BY <2>1, Zenon DEF Files
<1>3. run.stdin.name \in FileNames /\ FileNames' = FileNames
  BY <1>1 DEF FileNames
<1>4. PICK f \in Files : f = run.stdin
  BY <1>2
<1>5. Opened' = Opened \o <<f>>
  <2>1. Opened = <<>> /\ Opened' = <<f>>
    BY <1>1, <1>4 DEF Opened
  <2>2. <<>> \o <<f>> = <<f>>
    OBVIOUS
  <2> QED
    BY <2>1, <2>2
<1>6. entries = <<>> /\ ~in_dir /\ "QUITNOW" \notin cmd
  BY <1>1, NothingLeft DEF Filing
<1>7. Current' \o NamesOf(entries') = NamesOf(<<f>>)
  <2>1. Current' = <<f.name>>
    BY <1>1, <1>3, <1>4 DEF Current
  <2>2. NamesOf(entries') = <<>> /\ NamesOf(<<f>>) = <<f.name>>
    BY <1>1, <1>6, NoNames, OneName
  <2>3. <<f.name>> \o <<>> = <<f.name>>
    OBVIOUS
  <2> QED
    BY <2>1, <2>2, <2>3
<1>8. Ledger'
  <2>1. <<f>> \in Seq(Files)
    OBVIOUS
  <2> QED
    BY <1>1, <1>5, <1>7, <2>1, LedgerOpened
<1>9. Filing'
  BY <1>1, <1>3, <1>6 DEF Filing
<1> QED
  BY <1>8, <1>9

LEMMA EntryOpened ==
  ASSUME TypeOK, Filing, Ledger, NextEntry
  PROVE  Filing' /\ Ledger'
<1>1. /\ pc = "entry" /\ entries # <<>> /\ entries' = Tail(entries) /\ run' = run
      /\ argi' = argi /\ in_dir' = in_dir /\ verdicts' = verdicts /\ cmd' = cmd
      /\ inputfile' = Head(entries).name /\ pc' = "fill"
  BY DEF NextEntry, StartFile, Untouched
<1>2. FileNames' = FileNames /\ Opened' = Opened
  BY <1>1 DEF FileNames, Opened, FilesTo
<1>3. PICK e \in Seq(Files) : e = entries
  BY DEF TypeOK
<1>4. PICK f \in Files : f = Head(e)
  BY <1>1, <1>3
<1>5. PICK r \in Seq(Files) : r = Tail(e)
  BY <1>1, <1>3
<1>6. e = <<f>> \o r /\ Len(e) = Len(r) + 1 /\ e[1] = f
      /\ \A k \in 1..Len(r) : r[k] = e[k + 1]
  BY <1>1, <1>3, <1>4, <1>5
<1>7. \A k \in 1..Len(e) : e[k].name \in FileNames
  BY <1>3 DEF Filing
<1>8. f.name \in FileNames /\ \A k \in 1..Len(r) : r[k].name \in FileNames
  <2>1. Len(r) \in Nat
    OBVIOUS
  <2>2. 1 \in 1..Len(e) /\ \A k \in 1..Len(r) : k + 1 \in 1..Len(e)
    BY <1>6, <2>1
  <2> QED
    BY <1>6, <1>7, <2>2
<1>9. NamesOf(e) = <<f.name>> \o NamesOf(r)
  <2>1. <<f>> \in Seq(Files)
    OBVIOUS
  <2>2. NamesOf(<<f>> \o r) = NamesOf(<<f>>) \o NamesOf(r)
    BY <2>1, NamesAppended
  <2> QED
    BY <1>6, <2>2, OneName
<1>10. Current \o NamesOf(entries) = NamesOf(e)
  <2>1. Current = <<>>
    BY <1>1, NothingLeft
  <2>2. NamesOf(e) \in Seq(Named)
    BY NamesAppended
  <2>3. <<>> \o NamesOf(e) = NamesOf(e)
    BY <2>2
  <2> QED
    BY <1>3, <2>1, <2>3
<1>11. Current' \o NamesOf(entries') = NamesOf(e)
  <2>1. Current' = <<f.name>>
    BY <1>1, <1>2, <1>3, <1>4, <1>8 DEF Current
  <2> QED
    BY <1>1, <1>3, <1>5, <1>9, <2>1
<1>12. Ledger'
  <2>1. InOrder(NamesOf(Opened'), FileNames', verdicts', Current' \o NamesOf(entries'))
    BY <1>1, <1>2, <1>10, <1>11 DEF Ledger
  <2> QED
    BY <2>1 DEF Ledger
<1>13. Filing'
  <2>1. \A k \in 1..Len(entries') : entries'[k].name \in FileNames'
    BY <1>1, <1>2, <1>3, <1>5, <1>8
  <2>2. inputfile' \in FileNames' /\ in_dir
    BY <1>1, <1>2, <1>3, <1>4, <1>8 DEF Filing
  <2> QED
    BY <1>1, <2>1, <2>2 DEF Filing
<1> QED
  BY <1>12, <1>13

LEMMA DirectoryLeft ==
  ASSUME NamesDiffer, TypeOK, Filing, Ledger, LeaveDirectory
  PROVE  Filing' /\ Ledger'
<1>1. /\ pc = "entry" /\ entries = <<>> /\ entries' = entries /\ run' = run
      /\ argi' = argi /\ in_dir' = FALSE /\ verdicts' = verdicts /\ cmd' = cmd
      /\ inputfile' \in {run.args[argi].name, Dangling} /\ pc' = "close"
  BY DEF LeaveDirectory, Untouched
<1>2. run.args[argi] \in Args /\ run.args[argi].kind = "directory"
  <2>1. /\ argi # 0 /\ run.args # <<>> /\ argi <= Len(run.args)
        /\ run.args[argi].kind = "directory"
    BY <1>1 DEF Filing
  <2>2. run.args \in Seq(Args) /\ argi \in Nat
    BY ClassifierAssumption DEF TypeOK
  <2>3. argi \in 1..Len(run.args)
    BY <2>1, <2>2
  <2> QED
    BY <2>1, <2>2, <2>3
<1>3. inputfile' \notin FileNames
  BY <1>1, <1>2, FileNamesNamed DEF NamesDiffer
<1>4. FileNames' = FileNames
  BY <1>1 DEF FileNames
<1>5. Current' = Current
  BY <1>1, <1>3, <1>4 DEF Current
<1>6. Ledger'
  BY <1>1, <1>5, LedgerKept
<1>7. Filing'
  BY <1>1, <1>4 DEF Filing
<1> QED
  BY <1>6, <1>7

LEMMA FileJudged ==
  ASSUME TypeOK, Filing, Ledger, run.mode = "multifile", CloseFile, pc' # "crashed"
  PROVE  Filing' /\ Ledger'
<1>1. /\ pc = "close" /\ pc' = (IF in_dir THEN "entry" ELSE "next") /\ run' = run
      /\ UNCHANGED where /\ cmd' = cmd /\ verdicts' = Append(verdicts, Verdict(inputfile))
  BY DEF CloseFile, file_score_categories, score_categories
<1>2. FileNames' = FileNames /\ Opened' = Opened /\ entries' = entries
  BY <1>1 DEF FileNames, Opened, FilesTo, where
<1>3. Filing'
  BY <1>1, <1>2 DEF Filing, where
<1>4. PICK v : v = Verdict(inputfile)
  OBVIOUS
<1>5. v.name = inputfile
  BY <1>4 DEF Verdict
<1>6. PICK e \in Seq(Named) : e = NamesOf(entries)
  <2>1. PICK s \in Seq(Files) : s = entries
    BY DEF TypeOK
  <2> QED
    BY <2>1, NamesAppended
<1>7. PICK g : g = NamesOf(Opened)
  OBVIOUS
<1>8. PICK fn : fn = FileNames
  OBVIOUS
<1>9. PICK vs : vs = verdicts
  OBVIOUS
<1>10. Current' = <<>>
  BY <1>1 DEF Current
<1>11. <<>> \o e = e
  BY <1>6
<1>12. InOrder(g, fn, Append(vs, v), e)
  <2>1. CASE inputfile \in FileNames
    <3>1. Current = <<inputfile>>
      BY <1>1, <2>1 DEF Current
    <3>2. PICK n \in Named : n = inputfile
      BY <2>1, FileNamesNamed
    <3>3. InOrder(g, fn, vs, <<n>> \o e)
      BY <1>6, <1>7, <1>8, <1>9, <3>1, <3>2 DEF Ledger
    <3>4. v.name = n /\ n \in fn
      BY <1>5, <1>8, <2>1, <3>2
    <3> QED
      BY <3>3, <3>4, NextVerdict
  <2>2. CASE inputfile \notin FileNames
    <3>1. Current = <<>>
      BY <2>2 DEF Current
    <3>2. InOrder(g, fn, vs, e)
      BY <1>6, <1>7, <1>8, <1>9, <1>11, <3>1 DEF Ledger
    <3>3. v.name \notin fn
      BY <1>5, <1>8, <2>2
    <3> QED
      BY <3>2, <3>3, OtherVerdict
  <2> QED
    BY <2>1, <2>2
<1>13. Ledger'
  <2>1. verdicts' = Append(vs, v)
    BY <1>1, <1>4, <1>9
  <2>2. Current' \o NamesOf(entries') = e
    BY <1>2, <1>6, <1>10, <1>11
  <2>3. InOrder(NamesOf(Opened'), FileNames', verdicts', Current' \o NamesOf(entries'))
    BY <1>2, <1>7, <1>8, <1>12, <2>1, <2>2
  <2> QED
    BY <2>3 DEF Ledger
<1> QED
  BY <1>3, <1>13

LEMMA RunFinished ==
  ASSUME TypeOK, Filing, Ledger, run.mode = "multifile", Finish
  PROVE  Filing' /\ Ledger'
<1>1. /\ pc = "next" /\ ~HasArg /\ argi > 0 /\ pc' = "done" /\ run' = run
      /\ UNCHANGED where /\ cmd' = cmd /\ verdicts' = verdicts
  BY DEF Finish
<1>2. FileNames' = FileNames
  BY <1>1 DEF FileNames
<1>3. Current' = Current
  BY <1>1 DEF Current
<1>4. Ledger'
  BY <1>1, <1>3, LedgerKept DEF where
<1>5. argi = IF run.args = <<>> THEN 1 ELSE Len(run.args)
  <2>1. argi \in Nat /\ run.args \in Seq(Args)
    BY ClassifierAssumption DEF TypeOK
  <2>2. argi <= IF run.args = <<>> THEN 1 ELSE Len(run.args)
    BY DEF Filing
  <2>3. ~(argi < Len(run.args))
    BY <1>1 DEF HasArg, Filing
  <2> QED
    BY <1>1, <2>1, <2>2, <2>3
<1>6. Filing'
  BY <1>1, <1>2, <1>5 DEF Filing, where
<1> QED
  BY <1>4, <1>6

LEMMA JudgeInit == Init => JudgeInv
<1> SUFFICES ASSUME Init PROVE JudgeInv
  OBVIOUS
<1>1. /\ run \in Inputs /\ pc = "next" /\ argi = 0 /\ entries = <<>> /\ in_dir = FALSE
      /\ verdicts = <<>> /\ cmd = {}
  BY DEF Init
<1>2. run.args \in Seq(Args)
  BY <1>1, ClassifierAssumption
<1>3. Filing
  BY <1>1, <1>2 DEF Filing
<1>4. Current = <<>>
  BY <1>1 DEF Current
<1>5. Opened = <<>>
  <2>1. CASE run.args = <<>>
    BY <1>1, <2>1 DEF Opened
  <2>2. CASE run.args # <<>>
    <3>1. PICK s : s = [i \in 1..0 |-> run.args[i].files]
      OBVIOUS
    <3>2. s = <<>>
      BY <3>1
    <3>3. FlattenSeq(s) = <<>>
      BY <3>2, FlattenNone
    <3>4. FilesTo(0) = FlattenSeq(s)
      BY <3>1, Zenon DEF FilesTo
    <3> QED
      BY <1>1, <2>2, <3>3, <3>4 DEF Opened
  <2> QED
    BY <2>1, <2>2
<1>6. Current \o NamesOf(entries) = <<>>
  <2>1. <<>> \o <<>> = <<>>
    OBVIOUS
  <2> QED
    BY <1>1, <1>4, <2>1, NoNames
<1>7. NamesOf(Opened) = <<>>
  BY <1>5, NoNames
<1>8. \A fn : InOrder(<<>>, fn, <<>>, <<>>)
  <2> SUFFICES ASSUME NEW fn
               PROVE  InOrder(<<>>, fn, <<>>, <<>>)
    OBVIOUS
  <2>1. Judged(fn, <<>>) = {}
    BY DEF Judged
  <2>2. Cardinality(Judged(fn, <<>>)) = 0
    BY <2>1, FS_EmptySet
  <2>3. <<>> \in Seq({}) /\ Len(<<>>) = 0
    OBVIOUS
  <2> QED
    BY <2>1, <2>2, <2>3 DEF InOrder
<1>9. Ledger
  BY <1>1, <1>6, <1>7, <1>8 DEF Ledger
<1> QED
  BY <1>3, <1>9 DEF JudgeInv

LEMMA JudgeStep ==
  ASSUME NamesDiffer
  PROVE  TypeOK /\ SignalInv /\ JudgeInv /\ [Next]_vars => JudgeInv'
<1> SUFFICES ASSUME TypeOK, SignalInv, JudgeInv, [Next]_vars, Undisturbed'
             PROVE  Filing' /\ Ledger'
  BY DEF JudgeInv
<1>1. run' = run /\ run.mode = "multifile" /\ raised' = 0 /\ raised = 0
      /\ pc' \notin {"exited", "crashed"}
  BY WhoScores, SignalStep DEF Undisturbed
<1>2. sa_signal = NoSignal
  BY <1>1 DEF SignalInv
<1>3. pc \notin {"exited", "crashed"} => Filing /\ Ledger
  BY <1>1 DEF JudgeInv, Undisturbed
<1>4. CASE UNCHANGED <<pc, where, verdicts, cmd>>
  <2>1. Filing /\ Ledger
    BY <1>1, <1>3, <1>4
  <2>2. FileNames' = FileNames
    BY <1>1 DEF FileNames
  <2>3. Current' = Current
    BY <1>4, <2>2 DEF Current, where
  <2>4. Ledger'
    BY <1>1, <1>4, <2>1, <2>3, LedgerKept DEF where
  <2>5. Filing'
    BY <1>1, <1>4, <2>1, <2>2 DEF Filing, where
  <2> QED
    BY <2>4, <2>5
<1>5. CASE OpenFile \/ OpenDirectory
  <2>1. Filing /\ Ledger
    BY <1>3, <1>5 DEF OpenFile, OpenDirectory, HasArg
  <2> QED
    BY <1>5, <2>1, FilesOpened
<1>6. CASE OpenStdin
  <2>1. Filing /\ Ledger
    BY <1>3, <1>6 DEF OpenStdin
  <2> QED
    BY <1>6, <2>1, StdinOpened
<1>7. CASE NextEntry
  <2>1. Filing /\ Ledger
    BY <1>3, <1>7 DEF NextEntry
  <2> QED
    BY <1>7, <2>1, EntryOpened
<1>8. CASE LeaveDirectory
  <2>1. Filing /\ Ledger
    BY <1>3, <1>8 DEF LeaveDirectory
  <2> QED
    BY <1>8, <2>1, DirectoryLeft
<1>9. CASE ReadLine \/ ReadExtraLine \/ EndOfFile
  <2>1. pc = "fill"
    BY <1>9 DEF ReadLine, ReadExtraLine, EndOfFile, Reading
  <2>2. Filing /\ Ledger
    BY <1>3, <2>1
  <2>3. UNCHANGED where /\ verdicts' = verdicts
    BY <1>9 DEF ReadLine, ReadExtraLine, EndOfFile, Rest
  <2>4. "QUITNOW" \notin cmd'
    <3>1. "QUITNOW" \notin cmd
      BY <2>2 DEF Filing
    <3>2. CASE ReadLine
      BY <3>1, <3>2 DEF ReadLine
    <3>3. CASE ReadExtraLine \/ EndOfFile
      BY <3>1, <3>3 DEF ReadExtraLine, EndOfFile
    <3> QED
      BY <1>9, <3>2, <3>3
  <2>5. pc' \in {"fill", "score", "close"}
    <3>1. CASE ReadLine \/ ReadExtraLine
      BY <3>1 DEF ReadLine, ReadExtraLine, handle_indents_and_appends
    <3>2. CASE EndOfFile
      BY <3>2 DEF EndOfFile
    <3> QED
      BY <1>9, <3>1, <3>2
  <2> QED
    BY <1>1, <2>1, <2>2, <2>3, <2>4, <2>5, ReadingFiles
<1>10. CASE OpenFails \/ ExitOnSignal
  BY <1>1, <1>10 DEF OpenFails, ExitOnSignal
<1>11. CASE ReadClosed
  BY <1>2, <1>11 DEF ReadClosed, Terminating, NoSignal
<1>12. CASE ScoreWord
  <2>1. UNCHANGED <<pc, where, verdicts, cmd>>
    BY <1>12 DEF ScoreWord
  <2> QED
    BY <1>4, <2>1
<1>13. CASE EndLine
  <2>1. pc = "score"
    BY <1>13 DEF EndLine
  <2>2. Filing /\ Ledger
    BY <1>3, <2>1
  <2>3. UNCHANGED where /\ verdicts' = verdicts
    BY <1>1, <1>13 DEF EndLine
  <2>4. pc' = "fill" /\ "QUITNOW" \notin cmd'
    <3>1. "QUITNOW" \notin cmd
      BY <2>2 DEF Filing
    <3>2. "RELOAD_CATS" \notin cmd
      BY <1>1 DEF SignalInv
    <3> QED
      BY <1>13, <3>1, <3>2 DEF EndLine
  <2> QED
    BY <1>1, <2>1, <2>2, <2>3, <2>4, ReadingFiles
<1>14. CASE CloseFile
  <2>1. Filing /\ Ledger
    BY <1>3, <1>14 DEF CloseFile
  <2> QED
    BY <1>1, <1>14, <2>1, FileJudged
<1>15. CASE Finish
  <2>1. Filing /\ Ledger
    BY <1>3, <1>15 DEF Finish
  <2> QED
    BY <1>1, <1>15, <2>1, RunFinished
<1>16. CASE \E sig \in Signals : Raise(sig)
  <2>1. raised' = raised + 1
    BY <1>16 DEF Raise
  <2> QED
    BY <1>1, <2>1
<1>17. CASE \E c \in Cats : Relearn(c)
  <2>1. UNCHANGED <<pc, where, verdicts, cmd>>
    BY <1>17 DEF Relearn
  <2> QED
    BY <1>4, <2>1
<1>18. CASE UNCHANGED vars
  <2>1. UNCHANGED <<pc, where, verdicts, cmd>>
    BY <1>18 DEF vars
  <2> QED
    BY <1>4, <2>1
<1> QED
  BY <1>5, <1>6, <1>7, <1>8, <1>9, <1>10, <1>11, <1>12, <1>13, <1>14, <1>15, <1>16, <1>17,
     <1>18 DEF Next, Program

(* When all files are opened and none is left, each has its verdict. *)
LEMMA JudgeInvImplies == TypeOK /\ JudgeInv => EachFileJudged
<1> SUFFICES ASSUME TypeOK, JudgeInv, pc = "done", raised = 0, run.mode = "multifile"
             PROVE  /\ Cardinality(OfFiles) = Len(AllFiles)
                    /\ \A i \in OfFiles : verdicts[i].name =
                         AllFiles[Cardinality({j \in OfFiles : j <= i})].name
  BY DEF EachFileJudged
<1>1. Filing /\ Ledger
  BY DEF JudgeInv, Undisturbed
<1>2. argi = IF run.args = <<>> THEN 1 ELSE Len(run.args)
  BY <1>1 DEF Filing
<1>3. Opened = AllFiles
  <2>1. CASE run.args = <<>>
    BY <1>2, <2>1 DEF Opened, AllFiles
  <2>2. CASE run.args # <<>>
    BY <1>2, <2>2 DEF Opened, AllFiles, FilesTo
  <2> QED
    BY <2>1, <2>2
<1>4. OfFiles = Judged(FileNames, verdicts)
  BY DEF OfFiles, Judged
<1>5. entries = <<>> /\ Current = <<>>
  BY <1>1 DEF Filing, Current
<1>6. Current \o NamesOf(entries) = <<>>
  <2>1. <<>> \o <<>> = <<>>
    OBVIOUS
  <2> QED
    BY <1>5, <2>1, NoNames
<1>7. InOrder(NamesOf(AllFiles), FileNames, verdicts, <<>>)
  BY <1>1, <1>3, <1>6 DEF Ledger
<1>8. PICK a \in Seq(Files) : a = AllFiles
  BY <1>1, <1>3, OpenedType
<1>9. Len(NamesOf(a)) = Len(a) /\ \A k \in 1..Len(a) : NamesOf(a)[k] = a[k].name
  BY DEF NamesOf
<1>10. PICK V : verdicts \in Seq(V)
  BY <1>7 DEF InOrder
<1>11. Cardinality(OfFiles) \in Nat
  BY <1>4, <1>10, JudgedFinite
<1>12. Cardinality(OfFiles) = Len(a)
  <2>1. Len(<<>>) = 0
    OBVIOUS
  <2>2. Len(NamesOf(a)) = Cardinality(OfFiles) + Len(<<>>)
    BY <1>4, <1>7, <1>8 DEF InOrder
  <2> QED
    BY <1>9, <1>11, <2>1, <2>2
<1>13. ASSUME NEW i \in OfFiles
       PROVE  verdicts[i].name = a[Cardinality({j \in OfFiles : j <= i})].name
  <2>1. Rank(FileNames, verdicts, i) \in 1..Len(a)
    <3>1. PICK vs \in Seq(V) : vs = verdicts
      BY <1>10
    <3>2. i \in Judged(FileNames, vs)
      BY <1>4, <3>1
    <3>3. PICK fn : fn = FileNames
      OBVIOUS
    <3>4. Rank(fn, vs, i) \in 1..Cardinality(Judged(fn, vs))
      BY <3>2, <3>3, RankInRange
    <3> QED
      BY <1>4, <1>12, <3>1, <3>3, <3>4
  <2>2. verdicts[i].name = NamesOf(a)[Rank(FileNames, verdicts, i)]
    BY <1>4, <1>7, <1>8 DEF InOrder
  <2>3. Rank(FileNames, verdicts, i) = Cardinality({j \in OfFiles : j <= i})
    BY <1>4 DEF Rank
  <2> QED
    BY <1>9, <2>1, <2>2, <2>3
<1> QED
  BY <1>8, <1>12, <1>13

(* A run with -F that no signal disturbs judges each of its files once and  *)
(* in the order given, however many arguments, directories and lines there *)
(* are, provided that no directory has the name of a file (dbacl.c:4738,   *)
(* fh.c:541).                                                              *)
THEOREM EveryFileJudged == NamesDiffer /\ Spec => []EachFileJudged
<1>1. CASE NamesDiffer
  <2>1. Init => JudgeInv /\ SignalInv
    BY JudgeInit DEF Init, SignalInv
  <2>2. TypeOK /\ SignalInv /\ JudgeInv /\ [Next]_vars => JudgeInv'
    BY <1>1, JudgeStep
  <2>3. SignalInv /\ [Next]_vars => SignalInv'
    BY SignalStep
  <2> QED
    BY <2>1, <2>2, <2>3, JudgeInvImplies, TypeCorrect, PTL DEF Spec
<1>2. CASE ~NamesDiffer
  BY <1>2
<1> QED
  BY <1>1, <1>2

-----------------------------------------------------------------------------
(* Sequences taken apart at their ends.                                    *)

LEMMA SplitAtEnd ==
  ASSUME NEW T, NEW s \in Seq(T), s # <<>>
  PROVE  \E r \in Seq(T), x \in T : s = Append(r, x) /\ Len(s) = Len(r) + 1
<1>1. Len(s) \in Nat \ {0} /\ \A i \in 1..Len(s) : s[i] \in T
  BY EmptySeq, ElementOfSeq
<1>2. PICK n \in Nat : Len(s) = n + 1
  BY <1>1
<1>3. PICK r : r = [i \in 1..n |-> s[i]]
  OBVIOUS
<1>4. r \in Seq(T) /\ Len(r) = n /\ \A i \in 1..n : r[i] = s[i]
  BY <1>1, <1>2, <1>3
<1>5. PICK x \in T : x = s[n + 1]
  BY <1>1, <1>2
<1>6. PICK w : w = Append(r, x)
  OBVIOUS
<1>7. w \in Seq(T) /\ Len(w) = n + 1 /\ (\A i \in 1..n : w[i] = r[i]) /\ w[n + 1] = x
  BY <1>4, <1>6, AppendProperties
<1>8. \A i \in 1..Len(s) : s[i] = w[i]
  BY <1>2, <1>4, <1>5, <1>7
<1>9. s = w
  BY <1>2, <1>7, <1>8, SeqEqual
<1> QED
  BY <1>2, <1>4, <1>6, <1>9

LEMMA SplitAtHead ==
  ASSUME NEW T, NEW s \in Seq(T), s # <<>>
  PROVE  Head(s) \in T /\ Tail(s) \in Seq(T) /\ s = <<Head(s)>> \o Tail(s)
OBVIOUS

LEMMA ConcatAppend ==
  ASSUME NEW T, NEW s \in Seq(T), NEW r \in Seq(T), NEW x \in T
  PROVE  s \o Append(r, x) = Append(s \o r, x)
<1>1. <<x>> \in Seq(T) /\ s \o r \in Seq(T)
  BY ConcatProperties
<1>2. Append(r, x) = r \o <<x>>
  BY AppendIsConcat
<1>3. Append(s \o r, x) = (s \o r) \o <<x>>
  BY <1>1, AppendIsConcat
<1>4. (s \o r) \o <<x>> = s \o (r \o <<x>>)
  BY <1>1, ConcatAssociative
<1> QED
  BY <1>2, <1>3, <1>4

(* The next one of the tokens that are left. *)
LEMMA ShiftOne ==
  ASSUME NEW T, NEW p \in Seq(T), NEW s \in Seq(T), s # <<>>
  PROVE  p \o s = Append(p, Head(s)) \o Tail(s)
<1>1. PICK x \in T : x = Head(s)
  BY SplitAtHead
<1>2. PICK r \in Seq(T) : r = Tail(s)
  BY SplitAtHead
<1>3. s = <<x>> \o r /\ <<x>> \in Seq(T)
  BY <1>1, <1>2, SplitAtHead
<1>4. Append(p, x) = p \o <<x>>
  BY AppendIsConcat
<1>5. (p \o <<x>>) \o r = p \o (<<x>> \o r)
  BY <1>3, ConcatAssociative
<1> QED
  BY <1>1, <1>2, <1>3, <1>4, <1>5

(* A sequence given by its two parts. *)
LEMMA ConcatGiven ==
  ASSUME NEW T, NEW a \in Seq(T), NEW b \in Seq(T), NEW c \in Seq(T), Len(c) = Len(a) + Len(b),
         \A i \in 1..Len(a) : c[i] = a[i],
         \A j \in 1..Len(b) : c[Len(a) + j] = b[j]
  PROVE  c = a \o b
<1>1. PICK w : w = a \o b
  OBVIOUS
<1>2. Len(a) \in Nat /\ Len(b) \in Nat
  OBVIOUS
<1>3. w \in Seq(T) /\ Len(w) = Len(a) + Len(b)
      /\ \A i \in 1..Len(a) + Len(b) : w[i] = IF i <= Len(a) THEN a[i] ELSE b[i - Len(a)]
  BY <1>1, ConcatProperties
<1>4. ASSUME NEW i \in 1..Len(c)
      PROVE  c[i] = w[i]
  <2>1. CASE i <= Len(a)
    BY <1>2, <1>3, <2>1
  <2>2. CASE ~(i <= Len(a))
    <3>1. PICK j \in 1..Len(b) : i = Len(a) + j
      <4>1. i - Len(a) \in 1..Len(b) /\ i = Len(a) + (i - Len(a))
        BY <1>2, <2>2
      <4> QED
        BY <4>1
    <3>2. w[i] = b[j]
      <4>1. i - Len(a) = j /\ i \in 1..Len(a) + Len(b)
        BY <1>2, <3>1
      <4> QED
        BY <1>3, <2>2, <4>1
    <3> QED
      BY <3>1, <3>2
  <2> QED
    BY <2>1, <2>2
<1>5. c = w
  BY <1>3, <1>4, SeqEqual
<1> QED
  BY <1>1, <1>5

LEMMA FlattenAppended ==
  ASSUME NEW S, NEW s \in Seq(Seq(S)), NEW x \in Seq(S)
  PROVE  FlattenSeq(Append(s, x)) = FlattenSeq(s) \o x
<1>1. PICK w : w = Append(s, x)
  OBVIOUS
<1>2. w \in Seq(Seq(S)) /\ Len(w) = Len(s) + 1 /\ (\A i \in 1..Len(s) : w[i] = s[i])
      /\ w[Len(s) + 1] = x
  BY <1>1, AppendProperties
<1>3. FlattenSeq(w) = FlattenSeq(s) \o w[Len(w)]
  BY <1>2, FlattenAppend
<1> QED
  BY <1>1, <1>2, <1>3

LEMMA FlattenConcat ==
  ASSUME NEW S, NEW s \in Seq(Seq(S)), NEW t \in Seq(Seq(S))
  PROVE  FlattenSeq(s \o t) = FlattenSeq(s) \o FlattenSeq(t)
<1> DEFINE Bad(u) == FlattenSeq(s \o u) # FlattenSeq(s) \o FlattenSeq(u)
           B == {n \in Nat : \E u \in Seq(Seq(S)) : Len(u) = n /\ Bad(u)}
<1> SUFFICES ASSUME Bad(t)
             PROVE  FALSE
  OBVIOUS
<1>1. Len(t) \in B
  OBVIOUS
<1>2. PICK n \in B : \A m \in B : ~(m < n)
  <2>1. B \subseteq Nat /\ B # {}
    BY <1>1
  <2> HIDE DEF B
  <2> QED
    BY <2>1, SmallestOfNat
<1>3. PICK u \in Seq(Seq(S)) : Len(u) = n /\ Bad(u)
  OBVIOUS
<1>4. FlattenSeq(s) \in Seq(S)
  BY FlattenType
<1>5. u # <<>>
  <2>1. s \o <<>> = s
    BY ConcatEmptySeq
  <2>2. FlattenSeq(s) \o <<>> = FlattenSeq(s)
    BY <1>4, ConcatEmptySeq
  <2>3. ~Bad(<<>>)
    BY <2>1, <2>2, FlattenNone
  <2> QED
    BY <1>3, <2>3
<1>6. PICK r \in Seq(Seq(S)), x \in Seq(S) : u = Append(r, x) /\ Len(u) = Len(r) + 1
  BY <1>5, SplitAtEnd
<1>7. ~Bad(r)
  <2>1. Len(r) \in Nat /\ Len(r) < n
    BY <1>3, <1>6
  <2>2. Len(r) \notin B
    BY <1>2, <2>1
  <2> QED
    BY <2>1, <2>2
<1>8. s \o r \in Seq(Seq(S))
  BY ConcatProperties
<1>9. FlattenSeq(r) \in Seq(S)
  BY FlattenType
<1> HIDE DEF Bad, B
<1>10. s \o u = Append(s \o r, x)
  <2>1. s \o Append(r, x) = Append(s \o r, x)
    BY ConcatAppend
  <2> QED
    BY <1>6, <2>1
<1>11. FlattenSeq(s \o u) = FlattenSeq(s \o r) \o x
  BY <1>8, <1>10, FlattenAppended
<1>12. FlattenSeq(u) = FlattenSeq(r) \o x
  BY <1>6, FlattenAppended
<1>13. (FlattenSeq(s) \o FlattenSeq(r)) \o x = FlattenSeq(s) \o (FlattenSeq(r) \o x)
  <2>1. PICK f \in Seq(S) : f = FlattenSeq(s)
    BY <1>4
  <2>2. PICK g \in Seq(S) : g = FlattenSeq(r)
    BY <1>9
  <2>3. (f \o g) \o x = f \o (g \o x)
    BY ConcatAssociative
  <2> QED
    BY <2>1, <2>2, <2>3
<1>14. FlattenSeq(s \o u) = FlattenSeq(s) \o FlattenSeq(u)
  BY <1>7, <1>11, <1>12, <1>13 DEF Bad
<1> QED
  BY <1>3, <1>14 DEF Bad

-----------------------------------------------------------------------------
(* Members picked from a sequence.                                         *)

IsPicked(g, s, S, n) ==
  g = [m \in 0..n |-> IF m = 0 THEN <<>>
                      ELSE IF m \in S THEN Append(g[m - 1], s[m]) ELSE g[m - 1]]

LEMMA PickedExtends ==
  ASSUME NEW s, NEW S, NEW n \in Nat, NEW g, IsPicked(g, s, S, n)
  PROVE  \E h : IsPicked(h, s, S, n + 1)
<1> DEFINE new == IF n + 1 \in S THEN Append(g[n], s[n + 1]) ELSE g[n]
           h == [m \in 0..n + 1 |-> IF m = n + 1 THEN new ELSE g[m]]
<1>1. \A m \in 0..n : g[m] = IF m = 0 THEN <<>>
                             ELSE IF m \in S THEN Append(g[m - 1], s[m]) ELSE g[m - 1]
  BY DEF IsPicked
<1>2. \A m \in 0..n + 1 : h[m] = IF m = 0 THEN <<>>
                                 ELSE IF m \in S THEN Append(h[m - 1], s[m]) ELSE h[m - 1]
  <2> SUFFICES ASSUME NEW m \in 0..n + 1
               PROVE  h[m] = IF m = 0 THEN <<>>
                             ELSE IF m \in S THEN Append(h[m - 1], s[m]) ELSE h[m - 1]
    OBVIOUS
  <2>1. CASE m = n + 1
    <3>1. h[m] = new /\ h[m - 1] = g[n] /\ m # 0
      BY <2>1
    <3> QED
      BY <2>1, <3>1
  <2>2. CASE m \in 0..n
    <3>1. h[m] = g[m]
      BY <2>2
    <3>2. m # 0 => h[m - 1] = g[m - 1]
      BY <2>2
    <3> QED
      BY <1>1, <2>2, <3>1, <3>2
  <2> QED
    BY <2>1, <2>2
<1>3. h = [m \in 0..n + 1 |-> h[m]]
  OBVIOUS
<1> HIDE DEF h
<1>4. h = [m \in 0..n + 1 |-> IF m = 0 THEN <<>>
                              ELSE IF m \in S THEN Append(h[m - 1], s[m]) ELSE h[m - 1]]
  BY <1>2, <1>3
<1> QED
  BY <1>4 DEF IsPicked

LEMMA PickedExists ==
  ASSUME NEW s, NEW S, NEW n \in Nat
  PROVE  \E g : IsPicked(g, s, S, n)
<1> DEFINE B == {m \in Nat : ~\E g : IsPicked(g, s, S, m)}
<1> SUFFICES ASSUME B # {}
             PROVE  FALSE
  OBVIOUS
<1>1. PICK m \in B : \A y \in B : ~(y < m)
  <2>1. B \subseteq Nat
    OBVIOUS
  <2> HIDE DEF B
  <2> QED
    BY <2>1, SmallestOfNat
<1>2. m # 0
  <2>1. PICK g : g = [i \in 0..0 |-> <<>>]
    OBVIOUS
  <2>2. IsPicked(g, s, S, 0)
    BY <2>1 DEF IsPicked
  <2> QED
    BY <2>2
<1>3. m - 1 \in Nat
  BY <1>2
<1>4. PICK g : IsPicked(g, s, S, m - 1)
  BY <1>1, <1>3
<1>5. \E h : IsPicked(h, s, S, (m - 1) + 1)
  BY <1>3, <1>4, PickedExtends
<1> QED
  BY <1>3, <1>5

LEMMA PicksAgree ==
  ASSUME NEW s, NEW S, NEW u, NEW U, NEW n \in Nat, NEW m \in Nat, NEW g, IsPicked(g, s, S, n),
         NEW h, IsPicked(h, u, U, m), NEW k \in 0..n, k <= m,
         \A i \in 1..k : s[i] = u[i] /\ (i \in S <=> i \in U)
  PROVE  g[k] = h[k]
<1> DEFINE B == {i \in 0..k : g[i] # h[i]}
<1> SUFFICES ASSUME B # {}
             PROVE  FALSE
  OBVIOUS
<1>1. PICK i \in B : \A j \in B : ~(j < i)
  <2>1. B \subseteq Nat
    OBVIOUS
  <2> HIDE DEF B
  <2> QED
    BY <2>1, SmallestOfNat
<1>2. g[i] = IF i = 0 THEN <<>> ELSE IF i \in S THEN Append(g[i - 1], s[i]) ELSE g[i - 1]
  <2>1. i \in 0..n
    OBVIOUS
  <2> QED
    BY <2>1 DEF IsPicked
<1>3. h[i] = IF i = 0 THEN <<>> ELSE IF i \in U THEN Append(h[i - 1], u[i]) ELSE h[i - 1]
  <2>1. i \in 0..m
    OBVIOUS
  <2> QED
    BY <2>1 DEF IsPicked
<1>4. i # 0
  BY <1>2, <1>3
<1>5. s[i] = u[i] /\ (i \in S <=> i \in U)
  BY <1>4
<1>6. g[i - 1] = h[i - 1]
  BY <1>1, <1>4
<1> QED
  BY <1>2, <1>3, <1>4, <1>5, <1>6

LEMMA PickedIs ==
  ASSUME NEW T, NEW s \in Seq(T), NEW S
  PROVE  \E g : IsPicked(g, s, S, Len(s)) /\ Picked(s, S) = g[Len(s)]
<1> DEFINE n == Len(s)
           f == CHOOSE g : IsPicked(g, s, S, n)
<1>1. n \in Nat
  OBVIOUS
<1>2. IsPicked(f, s, S, n)
  BY <1>1, PickedExists
<1>3. Picked(s, S) = f[n]
  BY Zenon DEF Picked, IsPicked
<1> HIDE DEF f
<1> QED
  BY <1>2, <1>3

LEMMA PickedNone == ASSUME NEW S PROVE Picked(<<>>, S) = <<>>
<1>1. <<>> \in Seq({}) /\ Len(<<>>) = 0
  OBVIOUS
<1>2. PICK g : IsPicked(g, <<>>, S, 0) /\ Picked(<<>>, S) = g[0]
  BY <1>1, PickedIs
<1> QED
  BY <1>2 DEF IsPicked

LEMMA PickedOneMore ==
  ASSUME NEW T, NEW s \in Seq(T), NEW x \in T, NEW S, NEW U,
         \A i \in 1..Len(s) : i \in S <=> i \in U
  PROVE  Picked(Append(s, x), U) =
           IF Len(s) + 1 \in U THEN Append(Picked(s, S), x) ELSE Picked(s, S)
<1>1. PICK w : w = Append(s, x)
  OBVIOUS
<1>2. w \in Seq(T) /\ Len(w) = Len(s) + 1 /\ (\A i \in 1..Len(s) : w[i] = s[i])
      /\ w[Len(s) + 1] = x
  BY <1>1, AppendProperties
<1>3. PICK g : IsPicked(g, s, S, Len(s)) /\ Picked(s, S) = g[Len(s)]
  BY PickedIs
<1>4. PICK h : IsPicked(h, w, U, Len(w)) /\ Picked(w, U) = h[Len(w)]
  BY <1>2, PickedIs
<1>5. PICK n \in Nat : n = Len(s)
  OBVIOUS
<1>6. g[n] = h[n]
  <2>1. n \in 0..n /\ n <= n + 1 /\ n + 1 \in Nat
    OBVIOUS
  <2>2. \A i \in 1..n : s[i] = w[i] /\ (i \in S <=> i \in U)
    BY <1>2, <1>5
  <2>3. IsPicked(g, s, S, n) /\ IsPicked(h, w, U, n + 1)
    BY <1>2, <1>3, <1>4, <1>5
  <2> QED
    BY <2>1, <2>2, <2>3, PicksAgree
<1>7. h[n + 1] = IF n + 1 \in U THEN Append(h[n], w[n + 1]) ELSE h[n]
  <2>1. n + 1 \in 0..n + 1 /\ n + 1 # 0 /\ (n + 1) - 1 = n
    OBVIOUS
  <2>2. IsPicked(h, w, U, n + 1)
    BY <1>2, <1>4, <1>5
  <2> QED
    BY <2>1, <2>2 DEF IsPicked
<1> QED
  BY <1>1, <1>2, <1>3, <1>4, <1>5, <1>6, <1>7

LEMMA PickedType ==
  ASSUME NEW T, NEW s \in Seq(T), NEW S
  PROVE  Picked(s, S) \in Seq(T)
<1> DEFINE B == {n \in Nat : \E u \in Seq(T) : Len(u) = n /\ Picked(u, S) \notin Seq(T)}
<1> SUFFICES ASSUME Picked(s, S) \notin Seq(T)
             PROVE  FALSE
  OBVIOUS
<1>1. Len(s) \in B
  OBVIOUS
<1>2. PICK n \in B : \A m \in B : ~(m < n)
  <2>1. B \subseteq Nat /\ B # {}
    BY <1>1
  <2> HIDE DEF B
  <2> QED
    BY <2>1, SmallestOfNat
<1>3. PICK u \in Seq(T) : Len(u) = n /\ Picked(u, S) \notin Seq(T)
  OBVIOUS
<1>4. u # <<>>
  <2>1. <<>> \in Seq(T)
    OBVIOUS
  <2> QED
    BY <1>3, <2>1, PickedNone
<1>5. PICK r \in Seq(T), x \in T : u = Append(r, x) /\ Len(u) = Len(r) + 1
  BY <1>4, SplitAtEnd
<1>6. Picked(r, S) \in Seq(T)
  <2>1. Len(r) \in Nat /\ Len(r) < n
    BY <1>3, <1>5
  <2>2. Len(r) \notin B
    BY <1>2, <2>1
  <2> QED
    BY <2>1, <2>2
<1> HIDE DEF B
<1>7. Picked(u, S) \in {Append(Picked(r, S), x), Picked(r, S)}
  <2>1. Picked(Append(r, x), S) =
          IF Len(r) + 1 \in S THEN Append(Picked(r, S), x) ELSE Picked(r, S)
    BY PickedOneMore
  <2> QED
    BY <1>5, <2>1
<1>8. Append(Picked(r, S), x) \in Seq(T)
  BY <1>6, AppendProperties
<1> QED
  BY <1>3, <1>6, <1>7, <1>8

-----------------------------------------------------------------------------
(* The tokens that a category scores.                                      *)

LEMMA ChosenNone == ASSUME NEW v PROVE Chosen(<<>>, v) = <<>>
BY PickedNone DEF Chosen

LEMMA ChosenType ==
  ASSUME NEW s \in Seq(Tokens), NEW v
  PROVE  Chosen(s, v) \in Seq(Tokens)
BY PickedType DEF Chosen

LEMMA ChosenOneMore ==
  ASSUME NEW s \in Seq(Tokens), NEW t \in Tokens, NEW v
  PROVE  Chosen(Append(s, t), v) = IF Applies(v, t) THEN Append(Chosen(s, v), t) ELSE Chosen(s, v)
<1>1. PICK w : w = Append(s, t)
  OBVIOUS
<1>2. w \in Seq(Tokens) /\ Len(w) = Len(s) + 1 /\ (\A i \in 1..Len(s) : w[i] = s[i])
      /\ w[Len(s) + 1] = t
  BY <1>1, AppendProperties
<1>3. PICK S : S = {i \in 1..Len(s) : Applies(v, s[i])}
  OBVIOUS
<1>4. PICK U : U = {i \in 1..Len(w) : Applies(v, w[i])}
  OBVIOUS
<1>5. Len(s) \in Nat
  OBVIOUS
<1>6. \A i \in 1..Len(s) : i \in S <=> i \in U
  BY <1>2, <1>3, <1>4, <1>5
<1>7. Len(s) + 1 \in U <=> Applies(v, t)
  BY <1>2, <1>4, <1>5
<1>8. Picked(Append(s, t), U) = IF Len(s) + 1 \in U THEN Append(Picked(s, S), t) ELSE Picked(s, S)
  BY <1>6, PickedOneMore
<1>9. Chosen(w, v) = Picked(w, U) /\ Chosen(s, v) = Picked(s, S)
  BY <1>3, <1>4 DEF Chosen
<1> QED
  BY <1>1, <1>7, <1>8, <1>9

LEMMA ChosenConcat ==
  ASSUME NEW s \in Seq(Tokens), NEW r \in Seq(Tokens), NEW v
  PROVE  Chosen(s \o r, v) = Chosen(s, v) \o Chosen(r, v)
<1> DEFINE Bad(u) == Chosen(s \o u, v) # Chosen(s, v) \o Chosen(u, v)
           B == {n \in Nat : \E u \in Seq(Tokens) : Len(u) = n /\ Bad(u)}
<1> SUFFICES ASSUME Bad(r)
             PROVE  FALSE
  OBVIOUS
<1>1. Len(r) \in B
  OBVIOUS
<1>2. PICK n \in B : \A m \in B : ~(m < n)
  <2>1. B \subseteq Nat /\ B # {}
    BY <1>1
  <2> HIDE DEF B
  <2> QED
    BY <2>1, SmallestOfNat
<1>3. PICK u \in Seq(Tokens) : Len(u) = n /\ Bad(u)
  OBVIOUS
<1>4. Chosen(s, v) \in Seq(Tokens)
  BY ChosenType
<1>5. u # <<>>
  <2>1. s \o <<>> = s
    BY ConcatEmptySeq
  <2>2. Chosen(s, v) \o <<>> = Chosen(s, v)
    BY <1>4, ConcatEmptySeq
  <2>3. ~Bad(<<>>)
    BY <2>1, <2>2, ChosenNone
  <2> QED
    BY <1>3, <2>3
<1>6. PICK q \in Seq(Tokens), t \in Tokens : u = Append(q, t) /\ Len(u) = Len(q) + 1
  BY <1>5, SplitAtEnd
<1>7. ~Bad(q)
  <2>1. Len(q) \in Nat /\ Len(q) < n
    BY <1>3, <1>6
  <2>2. Len(q) \notin B
    BY <1>2, <2>1
  <2> QED
    BY <2>1, <2>2
<1> HIDE DEF Bad, B
<1>8. s \o q \in Seq(Tokens)
  BY ConcatProperties
<1>9. Chosen(q, v) \in Seq(Tokens)
  BY ChosenType
<1>10. s \o u = Append(s \o q, t)
  <2>1. s \o Append(q, t) = Append(s \o q, t)
    BY ConcatAppend
  <2> QED
    BY <1>6, <2>1
<1>11. Chosen(s \o u, v) = IF Applies(v, t) THEN Append(Chosen(s \o q, v), t) ELSE Chosen(s \o q, v)
  <2>1. PICK w \in Seq(Tokens) : w = s \o q
    BY <1>8
  <2>2. Chosen(Append(w, t), v) = IF Applies(v, t) THEN Append(Chosen(w, v), t) ELSE Chosen(w, v)
    BY ChosenOneMore
  <2> QED
    BY <1>10, <2>1, <2>2
<1>12. Chosen(u, v) = IF Applies(v, t) THEN Append(Chosen(q, v), t) ELSE Chosen(q, v)
  <2>1. Chosen(Append(q, t), v) = IF Applies(v, t) THEN Append(Chosen(q, v), t) ELSE Chosen(q, v)
    BY ChosenOneMore
  <2> QED
    BY <1>6, <2>1
<1>13. Chosen(s \o q, v) = Chosen(s, v) \o Chosen(q, v)
  BY <1>7 DEF Bad
<1>14. Chosen(s, v) \o Append(Chosen(q, v), t) = Append(Chosen(s, v) \o Chosen(q, v), t)
  BY <1>4, <1>9, ConcatAppend
<1>15. Chosen(s \o u, v) = Chosen(s, v) \o Chosen(u, v)
  BY <1>11, <1>12, <1>13, <1>14
<1> QED
  BY <1>3, <1>15 DEF Bad

-----------------------------------------------------------------------------
(* The tokens that there is room for.                                      *)

IdAt(p, i) == Token[p[i]].id
IsFirst(p, i, j) ==
  j \in 1..i /\ IdAt(p, j) = IdAt(p, i) /\ \A k \in 1..j - 1 : IdAt(p, k) # IdAt(p, i)

LEMMA FirstExists ==
  ASSUME NEW p, NEW i \in Nat \ {0}
  PROVE  IsFirst(p, i, First(p, i))
<1> DEFINE B == {j \in 1..i : IdAt(p, j) = IdAt(p, i)}
<1>1. i \in B /\ B \subseteq Nat
  OBVIOUS
<1>2. PICK j \in B : \A k \in B : ~(k < j)
  <2> HIDE DEF B
  <2> QED
    BY <1>1, SmallestOfNat
<1>3. j \in 1..i /\ IdAt(p, j) = IdAt(p, i)
  OBVIOUS
<1>4. \A k \in 1..j - 1 : k \in 1..i /\ k < j
  BY <1>3
<1>5. IsFirst(p, i, j)
  BY <1>2, <1>3, <1>4 DEF IsFirst
<1>6. First(p, i) = CHOOSE m \in 1..i : IsFirst(p, i, m)
  BY DEF First, IsFirst, IdAt
<1> QED
  BY <1>3, <1>5, <1>6

LEMMA OneFirst ==
  ASSUME NEW p, NEW i \in Nat \ {0}, NEW j, IsFirst(p, i, j)
  PROVE  First(p, i) = j
<1>1. PICK m : m = First(p, i)
  OBVIOUS
<1>2. IsFirst(p, i, m)
  BY <1>1, FirstExists
<1>3. m \in 1..i /\ j \in 1..i
  BY <1>2 DEF IsFirst
<1>4. ~(m < j) /\ ~(j < m)
  <2>1. m < j => m \in 1..j - 1
    BY <1>3
  <2>2. j < m => j \in 1..m - 1
    BY <1>3
  <2> QED
    BY <1>2, <2>1, <2>2 DEF IsFirst
<1> QED
  BY <1>1, <1>3, <1>4

(* Whether a token has its place is settled by the text up to it. *)
LEMMA SamePlace ==
  ASSUME NEW p \in Seq(Tokens), NEW w \in Seq(Tokens), NEW i \in 1..Len(p), NEW j \in 1..Len(w),
         Len(p) <= Len(w), \A k \in 1..Len(p) : w[k] = p[k], IdAt(w, j) = IdAt(p, i)
  PROVE  HasPlace(w, j) <=> HasPlace(p, i)
<1>1. PICK m : m = First(p, i)
  OBVIOUS
<1>2. Len(p) \in Nat /\ Len(w) \in Nat /\ i \in Nat \ {0} /\ j \in Nat \ {0}
  OBVIOUS
<1>3. IsFirst(p, i, m)
  BY <1>1, <1>2, FirstExists
<1>4. m \in 1..i /\ m \in 1..Len(p)
  BY <1>2, <1>3 DEF IsFirst
<1>5. \A k \in 1..Len(p) : IdAt(w, k) = IdAt(p, k)
  BY DEF IdAt
<1>6. IsFirst(w, j, m)
  <2>1. \A k \in 1..m - 1 : IdAt(w, k) # IdAt(w, j)
    <3> SUFFICES ASSUME NEW k \in 1..m - 1
                 PROVE  IdAt(w, k) # IdAt(w, j)
      OBVIOUS
    <3>1. k \in 1..Len(p)
      BY <1>2, <1>4
    <3> QED
      BY <1>3, <1>5, <3>1 DEF IsFirst
  <2>2. IdAt(w, m) = IdAt(w, j)
    BY <1>3, <1>4, <1>5 DEF IsFirst
  <2>3. m <= j
    <3> SUFFICES ASSUME ~(m <= j)
                 PROVE  FALSE
      OBVIOUS
    <3>1. j \in 1..m - 1
      BY <1>2, <1>4
    <3> QED
      BY <2>1, <3>1
  <2> QED
    BY <1>2, <1>4, <2>1, <2>2, <2>3 DEF IsFirst
<1>7. First(w, j) = m
  BY <1>2, <1>6, OneFirst
<1>8. SubSeq(w, 1, m) = SubSeq(p, 1, m)
  <2>1. \A k \in 1..m : p[k] \in Tokens /\ w[k] \in Tokens /\ w[k] = p[k]
    BY <1>2, <1>4
  <2>2. PICK a : a = SubSeq(p, 1, m)
    OBVIOUS
  <2>3. PICK b : b = SubSeq(w, 1, m)
    OBVIOUS
  <2>4. a \in Seq(Tokens) /\ Len(a) = m /\ \A k \in 1..m : a[k] = p[k]
    BY <1>4, <2>1, <2>2, SubSeqProperties
  <2>5. b \in Seq(Tokens) /\ Len(b) = m /\ \A k \in 1..m : b[k] = w[k]
    BY <1>4, <2>1, <2>3, SubSeqProperties
  <2>6. a = b
    BY <2>1, <2>4, <2>5, SeqEqual
  <2> QED
    BY <2>2, <2>3, <2>6
<1> QED
  BY <1>1, <1>7, <1>8 DEF HasPlace

LEMMA AdmittedNone == Admitted(<<>>) = <<>>
BY PickedNone DEF Admitted

LEMMA AdmittedType ==
  ASSUME NEW p \in Seq(Tokens)
  PROVE  Admitted(p) \in Seq(Tokens)
BY PickedType DEF Admitted

LEMMA AdmittedOneMore ==
  ASSUME NEW p \in Seq(Tokens), NEW t \in Tokens
  PROVE  Admitted(Append(p, t)) = IF HasPlace(Append(p, t), Len(p) + 1)
                                  THEN Append(Admitted(p), t) ELSE Admitted(p)
<1>1. PICK w : w = Append(p, t)
  OBVIOUS
<1>2. w \in Seq(Tokens) /\ Len(w) = Len(p) + 1 /\ (\A i \in 1..Len(p) : w[i] = p[i])
      /\ w[Len(p) + 1] = t
  BY <1>1, AppendProperties
<1>3. PICK S : S = {i \in 1..Len(p) : HasPlace(p, i)}
  OBVIOUS
<1>4. PICK U : U = {i \in 1..Len(w) : HasPlace(w, i)}
  OBVIOUS
<1>5. Len(p) \in Nat
  OBVIOUS
<1>6. \A i \in 1..Len(p) : i \in S <=> i \in U
  <2> SUFFICES ASSUME NEW i \in 1..Len(p)
               PROVE  i \in S <=> i \in U
    OBVIOUS
  <2>1. i \in 1..Len(w) /\ Len(p) <= Len(w) /\ IdAt(w, i) = IdAt(p, i)
    BY <1>2, <1>5 DEF IdAt
  <2>2. HasPlace(w, i) <=> HasPlace(p, i)
    BY <1>2, <2>1, SamePlace
  <2> QED
    BY <1>3, <1>4, <2>1, <2>2
<1>7. Len(p) + 1 \in U <=> HasPlace(w, Len(p) + 1)
  BY <1>2, <1>4, <1>5
<1>8. Picked(Append(p, t), U) = IF Len(p) + 1 \in U THEN Append(Picked(p, S), t) ELSE Picked(p, S)
  BY <1>6, PickedOneMore
<1>9. Admitted(w) = Picked(w, U) /\ Admitted(p) = Picked(p, S)
  BY <1>3, <1>4 DEF Admitted
<1> QED
  BY <1>1, <1>7, <1>8, <1>9

(* More text changes nothing about the tokens admitted before. *)
LEMMA AdmittedMore ==
  ASSUME NEW p \in Seq(Tokens), NEW r \in Seq(Tokens)
  PROVE  \E z \in Seq(Tokens) : Admitted(p \o r) = Admitted(p) \o z
<1> DEFINE Bad(u) == ~\E z \in Seq(Tokens) : Admitted(p \o u) = Admitted(p) \o z
           B == {n \in Nat : \E u \in Seq(Tokens) : Len(u) = n /\ Bad(u)}
<1> SUFFICES ASSUME Bad(r)
             PROVE  FALSE
  OBVIOUS
<1>1. Len(r) \in B
  <2>1. Len(r) \in Nat
    OBVIOUS
  <2> HIDE DEF Bad
  <2> QED
    BY <2>1
<1>2. PICK n \in B : \A m \in B : ~(m < n)
  <2>1. B \subseteq Nat /\ B # {}
    BY <1>1
  <2> HIDE DEF B
  <2> QED
    BY <2>1, SmallestOfNat
<1>3. PICK u \in Seq(Tokens) : Len(u) = n /\ Bad(u)
  OBVIOUS
<1>4. Admitted(p) \in Seq(Tokens)
  BY AdmittedType
<1>5. u # <<>>
  <2>1. p \o <<>> = p
    BY ConcatEmptySeq
  <2>2. Admitted(p) \o <<>> = Admitted(p) /\ <<>> \in Seq(Tokens)
    BY <1>4, ConcatEmptySeq
  <2>3. ~Bad(<<>>)
    BY <2>1, <2>2
  <2> QED
    BY <1>3, <2>3
<1>6. PICK q \in Seq(Tokens), t \in Tokens : u = Append(q, t) /\ Len(u) = Len(q) + 1
  BY <1>5, SplitAtEnd
<1>7. ~Bad(q)
  <2>1. Len(q) \in Nat /\ Len(q) < n
    BY <1>3, <1>6
  <2>2. Len(q) \notin B
    BY <1>2, <2>1
  <2> QED
    BY <2>1, <2>2
<1> HIDE DEF Bad, B
<1>8. PICK z \in Seq(Tokens) : Admitted(p \o q) = Admitted(p) \o z
  BY <1>7 DEF Bad
<1>9. PICK w \in Seq(Tokens) : w = p \o q
  <2>1. p \o q \in Seq(Tokens)
    BY ConcatProperties
  <2> QED
    BY <2>1
<1>10. p \o u = Append(w, t)
  <2>1. p \o Append(q, t) = Append(p \o q, t)
    BY ConcatAppend
  <2> QED
    BY <1>6, <1>9, <2>1
<1>11. Admitted(Append(w, t)) \in {Append(Admitted(w), t), Admitted(w)}
  BY AdmittedOneMore
<1>12. Admitted(p) \o Append(z, t) = Append(Admitted(p) \o z, t)
  BY <1>4, ConcatAppend
<1>13. Append(z, t) \in Seq(Tokens)
  BY AppendProperties
<1>14. \E y \in Seq(Tokens) : Admitted(p \o u) = Admitted(p) \o y
  <2>1. CASE Admitted(Append(w, t)) = Append(Admitted(w), t)
    BY <1>8, <1>9, <1>10, <1>12, <1>13, <2>1
  <2>2. CASE Admitted(Append(w, t)) = Admitted(w)
    BY <1>8, <1>9, <1>10, <2>2
  <2> QED
    BY <1>11, <2>1, <2>2
<1> QED
  BY <1>3, <1>14 DEF Bad

-----------------------------------------------------------------------------
(* The empirical measure of a text: it has counted the tokens that there   *)
(* is room for.                                                            *)

EmpIds(e) == {e.hash[s].id : s \in Filled(e)}

MeasureOf(e, p) ==
  /\ IsFiniteSet(Ids(p))
  /\ EmpIds(e) \subseteq Ids(p)
  /\ IF Cardinality(Ids(p)) <= Room
     THEN EmpIds(e) = Ids(p) /\ Cardinality(Filled(e)) = Cardinality(Ids(p))
     ELSE Cardinality(Filled(e)) = Room
  /\ \A i \in 1..Len(p) : IdAt(p, i) \in EmpIds(e) <=> HasPlace(p, i)

LEMMA RoomIs ==
  ASSUME FreeSlotRemains
  PROVE  /\ Room \in Nat /\ Room <= max_tokens - 1
         /\ \A e : EmpInv(e) => (HasRoom(e) <=> Cardinality(Filled(e)) < Room)
<1>1. PICK P \in Nat : P = HASH_FULL * max_tokens
  BY EmpiricalAssumption
<1>2. PICK m \in Nat : m = max_tokens - 1
  BY EmpiricalAssumption
<1>3. P <= 100 * K_TOKEN_COUNT_MAX /\ P <= 100 * m
  BY <1>1, <1>2 DEF FreeSlotRemains
<1> DEFINE B == {n \in Nat : 100 * n >= P}
<1>4. m \in B /\ B \subseteq Nat
  BY <1>3
<1>5. PICK r \in B : \A n \in B : ~(n < r)
  <2> HIDE DEF B
  <2> QED
    BY <1>4, SmallestOfNat
<1>6. r \in Nat /\ r <= m /\ 100 * r >= P
  BY <1>4, <1>5
<1>7. \A n \in Nat : 100 * n < P <=> n < r
  BY <1>5, <1>6
<1>8. {n \in Slots : 100 * n < P} = 0..r - 1
  BY <1>2, <1>6, <1>7, EmpiricalAssumption DEF Slots
<1>9. Cardinality(0..r - 1) = r
  <2>1. 0 \in Int /\ r - 1 \in Int /\ (0 > r - 1 => r = 0)
    BY <1>6
  <2>2. Cardinality(0..r - 1) = IF 0 > r - 1 THEN 0 ELSE (r - 1) - 0 + 1
    BY <2>1, FS_Interval
  <2> QED
    BY <1>6, <2>1, <2>2
<1>10. Room = r
  BY <1>1, <1>8, <1>9 DEF Room
<1>11. ASSUME NEW e, EmpInv(e)
       PROVE  HasRoom(e) <=> Cardinality(Filled(e)) < r
  <2>1. PICK n \in Nat : n = Cardinality(Filled(e))
    BY FilledFinite
  <2>2. e.unique = IF n < K_TOKEN_COUNT_MAX THEN n ELSE K_TOKEN_COUNT_MAX
    BY <1>11, <2>1 DEF EmpInv, Saturated
  <2>3. HasRoom(e) <=> 100 * e.unique < P
    BY <1>1 DEF HasRoom
  <2>4. r <= K_TOKEN_COUNT_MAX
    BY <1>3, <1>6, <1>7, EmpiricalAssumption
  <2>5. e.unique \in Nat
    BY <2>1, <2>2, EmpiricalAssumption
  <2>6. HasRoom(e) <=> e.unique < r
    BY <1>7, <2>3, <2>5
  <2> QED
    BY <1>6, <2>1, <2>2, <2>4, <2>6, EmpiricalAssumption
<1> QED
  BY <1>2, <1>6, <1>10, <1>11

(* A token is refused just if it is not in the table and there is no room. *)
LEMMA RefusedWhen ==
  ASSUME NEW e, EmpInv(e), SlotFree(e), NEW id \in Nat, id # 0
  PROVE  Refused(e, id) <=> id \notin EmpIds(e) /\ ~HasRoom(e)
<1>1. e \in Empirical /\ Reached(e)
  BY DEF EmpInv
<1>2. PICK s : s = find_in_empirical(e, id)
  OBVIOUS
<1>3. s # NoSlot
  BY <1>2, FreeSlotFound
<1>4. s \in Slots /\ e.hash[s].id \in {0, id}
  BY <1>1, <1>2, <1>3, FindCases
<1>5. Refused(e, id) <=> e.hash[s].id = 0 /\ ~HasRoom(e)
  BY <1>2, <1>3 DEF Refused
<1>6. ASSUME id \in EmpIds(e)
      PROVE  e.hash[s].id = id
  <2>1. PICK u \in Filled(e) : e.hash[u].id = id
    BY <1>6 DEF EmpIds
  <2>2. PICK k : StopsFirst(e, id, k) /\ Probe(id, k) = u
    BY <1>1, <2>1 DEF Reached
  <2>3. s = u
    BY <1>2, <2>2, FindsFirstStop
  <2> QED
    BY <2>1, <2>3
<1>7. ASSUME e.hash[s].id = id
      PROVE  id \in EmpIds(e)
  BY <1>4, <1>7 DEF EmpIds, Filled
<1> QED
  BY <1>4, <1>5, <1>6, <1>7

(* Counting a token that is not refused has it in the table. *)
LEMMA CountedIds ==
  ASSUME NEW e, EmpInv(e), SlotFree(e), NEW id \in Nat, id # 0, ~Refused(e, id), NEW c,
         c = Counted(e, id)
  PROVE  /\ EmpIds(c) = EmpIds(e) \cup {id}
         /\ Cardinality(Filled(c)) = IF id \in EmpIds(e) THEN Cardinality(Filled(e))
                                     ELSE Cardinality(Filled(e)) + 1
<1>1. e \in Empirical
  BY DEF EmpInv
<1>2. CASE \E s \in Slots : e.hash[s].id = id /\ c = CountedAgain(e, s)
  <2>1. PICK s \in Slots : e.hash[s].id = id /\ c = CountedAgain(e, s)
    BY <1>2
  <2>2. Filled(c) = Filled(e) /\ \A u \in Slots : c.hash[u].id = e.hash[u].id
    BY <2>1, CountKnown
  <2>3. EmpIds(c) = EmpIds(e)
    <3>1. \A u \in Filled(e) : c.hash[u].id = e.hash[u].id
      BY <2>2 DEF Filled
    <3> QED
      BY <2>2, <3>1 DEF EmpIds
  <2>4. id \in EmpIds(e)
    BY <2>1 DEF EmpIds, Filled
  <2> QED
    BY <2>2, <2>3, <2>4
<1>3. CASE \E s \in Slots : \E n : /\ StopsFirst(e, id, n) /\ s = Probe(id, n)
                                   /\ e.hash[s].id = 0 /\ c = TakenUp(e, s, id)
  <2>0. PICK s \in Slots : \E n : /\ StopsFirst(e, id, n) /\ s = Probe(id, n)
                                  /\ e.hash[s].id = 0 /\ c = TakenUp(e, s, id)
    BY <1>3
  <2>1. PICK n : /\ StopsFirst(e, id, n) /\ s = Probe(id, n)
                 /\ e.hash[s].id = 0 /\ c = TakenUp(e, s, id)
    BY <2>0
  <2>2. /\ EmpInv(c) /\ Filled(c) = Filled(e) \cup {s} /\ s \notin Filled(e)
        /\ c.hash[s] = [id |-> id, count |-> 1]
        /\ \A u \in Slots : u # s => c.hash[u] = e.hash[u]
    BY <2>1, CountNew, SMTT(30)
  <2>3. Cardinality(Filled(c)) = Cardinality(Filled(e)) + 1
    BY <2>2, FilledFinite, FS_AddElement
  <2>4. c.hash[s].id = id
    BY <2>2
  <2>5. \A u \in Filled(e) : c.hash[u] = e.hash[u]
    BY <2>2 DEF Filled
  <2>6. EmpIds(c) = EmpIds(e) \cup {id}
    BY <2>2, <2>4, <2>5 DEF EmpIds
  <2>7. id \notin EmpIds(e)
    <3> SUFFICES ASSUME id \in EmpIds(e)
                 PROVE  FALSE
      OBVIOUS
    <3>1. PICK u \in Filled(e) : e.hash[u].id = id
      BY DEF EmpIds
    <3>2. PICK k : StopsFirst(e, id, k) /\ Probe(id, k) = u
      BY <3>1 DEF EmpInv, Reached
    <3>3. find_in_empirical(e, id) = u /\ find_in_empirical(e, id) = s
      BY <2>1, <3>2, FindsFirstStop
    <3> QED
      BY <2>1, <3>1, <3>3
  <2> QED
    BY <2>3, <2>6, <2>7
<1>4. find_in_empirical(e, id) # NoSlot
  BY FreeSlotFound
<1> QED
  BY <1>2, <1>3, <1>4, CountedFacts

LEMMA MeasureOfNothing ==
  ASSUME NEW e, Filled(e) = {}
  PROVE  Room \in Nat => MeasureOf(e, <<>>)
<1>1. Ids(<<>>) = {}
  BY DEF Ids
<1>2. EmpIds(e) = {}
  BY DEF EmpIds
<1>3. IsFiniteSet({}) /\ Cardinality({}) = 0
  BY FS_EmptySet
<1>4. Len(<<>>) = 0
  OBVIOUS
<1> QED
  BY <1>1, <1>2, <1>3, <1>4 DEF MeasureOf

(* One more token. It is refused just if it is not among those that there  *)
(* is room for.                                                            *)
LEMMA MeasureOfOneMore ==
  ASSUME run.entropy, FreeSlotRemains, NEW e, EmpInv(e), NEW p \in Seq(Tokens), NEW t \in Tokens,
         MeasureOf(e, p), Token[t].id # 0
  PROVE  /\ MeasureOf(Counted(e, Token[t].id), Append(p, t))
         /\ Refused(e, Token[t].id) <=> ~HasPlace(Append(p, t), Len(p) + 1)
<1>1. PICK id \in Nat : id = Token[t].id
  BY ClassifierAssumption DEF Tokens
<1>2. PICK w : w = Append(p, t)
  OBVIOUS
<1>3. w \in Seq(Tokens) /\ Len(w) = Len(p) + 1 /\ (\A i \in 1..Len(p) : w[i] = p[i])
      /\ w[Len(p) + 1] = t
  BY <1>2, AppendProperties
<1>4. PICK n \in Nat : n = Len(p)
  OBVIOUS
<1>5. /\ Len(w) = n + 1 /\ IdAt(w, n + 1) = id
      /\ \A i \in 1..n : IdAt(w, i) = IdAt(p, i)
  BY <1>1, <1>3, <1>4 DEF IdAt
<1>6. Ids(w) = Ids(p) \cup {id}
  <2>1. Ids(w) = {IdAt(w, i) : i \in 1..n + 1}
    BY <1>5 DEF Ids, IdAt
  <2>2. Ids(p) = {IdAt(p, i) : i \in 1..n}
    BY <1>4 DEF Ids, IdAt
  <2>3. 1..n + 1 = (1..n) \cup {n + 1}
    OBVIOUS
  <2> QED
    BY <1>5, <2>1, <2>2, <2>3
<1>7. PICK k \in Nat : k = Cardinality(Ids(p))
  BY FS_CardinalityType DEF MeasureOf
<1>8. IsFiniteSet(Ids(w)) /\ Cardinality(Ids(w)) = IF id \in Ids(p) THEN k ELSE k + 1
  <2>1. PICK S : S = Ids(p)
    OBVIOUS
  <2>2. IsFiniteSet(S)
    BY <2>1 DEF MeasureOf
  <2>3. IsFiniteSet(S \cup {id})
        /\ Cardinality(S \cup {id}) = IF id \in S THEN Cardinality(S) ELSE Cardinality(S) + 1
    BY <2>2, FS_AddElement
  <2> QED
    BY <1>6, <1>7, <2>1, <2>3
<1>9. PICK r \in Nat : r = Room /\ r <= max_tokens - 1
  BY RoomIs
<1>10. PICK f \in Nat : f = Cardinality(Filled(e))
  BY FilledFinite
<1>11. /\ EmpIds(e) \subseteq Ids(p)
       /\ k <= r => EmpIds(e) = Ids(p) /\ f = k
       /\ ~(k <= r) => f = r
  BY <1>7, <1>9, <1>10 DEF MeasureOf
<1>12. \A i \in 1..n : IdAt(p, i) \in EmpIds(e) <=> HasPlace(p, i)
  BY <1>4 DEF MeasureOf
<1>13. SlotFree(e)
  BY <1>9, <1>10, <1>11, EmpiricalAssumption DEF SlotFree
<1>14. HasRoom(e) <=> f < r
  BY <1>9, <1>10, RoomIs
<1>15. Refused(e, id) <=> id \notin EmpIds(e) /\ ~(f < r)
  BY <1>1, <1>13, <1>14, RefusedWhen
<1>16. \A i \in 1..n : HasPlace(w, i) <=> HasPlace(p, i)
  <2> SUFFICES ASSUME NEW i \in 1..n
               PROVE  HasPlace(w, i) <=> HasPlace(p, i)
    OBVIOUS
  <2>1. i \in 1..Len(p) /\ i \in 1..Len(w) /\ Len(p) <= Len(w) /\ IdAt(w, i) = IdAt(p, i)
    BY <1>4, <1>5
  <2> QED
    BY <1>3, <2>1, SamePlace
<1>17. id \in Ids(p) => (HasPlace(w, n + 1) <=> id \in EmpIds(e))
  <2> SUFFICES ASSUME id \in Ids(p)
               PROVE  HasPlace(w, n + 1) <=> id \in EmpIds(e)
    OBVIOUS
  <2>1. PICK i \in 1..Len(p) : IdAt(p, i) = id
    BY DEF Ids, IdAt
  <2>2. n + 1 \in 1..Len(w) /\ Len(p) <= Len(w) /\ IdAt(w, n + 1) = IdAt(p, i)
    BY <1>4, <1>5, <2>1
  <2>3. HasPlace(w, n + 1) <=> HasPlace(p, i)
    BY <1>3, <2>2, SamePlace
  <2> QED
    BY <1>4, <1>12, <2>1, <2>3
<1>18. id \notin Ids(p) => (HasPlace(w, n + 1) <=> k + 1 <= r)
  <2> SUFFICES ASSUME id \notin Ids(p)
               PROVE  HasPlace(w, n + 1) <=> k + 1 <= r
    OBVIOUS
  <2>1. \A j \in 1..(n + 1) - 1 : IdAt(w, j) # IdAt(w, n + 1)
    <3> SUFFICES ASSUME NEW j \in 1..n
                 PROVE  IdAt(w, j) # IdAt(w, n + 1)
      BY <1>4
    <3>1. IdAt(p, j) \in Ids(p)
      BY <1>4 DEF Ids, IdAt
    <3> QED
      BY <1>5, <3>1
  <2>2. IsFirst(w, n + 1, n + 1)
    BY <2>1 DEF IsFirst
  <2>3. First(w, n + 1) = n + 1
    BY <2>2, OneFirst
  <2>4. SubSeq(w, 1, n + 1) = w
    BY <1>3, <1>5, SubSeqFull
  <2>5. Room # max_tokens
    BY <1>9, EmpiricalAssumption
  <2> QED
    BY <1>8, <1>9, <2>3, <2>4, <2>5 DEF HasPlace
<1>19. Refused(e, id) <=> ~HasPlace(w, n + 1)
  BY <1>11, <1>15, <1>17, <1>18
<1>20. PICK c : c = Counted(e, id)
  OBVIOUS
<1>21. MeasureOf(c, w)
  <2>1. CASE Refused(e, id)
    <3>1. c = e
      BY <1>20, <2>1 DEF Counted
    <3>2. id \notin EmpIds(e) /\ ~(f < r) /\ ~HasPlace(w, n + 1)
      BY <1>15, <1>19, <2>1
    <3>3. Cardinality(Ids(w)) > r /\ f = r
      BY <1>8, <1>11, <3>2
    <3>4. \A i \in 1..n + 1 : IdAt(w, i) \in EmpIds(e) <=> HasPlace(w, i)
      BY <1>5, <1>12, <1>16, <3>2
    <3>5. EmpIds(e) \subseteq Ids(w)
      BY <1>6, <1>11
    <3>6. ~(Cardinality(Ids(w)) <= Room) /\ Cardinality(Filled(c)) = Room
      BY <1>8, <1>9, <1>10, <3>1, <3>3
    <3> QED
      BY <1>5, <1>8, <3>1, <3>4, <3>5, <3>6 DEF MeasureOf
  <2>2. CASE ~Refused(e, id)
    <3>1. /\ EmpIds(c) = EmpIds(e) \cup {id}
          /\ Cardinality(Filled(c)) = IF id \in EmpIds(e) THEN f ELSE f + 1
      BY <1>1, <1>10, <1>13, <1>20, <2>2, CountedIds
    <3>2. HasPlace(w, n + 1)
      BY <1>19, <2>2
    <3>3. EmpIds(c) \subseteq Ids(w)
      BY <1>6, <1>11, <3>1
    <3>4. \A i \in 1..n + 1 : IdAt(w, i) \in EmpIds(c) <=> HasPlace(w, i)
      <4> SUFFICES ASSUME NEW i \in 1..n + 1
                   PROVE  IdAt(w, i) \in EmpIds(c) <=> HasPlace(w, i)
        OBVIOUS
      <4>1. CASE i = n + 1
        BY <1>5, <3>1, <3>2, <4>1
      <4>2. CASE i \in 1..n /\ IdAt(w, i) # id
        BY <1>5, <1>12, <1>16, <3>1, <4>2
      <4>3. CASE i \in 1..n /\ IdAt(w, i) = id
        <5>1. i \in 1..Len(w) /\ n + 1 \in 1..Len(w) /\ IdAt(w, n + 1) = IdAt(w, i)
          BY <1>5, <4>3
        <5>2. HasPlace(w, n + 1) <=> HasPlace(w, i)
          BY <1>3, <5>1, SamePlace
        <5> QED
          BY <3>1, <3>2, <4>3, <5>2
      <4> QED
        BY <4>1, <4>2, <4>3
    <3>5. CASE id \in EmpIds(e)
      <4>1. id \in Ids(p) /\ EmpIds(c) = EmpIds(e) /\ Ids(w) = Ids(p)
        BY <1>6, <1>11, <3>1, <3>5
      <4>2. Cardinality(Filled(c)) = f /\ Cardinality(Ids(w)) = k
        BY <1>8, <3>1, <3>5, <4>1
      <4>3. IF Cardinality(Ids(w)) <= Room
            THEN EmpIds(c) = Ids(w) /\ Cardinality(Filled(c)) = Cardinality(Ids(w))
            ELSE Cardinality(Filled(c)) = Room
        BY <1>9, <1>11, <4>1, <4>2
      <4> QED
        BY <1>5, <1>8, <3>3, <3>4, <4>3 DEF MeasureOf
    <3>6. CASE id \notin EmpIds(e)
      <4>1. f < r
        BY <1>15, <2>2, <3>6
      <4>2. k <= r /\ EmpIds(e) = Ids(p) /\ f = k
        BY <1>11, <4>1
      <4>3. EmpIds(c) = Ids(w) /\ Cardinality(Filled(c)) = Cardinality(Ids(w))
            /\ Cardinality(Ids(w)) <= Room
        BY <1>6, <1>8, <1>9, <3>1, <3>6, <4>1, <4>2
      <4> QED
        BY <1>5, <1>8, <3>3, <3>4, <4>3 DEF MeasureOf
    <3> QED
      BY <3>5, <3>6
  <2> QED
    BY <2>1, <2>2
<1> QED
  BY <1>1, <1>2, <1>4, <1>19, <1>20, <1>21

-----------------------------------------------------------------------------
(* The lines of files and the texts of lines.                              *)

LEMMA KeptType == ASSUME NEW l \in FileLine PROVE Kept(l) \in Seq(Tokens)
<1>1. l.tokens \in Seq(Tokens) /\ <<>> \in Seq(Tokens)
  BY DEF FileLine, Tokens
<1> QED
  BY <1>1 DEF Kept

LEMMA TextOfNone == TextOf(<<>>) = <<>>
<1>1. [i \in 1..Len(<<>>) |-> Kept(<<>>[i])] = <<>>
  OBVIOUS
<1> QED
  BY <1>1, FlattenNone DEF TextOf

LEMMA TextOfOne == ASSUME NEW l \in FileLine PROVE TextOf(<<l>>) = Kept(l)
<1>1. PICK s : s = [i \in 1..1 |-> Kept(<<l>>[i])]
  OBVIOUS
<1>2. s \in Seq(Seq(Tokens)) /\ Len(s) = 1 /\ s[1] = Kept(l)
  BY <1>1, KeptType
<1>3. FlattenSeq(s) = Kept(l)
  BY <1>2, FlattenOne
<1>4. Len(<<l>>) = 1
  OBVIOUS
<1> QED
  BY <1>1, <1>3, <1>4 DEF TextOf

LEMMA TextOfConcat ==
  ASSUME NEW a \in Seq(FileLine), NEW b \in Seq(FileLine)
  PROVE  TextOf(a) \in Seq(Tokens) /\ TextOf(a \o b) = TextOf(a) \o TextOf(b)
<1>1. PICK c : c = a \o b
  OBVIOUS
<1>2. c \in Seq(FileLine) /\ Len(c) = Len(a) + Len(b)
      /\ \A i \in 1..Len(a) + Len(b) : c[i] = IF i <= Len(a) THEN a[i] ELSE b[i - Len(a)]
  BY <1>1, ConcatProperties
<1>3. PICK m \in Nat, n \in Nat : m = Len(a) /\ n = Len(b)
  OBVIOUS
<1>4. PICK x : x = [i \in 1..m |-> Kept(a[i])]
  OBVIOUS
<1>5. PICK y : y = [i \in 1..n |-> Kept(b[i])]
  OBVIOUS
<1>6. PICK z : z = [i \in 1..m + n |-> Kept(c[i])]
  OBVIOUS
<1>7. /\ x \in Seq(Seq(Tokens)) /\ Len(x) = m
      /\ y \in Seq(Seq(Tokens)) /\ Len(y) = n
      /\ z \in Seq(Seq(Tokens)) /\ Len(z) = m + n
  <2>1. \A i \in 1..m : Kept(a[i]) \in Seq(Tokens)
    BY <1>3, KeptType
  <2>2. \A i \in 1..n : Kept(b[i]) \in Seq(Tokens)
    BY <1>3, KeptType
  <2>3. \A i \in 1..m + n : Kept(c[i]) \in Seq(Tokens)
    BY <1>2, <1>3, KeptType
  <2>4. x \in Seq(Seq(Tokens)) /\ Len(x) = m
    BY <1>4, <2>1
  <2>5. y \in Seq(Seq(Tokens)) /\ Len(y) = n
    BY <1>5, <2>2
  <2>6. z \in Seq(Seq(Tokens)) /\ Len(z) = m + n
    BY <1>6, <2>3
  <2> QED
    BY <2>4, <2>5, <2>6
<1>8. \A i \in 1..m : z[i] = x[i]
  <2>1. \A i \in 1..m : c[i] = a[i]
    BY <1>2, <1>3
  <2> QED
    BY <1>4, <1>6, <2>1
<1>9. \A j \in 1..n : z[m + j] = y[j]
  <2>1. \A j \in 1..n : c[m + j] = b[j]
    <3> SUFFICES ASSUME NEW j \in 1..n
                 PROVE  c[m + j] = b[j]
      OBVIOUS
    <3>1. m + j \in 1..Len(a) + Len(b) /\ ~(m + j <= Len(a)) /\ (m + j) - Len(a) = j
      BY <1>3
    <3> QED
      BY <1>2, <3>1
  <2>2. \A j \in 1..n : m + j \in 1..m + n
    OBVIOUS
  <2> QED
    BY <1>5, <1>6, <2>1, <2>2
<1>10. z = x \o y
  <2>1. PICK T : T = Seq(Tokens)
    OBVIOUS
  <2>2. x \in Seq(T) /\ y \in Seq(T) /\ z \in Seq(T) /\ Len(z) = Len(x) + Len(y)
    BY <1>7, <2>1
  <2>3. (\A i \in 1..Len(x) : z[i] = x[i]) /\ \A j \in 1..Len(y) : z[Len(x) + j] = y[j]
    BY <1>7, <1>8, <1>9
  <2> QED
    BY <2>2, <2>3, ConcatGiven
<1>11. FlattenSeq(x \o y) = FlattenSeq(x) \o FlattenSeq(y)
  BY <1>7, FlattenConcat
<1>12. FlattenSeq(x) \in Seq(Tokens)
  BY <1>7, FlattenType
<1>13. TextOf(a) = FlattenSeq(x) /\ TextOf(b) = FlattenSeq(y) /\ TextOf(c) = FlattenSeq(z)
  BY <1>2, <1>3, <1>4, <1>5, <1>6 DEF TextOf
<1> QED
  BY <1>1, <1>10, <1>11, <1>12, <1>13

LEMMA TextOfType == ASSUME NEW a \in Seq(FileLine) PROVE TextOf(a) \in Seq(Tokens)
BY TextOfConcat

LEMMA LinesOfNone == LinesOf(<<>>) = <<>>
<1>1. [i \in 1..Len(<<>>) |-> <<>>[i].lines] = <<>>
  OBVIOUS
<1> QED
  BY <1>1, FlattenNone DEF LinesOf

LEMMA LinesOfOne == ASSUME NEW f \in Files PROVE LinesOf(<<f>>) = f.lines
<1>1. PICK s : s = [i \in 1..1 |-> <<f>>[i].lines]
  OBVIOUS
<1>2. s \in Seq(Seq(FileLine)) /\ Len(s) = 1 /\ s[1] = f.lines
  BY <1>1, ClassifierAssumption
<1>3. FlattenSeq(s) = f.lines
  BY <1>2, FlattenOne
<1>4. Len(<<f>>) = 1
  OBVIOUS
<1> QED
  BY <1>1, <1>3, <1>4 DEF LinesOf

LEMMA LinesOfConcat ==
  ASSUME NEW a \in Seq(Files), NEW b \in Seq(Files)
  PROVE  LinesOf(a) \in Seq(FileLine) /\ LinesOf(a \o b) = LinesOf(a) \o LinesOf(b)
<1>1. PICK c : c = a \o b
  OBVIOUS
<1>2. c \in Seq(Files) /\ Len(c) = Len(a) + Len(b)
      /\ \A i \in 1..Len(a) + Len(b) : c[i] = IF i <= Len(a) THEN a[i] ELSE b[i - Len(a)]
  BY <1>1, ConcatProperties
<1>3. PICK m \in Nat, n \in Nat : m = Len(a) /\ n = Len(b)
  OBVIOUS
<1>4. PICK x : x = [i \in 1..m |-> a[i].lines]
  OBVIOUS
<1>5. PICK y : y = [i \in 1..n |-> b[i].lines]
  OBVIOUS
<1>6. PICK z : z = [i \in 1..m + n |-> c[i].lines]
  OBVIOUS
<1>7. /\ x \in Seq(Seq(FileLine)) /\ Len(x) = m
      /\ y \in Seq(Seq(FileLine)) /\ Len(y) = n
      /\ z \in Seq(Seq(FileLine)) /\ Len(z) = m + n
  <2>0. \A f \in Files : f.lines \in Seq(FileLine)
    BY ClassifierAssumption
  <2>1. \A i \in 1..m : a[i].lines \in Seq(FileLine)
    BY <1>3, <2>0
  <2>2. \A i \in 1..n : b[i].lines \in Seq(FileLine)
    BY <1>3, <2>0
  <2>3. \A i \in 1..m + n : c[i].lines \in Seq(FileLine)
    BY <1>2, <1>3, <2>0
  <2>4. x \in Seq(Seq(FileLine)) /\ Len(x) = m
    BY <1>4, <2>1
  <2>5. y \in Seq(Seq(FileLine)) /\ Len(y) = n
    BY <1>5, <2>2
  <2>6. z \in Seq(Seq(FileLine)) /\ Len(z) = m + n
    BY <1>6, <2>3
  <2> QED
    BY <2>4, <2>5, <2>6
<1>8. \A i \in 1..m : z[i] = x[i]
  <2>1. \A i \in 1..m : c[i] = a[i]
    BY <1>2, <1>3
  <2> QED
    BY <1>4, <1>6, <2>1
<1>9. \A j \in 1..n : z[m + j] = y[j]
  <2>1. \A j \in 1..n : c[m + j] = b[j]
    <3> SUFFICES ASSUME NEW j \in 1..n
                 PROVE  c[m + j] = b[j]
      OBVIOUS
    <3>1. m + j \in 1..Len(a) + Len(b) /\ ~(m + j <= Len(a)) /\ (m + j) - Len(a) = j
      BY <1>3
    <3> QED
      BY <1>2, <3>1
  <2>2. \A j \in 1..n : m + j \in 1..m + n
    OBVIOUS
  <2> QED
    BY <1>5, <1>6, <2>1, <2>2
<1>10. z = x \o y
  <2>1. PICK T : T = Seq(FileLine)
    OBVIOUS
  <2>2. x \in Seq(T) /\ y \in Seq(T) /\ z \in Seq(T) /\ Len(z) = Len(x) + Len(y)
    BY <1>7, <2>1
  <2>3. (\A i \in 1..Len(x) : z[i] = x[i]) /\ \A j \in 1..Len(y) : z[Len(x) + j] = y[j]
    BY <1>7, <1>8, <1>9
  <2> QED
    BY <2>2, <2>3, ConcatGiven
<1>11. FlattenSeq(x \o y) = FlattenSeq(x) \o FlattenSeq(y)
  BY <1>7, FlattenConcat
<1>12. FlattenSeq(x) \in Seq(FileLine)
  BY <1>7, FlattenType
<1>13. LinesOf(a) = FlattenSeq(x) /\ LinesOf(b) = FlattenSeq(y) /\ LinesOf(c) = FlattenSeq(z)
  BY <1>2, <1>3, <1>4, <1>5, <1>6 DEF LinesOf
<1> QED
  BY <1>1, <1>10, <1>11, <1>12, <1>13

LEMMA LinesOfType == ASSUME NEW a \in Seq(Files) PROVE LinesOf(a) \in Seq(FileLine)
BY LinesOfConcat

-----------------------------------------------------------------------------
(* What is still to be read.                                               *)

FilesFrom(n) == FlattenSeq([i \in 1..Len(run.args) - n |-> run.args[n + i].files])
Unopened ==
  IF run.args = <<>> THEN IF argi = 0 THEN <<run.stdin>> ELSE <<>> ELSE FilesFrom(argi)
Coming == entries \o Unopened
Unread == input.left \o LinesOf(Coming)

LEMMA RunTypes ==
  ASSUME TypeOK
  PROVE  /\ run.args \in Seq(Args) /\ run.stdin \in Files /\ argi \in Nat
         /\ \A i \in 1..Len(run.args) : run.args[i].files \in Seq(Files)
         /\ entries \in Seq(Files) /\ input.left \in Seq(FileLine)
<1>1. run.args \in Seq(Args) /\ run.stdin \in {r.stdin : r \in Inputs} /\ argi \in Nat
  BY ClassifierAssumption DEF TypeOK
<1>2. run.stdin \in Files
  BY <1>1, Zenon DEF Files
<1>3. \A i \in 1..Len(run.args) : run.args[i].files \in Seq(Files)
  BY <1>1, ClassifierAssumption
<1>4. entries \in Seq(Files) /\ input.left \in Seq(FileLine)
  BY DEF TypeOK, InputFile
<1> QED
  BY <1>1, <1>2, <1>3, <1>4

LEMMA FilesFromType ==
  ASSUME TypeOK, NEW n \in Nat, n <= Len(run.args)
  PROVE  FilesFrom(n) \in Seq(Files)
<1>1. PICK m \in Nat : m = Len(run.args) - n
  <2>1. run.args \in Seq(Args)
    BY RunTypes
  <2>2. Len(run.args) \in Nat
    BY <2>1
  <2>3. Len(run.args) - n \in Nat
    BY <2>2
  <2> QED
    BY <2>3
<1>2. PICK s : s = [i \in 1..m |-> run.args[n + i].files]
  OBVIOUS
<1>3. \A i \in 1..m : run.args[n + i].files \in Seq(Files)
  <2>1. \A i \in 1..m : n + i \in 1..Len(run.args)
    <3>1. run.args \in Seq(Args)
      BY RunTypes
    <3>2. Len(run.args) \in Nat
      BY <3>1
    <3> QED
      BY <1>1, <3>2
  <2> QED
    BY <2>1, RunTypes
<1>4. s \in Seq(Seq(Files))
  BY <1>2, <1>3
<1>5. FlattenSeq(s) \in Seq(Files)
  BY <1>4, FlattenType
<1> QED
  BY <1>1, <1>2, <1>5 DEF FilesFrom

LEMMA FilesFromNext ==
  ASSUME TypeOK, NEW n \in Nat, n < Len(run.args)
  PROVE  FilesFrom(n) = run.args[n + 1].files \o FilesFrom(n + 1)
<1>1. Len(run.args) \in Nat
  <2>1. run.args \in Seq(Args)
    BY RunTypes
  <2> QED
    BY <2>1
<1>2. PICK m \in Nat : Len(run.args) = (n + 1) + m
  <2>1. PICK k \in Nat : k = Len(run.args)
    BY <1>1
  <2>2. n < k
    BY <2>1
  <2>3. \A a \in Nat, b \in Nat : a < b => b - (a + 1) \in Nat /\ b = (a + 1) + (b - (a + 1))
    OBVIOUS
  <2>4. k - (n + 1) \in Nat /\ k = (n + 1) + (k - (n + 1))
    BY <2>2, <2>3
  <2> QED
    BY <2>1, <2>4
<1>3. \A i \in 1..m + 1 : run.args[n + i].files \in Seq(Files)
  <2>1. \A i \in 1..m + 1 : n + i \in 1..Len(run.args)
    BY <1>2
  <2> QED
    BY <2>1, RunTypes
<1>4. PICK s : s = [i \in 1..m |-> run.args[(n + 1) + i].files]
  OBVIOUS
<1>5. PICK t : t = [i \in 1..m + 1 |-> run.args[n + i].files]
  OBVIOUS
<1>6. PICK x \in Seq(Files) : x = run.args[n + 1].files
  <2>1. 1 \in 1..m + 1
    OBVIOUS
  <2> QED
    BY <1>3, <2>1
<1>7. PICK h : h = <<x>>
  OBVIOUS
<1>8. s \in Seq(Seq(Files)) /\ Len(s) = m /\ \A i \in 1..m : s[i] = t[1 + i]
  <2>1. \A i \in 1..m : 1 + i \in 1..m + 1 /\ n + (1 + i) = (n + 1) + i
    OBVIOUS
  <2>2. \A i \in 1..m : run.args[(n + 1) + i].files \in Seq(Files)
    <3> SUFFICES ASSUME NEW i \in 1..m
                 PROVE  run.args[(n + 1) + i].files \in Seq(Files)
      OBVIOUS
    <3>1. 1 + i \in 1..m + 1 /\ n + (1 + i) = (n + 1) + i
      OBVIOUS
    <3>2. run.args[n + (1 + i)].files \in Seq(Files)
      BY <1>3, <3>1
    <3> QED
      BY <3>1, <3>2
  <2>3. s \in Seq(Seq(Files)) /\ Len(s) = m
    BY <1>4, <2>2
  <2>4. \A i \in 1..m : s[i] = t[1 + i]
    <3> SUFFICES ASSUME NEW i \in 1..m
                 PROVE  s[i] = t[1 + i]
      OBVIOUS
    <3>1. 1 + i \in 1..m + 1 /\ n + (1 + i) = (n + 1) + i
      OBVIOUS
    <3>2. t[1 + i] = run.args[n + (1 + i)].files
      BY <1>5, <3>1
    <3> QED
      BY <1>4, <3>1, <3>2
  <2> QED
    BY <2>3, <2>4
<1>9. t \in Seq(Seq(Files)) /\ Len(t) = 1 + m /\ t[1] = x
  BY <1>3, <1>5, <1>6
<1>10. h \in Seq(Seq(Files)) /\ Len(h) = 1 /\ h[1] = x
  BY <1>7
<1>11. t = h \o s
  <2>1. PICK T : T = Seq(Files)
    OBVIOUS
  <2>2. h \in Seq(T) /\ s \in Seq(T) /\ t \in Seq(T) /\ Len(t) = Len(h) + Len(s)
    BY <1>8, <1>9, <1>10, <2>1
  <2>3. (\A i \in 1..Len(h) : t[i] = h[i]) /\ \A j \in 1..Len(s) : t[Len(h) + j] = s[j]
    BY <1>8, <1>9, <1>10
  <2> QED
    BY <2>2, <2>3, ConcatGiven
<1>12. FlattenSeq(h \o s) = FlattenSeq(h) \o FlattenSeq(s)
  BY <1>8, <1>10, FlattenConcat
<1>13. FlattenSeq(h) = x
  BY <1>10, FlattenOne
<1>14. FilesFrom(n + 1) = FlattenSeq(s)
  <2>1. Len(run.args) - (n + 1) = m
    BY <1>2
  <2> QED
    BY <1>4, <2>1 DEF FilesFrom
<1>15. FilesFrom(n) = FlattenSeq(t)
  <2>1. Len(run.args) - n = m + 1
    BY <1>2
  <2> QED
    BY <1>5, <2>1 DEF FilesFrom
<1> QED
  BY <1>6, <1>11, <1>12, <1>13, <1>14, <1>15

LEMMA FilesFromEnd ==
  ASSUME TypeOK
  PROVE  FilesFrom(Len(run.args)) = <<>>
<1>1. Len(run.args) - Len(run.args) = 0
  BY RunTypes
<1>2. [i \in 1..0 |-> run.args[Len(run.args) + i].files] = <<>>
  OBVIOUS
<1> QED
  BY <1>1, <1>2, FlattenNone DEF FilesFrom

LEMMA AllFilesFrom ==
  ASSUME TypeOK
  PROVE  /\ run.args # <<>> => AllFiles = FilesFrom(0)
         /\ AllFiles \in Seq(Files)
<1>1. Len(run.args) \in Nat /\ Len(run.args) - 0 = Len(run.args)
  BY RunTypes
<1>2. PICK n \in Nat : n = Len(run.args)
  BY <1>1
<1>3. [i \in 1..n |-> run.args[0 + i].files] = [i \in 1..n |-> run.args[i].files]
  <2>1. \A i \in 1..n : 0 + i = i
    OBVIOUS
  <2> QED
    BY <2>1
<1>4. run.args # <<>> => AllFiles = FilesFrom(0)
  BY <1>1, <1>2, <1>3 DEF AllFiles, FilesFrom
<1>5. FilesFrom(0) \in Seq(Files)
  BY <1>1, FilesFromType
<1>6. run.args = <<>> => AllFiles = <<run.stdin>>
  BY DEF AllFiles
<1>7. <<run.stdin>> \in Seq(Files)
  BY RunTypes
<1> QED
  BY <1>4, <1>5, <1>6, <1>7

-----------------------------------------------------------------------------
(* Where in its input a run is, whatever the mode and the signals.         *)

Quitting == "QUITNOW" \in cmd

Walk ==
  /\ argi <= IF run.args = <<>> THEN 1 ELSE Len(run.args)
  /\ in_dir => run.args # <<>> /\ argi # 0 /\ run.args[argi].kind = "directory"
  /\ pc = "entry" => in_dir
  /\ pc \in {"next", "done"} => ~in_dir
  /\ ~in_dir => entries = <<>>
  /\ pc \in {"next", "entry"} => input.left = <<>>
  /\ \A j \in 1..Len(input.left) - 1 : input.left[j].nl
  /\ ~Quitting /\ (input.eof \/ pc = "close") => input.left = <<>>

LEMMA StartsWithFile ==
  ASSUME NEW f \in Files, StartFile(f)
  PROVE  /\ inputfile' = f.name /\ input'.left = f.lines /\ input'.eof = FALSE /\ pc' = "fill"
         /\ \A j \in 1..Len(input'.left) - 1 : input'.left[j].nl
<1>1. input'.left = f.lines /\ input'.eof = FALSE /\ inputfile' = f.name /\ pc' = "fill"
  BY DEF StartFile, NoFile
<1>2. \A j \in 1..Len(f.lines) - 1 : f.lines[j].nl
  BY ClassifierAssumption
<1> QED
  BY <1>1, <1>2

(* A file that is opened is the next of those to come. *)
LEMMA FileOpened ==
  ASSUME TypeOK, Walk, OpenFile \/ OpenStdin \/ NextEntry
  PROVE  /\ \E f \in Files : StartFile(f) /\ Coming = <<f>> \o Coming'
         /\ Coming' \in Seq(Files) /\ input.left = <<>> /\ Walk' /\ run' = run /\ cmd' = cmd
<1>1. /\ run.args \in Seq(Args) /\ run.stdin \in Files /\ argi \in Nat
      /\ entries \in Seq(Files) /\ Len(run.args) \in Nat
  <2>1. run.args \in Seq(Args)
    BY RunTypes
  <2> QED
    BY <2>1, RunTypes
<1>2. run' = run /\ cmd' = cmd /\ pc \in {"next", "entry"} /\ input.left = <<>>
  BY DEF OpenFile, OpenStdin, NextEntry, HasArg, Untouched, Walk
<1>3. ASSUME NEW f \in Files, StartFile(f), in_dir' = in_dir,
             ~in_dir => entries' = <<>>,
             argi' <= IF run.args = <<>> THEN 1 ELSE Len(run.args),
             in_dir => run.args # <<>> /\ argi' # 0 /\ run.args[argi'].kind = "directory"
      PROVE  Walk'
  <2>1. /\ input'.eof = FALSE /\ pc' = "fill"
        /\ \A j \in 1..Len(input'.left) - 1 : input'.left[j].nl
    BY <1>3, StartsWithFile
  <2> QED
    BY <1>2, <1>3, <2>1 DEF Walk
<1>4. CASE OpenFile
  <2>1. /\ pc = "next" /\ argi < Len(run.args) /\ NextArg.kind = "file" /\ argi' = argi + 1
        /\ StartFile(NextArg.files[1]) /\ entries' = entries /\ in_dir' = in_dir
    BY <1>4 DEF OpenFile, HasArg
  <2>2. NextArg \in Args /\ NextArg.files \in Seq(Files) /\ Len(NextArg.files) = 1
    <3>1. argi + 1 \in 1..Len(run.args)
      BY <1>1, <2>1
    <3>2. NextArg \in Args
      BY <1>1, <3>1 DEF NextArg
    <3> QED
      BY <2>1, <3>2, ClassifierAssumption
  <2>3. PICK f \in Files : f = NextArg.files[1]
    BY <2>2
  <2>4. NextArg.files = <<f>>
    BY <2>2, <2>3, OnlyOne
  <2>5. entries = <<>> /\ ~in_dir
    BY <2>1 DEF Walk
  <2>6. run.args # <<>> /\ run'.args # <<>>
    BY <1>1, <1>2, <2>1
  <2>7. PICK n \in Nat : n = argi
    BY <1>1
  <2>8. FilesFrom(n) = <<f>> \o FilesFrom(n + 1)
    <3>1. FilesFrom(n) = run.args[n + 1].files \o FilesFrom(n + 1)
      BY <2>1, <2>7, FilesFromNext
    <3> QED
      BY <2>4, <2>7, <3>1 DEF NextArg
  <2>9. FilesFrom(n) \in Seq(Files) /\ FilesFrom(n + 1) \in Seq(Files)
    <3>1. n <= Len(run.args) /\ n + 1 <= Len(run.args) /\ n + 1 \in Nat
      BY <1>1, <2>1, <2>7
    <3> QED
      BY <3>1, FilesFromType
  <2>10. Unopened = FilesFrom(n) /\ Unopened' = FilesFrom(n + 1)
    BY <1>2, <2>1, <2>6, <2>7 DEF Unopened, FilesFrom
  <2>11. Coming = FilesFrom(n) /\ Coming' = FilesFrom(n + 1)
    <3>1. <<>> \o FilesFrom(n) = FilesFrom(n) /\ <<>> \o FilesFrom(n + 1) = FilesFrom(n + 1)
      BY <2>9, ConcatEmptySeq
    <3> QED
      BY <2>1, <2>5, <2>10, <3>1 DEF Coming
  <2>12. Walk'
    <3>1. StartFile(f) /\ argi' <= IF run.args = <<>> THEN 1 ELSE Len(run.args)
      BY <1>1, <2>1, <2>3, <2>6
    <3> QED
      BY <1>3, <2>1, <2>5, <3>1
  <2> QED
    BY <1>2, <2>1, <2>3, <2>8, <2>9, <2>11, <2>12
<1>5. CASE OpenStdin
  <2>1. /\ pc = "next" /\ run.args = <<>> /\ argi = 0 /\ argi' = 1
        /\ StartFile(run.stdin) /\ entries' = entries /\ in_dir' = in_dir
    BY <1>5 DEF OpenStdin
  <2>2. entries = <<>> /\ ~in_dir
    BY <2>1 DEF Walk
  <2>3. Unopened = <<run.stdin>> /\ Unopened' = <<>>
    BY <1>2, <2>1 DEF Unopened
  <2>4. Coming = <<run.stdin>> /\ Coming' = <<>>
    <3>1. <<>> \o <<run.stdin>> = <<run.stdin>> /\ <<>> \o <<>> = <<>>
      OBVIOUS
    <3> QED
      BY <2>1, <2>2, <2>3, <3>1 DEF Coming
  <2>5. <<run.stdin>> \o <<>> = <<run.stdin>> /\ <<>> \in Seq(Files)
    OBVIOUS
  <2>6. Walk'
    <3>1. argi' <= IF run.args = <<>> THEN 1 ELSE Len(run.args)
      BY <2>1
    <3> QED
      BY <1>1, <1>3, <2>1, <2>2, <3>1
  <2>7. Coming = <<run.stdin>> \o Coming' /\ Coming' \in Seq(Files)
    BY <2>4, <2>5
  <2> QED
    BY <1>1, <1>2, <2>1, <2>6, <2>7
<1>6. CASE NextEntry
  <2>1. /\ pc = "entry" /\ entries # <<>> /\ entries' = Tail(entries) /\ argi' = argi
        /\ StartFile(Head(entries)) /\ in_dir' = in_dir
    BY <1>6 DEF NextEntry
  <2>2. in_dir /\ run.args # <<>> /\ argi <= Len(run.args)
    BY <2>1 DEF Walk
  <2>3. PICK f \in Files : f = Head(entries)
    BY <1>1, <2>1, SplitAtHead
  <2>4. PICK r \in Seq(Files) : r = Tail(entries)
    BY <1>1, <2>1, SplitAtHead
  <2>5. entries = <<f>> \o r
    BY <1>1, <2>1, <2>3, <2>4, SplitAtHead
  <2>6. Unopened' = Unopened
    BY <1>2, <2>1 DEF Unopened, FilesFrom
  <2>7. PICK u \in Seq(Files) : u = Unopened
    <3>1. Unopened = FilesFrom(argi)
      BY <2>2 DEF Unopened
    <3>2. PICK n \in Nat : n = argi
      BY <1>1
    <3>3. FilesFrom(n) \in Seq(Files)
      BY <2>2, <3>2, FilesFromType
    <3> QED
      BY <3>1, <3>2, <3>3
  <2>8. (<<f>> \o r) \o u = <<f>> \o (r \o u) /\ r \o u \in Seq(Files)
    <3>1. <<f>> \in Seq(Files)
      OBVIOUS
    <3> QED
      BY <3>1, ConcatAssociative, ConcatProperties
  <2>9. Coming' = r \o u /\ Coming = (<<f>> \o r) \o u
    BY <2>1, <2>4, <2>5, <2>6, <2>7 DEF Coming
  <2>10. Walk'
    <3>1. argi' <= IF run.args = <<>> THEN 1 ELSE Len(run.args)
      BY <2>1, <2>2
    <3>2. run.args # <<>> /\ argi' # 0 /\ run.args[argi'].kind = "directory"
      BY <2>1, <2>2 DEF Walk
    <3>3. StartFile(f)
      BY <2>1, <2>3
    <3> QED
      BY <1>3, <2>1, <2>2, <3>1, <3>2, <3>3
  <2> QED
    BY <1>2, <2>1, <2>3, <2>8, <2>9, <2>10
<1> QED
  BY <1>4, <1>5, <1>6

(* A line that is read is the next of those that are left of the file. *)
LEMMA LineRead ==
  ASSUME TypeOK, Walk, ReadLine
  PROVE  /\ Walk' /\ run' = run /\ Coming' = Coming /\ inputfile' = inputfile
         /\ pc = "fill" /\ ~Quitting
         /\ \/ \E l \in FileLine, r \in Seq(FileLine) :
                 /\ input.left = <<l>> \o r /\ input'.left = r /\ numbered' = numbered + 1
                 /\ handle_indents_and_appends(numbered + 1, l)
            \/ /\ input.left = <<>> /\ input'.left = <<>> /\ numbered' = numbered
               /\ handle_indents_and_appends(NotInput, Blank)
<1>1. /\ run' = run /\ argi' = argi /\ entries' = entries /\ in_dir' = in_dir
      /\ inputfile' = inputfile /\ pc = "fill" /\ ~Quitting
  BY DEF ReadLine, Rest, where, Reading, Quitting
<1>2. Coming' = Coming
  BY <1>1 DEF Coming, Unopened, FilesFrom
<1>3. PICK q \in InputFile : q = input
  BY DEF TypeOK
<1>4. ASSUME pc' \in {"fill", "score"},
             \A j \in 1..Len(input'.left) - 1 : input'.left[j].nl,
             input'.eof => input'.left = <<>>
      PROVE  Walk'
  BY <1>1, <1>4 DEF Walk
<1>5. CASE input.left = <<>>
  <2>1. input' = [q EXCEPT !.eof = TRUE] /\ handle_indents_and_appends(NotInput, Blank)
        /\ numbered' = numbered
    BY <1>3, <1>5 DEF ReadLine
  <2>2. input'.left = <<>>
    BY <1>3, <1>5, <2>1 DEF InputFile
  <2>3. pc' \in {"fill", "score"}
    BY <2>1, BlankLine, TokensOfLine
  <2>4. \A j \in 1..Len(input'.left) - 1 : input'.left[j].nl
    BY <2>2
  <2>5. Walk'
    BY <1>4, <2>2, <2>3, <2>4
  <2> QED
    BY <1>1, <1>2, <1>5, <2>1, <2>2, <2>5
<1>6. CASE input.left # <<>>
  <2>1. PICK s \in Seq(FileLine) : s = input.left
    BY RunTypes
  <2>2. PICK l \in FileLine : l = Head(s)
    BY <1>6, <2>1, SplitAtHead
  <2>3. PICK r \in Seq(FileLine) : r = Tail(s)
    BY <1>6, <2>1, SplitAtHead
  <2>4. s = <<l>> \o r
    BY <1>6, <2>1, <2>2, <2>3, SplitAtHead
  <2>5. /\ input' = [q EXCEPT !.left = r, !.eof = ~l.nl]
        /\ handle_indents_and_appends(numbered + 1, l) /\ numbered' = numbered + 1
    <3>1. input' = [input EXCEPT !.left = Tail(input.left), !.eof = ~Head(input.left).nl]
      BY <1>6 DEF ReadLine
    <3>2. handle_indents_and_appends(numbered + 1, Head(input.left)) /\ numbered' = numbered + 1
      BY <1>6 DEF ReadLine
    <3> QED
      BY <1>3, <2>1, <2>2, <2>3, <3>1, <3>2
  <2>6. input'.left = r /\ input'.eof = ~l.nl
    BY <1>3, <2>5 DEF InputFile
  <2>7. pc' \in {"fill", "score"}
    BY <2>5, TokensOfLine
  <2>8. PICK n \in Nat : n = Len(r)
    OBVIOUS
  <2>9. Len(s) = n + 1 /\ s[1] = l /\ \A j \in 1..n : s[j + 1] = r[j]
    BY <2>4, <2>8
  <2>10. \A j \in 1..n : s[j].nl
    <3>1. \A j \in 1..Len(s) - 1 : s[j].nl
      BY <2>1 DEF Walk
    <3> QED
      BY <2>9, <3>1
  <2>11. \A j \in 1..Len(r) - 1 : r[j].nl
    <3> SUFFICES ASSUME NEW j \in 1..n - 1
                 PROVE  r[j].nl
      BY <2>8
    <3>1. j \in 1..n /\ j + 1 \in 1..n
      OBVIOUS
    <3> QED
      BY <2>9, <2>10, <3>1
  <2>12. ~l.nl => r = <<>>
    <3>1. n # 0 => l.nl
      BY <2>9, <2>10
    <3> QED
      BY <2>8, <3>1
  <2>13. Walk'
    BY <1>4, <2>6, <2>7, <2>11, <2>12
  <2> QED
    BY <1>1, <1>2, <2>1, <2>4, <2>5, <2>6, <2>13
<1> QED
  BY <1>5, <1>6

(* The steps that neither open a file nor read a line of one. *)
Idle ==
  \/ OpenDirectory \/ LeaveDirectory \/ ReadClosed \/ ReadExtraLine \/ EndOfFile
  \/ ScoreWord \/ EndLine \/ CloseFile \/ Finish
  \/ (\E sig \in Signals : Raise(sig)) \/ (\E c \in Cats : Relearn(c))

LEMMA StaysInPlace ==
  ASSUME TypeOK, Walk, Idle
  PROVE  /\ Walk' /\ run' = run /\ Coming' = Coming /\ numbered' = numbered
         /\ "QUITNOW" \notin cmd' => ~Quitting /\ input'.left = input.left
<1>1. run' = run /\ numbered' = numbered
  BY DEF Idle, OpenDirectory, LeaveDirectory, ReadClosed, ReadExtraLine, EndOfFile, ScoreWord,
         EndLine, CloseFile, Finish, Raise, Relearn, Untouched, Rest, line
<1>2. PICK q \in InputFile : q = input
  BY DEF TypeOK
<1>3. CASE OpenDirectory
  <2>1. /\ pc = "next" /\ argi < Len(run.args) /\ NextArg.kind = "directory" /\ argi' = argi + 1
        /\ pc' = "entry" /\ in_dir' = TRUE /\ entries' = NextArg.files
        /\ input' = input /\ cmd' = cmd
    BY <1>3 DEF OpenDirectory, HasArg, Untouched
  <2>2. run.args \in Seq(Args) /\ argi \in Nat
    BY RunTypes
  <2>3. run.args # <<>> /\ argi + 1 \in 1..Len(run.args) /\ Len(run.args) \in Nat
    BY <2>1, <2>2
  <2>4. PICK n \in Nat : n = argi
    BY <2>2
  <2>5. FilesFrom(n) = NextArg.files \o FilesFrom(n + 1)
    <3>1. FilesFrom(n) = run.args[n + 1].files \o FilesFrom(n + 1)
      BY <2>1, <2>4, FilesFromNext
    <3> QED
      BY <2>4, <3>1 DEF NextArg
  <2>6. FilesFrom(n) \in Seq(Files)
    BY <2>3, <2>4, FilesFromType
  <2>7. Unopened = FilesFrom(n) /\ Unopened' = FilesFrom(n + 1)
    BY <1>1, <2>1, <2>3, <2>4 DEF Unopened, FilesFrom
  <2>8. entries = <<>>
    BY <2>1 DEF Walk
  <2>9. Coming' = Coming
    <3>1. <<>> \o FilesFrom(n) = FilesFrom(n)
      BY <2>6, ConcatEmptySeq
    <3> QED
      BY <2>1, <2>5, <2>7, <2>8, <3>1 DEF Coming
  <2>10. Walk'
    <3>1. argi' <= IF run'.args = <<>> THEN 1 ELSE Len(run'.args)
      BY <1>1, <2>1, <2>3
    <3>2. run'.args # <<>> /\ argi' # 0 /\ run'.args[argi'].kind = "directory"
      BY <1>1, <2>1, <2>2, <2>3 DEF NextArg
    <3>3. input.left = <<>> /\ Len(<<>>) = 0
      BY <2>1 DEF Walk
    <3>4. \A j \in 1..Len(input.left) - 1 : input.left[j].nl
      BY <3>3
    <3> QED
      BY <2>1, <3>1, <3>2, <3>3, <3>4 DEF Walk
  <2> QED
    BY <1>1, <2>1, <2>9, <2>10 DEF Quitting
<1>4. CASE LeaveDirectory
  <2>1. /\ pc = "entry" /\ entries = <<>> /\ pc' = "close" /\ in_dir' = FALSE /\ entries' = entries
        /\ argi' = argi /\ cmd' = cmd /\ input'.left = <<>>
    BY <1>4 DEF LeaveDirectory, Untouched, NoFile
  <2>2. input.left = <<>>
    BY <2>1 DEF Walk
  <2>3. Coming' = Coming
    BY <1>1, <2>1 DEF Coming, Unopened, FilesFrom
  <2>4. \A j \in 1..Len(input'.left) - 1 : input'.left[j].nl
    BY <2>1
  <2>5. Walk'
    BY <1>1, <2>1, <2>4 DEF Walk
  <2> QED
    BY <1>1, <2>1, <2>2, <2>3, <2>5 DEF Quitting
<1>5. CASE /\ UNCHANGED where
           /\ \/ ReadClosed \/ ReadExtraLine \/ EndOfFile \/ ScoreWord \/ EndLine \/ CloseFile
              \/ Finish \/ (\E sig \in Signals : Raise(sig)) \/ (\E c \in Cats : Relearn(c))
  <2>1. argi' = argi /\ entries' = entries /\ in_dir' = in_dir
    BY <1>5 DEF where
  <2>2. Coming' = Coming
    BY <1>1, <2>1 DEF Coming, Unopened, FilesFrom
  <2>3. ASSUME input'.left = input.left, "QUITNOW" \in cmd' \/ input'.eof = input.eof,
               pc' \in {"entry", "next"} => pc' = pc,
               "QUITNOW" \notin cmd' => ~Quitting /\ (pc' = "close" => input.left = <<>>),
               pc' = "done" => ~in_dir
        PROVE  Walk'
    <3>1. /\ argi' <= IF run'.args = <<>> THEN 1 ELSE Len(run'.args)
          /\ in_dir' => run'.args # <<>> /\ argi' # 0 /\ run'.args[argi'].kind = "directory"
          /\ ~in_dir' => entries' = <<>>
      BY <1>1, <2>1 DEF Walk
    <3>2. /\ pc' = "entry" => in_dir'
          /\ pc' \in {"next", "done"} => ~in_dir'
          /\ pc' \in {"next", "entry"} => input'.left = <<>>
      BY <2>1, <2>3 DEF Walk
    <3>3. \A j \in 1..Len(input'.left) - 1 : input'.left[j].nl
      BY <2>3 DEF Walk
    <3>4. ~Quitting' /\ (input'.eof \/ pc' = "close") => input'.left = <<>>
      BY <2>3 DEF Walk, Quitting
    <3> QED
      BY <3>1, <3>2, <3>3, <3>4 DEF Walk
  <2>4. CASE ReadClosed
    <3>1. input' = [q EXCEPT !.closed = TRUE] /\ "QUITNOW" \in cmd'
      BY <1>2, <2>4 DEF ReadClosed
    <3>2. input'.left = input.left
      BY <1>2, <3>1 DEF InputFile
    <3>3. pc' \in {"fill", "score", "crashed"}
      BY <2>4, BlankLine, TokensOfLine DEF ReadClosed
    <3>4. Walk'
      BY <2>3, <3>1, <3>2, <3>3
    <3> QED
      BY <1>1, <2>2, <3>1, <3>4
  <2>5. CASE ReadExtraLine
    <3>1. input' = [q EXCEPT !.extra_lines = q.extra_lines - 1] /\ cmd' = cmd
      BY <1>2, <2>5 DEF ReadExtraLine
    <3>2. input'.left = input.left /\ input'.eof = input.eof
      BY <1>2, <3>1 DEF InputFile
    <3>3. pc' \in {"fill", "score"}
      BY <2>5, BlankLine, TokensOfLine DEF ReadExtraLine
    <3>4. Walk'
      BY <2>3, <3>1, <3>2, <3>3 DEF Quitting
    <3> QED
      BY <1>1, <2>2, <3>1, <3>2, <3>4 DEF Quitting
  <2>6. CASE EndOfFile
    <3>1. input' = input /\ cmd' = cmd /\ pc' = "close" /\ pc = "fill" /\ ~Reading
      BY <2>6 DEF EndOfFile
    <3>2. ~Quitting => input.left = <<>>
      BY <3>1 DEF Reading, Quitting, Walk
    <3>3. Walk'
      BY <2>3, <3>1, <3>2 DEF Quitting
    <3> QED
      BY <1>1, <2>2, <3>1, <3>3 DEF Quitting
  <2>7. CASE ScoreWord
    <3>1. input' = input /\ cmd' = cmd /\ pc' = pc /\ pc = "score"
      BY <2>7 DEF ScoreWord
    <3>2. Walk'
      BY <2>3, <3>1 DEF Quitting
    <3> QED
      BY <1>1, <2>2, <3>1, <3>2 DEF Quitting
  <2>8. CASE EndLine
    <3>1. input' = input /\ pc' \in {"fill", "exited"} /\ cmd' \in {cmd, cmd \ {"RELOAD_CATS"}}
      BY <2>8 DEF EndLine
    <3>2. "QUITNOW" \notin cmd' => ~Quitting
      BY <3>1 DEF Quitting
    <3>3. Walk'
      BY <2>3, <3>1, <3>2
    <3> QED
      BY <1>1, <2>2, <3>1, <3>2, <3>3
  <2>9. CASE CloseFile
    <3>1. /\ pc = "close" /\ pc' \in {IF in_dir THEN "entry" ELSE "next", "crashed"}
          /\ input'.left = <<>> /\ cmd' = cmd
      BY <2>9 DEF CloseFile, NoFile
    <3>2. ~Quitting => input.left = <<>>
      BY <3>1 DEF Walk
    <3>3. \A j \in 1..Len(input'.left) - 1 : input'.left[j].nl
      BY <3>1
    <3>4. Walk'
      BY <1>1, <2>1, <3>1, <3>3 DEF Walk
    <3> QED
      BY <1>1, <2>2, <3>1, <3>2, <3>4 DEF Quitting
  <2>10. CASE Finish
    <3>1. input' = input /\ cmd' = cmd /\ pc = "next" /\ pc' = "done"
      BY <2>10 DEF Finish
    <3>2. input.left = <<>> /\ ~in_dir
      BY <3>1 DEF Walk
    <3>3. Walk'
      BY <2>3, <3>1, <3>2 DEF Quitting
    <3> QED
      BY <1>1, <2>2, <3>1, <3>3 DEF Quitting
  <2>11. CASE (\E sig \in Signals : Raise(sig)) \/ (\E c \in Cats : Relearn(c))
    <3>1. input' = input /\ cmd' = cmd /\ pc' = pc
      BY <2>11 DEF Raise, Relearn
    <3>2. Walk'
      BY <1>1, <2>1, <3>1 DEF Walk, Quitting
    <3> QED
      BY <1>1, <2>2, <3>1, <3>2 DEF Quitting
  <2> QED
    BY <1>5, <2>4, <2>5, <2>6, <2>7, <2>8, <2>9, <2>10, <2>11
<1>6. \/ ReadClosed \/ ReadExtraLine \/ EndOfFile \/ ScoreWord \/ EndLine \/ CloseFile
      \/ Finish \/ (\E sig \in Signals : Raise(sig)) \/ (\E c \in Cats : Relearn(c))
      => UNCHANGED where
  BY DEF ReadClosed, ReadExtraLine, EndOfFile, ScoreWord, EndLine, CloseFile, Finish, Raise,
         Relearn, Rest
<1> QED
  BY <1>3, <1>4, <1>5, <1>6 DEF Idle

LEMMA WalkStep == TypeOK /\ Walk /\ [Next]_vars => Walk'
<1> SUFFICES ASSUME TypeOK, Walk, [Next]_vars PROVE Walk'
  OBVIOUS
<1>1. CASE UNCHANGED vars
  BY <1>1 DEF Walk, Quitting, vars, where
<1>2. CASE OpenFile \/ OpenStdin \/ NextEntry
  BY <1>2, FileOpened
<1>3. CASE ReadLine
  BY <1>3, LineRead
<1>4. CASE Idle
  BY <1>4, StaysInPlace
<1>5. CASE OpenFails
  <2>1. /\ pc = "next" /\ argi < Len(run.args) /\ argi' = argi + 1 /\ pc' = "exited"
        /\ entries' = entries /\ in_dir' = in_dir /\ input' = input /\ cmd' = cmd /\ run' = run
    BY <1>5 DEF OpenFails, HasArg, Untouched
  <2>2. run.args \in Seq(Args) /\ argi \in Nat
    BY RunTypes
  <2>3. argi' <= IF run'.args = <<>> THEN 1 ELSE Len(run'.args)
    BY <2>1, <2>2
  <2>4. ~in_dir
    BY <2>1 DEF Walk
  <2> QED
    BY <2>1, <2>3, <2>4 DEF Walk, Quitting
<1>6. CASE ExitOnSignal
  <2>1. UNCHANGED where /\ pc' = "exited" /\ input' = input /\ cmd' = cmd /\ run' = run
    BY <1>6 DEF ExitOnSignal, Rest
  <2> QED
    BY <2>1 DEF Walk, Quitting, where
<1> QED
  BY <1>1, <1>2, <1>3, <1>4, <1>5, <1>6 DEF Next, Program, Idle

LEMMA StaysStopped == Stopped /\ [Next]_vars => Stopped'
<1> SUFFICES ASSUME Stopped, [Next]_vars PROVE Stopped'
  OBVIOUS
<1>1. CASE UNCHANGED vars
  BY <1>1 DEF vars, Stopped
<1>2. CASE \/ OpenFile \/ OpenDirectory \/ OpenFails \/ OpenStdin \/ NextEntry \/ LeaveDirectory
           \/ ScoreWord \/ EndLine \/ CloseFile \/ Finish
  BY <1>2 DEF Stopped, OpenFile, OpenDirectory, OpenFails, OpenStdin, NextEntry, LeaveDirectory,
              ScoreWord, EndLine, CloseFile, Finish, HasArg
<1>3. CASE ExitOnSignal \/ ReadLine \/ ReadClosed \/ ReadExtraLine \/ EndOfFile
  BY <1>3 DEF Stopped, ExitOnSignal, ReadLine, ReadClosed, ReadExtraLine, EndOfFile, Reading
<1>4. CASE (\E sig \in Signals : Raise(sig)) \/ (\E c \in Cats : Relearn(c))
  BY <1>4 DEF Raise, Relearn
<1> QED
  BY <1>1, <1>2, <1>3, <1>4 DEF Next, Program

LEMMA ComingType == TypeOK /\ Walk => Coming \in Seq(Files)
<1> SUFFICES ASSUME TypeOK, Walk PROVE Coming \in Seq(Files)
  OBVIOUS
<1>1. entries \in Seq(Files) /\ run.stdin \in Files /\ argi \in Nat
  BY RunTypes
<1>2. PICK n \in Nat : n = argi
  BY <1>1
<1>3. run.args # <<>> => FilesFrom(n) \in Seq(Files)
  BY <1>2, FilesFromType DEF Walk
<1>4. <<>> \in Seq(Files) /\ <<run.stdin>> \in Seq(Files)
  BY <1>1
<1>5. Unopened \in Seq(Files)
  BY <1>2, <1>3, <1>4 DEF Unopened
<1> QED
  BY <1>1, <1>5, ConcatProperties DEF Coming

LEMMA SameRun ==
  ASSUME run' = run
  PROVE  /\ AllFiles' = AllFiles
         /\ \A lines : TextOf(lines)' = TextOf(lines)
         /\ \A name : Documents(name)' = Documents(name)
<1>1. AllFiles' = AllFiles
  BY DEF AllFiles
<1>2. \A lines : TextOf(lines)' = TextOf(lines)
  BY DEF TextOf, Kept
<1> QED
  BY <1>1, <1>2 DEF Documents

(* How far through its input a run has come: the files it has passed, and,  *)
(* until it is told to stop, the lines.                                    *)
Placed ==
  /\ \E past \in Seq(Files) : AllFiles = past \o Coming
  /\ ~Quitting => \E seen \in Seq(FileLine) :
                    Len(seen) = numbered /\ LinesOf(AllFiles) = seen \o Unread

LEMMA PlacedInit == Init => Walk /\ Placed
<1> SUFFICES ASSUME Init PROVE Walk /\ Placed
  OBVIOUS
<1>1. TypeOK
  BY TypeInit
<1>2. /\ argi = 0 /\ entries = <<>> /\ in_dir = FALSE /\ pc = "next" /\ numbered = 0 /\ cmd = {}
      /\ input.left = <<>> /\ input.eof = FALSE
  BY DEF Init, NoFile
<1>3. run.args \in Seq(Args)
  BY <1>1, RunTypes
<1>4. Walk
  <2>1. argi <= IF run.args = <<>> THEN 1 ELSE Len(run.args)
    BY <1>2, <1>3
  <2>2. Len(<<>>) = 0
    OBVIOUS
  <2>3. \A j \in 1..Len(input.left) - 1 : input.left[j].nl
    BY <1>2, <2>2
  <2> QED
    BY <1>2, <2>1, <2>3 DEF Walk, Quitting
<1>5. PICK s \in Seq(Files) : s = AllFiles
  BY <1>1, AllFilesFrom
<1>6. Unopened = s
  <2>1. run.args # <<>> => Unopened = FilesFrom(0)
    BY <1>2 DEF Unopened, FilesFrom
  <2>2. run.args = <<>> => Unopened = <<run.stdin>> /\ AllFiles = <<run.stdin>>
    BY <1>2 DEF Unopened, AllFiles
  <2> QED
    BY <1>1, <1>5, <2>1, <2>2, AllFilesFrom
<1>7. Coming = s /\ s = <<>> \o s /\ <<>> \in Seq(Files)
  BY <1>2, <1>6, ConcatEmptySeq DEF Coming
<1>8. PICK w \in Seq(FileLine) : w = LinesOf(s)
  BY LinesOfType
<1>9. Unread = w /\ w = <<>> \o w /\ <<>> \in Seq(FileLine) /\ Len(<<>>) = 0
  BY <1>2, <1>7, <1>8, ConcatEmptySeq DEF Unread
<1>10. LinesOf(AllFiles) = w
  BY <1>5, <1>8
<1> QED
  BY <1>2, <1>4, <1>5, <1>7, <1>9, <1>10 DEF Placed

(* Opening a file does not change what is unread. *)
LEMMA OpenedUnread ==
  ASSUME TypeOK, Walk, OpenFile \/ OpenStdin \/ NextEntry
  PROVE  Unread' = Unread
<1>1. PICK f \in Files : StartFile(f) /\ Coming = <<f>> \o Coming'
  BY FileOpened
<1>2. PICK r \in Seq(Files) : r = Coming'
  BY FileOpened
<1>3. input.left = <<>> /\ input'.left = f.lines /\ <<f>> \in Seq(Files)
  <2>1. input.left = <<>>
    BY FileOpened
  <2>2. input'.left = f.lines
    BY <1>1, StartsWithFile
  <2> QED
    BY <2>1, <2>2
<1>4. LinesOf(<<f>> \o r) = f.lines \o LinesOf(r)
  BY <1>3, LinesOfConcat, LinesOfOne
<1>5. LinesOf(<<f>> \o r) \in Seq(FileLine)
  <2>1. <<f>> \o r \in Seq(Files)
    BY <1>3, ConcatProperties
  <2> QED
    BY <2>1, LinesOfType
<1>6. Unread = LinesOf(<<f>> \o r)
  BY <1>1, <1>2, <1>3, <1>5, ConcatEmptySeq DEF Unread
<1>7. Unread' = f.lines \o LinesOf(r)
  <2>1. Unread' = input'.left \o LinesOf(Coming')
    BY DEF Unread, LinesOf
  <2> QED
    BY <1>2, <1>3, <2>1
<1> QED
  BY <1>4, <1>6, <1>7

(* Reading a line takes it from what is unread. *)
LEMMA LineTaken ==
  ASSUME TypeOK, Walk, ReadLine
  PROVE  \/ /\ Unread' = Unread /\ numbered' = numbered
            /\ input.left = <<>> /\ input'.left = <<>>
            /\ handle_indents_and_appends(NotInput, Blank)
         \/ \E l \in FileLine, w \in Seq(FileLine), r \in Seq(FileLine) :
              /\ input.left = <<l>> \o r /\ input'.left = r
              /\ Unread = <<l>> \o w /\ Unread' = w /\ numbered' = numbered + 1
              /\ handle_indents_and_appends(numbered + 1, l)
<1>1. PICK C \in Seq(Files) : C = Coming
  BY ComingType
<1>2. PICK u \in Seq(FileLine) : u = LinesOf(C)
  BY LinesOfType
<1>3. Unread = input.left \o u
  BY <1>1, <1>2 DEF Unread
<1>4. Unread' = input'.left \o u
  <2>1. Coming' = C
    BY <1>1, LineRead
  <2>2. Unread' = input'.left \o LinesOf(Coming')
    BY DEF Unread, LinesOf
  <2> QED
    BY <1>2, <2>1, <2>2
<1>5. CASE input.left = <<>> /\ input'.left = <<>> /\ numbered' = numbered
           /\ handle_indents_and_appends(NotInput, Blank)
  BY <1>3, <1>4, <1>5
<1>6. CASE \E l \in FileLine, r \in Seq(FileLine) :
             /\ input.left = <<l>> \o r /\ input'.left = r /\ numbered' = numbered + 1
             /\ handle_indents_and_appends(numbered + 1, l)
  <2>1. PICK l \in FileLine, r \in Seq(FileLine) :
             /\ input.left = <<l>> \o r /\ input'.left = r /\ numbered' = numbered + 1
             /\ handle_indents_and_appends(numbered + 1, l)
    BY <1>6
  <2>2. PICK w : w = r \o u
    OBVIOUS
  <2>3. w \in Seq(FileLine) /\ Unread' = w
    BY <1>4, <2>1, <2>2, ConcatProperties
  <2>4. Unread = <<l>> \o w
    <3>1. <<l>> \in Seq(FileLine)
      OBVIOUS
    <3> QED
      BY <1>3, <2>1, <2>2, <3>1, ConcatAssociative
  <2> QED
    BY <2>1, <2>3, <2>4
<1> QED
  BY <1>5, <1>6, LineRead

LEMMA PlacedStep == TypeOK /\ Walk /\ Placed /\ [Next]_vars /\ ~Stopped' => Placed'
<1> SUFFICES ASSUME TypeOK, Walk, Placed, [Next]_vars, ~Stopped' PROVE Placed'
  OBVIOUS
<1>1. run' = run /\ AllFiles' = AllFiles
  BY WhoScores, SameRun
<1>2. LinesOf(AllFiles)' = LinesOf(AllFiles)
  BY <1>1 DEF LinesOf
<1>3. PICK past \in Seq(Files) : AllFiles = past \o Coming
  BY DEF Placed
<1>4. CASE UNCHANGED vars
  <2>1. Coming' = Coming /\ cmd' = cmd /\ numbered' = numbered /\ input' = input
    BY <1>4 DEF vars, where, line, Coming, Unopened, FilesFrom
  <2>2. Unread' = Unread
    <3>1. Unread' = input'.left \o LinesOf(Coming')
      BY DEF Unread, LinesOf
    <3> QED
      BY <2>1, <3>1 DEF Unread
  <2> QED
    BY <1>1, <1>2, <1>3, <2>1, <2>2 DEF Placed, Quitting
<1>5. CASE OpenFile \/ OpenStdin \/ NextEntry
  <2>1. PICK f \in Files : Coming = <<f>> \o Coming'
    BY <1>5, FileOpened
  <2>2. PICK r \in Seq(Files) : r = Coming'
    BY <1>5, FileOpened
  <2>3. <<f>> \in Seq(Files) /\ past \o <<f>> \in Seq(Files)
    <3>1. <<f>> \in Seq(Files)
      OBVIOUS
    <3> QED
      BY <3>1, ConcatProperties
  <2>4. AllFiles = (past \o <<f>>) \o r
    BY <1>3, <2>1, <2>2, <2>3, ConcatAssociative
  <2>5. Unread' = Unread
    BY <1>5, OpenedUnread
  <2>6. numbered' = numbered /\ cmd' = cmd
    BY <1>5 DEF OpenFile, OpenStdin, NextEntry, Untouched, line
  <2> QED
    BY <1>1, <1>2, <2>2, <2>3, <2>4, <2>5, <2>6 DEF Placed, Quitting
<1>6. CASE ReadLine
  <2>1. Coming' = Coming /\ ~Quitting
    BY <1>6, LineRead
  <2>2. PICK seen \in Seq(FileLine) : Len(seen) = numbered /\ LinesOf(AllFiles) = seen \o Unread
    BY <2>1 DEF Placed
  <2>3. \E s \in Seq(FileLine) : Len(s) = numbered' /\ LinesOf(AllFiles) = s \o Unread'
    <3>1. CASE Unread' = Unread /\ numbered' = numbered
      BY <2>2, <3>1
    <3>2. CASE \E l \in FileLine, w \in Seq(FileLine) :
                 Unread = <<l>> \o w /\ Unread' = w /\ numbered' = numbered + 1
      <4>1. PICK l \in FileLine, w \in Seq(FileLine) :
                 Unread = <<l>> \o w /\ Unread' = w /\ numbered' = numbered + 1
        BY <3>2
      <4>2. PICK s : s = seen \o <<l>>
        OBVIOUS
      <4>3. <<l>> \in Seq(FileLine)
        OBVIOUS
      <4>4. s \in Seq(FileLine) /\ Len(s) = Len(seen) + 1
        BY <4>2, <4>3, ConcatProperties
      <4>5. seen \o (<<l>> \o w) = s \o w
        BY <4>2, <4>3, ConcatAssociative
      <4> QED
        BY <2>2, <4>1, <4>4, <4>5
    <3> QED
      BY <1>6, <3>1, <3>2, LineTaken
  <2> QED
    BY <1>1, <1>2, <1>3, <2>1, <2>3 DEF Placed
<1>7. CASE Idle
  <2>1. Coming' = Coming /\ numbered' = numbered
        /\ ("QUITNOW" \notin cmd' => ~Quitting /\ input'.left = input.left)
    BY <1>7, StaysInPlace
  <2>2. ~Quitting' => ~Quitting /\ Unread' = Unread
    <3>1. Unread' = input'.left \o LinesOf(Coming')
      BY DEF Unread, LinesOf
    <3> QED
      BY <2>1, <3>1 DEF Unread, Quitting
  <2> QED
    BY <1>1, <1>2, <1>3, <2>1, <2>2 DEF Placed
<1>8. CASE OpenFails \/ ExitOnSignal
  BY <1>8 DEF OpenFails, ExitOnSignal, Stopped
<1> QED
  BY <1>4, <1>5, <1>6, <1>7, <1>8 DEF Next, Program, Idle

-----------------------------------------------------------------------------
(* The scores of a document of which p has been scored so far. Categories   *)
(* that were loaded anew know only its later tokens.                       *)

ScoreOf(k, l, n, p) ==
  \E a \in Seq(Tokens), b \in Seq(Tokens) :
    /\ Admitted(p) = a \o b
    /\ n = 0 => a = <<>>
    /\ \A c \in Cats : k[c].score = Chosen(b, Versions[c][l[c]])

Measured(e, p) == run.entropy => MeasureOf(e, p)

LEMMA SameAdmitted ==
  ASSUME run' = run
  PROVE  /\ \A p : Admitted(p)' = Admitted(p)
         /\ \A k, l, n, p : ScoreOf(k, l, n, p)' <=> ScoreOf(k, l, n, p)
         /\ \A e, p : Measured(e, p)' <=> Measured(e, p)
<1>1. \A p, i : HasPlace(p, i)' <=> HasPlace(p, i)
  BY DEF HasPlace
<1>2. \A p : Admitted(p)' = Admitted(p)
  BY <1>1 DEF Admitted
<1>3. \A k, l, n, p : ScoreOf(k, l, n, p)' <=> ScoreOf(k, l, n, p)
  BY <1>2 DEF ScoreOf
<1>4. \A e, p : Measured(e, p)' <=> Measured(e, p)
  BY <1>1 DEF Measured, MeasureOf
<1> QED
  BY <1>2, <1>3, <1>4

LEMMA NothingYet ==
  ASSUME NEW k, NEW l, NEW n, \A c \in Cats : k[c].score = <<>>
  PROVE  ScoreOf(k, l, n, <<>>)
<1>1. <<>> \in Seq(Tokens) /\ <<>> = <<>> \o <<>>
  OBVIOUS
<1> QED
  BY <1>1, AdmittedNone, ChosenNone DEF ScoreOf

(* Categories loaded anew forget what was scored. *)
LEMMA ForgetsScores ==
  ASSUME NEW k, NEW l, NEW n, n # 0, \A c \in Cats : k[c].score = <<>>, NEW p \in Seq(Tokens)
  PROVE  ScoreOf(k, l, n, p)
<1>1. PICK a \in Seq(Tokens) : a = Admitted(p)
  BY AdmittedType
<1>2. <<>> \in Seq(Tokens) /\ a = a \o <<>>
  BY ConcatEmptySeq
<1> QED
  BY <1>1, <1>2, ChosenNone DEF ScoreOf

(* A token is scored for the categories that it applies to, if there is    *)
(* room for it.                                                            *)
LEMMA TokenScored ==
  ASSUME NoZeroId, FreeSlotRemains, TypeOK, EmpInv(emp), NEW t \in Tokens, score_word(t),
         NEW p \in Seq(Tokens), ScoreOf(cat, loaded, raised, p), Measured(emp, p)
  PROVE  /\ ScoreOf(cat', loaded, raised, Append(p, t))
         /\ Measured(emp', Append(p, t))
<1>1. PICK q \in Seq(Tokens) : q = Append(p, t)
  BY AppendProperties
<1>2. PICK a \in Seq(Tokens), b \in Seq(Tokens) :
        /\ Admitted(p) = a \o b
        /\ raised = 0 => a = <<>>
        /\ \A c \in Cats : cat[c].score = Chosen(b, Versions[c][loaded[c]])
  BY DEF ScoreOf
<1>3. PICK id \in Nat : id = Token[t].id
  BY ClassifierAssumption DEF Tokens
<1>4. id # 0
  BY <1>3 DEF NoZeroId
<1>5. run.entropy => /\ MeasureOf(Counted(emp, id), q)
                     /\ Refused(emp, id) <=> ~HasPlace(q, Len(p) + 1)
  <2> SUFFICES ASSUME run.entropy
               PROVE  /\ MeasureOf(Counted(emp, id), q)
                      /\ Refused(emp, id) <=> ~HasPlace(q, Len(p) + 1)
    OBVIOUS
  <2>1. PICK e : e = emp
    OBVIOUS
  <2>2. EmpInv(e) /\ MeasureOf(e, p) /\ Token[t].id # 0
    BY <1>3, <1>4, <2>1 DEF Measured
  <2>3. /\ MeasureOf(Counted(e, Token[t].id), Append(p, t))
        /\ Refused(e, Token[t].id) <=> ~HasPlace(Append(p, t), Len(p) + 1)
    BY <2>2, MeasureOfOneMore
  <2> QED
    BY <1>1, <1>3, <2>1, <2>3
<1>6. Token[t].id = id
  BY <1>3
<1>7. CASE HasPlace(q, Len(p) + 1)
  <2>1. ~(run.entropy /\ Refused(emp, Token[t].id))
    BY <1>5, <1>6, <1>7
  <2>2. emp' = (IF run.entropy THEN Counted(emp, Token[t].id) ELSE emp)
    BY <2>1 DEF score_word
  <2>3. Measured(emp', q)
    BY <1>5, <1>6, <2>2 DEF Measured
  <2>4. \A c \in Cats : cat'[c].score = IF Applies(Version(c), t) THEN Append(cat[c].score, t)
                                        ELSE cat[c].score
    <3>1. cat' = [c \in Cats |->
            IF ~Applies(Version(c), t) THEN cat[c]
            ELSE [score |-> Append(cat[c].score, t),
                  fmiss |-> cat[c].fmiss + IF find_in_category(Version(c), t) THEN 0 ELSE 1]]
      BY <2>1 DEF score_word
    <3> QED
      BY <3>1, Zenon
  <2>5. PICK r \in Seq(Tokens) : r = Append(b, t)
    BY AppendProperties
  <2>6. Admitted(q) = a \o r
    <3>1. Admitted(q) = Append(Admitted(p), t)
      BY <1>1, <1>7, AdmittedOneMore
    <3>2. a \o Append(b, t) = Append(a \o b, t)
      BY ConcatAppend
    <3> QED
      BY <1>2, <2>5, <3>1, <3>2
  <2>7. \A c \in Cats : cat'[c].score = Chosen(r, Versions[c][loaded[c]])
    <3> SUFFICES ASSUME NEW c \in Cats
                 PROVE  cat'[c].score = Chosen(r, Versions[c][loaded[c]])
      OBVIOUS
    <3>1. PICK v : v = Versions[c][loaded[c]]
      OBVIOUS
    <3>2. Chosen(r, v) = IF Applies(v, t) THEN Append(Chosen(b, v), t) ELSE Chosen(b, v)
      BY <2>5, ChosenOneMore
    <3>3. cat[c].score = Chosen(b, v)
      BY <1>2, <3>1
    <3>4. cat'[c].score = IF Applies(v, t) THEN Append(cat[c].score, t) ELSE cat[c].score
      BY <2>4, <3>1 DEF Version
    <3> QED
      BY <3>1, <3>2, <3>3, <3>4
  <2>8. ScoreOf(cat', loaded, raised, q)
    BY <1>2, <2>6, <2>7 DEF ScoreOf
  <2> QED
    BY <1>1, <2>3, <2>8
<1>8. CASE ~HasPlace(q, Len(p) + 1)
  <2>1. run.entropy /\ Refused(emp, Token[t].id)
    BY <1>5, <1>6, <1>8 DEF HasPlace
  <2>2. cat' = cat /\ emp' = emp
    BY <2>1 DEF score_word
  <2>3. Counted(emp, id) = emp
    BY <1>6, <2>1 DEF Counted
  <2>4. Measured(emp', q)
    BY <1>5, <2>2, <2>3 DEF Measured
  <2>5. Admitted(q) = Admitted(p)
    BY <1>1, <1>8, AdmittedOneMore
  <2>6. ScoreOf(cat', loaded, raised, q)
    BY <1>2, <2>2, <2>5 DEF ScoreOf
  <2> QED
    BY <1>1, <2>4, <2>6
<1> QED
  BY <1>7, <1>8

LEMMA Joined ==
  ASSUME NEW T, NEW w \in Seq(T), NEW y \in Seq(T)
  PROVE  /\ w \o y \in Seq(T) /\ Len(w \o y) = Len(w) + Len(y)
         /\ \A i \in 1..Len(w) : (w \o y)[i] = w[i]
OBVIOUS

IsPart(s, d) == \E i \in 1..Len(d) + 1 : s = SubSeq(d, i, i + Len(s) - 1)

LEMMA PartOf ==
  ASSUME NEW T, NEW x \in Seq(T), NEW s \in Seq(T), NEW y \in Seq(T)
  PROVE  IsPart(s, (x \o s) \o y)
<1>1. PICK l \in Nat : l = Len(x)
  OBVIOUS
<1>2. PICK m \in Nat : m = Len(s)
  OBVIOUS
<1>3. PICK n \in Nat : n = Len(y)
  OBVIOUS
<1>4. PICK w : w = x \o s
  OBVIOUS
<1>5. w \in Seq(T) /\ Len(w) = l + m /\ \A i \in 1..m : w[l + i] = s[i]
  BY <1>1, <1>2, <1>4
<1>6. PICK d : d = w \o y
  OBVIOUS
<1>7. d \in Seq(T) /\ Len(d) = (l + m) + n /\ \A i \in 1..l + m : d[i] = w[i]
  <2>1. w \o y \in Seq(T) /\ Len(w \o y) = Len(w) + Len(y)
        /\ \A i \in 1..Len(w) : (w \o y)[i] = w[i]
    BY <1>5, Joined, Zenon
  <2> QED
    BY <1>3, <1>5, <1>6, <2>1
<1>8. \A i \in 1..m : d[l + i] = s[i]
  <2> SUFFICES ASSUME NEW i \in 1..m PROVE d[l + i] = s[i]
    OBVIOUS
  <2>1. l + i \in 1..l + m
    OBVIOUS
  <2> QED
    BY <1>5, <1>7, <2>1
<1>9. PICK r : r = SubSeq(d, l + 1, l + m)
  OBVIOUS
<1>10. r = s
  <2>1. r \in Seq(T) /\ Len(r) = m /\ \A i \in 1..m : r[i] = d[l + i]
    BY <1>7, <1>9
  <2> QED
    BY <1>2, <1>8, <2>1, SeqEqual
<1>11. l + 1 \in 1..Len(d) + 1 /\ (l + 1) + m - 1 = l + m
  BY <1>7
<1> QED
  BY <1>2, <1>4, <1>6, <1>9, <1>10, <1>11 DEF IsPart

(* A score of the tokens b is part of that of the text, and all of it if   *)
(* nothing comes before or after b.                                        *)
Splits(p, rest, a, b) ==
  /\ p \in Seq(Tokens) /\ rest \in Seq(Tokens) /\ a \in Seq(Tokens) /\ b \in Seq(Tokens)
  /\ Admitted(p) = a \o b

LEMMA ScoredPart ==
  ASSUME NEW p, NEW rest, NEW a, NEW b, Splits(p, rest, a, b), NEW w
  PROVE  /\ IsPart(Chosen(b, w), Scored(p \o rest, w))
         /\ a = <<>> /\ rest = <<>> => Scored(p \o rest, w) = Chosen(b, w)
<1>0. /\ p \in Seq(Tokens) /\ rest \in Seq(Tokens) /\ a \in Seq(Tokens) /\ b \in Seq(Tokens)
      /\ Admitted(p) = a \o b
  BY DEF Splits
<1>1. PICK z : z \in Seq(Tokens) /\ Admitted(p \o rest) = Admitted(p) \o z
  BY <1>0, AdmittedMore
<1>2. PICK u : u = a \o b
  OBVIOUS
<1>3. Chosen(a \o b, w) = Chosen(a, w) \o Chosen(b, w)
  BY <1>0, ChosenConcat
<1>4. u \in Seq(Tokens)
  BY <1>0, <1>2, ConcatProperties
<1>5. Chosen(u \o z, w) = Chosen(u, w) \o Chosen(z, w)
  BY <1>1, <1>4, ChosenConcat
<1>6. Chosen(a, w) \in Seq(Tokens) /\ Chosen(b, w) \in Seq(Tokens) /\ Chosen(z, w) \in Seq(Tokens)
  BY <1>0, <1>1, ChosenType
<1>7. Scored(p \o rest, w) = (Chosen(a, w) \o Chosen(b, w)) \o Chosen(z, w)
  BY <1>0, <1>1, <1>2, <1>3, <1>5 DEF Scored
<1>8. IsPart(Chosen(b, w), (Chosen(a, w) \o Chosen(b, w)) \o Chosen(z, w))
  BY <1>6, PartOf
<1>9. ASSUME a = <<>>, rest = <<>> PROVE Scored(p \o rest, w) = Chosen(b, w)
  <2>1. p \o rest = p /\ a \o b = b
    BY <1>0, <1>9, ConcatEmptySeq
  <2> QED
    BY <1>0, <2>1 DEF Scored
<1> QED
  BY <1>7, <1>8, <1>9

(* A verdict on a document whose tokens have been scored is right. *)
LEMMA VerdictRight ==
  ASSUME SignalInv, NEW p, p \in Seq(Tokens), NEW rest, rest \in Seq(Tokens), NEW name,
         p \o rest \in Documents(name),
         ScoreOf(cat, loaded, raised, p), raised = 0 => rest = <<>>,
         NEW v, v.name = name, v.cat = cat, v.loaded = loaded
  PROVE  ScoresDocument(v)
<1>1. PICK text : text = p \o rest
  OBVIOUS
<1>2. PICK a \in Seq(Tokens), b \in Seq(Tokens) :
        /\ Admitted(p) = a \o b
        /\ raised = 0 => a = <<>>
        /\ \A c \in Cats : cat[c].score = Chosen(b, Versions[c][loaded[c]])
  BY DEF ScoreOf
<1>3. Splits(p, rest, a, b)
  BY <1>2 DEF Splits
<1>4. \A w : /\ IsPart(Chosen(b, w), Scored(text, w))
             /\ a = <<>> /\ rest = <<>> => Scored(text, w) = Chosen(b, w)
  BY <1>1, <1>3, ScoredPart
<1>5. raised = 0 \/ raised > 0
  BY DEF SignalInv
<1>6. \A w : \/ Chosen(b, w) = Scored(text, w)
             \/ raised > 0 /\ IsPart(Chosen(b, w), Scored(text, w))
  BY <1>2, <1>4, <1>5
<1>7. \A c \in Cats : v.cat[c].score = Chosen(b, Versions[c][v.loaded[c]])
  BY <1>2
<1>8. \A c \in Cats :
        \/ v.cat[c].score = Scored(text, Versions[c][v.loaded[c]])
        \/ raised > 0 /\ IsPart(v.cat[c].score, Scored(text, Versions[c][v.loaded[c]]))
  BY <1>6, <1>7
<1> QED
  BY <1>1, <1>8 DEF ScoresDocument, IsPart

-----------------------------------------------------------------------------
(* How the text of a document goes on after p.                             *)

LEMMA NextPart ==
  ASSUME NEW T, NEW p \in Seq(T), NEW t \in Seq(T), NEW r \in Seq(T)
  PROVE  (p \o <<>>) \o (t \o r) = (p \o t) \o r
<1>1. p \o <<>> = p
  BY ConcatEmptySeq
<1>2. p \o (t \o r) = (p \o t) \o r
  BY ConcatAssociative
<1> QED
  BY <1>1, <1>2

LEMMA UnreadType == ASSUME TypeOK, Walk PROVE Unread \in Seq(FileLine)
<1>1. PICK C : C = Coming
  OBVIOUS
<1>2. C \in Seq(Files)
  BY <1>1, ComingType
<1>3. LinesOf(C) \in Seq(FileLine)
  BY <1>2, LinesOfType
<1>4. input.left \in Seq(FileLine)
  BY RunTypes
<1> QED
  BY <1>1, <1>3, <1>4, ConcatProperties DEF Unread

(* What a line adds to a text. *)
LEMMA TextOfLine ==
  ASSUME NEW l \in FileLine, NEW w \in Seq(FileLine)
  PROVE  TextOf(<<l>> \o w) = Kept(l) \o TextOf(w)
<1>1. <<l>> \in Seq(FileLine)
  OBVIOUS
<1>2. TextOf(<<l>> \o w) = TextOf(<<l>>) \o TextOf(w)
  BY <1>1, TextOfConcat
<1> QED
  BY <1>2, TextOfOne

(* The tokens of a line that is read are the next of the text. *)
LEMMA TokensRead ==
  ASSUME TypeOK, Walk, ReadLine
  PROVE  /\ tokens' \in Seq(Tokens)
         /\ TextOf(Unread) = tokens' \o TextOf(Unread')
         /\ TextOf(input.left) = tokens' \o TextOf(input'.left)
         /\ TextOf(Unread') \in Seq(Tokens) /\ TextOf(input'.left) \in Seq(Tokens)
<1>1. CASE /\ Unread' = Unread /\ input.left = <<>> /\ input'.left = <<>>
           /\ handle_indents_and_appends(NotInput, Blank)
  <2>1. tokens' = <<>>
    BY <1>1, BlankLine, TokensOfLine
  <2>2. PICK u : u = Unread
    OBVIOUS
  <2>3. TextOf(u) \in Seq(Tokens)
    BY <2>2, UnreadType, TextOfType
  <2>4. TextOf(u) = <<>> \o TextOf(u)
    BY <2>3, ConcatEmptySeq
  <2>5. TextOf(<<>>) = <<>> /\ <<>> \in Seq(Tokens) /\ <<>> = <<>> \o <<>>
    BY TextOfNone
  <2> QED
    BY <1>1, <2>1, <2>2, <2>3, <2>4, <2>5
<1>2. CASE \E l \in FileLine, w \in Seq(FileLine), r \in Seq(FileLine) :
             /\ input.left = <<l>> \o r /\ input'.left = r
             /\ Unread = <<l>> \o w /\ Unread' = w
             /\ handle_indents_and_appends(numbered + 1, l)
  <2>1. PICK l \in FileLine, w \in Seq(FileLine), r \in Seq(FileLine) :
             /\ input.left = <<l>> \o r /\ input'.left = r
             /\ Unread = <<l>> \o w /\ Unread' = w
             /\ handle_indents_and_appends(numbered + 1, l)
    BY <1>2
  <2>2. tokens' = Kept(l)
    BY <2>1 DEF handle_indents_and_appends, Kept
  <2>3. Kept(l) \in Seq(Tokens)
    BY KeptType
  <2>4. TextOf(<<l>> \o w) = Kept(l) \o TextOf(w) /\ TextOf(<<l>> \o r) = Kept(l) \o TextOf(r)
    BY TextOfLine
  <2>5. TextOf(w) \in Seq(Tokens) /\ TextOf(r) \in Seq(Tokens)
    BY TextOfType
  <2> QED
    BY <2>1, <2>2, <2>3, <2>4, <2>5
<1> QED
  BY <1>1, <1>2, LineTaken

LEMMA IdleTokens ==
  ASSUME TypeOK, LineInv, Idle, ~Stopped', ~ScoreWord
  PROVE  tokens' = tokens
<1>1. CASE \/ OpenDirectory \/ LeaveDirectory \/ EndOfFile \/ EndLine \/ CloseFile \/ Finish
           \/ (\E sig \in Signals : Raise(sig)) \/ (\E c \in Cats : Relearn(c))
  BY <1>1 DEF OpenDirectory, LeaveDirectory, EndOfFile, EndLine, CloseFile, Finish, Raise,
              Relearn, Untouched, line
<1>2. CASE ReadClosed \/ ReadExtraLine
  <2>1. tokens = <<>>
    BY <1>2 DEF ReadClosed, ReadExtraLine, Reading, LineInv
  <2>2. tokens' = <<>>
    <3>1. handle_indents_and_appends(NotInput, Blank) \/ handle_indents_and_appends(ExtraLine, Blank)
      BY <1>2 DEF ReadClosed, ReadExtraLine, Stopped
    <3> QED
      BY <3>1, BlankLine, TokensOfLine
  <2> QED
    BY <2>1, <2>2
<1> QED
  BY <1>1, <1>2 DEF Idle

(* The whole input, as one document. *)
AllText(p) ==
  \E rest \in Seq(Tokens) :
    /\ (p \o tokens) \o rest = TextOf(LinesOf(AllFiles))
    /\ ~Quitting => rest = TextOf(Unread)

LEMMA AllTextStep ==
  ASSUME TypeOK, Walk, LineInv, [Next]_vars, ~Stopped', ~ScoreWord,
         NEW p, p \in Seq(Tokens), AllText(p)
  PROVE  AllText(p)'
<1>1. run' = run
  BY WhoScores
<1>2. PICK rest : /\ rest \in Seq(Tokens)
                  /\ (p \o tokens) \o rest = TextOf(LinesOf(AllFiles))
                  /\ ~Quitting => rest = TextOf(Unread)
  BY DEF AllText
<1>3. TextOf(LinesOf(AllFiles))' = TextOf(LinesOf(AllFiles)) /\ TextOf(Unread)' = TextOf(Unread')
  BY <1>1 DEF AllFiles, TextOf, LinesOf, Kept
<1>4. ASSUME tokens' = tokens, ~Quitting' => ~Quitting /\ Unread' = Unread
      PROVE  AllText(p)'
  BY <1>2, <1>3, <1>4 DEF AllText
<1>5. CASE UNCHANGED vars
  BY <1>4, <1>5 DEF vars, where, line, Quitting, Unread, Coming, Unopened, FilesFrom, LinesOf
<1>6. CASE OpenFile \/ OpenStdin \/ NextEntry
  <2>1. tokens' = tokens /\ cmd' = cmd
    BY <1>6 DEF OpenFile, OpenStdin, NextEntry, Untouched, line
  <2>2. Unread' = Unread
    BY <1>6, OpenedUnread
  <2> QED
    BY <1>4, <2>1, <2>2 DEF Quitting
<1>7. CASE ReadLine
  <2>1. tokens = <<>> /\ ~Quitting
    BY <1>7, LineRead DEF LineInv
  <2>2. PICK t : t = tokens'
    OBVIOUS
  <2>3. PICK r : r = TextOf(Unread')
    OBVIOUS
  <2>4. t \in Seq(Tokens) /\ r \in Seq(Tokens) /\ rest = t \o r
    BY <1>2, <1>7, <2>1, <2>2, <2>3, TokensRead
  <2>5. (p \o <<>>) \o (t \o r) = (p \o t) \o r
    BY <2>4, NextPart
  <2> QED
    BY <1>2, <1>3, <2>1, <2>2, <2>3, <2>4, <2>5 DEF AllText
<1>8. CASE Idle
  <2>1. tokens' = tokens
    BY <1>8, IdleTokens
  <2>2. /\ run' = run /\ Coming' = Coming
        /\ "QUITNOW" \notin cmd' => ~Quitting /\ input'.left = input.left
    BY <1>8, StaysInPlace
  <2>3. ~Quitting' => ~Quitting /\ Unread' = Unread
    <3>1. Unread' = input'.left \o LinesOf(Coming')
      BY DEF Unread, LinesOf
    <3> QED
      BY <2>2, <3>1 DEF Unread, Quitting
  <2> QED
    BY <1>4, <2>1, <2>3
<1>9. CASE OpenFails \/ ExitOnSignal
  BY <1>9 DEF OpenFails, ExitOnSignal, Stopped
<1> QED
  BY <1>5, <1>6, <1>7, <1>8, <1>9 DEF Next, Program, Idle

LEMMA JoinedAfter ==
  ASSUME NEW T, NEW w \in Seq(T), NEW y \in Seq(T)
  PROVE  \A i \in 1..Len(y) : (w \o y)[Len(w) + i] = y[i]
OBVIOUS

LEMMA InTheMiddle ==
  ASSUME NEW T, NEW a \in Seq(T), NEW f \in T, NEW b \in Seq(T)
  PROVE  f \in Range(a \o (<<f>> \o b))
<1>1. PICK u : u = <<f>> \o b
  OBVIOUS
<1>2. u \in Seq(T) /\ Len(u) = 1 + Len(b) /\ u[1] = f
  BY <1>1
<1>3. PICK w : w = a \o u
  OBVIOUS
<1>4. Len(a) \in Nat /\ Len(b) \in Nat
  OBVIOUS
<1>5. w \in Seq(T) /\ Len(w) = Len(a) + Len(u) /\ w[Len(a) + 1] = u[1]
  <2>1. 1 \in 1..Len(u)
    BY <1>2, <1>4
  <2>2. w[Len(a) + 1] = u[1]
    BY <1>2, <1>3, <2>1, JoinedAfter
  <2> QED
    BY <1>2, <1>3, <2>2, Joined
<1>6. Len(a) + 1 \in 1..Len(w)
  BY <1>2, <1>4, <1>5
<1>7. DOMAIN w = 1..Len(w)
  BY <1>5
<1> QED
  BY <1>1, <1>2, <1>3, <1>5, <1>6, <1>7 DEF Range

LEMMA DocumentOfFile ==
  ASSUME run.mode = "multifile", NEW f, f \in Range(AllFiles)
  PROVE  TextOf(f.lines) \in Documents(f.name)
<1>1. PICK named : named = {g \in Range(AllFiles) : g.name = f.name}
  OBVIOUS
<1>2. f \in named
  BY <1>1
<1>3. Documents(f.name) = {TextOf(g.lines) : g \in named}
  BY <1>1, <1>2 DEF Documents
<1> QED
  BY <1>2, <1>3

LEMMA NoDocument ==
  ASSUME TypeOK, run.mode = "multifile", NEW name, name \notin Named
  PROVE  Documents(name) = {<<>>}
<1>1. AllFiles \in Seq(Files)
  BY AllFilesFrom
<1>2. Range(AllFiles) \subseteq Files
  BY <1>1 DEF Range
<1>3. {f \in Range(AllFiles) : f.name = name} = {}
  BY <1>2 DEF Named
<1> QED
  BY <1>3 DEF Documents

(* A file, as one document. *)
Within == pc \in {"fill", "score", "close"}

GoesOn(p, name) ==
  \E text \in Documents(name), rest \in Seq(Tokens) :
    /\ (p \o tokens) \o rest = text
    /\ ~Quitting => rest = TextOf(input.left)

FileText(p) == IF Within THEN GoesOn(p, inputfile) ELSE p = <<>>

LEMMA SameDocuments ==
  ASSUME run' = run, NEW m, inputfile' = m
  PROVE  Documents(inputfile)' = Documents(m)
<1>1. Documents(inputfile)' = Documents(m)'
  BY DEF Documents
<1> QED
  BY <1>1, SameRun

LEMMA SameDocument ==
  ASSUME run' = run, inputfile' = inputfile
  PROVE  Documents(inputfile)' = Documents(inputfile)
<1>1. PICK m : m = inputfile
  OBVIOUS
<1>2. Documents(inputfile)' = Documents(m)
  BY <1>1, SameDocuments
<1> QED
  BY <1>1, <1>2

(* Opening a file begins its text. *)
LEMMA FileBegins ==
  ASSUME TypeOK, Walk, Placed, LineInv, run.mode = "multifile", OpenFile \/ OpenStdin \/ NextEntry
  PROVE  FileText(<<>>)'
<1>1. PICK f \in Files : StartFile(f) /\ Coming = <<f>> \o Coming'
  BY FileOpened
<1>2. run' = run /\ Coming' \in Seq(Files)
  BY FileOpened
<1>3. PICK past \in Seq(Files) : AllFiles = past \o Coming
  BY DEF Placed
<1>4. f \in Range(AllFiles)
  <2>1. PICK r : r = Coming'
    OBVIOUS
  <2>2. AllFiles = past \o (<<f>> \o r) /\ r \in Seq(Files)
    BY <1>1, <1>2, <1>3, <2>1
  <2> QED
    BY <2>2, InTheMiddle
<1>5. TextOf(f.lines) \in Documents(f.name)
  BY <1>4, DocumentOfFile
<1>6. inputfile' = f.name /\ input'.left = f.lines /\ pc' = "fill"
  BY <1>1, StartsWithFile
<1>7. tokens' = <<>>
  BY DEF OpenFile, OpenStdin, NextEntry, HasArg, Untouched, line, LineInv
<1>8. PICK text : text = TextOf(f.lines)
  OBVIOUS
<1>9. text \in Seq(Tokens)
  BY <1>8, ClassifierAssumption, TextOfType
<1>10. (<<>> \o <<>>) \o text = text
  <2>1. <<>> \o <<>> = <<>>
    OBVIOUS
  <2> QED
    BY <1>9, <2>1, ConcatEmptySeq
<1>11. Documents(f.name)' = Documents(f.name) /\ TextOf(f.lines)' = TextOf(f.lines)
  BY <1>2, SameRun
<1>12. GoesOn(<<>>, inputfile)'
  <2>1. TextOf(input.left)' = text
    BY <1>2, <1>6, <1>8 DEF TextOf, Kept
  <2>2. Documents(inputfile)' = Documents(f.name)
    BY <1>2, <1>6, SameDocuments
  <2> QED
    BY <1>5, <1>7, <1>8, <1>9, <1>10, <2>1, <2>2 DEF GoesOn
<1> QED
  BY <1>6, <1>12 DEF FileText, Within

(* A directory that is left has no text. *)
LEMMA DirectoryHasNoText ==
  ASSUME NamesDiffer, TypeOK, Walk, LineInv, run.mode = "multifile", LeaveDirectory
  PROVE  FileText(<<>>)'
<1>1. /\ pc = "entry" /\ pc' = "close" /\ tokens' = tokens /\ input'.left = <<>> /\ run' = run
      /\ inputfile' = IF inputfile = run.args[argi].name THEN inputfile ELSE Dangling
  BY DEF LeaveDirectory, Untouched, line, NoFile
<1>2. tokens' = <<>>
  BY <1>1 DEF LineInv
<1>3. PICK m : m = inputfile'
  OBVIOUS
<1>4. m \notin Named
  <2>1. in_dir /\ run.args # <<>> /\ argi # 0 /\ run.args[argi].kind = "directory"
        /\ argi <= Len(run.args)
    BY <1>1 DEF Walk
  <2>2. run.args \in Seq(Args) /\ argi \in Nat
    BY RunTypes
  <2>3. run.args[argi] \in Args
    BY <2>1, <2>2
  <2> QED
    BY <1>1, <1>3, <2>1, <2>3 DEF NamesDiffer
<1>5. Documents(inputfile)' = {<<>>}
  BY <1>1, <1>3, <1>4, NoDocument, SameDocuments
<1>6. TextOf(input.left)' = <<>>
  BY <1>1, TextOfNone DEF TextOf, Kept
<1>7. (<<>> \o <<>>) \o <<>> = <<>> /\ <<>> \in Seq(Tokens)
  OBVIOUS
<1>8. GoesOn(<<>>, inputfile)'
  BY <1>2, <1>5, <1>6, <1>7 DEF GoesOn
<1> QED
  BY <1>1, <1>8 DEF FileText, Within

LEMMA FileTextStep ==
  ASSUME NamesDiffer, TypeOK, Walk, Placed, LineInv, [Next]_vars, ~Stopped', ~ScoreWord, ~CloseFile,
         run.mode = "multifile", NEW p, p \in Seq(Tokens), FileText(p)
  PROVE  FileText(p)'
<1>1. run' = run
  BY WhoScores
<1>2. CASE OpenFile \/ OpenStdin \/ NextEntry
  <2>1. p = <<>>
    BY <1>2 DEF OpenFile, OpenStdin, NextEntry, HasArg, FileText, Within
  <2> QED
    BY <1>2, <2>1, FileBegins
<1>3. CASE LeaveDirectory
  <2>1. p = <<>>
    BY <1>3 DEF LeaveDirectory, FileText, Within
  <2> QED
    BY <1>3, <2>1, DirectoryHasNoText
<1>4. CASE OpenDirectory
  BY <1>4 DEF OpenDirectory, HasArg, FileText, Within
<1>5. CASE OpenFails \/ ExitOnSignal \/ Finish
  BY <1>5 DEF OpenFails, ExitOnSignal, Finish, Stopped
<1>6. ASSUME inputfile' = inputfile, tokens' = tokens, Within' <=> Within,
             ~Quitting' => ~Quitting /\ input'.left = input.left
      PROVE  FileText(p)'
  <2>1. CASE Within
    <3>1. PICK text, rest :
            /\ text \in Documents(inputfile) /\ rest \in Seq(Tokens)
            /\ (p \o tokens) \o rest = text
            /\ ~Quitting => rest = TextOf(input.left)
      BY <2>1 DEF FileText, GoesOn
    <3>2. ~Quitting' => rest = TextOf(input.left)'
      BY <1>1, <1>6, <3>1 DEF TextOf, Kept
    <3>3. Documents(inputfile)' = Documents(inputfile)
      BY <1>1, <1>6, SameDocument
    <3>4. GoesOn(p, inputfile)'
      BY <1>6, <3>1, <3>2, <3>3 DEF GoesOn
    <3> QED
      BY <1>6, <2>1, <3>4 DEF FileText
  <2>2. CASE ~Within
    BY <1>6, <2>2 DEF FileText
  <2> QED
    BY <2>1, <2>2
<1>7. CASE UNCHANGED vars
  BY <1>6, <1>7 DEF vars, where, line, Within, Quitting
<1>8. CASE ReadLine
  <2>1. pc = "fill" /\ ~Quitting /\ inputfile' = inputfile
    BY <1>8, LineRead
  <2>2. tokens = <<>>
    BY <2>1 DEF LineInv
  <2>3. PICK text, rest :
            /\ text \in Documents(inputfile) /\ rest \in Seq(Tokens)
            /\ (p \o tokens) \o rest = text
            /\ rest = TextOf(input.left)
    BY <2>1 DEF FileText, GoesOn, Within
  <2>4. PICK t : t = tokens'
    OBVIOUS
  <2>5. PICK r : r = TextOf(input'.left)
    OBVIOUS
  <2>6. t \in Seq(Tokens) /\ r \in Seq(Tokens) /\ rest = t \o r
    BY <1>8, <2>3, <2>4, <2>5, TokensRead
  <2>7. (p \o <<>>) \o (t \o r) = (p \o t) \o r
    BY <2>6, NextPart
  <2>8. TextOf(input.left)' = r
    BY <1>1, <2>5 DEF TextOf, Kept
  <2>9. Documents(inputfile)' = Documents(inputfile)
    BY <1>1, <2>1, SameDocument
  <2>10. GoesOn(p, inputfile)'
    BY <2>2, <2>3, <2>4, <2>6, <2>7, <2>8, <2>9 DEF GoesOn
  <2>11. pc' \in {"fill", "score"}
    <3>1. \/ \E l \in FileLine : handle_indents_and_appends(numbered + 1, l)
          \/ handle_indents_and_appends(NotInput, Blank)
      BY <1>8, LineRead
    <3> QED
      BY <3>1, BlankLine, TokensOfLine
  <2> QED
    BY <2>10, <2>11 DEF FileText, Within
<1>9. CASE \/ ReadClosed \/ ReadExtraLine \/ EndOfFile \/ EndLine
           \/ (\E sig \in Signals : Raise(sig)) \/ (\E c \in Cats : Relearn(c))
  <2>1. Idle
    BY <1>9 DEF Idle
  <2>2. tokens' = tokens /\ (~Quitting' => ~Quitting /\ input'.left = input.left)
    BY <2>1, IdleTokens, StaysInPlace DEF Quitting
  <2>3. inputfile' = inputfile
    BY <1>9 DEF ReadClosed, ReadExtraLine, EndOfFile, EndLine, Raise, Relearn, Rest, where
  <2>4. Within' <=> Within
    <3>1. CASE ReadClosed \/ ReadExtraLine
      <4>1. handle_indents_and_appends(NotInput, Blank) \/ handle_indents_and_appends(ExtraLine, Blank)
        BY <3>1 DEF ReadClosed, ReadExtraLine, Stopped
      <4>2. pc' \in {"fill", "score"}
        BY <4>1, BlankLine, TokensOfLine
      <4>3. pc = "fill"
        BY <3>1 DEF ReadClosed, ReadExtraLine, Reading
      <4> QED
        BY <4>2, <4>3 DEF Within
    <3>2. CASE EndOfFile
      BY <3>2 DEF EndOfFile, Within
    <3>3. CASE EndLine
      BY <3>3 DEF EndLine, Within, Stopped
    <3>4. CASE (\E sig \in Signals : Raise(sig)) \/ (\E c \in Cats : Relearn(c))
      BY <3>4 DEF Raise, Relearn, Within
    <3> QED
      BY <1>9, <3>1, <3>2, <3>3, <3>4
  <2> QED
    BY <1>6, <2>2, <2>3, <2>4
<1> QED
  BY <1>2, <1>3, <1>4, <1>5, <1>7, <1>8, <1>9 DEF Next, Program

(* A line, as one document. *)
LineText(p) ==
  IF pc = "score" /\ at > 0 THEN p \o tokens \in Documents(at)
  ELSE p = <<>> /\ tokens = <<>>

LEMMA InPlace ==
  ASSUME NEW T, NEW a \in Seq(T), NEW l \in T, NEW b \in Seq(T), NEW n, n = Len(a) + 1
  PROVE  (a \o (<<l>> \o b))[n] = l
<1>1. PICK u : u = <<l>> \o b
  OBVIOUS
<1>2. u \in Seq(T) /\ u[1] = l /\ 1 \in 1..Len(u)
  BY <1>1
<1>3. (a \o u)[Len(a) + 1] = u[1]
  BY <1>2, JoinedAfter
<1> QED
  BY <1>1, <1>2, <1>3

(* The line that is read is a document. *)
LEMMA LineBegins ==
  ASSUME TypeOK, Walk, Placed, LineInv, run.mode = "filter", ReadLine
  PROVE  LineText(<<>>)'
<1>1. run' = run /\ ~Quitting
  BY LineRead
<1>2. PICK seen : seen \in Seq(FileLine) /\ Len(seen) = numbered /\ LinesOf(AllFiles) = seen \o Unread
  BY <1>1 DEF Placed
<1>3. CASE handle_indents_and_appends(NotInput, Blank)
  <2>1. at' = 0 /\ tokens' = <<>>
    BY <1>3, BlankLine, TokensOfLine DEF handle_indents_and_appends, NotInput
  <2> QED
    BY <2>1 DEF LineText
<1>4. CASE \E l \in FileLine, w \in Seq(FileLine) :
             Unread = <<l>> \o w /\ handle_indents_and_appends(numbered + 1, l)
  <2>1. PICK l \in FileLine, w \in Seq(FileLine) :
             Unread = <<l>> \o w /\ handle_indents_and_appends(numbered + 1, l)
    BY <1>4
  <2>2. PICK n : n = numbered + 1
    OBVIOUS
  <2>3. at' = n /\ (pc' = "score" => tokens' = l.tokens)
    BY <2>1, <2>2 DEF handle_indents_and_appends
  <2>4. LinesOf(AllFiles)[n] = l
    <3>1. n = Len(seen) + 1
      BY <1>2, <2>2
    <3>2. (seen \o (<<l>> \o w))[n] = l
      BY <1>2, <3>1, InPlace
    <3> QED
      BY <1>2, <2>1, <3>2
  <2>5. Documents(n) = {l.tokens}
    BY <2>4 DEF Documents
  <2>6. Documents(n)' = {l.tokens}
    BY <1>1, <2>5, SameRun
  <2>7. Documents(at)' = {l.tokens}
    <3>1. Documents(at)' = Documents(n)'
      BY <2>3 DEF Documents
    <3> QED
      BY <2>6, <3>1
  <2>8. <<>> \o l.tokens = l.tokens
    <3>1. l.tokens \in Seq(DOMAIN Token)
      BY DEF FileLine
    <3> QED
      BY <3>1, ConcatEmptySeq
  <2>9. pc' # "score" => tokens' = <<>>
    BY <2>1, TokensOfLine
  <2>10. at' > 0
    BY <2>2, <2>3 DEF TypeOK
  <2> QED
    BY <2>3, <2>7, <2>8, <2>9, <2>10 DEF LineText
<1> QED
  BY <1>3, <1>4, LineTaken

LEMMA LineTextStep ==
  ASSUME TypeOK, Walk, Placed, LineInv, [Next]_vars, ~Stopped', ~ScoreWord, ~EndLine,
         run.mode = "filter", NEW p, LineText(p)
  PROVE  LineText(p)'
<1>1. run' = run
  BY WhoScores
<1>2. ASSUME pc' = pc, at' = at, tokens' = tokens PROVE LineText(p)'
  <2>1. PICK n : n = at
    OBVIOUS
  <2>2. Documents(at)' = Documents(at)
    <3>1. Documents(at)' = Documents(n)'
      BY <1>2, <2>1 DEF Documents
    <3> QED
      BY <1>1, <2>1, <3>1, SameRun
  <2> QED
    BY <1>2, <2>2 DEF LineText
<1>3. ASSUME pc # "score", tokens' = <<>>, pc' # "score" \/ at' <= 0, at' \in Int PROVE LineText(p)'
  BY <1>3 DEF LineText
<1>4. CASE UNCHANGED vars
  BY <1>2, <1>4 DEF vars, line
<1>5. CASE ReadLine
  <2>1. p = <<>>
    BY <1>5 DEF ReadLine, Reading, LineText
  <2> QED
    BY <1>5, <2>1, LineBegins
<1>6. CASE ReadClosed \/ ReadExtraLine
  <2>1. handle_indents_and_appends(NotInput, Blank) \/ handle_indents_and_appends(ExtraLine, Blank)
    BY <1>6 DEF ReadClosed, ReadExtraLine, Stopped
  <2>2. at' \in {0, -1}
    BY <2>1 DEF handle_indents_and_appends, NotInput, ExtraLine
  <2>3. pc # "score"
    BY <1>6 DEF ReadClosed, ReadExtraLine, Reading
  <2>4. tokens' = <<>>
    BY <2>1, BlankLine, TokensOfLine
  <2> QED
    BY <1>3, <2>2, <2>3, <2>4
<1>7. CASE \/ OpenFile \/ OpenDirectory \/ OpenStdin \/ NextEntry \/ LeaveDirectory \/ EndOfFile
           \/ CloseFile
  <2>1. pc # "score" /\ pc' # "score"
    BY <1>7 DEF OpenFile, OpenDirectory, OpenStdin, NextEntry, LeaveDirectory, EndOfFile, CloseFile,
                HasArg, StartFile
  <2>2. tokens' = <<>>
    BY <2>1, LineStep DEF LineInv
  <2> QED
    BY <2>1, <2>2 DEF LineText
<1>8. CASE OpenFails \/ ExitOnSignal \/ Finish
  BY <1>8 DEF OpenFails, ExitOnSignal, Finish, Stopped
<1>9. CASE (\E sig \in Signals : Raise(sig)) \/ (\E c \in Cats : Relearn(c))
  BY <1>2, <1>9 DEF Raise, Relearn, line
<1> QED
  BY <1>4, <1>5, <1>6, <1>7, <1>8, <1>9 DEF Next, Program

-----------------------------------------------------------------------------
(* What has been scored of the document, and how it goes on.               *)

Follows(p) ==
  /\ run.mode = "plain" => AllText(p)
  /\ run.mode = "multifile" => FileText(p)
  /\ run.mode = "filter" => LineText(p)

Tally(p) == Follows(p) /\ ScoreOf(cat, loaded, raised, p) /\ Measured(emp, p)

ScoringInv == ~Stopped => \E p \in Seq(Tokens) : Tally(p)

LEMMA ScoringInit == FreeSlotRemains /\ Init => ScoringInv
<1> SUFFICES ASSUME FreeSlotRemains, Init PROVE \E p \in Seq(Tokens) : Tally(p)
  BY DEF ScoringInv
<1>1. TypeOK /\ Walk /\ Placed
  BY TypeInit, PlacedInit
<1>2. /\ pc = "next" /\ tokens = <<>> /\ numbered = 0 /\ ~Quitting
      /\ cat = [c \in Cats |-> init_category] /\ emp = init_empirical
  BY DEF Init, Quitting
<1>3. <<>> \in Seq(Tokens) /\ <<>> \o <<>> = <<>>
  OBVIOUS
<1>4. AllText(<<>>)
  <2>1. PICK seen : seen \in Seq(FileLine) /\ Len(seen) = 0 /\ LinesOf(AllFiles) = seen \o Unread
    BY <1>1, <1>2 DEF Placed
  <2>2. seen = <<>>
    BY <2>1
  <2>3. PICK u : u = Unread
    OBVIOUS
  <2>4. u \in Seq(FileLine)
    BY <1>1, <2>3, UnreadType
  <2>5. LinesOf(AllFiles) = u
    BY <2>1, <2>2, <2>3, <2>4, ConcatEmptySeq
  <2>6. TextOf(u) \in Seq(Tokens) /\ <<>> \o TextOf(u) = TextOf(u)
    BY <2>4, TextOfType, ConcatEmptySeq
  <2> QED
    BY <1>2, <1>3, <2>3, <2>5, <2>6 DEF AllText
<1>5. Follows(<<>>)
  BY <1>2, <1>4 DEF Follows, FileText, Within, LineText
<1>6. ScoreOf(cat, loaded, raised, <<>>)
  <2>1. \A c \in Cats : cat[c].score = <<>>
    BY <1>2 DEF init_category
  <2>2. PICK k : k = cat
    OBVIOUS
  <2>3. PICK l : l = loaded
    OBVIOUS
  <2>4. PICK n : n = raised
    OBVIOUS
  <2>5. ScoreOf(k, l, n, <<>>)
    BY <2>1, <2>2, NothingYet
  <2> QED
    BY <2>2, <2>3, <2>4, <2>5
<1>7. Measured(emp, <<>>)
  <2>1. PICK e : e = emp
    OBVIOUS
  <2>2. Filled(e) = {}
    BY <1>2, <2>1, InitEmpirical
  <2> QED
    BY <2>1, <2>2, MeasureOfNothing, RoomIs DEF Measured
<1> QED
  BY <1>3, <1>5, <1>6, <1>7 DEF Tally

(* Scoring a token takes it from those left of the line. *)
LEMMA WordFollows ==
  ASSUME TypeOK, ScoreWord, NEW p, p \in Seq(Tokens), Follows(p)
  PROVE  \E t \in Tokens, q \in Seq(Tokens) : t = Head(tokens) /\ q = Append(p, t) /\ Follows(q)'
<1>1. /\ run' = run /\ pc' = pc /\ pc = "score" /\ at' = at /\ inputfile' = inputfile
      /\ entries' = entries /\ argi' = argi /\ input' = input /\ cmd' = cmd
      /\ tokens # <<>> /\ tokens' = Tail(tokens)
  BY DEF ScoreWord, where
<1>2. PICK s : s = tokens
  OBVIOUS
<1>3. s \in Seq(Tokens)
  BY <1>2 DEF TypeOK
<1>4. PICK t : t = Head(s)
  OBVIOUS
<1>5. PICK r : r = Tail(s)
  OBVIOUS
<1>6. PICK q : q = Append(p, t)
  OBVIOUS
<1>7. p \o s = q \o r
  BY <1>1, <1>2, <1>3, <1>4, <1>5, <1>6, ShiftOne
<1>8. tokens' = r
  BY <1>1, <1>2, <1>5
<1>9. TextOf(LinesOf(AllFiles))' = TextOf(LinesOf(AllFiles)) /\ TextOf(Unread)' = TextOf(Unread)
      /\ TextOf(input.left)' = TextOf(input.left)
  BY <1>1 DEF AllFiles, TextOf, LinesOf, Kept, Unread, Coming, Unopened, FilesFrom
<1>10. AllText(p) => AllText(q)'
  BY <1>1, <1>2, <1>7, <1>8, <1>9 DEF AllText, Quitting
<1>11. FileText(p) => FileText(q)'
  <2>1. Documents(inputfile)' = Documents(inputfile)
    BY <1>1, SameDocument
  <2>2. GoesOn(p, inputfile) => GoesOn(q, inputfile)'
    BY <1>1, <1>2, <1>7, <1>8, <1>9, <2>1 DEF GoesOn, Quitting
  <2> QED
    BY <1>1, <2>2 DEF FileText, Within
<1>12. LineText(p) => LineText(q)'
  <2>1. PICK n : n = at
    OBVIOUS
  <2>2. Documents(at)' = Documents(at)
    <3>1. Documents(at)' = Documents(n)'
      BY <1>1, <2>1 DEF Documents
    <3> QED
      BY <1>1, <2>1, <3>1, SameRun
  <2> QED
    BY <1>1, <1>2, <1>7, <1>8, <2>2 DEF LineText
<1>13. Follows(q)'
  BY <1>1, <1>10, <1>11, <1>12 DEF Follows
<1>14. t \in Tokens
  BY <1>1, <1>2, <1>3, <1>4, SplitAtHead
<1>15. q \in Seq(Tokens)
  BY <1>6, <1>14, AppendProperties
<1> QED
  BY <1>2, <1>4, <1>6, <1>13, <1>14, <1>15

LEMMA TallyNext ==
  ASSUME run' = run, NEW p, Follows(p)', NEW k, k = cat', NEW l, l = loaded', NEW n, n = raised',
         NEW e, e = emp', ScoreOf(k, l, n, p), Measured(e, p)
  PROVE  Tally(p)'
<1>1. ScoreOf(k, l, n, p)' /\ Measured(e, p)'
  BY SameAdmitted
<1>2. ScoreOf(cat, loaded, raised, p)' <=> ScoreOf(k, l, n, p)'
  BY DEF ScoreOf
<1>3. Measured(emp, p)' <=> Measured(e, p)'
  BY DEF Measured, MeasureOf
<1> QED
  BY <1>1, <1>2, <1>3 DEF Tally

LEMMA StillScored ==
  ASSUME NEW k, NEW l, NEW n, NEW p, ScoreOf(k, l, n, p), NEW m, m = 0 => n = 0
  PROVE  ScoreOf(k, l, m, p)
BY DEF ScoreOf

LEMMA WordTallied ==
  ASSUME NoZeroId, FreeSlotRemains, TypeOK, EmpInv(emp), ScoreWord, NEW p, p \in Seq(Tokens), Tally(p)
  PROVE  \E q \in Seq(Tokens) : Tally(q)'
<1>1. PICK t \in Tokens, q \in Seq(Tokens) : t = Head(tokens) /\ q = Append(p, t) /\ Follows(q)'
  BY WordFollows DEF Tally
<1>2. run' = run /\ loaded' = loaded /\ raised' = raised /\ score_word(t)
  BY <1>1 DEF ScoreWord, models, signals
<1>3. ScoreOf(cat', loaded, raised, q) /\ Measured(emp', q)
  BY <1>1, <1>2, TokenScored DEF Tally
<1>4. PICK k : k = cat'
  OBVIOUS
<1>5. PICK l : l = loaded'
  OBVIOUS
<1>6. PICK n : n = raised'
  OBVIOUS
<1>7. PICK e : e = emp'
  OBVIOUS
<1>8. ScoreOf(k, l, n, q) /\ Measured(e, q)
  BY <1>2, <1>3, <1>4, <1>5, <1>6, <1>7
<1>9. Tally(q)'
  BY <1>1, <1>2, <1>4, <1>5, <1>6, <1>7, <1>8, TallyNext
<1> QED
  BY <1>9

(* A document is begun with nothing scored. *)
LEMMA Begins ==
  ASSUME FreeSlotRemains, run' = run, Follows(<<>>)', \A c \in Cats : cat'[c].score = <<>>,
         run.entropy => Filled(emp') = {}
  PROVE  Tally(<<>>)'
<1>1. PICK k : k = cat'
  OBVIOUS
<1>2. PICK l : l = loaded'
  OBVIOUS
<1>3. PICK n : n = raised'
  OBVIOUS
<1>4. PICK e : e = emp'
  OBVIOUS
<1>5. \A c \in Cats : k[c].score = <<>>
  BY <1>1
<1>6. ScoreOf(k, l, n, <<>>)
  BY <1>5, NothingYet
<1>7. run.entropy => Filled(e) = {}
  BY <1>4
<1>8. Measured(e, <<>>)
  BY <1>7, MeasureOfNothing, RoomIs DEF Measured
<1> QED
  BY <1>1, <1>2, <1>3, <1>4, <1>6, <1>8, TallyNext

LEMMA FollowsStep ==
  ASSUME NamesDiffer, TypeOK, Walk, Placed, LineInv, [Next]_vars, ~Stopped', ~ScoreWord,
         NEW p, p \in Seq(Tokens), Follows(p),
         EndLine => run.mode # "filter", CloseFile => run.mode # "multifile"
  PROVE  Follows(p)'
<1>1. run' = run
  BY WhoScores
<1>2. run.mode = "plain" => AllText(p)'
  BY AllTextStep DEF Follows
<1>3. run.mode = "multifile" /\ ~CloseFile => FileText(p)'
  BY FileTextStep DEF Follows
<1>4. run.mode = "filter" /\ ~EndLine => LineText(p)'
  BY LineTextStep DEF Follows
<1> QED
  BY <1>1, <1>2, <1>3, <1>4 DEF Follows

LEMMA LineTallied ==
  ASSUME NamesDiffer, FreeSlotRemains, TypeOK, Walk, Placed, LineInv, SignalInv, EmpInv(emp),
         [Next]_vars, ~Stopped', EndLine, NEW p, p \in Seq(Tokens), Tally(p)
  PROVE  \E q \in Seq(Tokens) : Tally(q)'
<1>1. run' = run /\ pc = "score" /\ tokens = <<>> /\ tokens' = <<>> /\ raised' = raised
      /\ pc' = "fill"
  BY DEF EndLine, line, signals, Stopped
<1>2. CASE run.mode = "filter"
  <2>1. \A c \in Cats : cat'[c].score = <<>>
    <3>1. PICK k \in [Cats -> Scores] : k = cat
      BY DEF TypeOK
    <3>2. \A c \in Cats : reset_all_scores(k)[c].score = <<>>
      BY ResetTypes
    <3>3. cat' = reset_all_scores(k) \/ cat' = [c \in Cats |-> init_category]
      BY <1>1, <1>2, <3>1 DEF EndLine, ScoresAfterLine, Stopped
    <3> QED
      BY <3>2, <3>3 DEF init_category
  <2>2. emp' = Cleared
    BY <1>2 DEF EndLine, line_score_categories
  <2>3. run.entropy => Filled(emp') = {}
    BY <2>2, ClearedSound
  <2>4. Follows(<<>>)'
    BY <1>1, <1>2 DEF Follows, LineText
  <2>5. <<>> \in Seq(Tokens)
    OBVIOUS
  <2> QED
    BY <1>1, <2>1, <2>3, <2>4, <2>5, Begins
<1>3. CASE run.mode # "filter"
  <2>1. Follows(p)'
    <3>1. ~CloseFile /\ ~ScoreWord
      BY <1>1 DEF CloseFile, ScoreWord
    <3> QED
      BY <1>3, <3>1, FollowsStep DEF Tally
  <2>2. emp' = emp
    BY <1>3 DEF EndLine
  <2>3. PICK k : k = cat'
    OBVIOUS
  <2>4. PICK l : l = loaded'
    OBVIOUS
  <2>5. PICK n : n = raised'
    OBVIOUS
  <2>6. PICK e : e = emp'
    OBVIOUS
  <2>7. Measured(e, p)
    BY <2>2, <2>6 DEF Tally
  <2>8. ScoreOf(k, l, n, p)
    <3>1. CASE "RELOAD_CATS" \notin cmd
      <4>1. cat' = cat /\ loaded' = loaded
        BY <1>3, <3>1 DEF EndLine, ScoresAfterLine
      <4> QED
        BY <1>1, <2>3, <2>4, <2>5, <4>1 DEF Tally
    <3>2. CASE "RELOAD_CATS" \in cmd
      <4>1. cat' = [c \in Cats |-> init_category]
        BY <1>1, <3>2 DEF EndLine, Stopped
      <4>2. \A c \in Cats : k[c].score = <<>>
        BY <2>3, <4>1 DEF init_category
      <4>3. n # 0
        BY <1>1, <2>5, <3>2 DEF SignalInv
      <4> QED
        BY <4>2, <4>3, ForgetsScores
    <3> QED
      BY <3>1, <3>2
  <2>9. Tally(p)'
    BY <1>1, <2>1, <2>3, <2>4, <2>5, <2>6, <2>7, <2>8, TallyNext
  <2> QED
    BY <2>9
<1> QED
  BY <1>2, <1>3

LEMMA FileTallied ==
  ASSUME FreeSlotRemains, TypeOK, EmpInv(emp), ~Stopped', CloseFile, run.mode = "multifile"
  PROVE  Tally(<<>>)'
<1>1. /\ run' = run /\ pc' \in {"entry", "next"}
      /\ file_score_categories(inputfile)
  BY DEF CloseFile, Stopped
<1>2. \A c \in Cats : cat'[c].score = <<>>
  <2>1. PICK k \in [Cats -> Scores] : k = cat
    BY DEF TypeOK
  <2>2. \A c \in Cats : reset_all_scores(k)[c].score = <<>>
    BY ResetTypes
  <2>3. cat' = reset_all_scores(k)
    BY <1>1, <2>1 DEF file_score_categories
  <2> QED
    BY <2>2, <2>3
<1>3. run.entropy => Filled(emp') = {}
  BY <1>1, ClearedSound DEF file_score_categories
<1>4. Follows(<<>>)'
  BY <1>1 DEF Follows, FileText, Within
<1> QED
  BY <1>1, <1>2, <1>3, <1>4, Begins

(* No other step changes what has been scored. *)
LEMMA OthersTallied ==
  ASSUME NamesDiffer, TypeOK, Walk, Placed, LineInv, SignalInv, [Next]_vars, ~Stopped',
         ~ScoreWord, ~EndLine, CloseFile => run.mode # "multifile",
         NEW p, p \in Seq(Tokens), Tally(p)
  PROVE  Tally(p)'
<1>1. run' = run
  BY WhoScores
<1>2. UNCHANGED <<cat, emp, loaded>>
  <2>1. CASE CloseFile
    BY <2>1 DEF CloseFile, models
  <2> QED
    BY <2>1, WhoScores
<1>3. raised' = 0 => raised = 0
  BY SignalStep
<1>4. Follows(p)'
  BY FollowsStep DEF Tally
<1>5. PICK k : k = cat'
  OBVIOUS
<1>6. PICK l : l = loaded'
  OBVIOUS
<1>7. PICK n : n = raised'
  OBVIOUS
<1>8. PICK e : e = emp'
  OBVIOUS
<1>9. PICK m : m = raised
  OBVIOUS
<1>10. ScoreOf(k, l, m, p) /\ Measured(e, p)
  BY <1>2, <1>5, <1>6, <1>8, <1>9 DEF Tally
<1>11. ScoreOf(k, l, n, p)
  BY <1>3, <1>7, <1>9, <1>10, StillScored
<1> QED
  BY <1>1, <1>4, <1>5, <1>6, <1>7, <1>8, <1>10, <1>11, TallyNext

LEMMA ScoringStep ==
  ASSUME NamesDiffer, NoZeroId, FreeSlotRemains
  PROVE  TypeOK /\ EmpInv(emp) /\ Walk /\ (~Stopped => Placed) /\ LineInv /\ SignalInv /\ ScoringInv
           /\ [Next]_vars => ScoringInv'
<1> SUFFICES ASSUME TypeOK, EmpInv(emp), Walk, ~Stopped => Placed, LineInv, SignalInv, ScoringInv,
                    [Next]_vars, ~Stopped'
             PROVE  \E q \in Seq(Tokens) : Tally(q)'
  BY DEF ScoringInv
<1>1. ~Stopped
  BY StaysStopped
<1>2. PICK p : p \in Seq(Tokens) /\ Tally(p)
  BY <1>1 DEF ScoringInv
<1>3. CASE ScoreWord
  BY <1>2, <1>3, WordTallied
<1>4. CASE EndLine
  BY <1>1, <1>2, <1>4, LineTallied
<1>5. CASE CloseFile /\ run.mode = "multifile"
  <2>1. <<>> \in Seq(Tokens)
    OBVIOUS
  <2> QED
    BY <1>5, <2>1, FileTallied
<1>6. CASE ~ScoreWord /\ ~EndLine /\ ~(CloseFile /\ run.mode = "multifile")
  BY <1>1, <1>2, <1>6, OthersTallied
<1> QED
  BY <1>3, <1>4, <1>5, <1>6

-----------------------------------------------------------------------------
(* The verdicts.                                                           *)

QuietInv == raised = 0 => cmd = {}

LEMMA QuietStep == SignalInv /\ QuietInv /\ [Next]_vars => QuietInv'
<1> SUFFICES ASSUME SignalInv, QuietInv, [Next]_vars, raised' = 0 PROVE cmd' = {}
  BY DEF QuietInv
<1>1. raised = 0 /\ sa_signal = NoSignal /\ cmd = {}
  BY SignalStep DEF SignalInv, QuietInv
<1>2. CASE UNCHANGED vars
  BY <1>1, <1>2 DEF vars
<1>3. CASE OpenFile \/ OpenDirectory \/ OpenFails \/ OpenStdin \/ NextEntry \/ LeaveDirectory
  BY <1>1, <1>3 DEF OpenFile, OpenDirectory, OpenFails, OpenStdin, NextEntry, LeaveDirectory, Untouched
<1>4. CASE ExitOnSignal \/ ReadLine \/ ReadExtraLine \/ EndOfFile
  BY <1>1, <1>4 DEF ExitOnSignal, ReadLine, ReadExtraLine, EndOfFile, NoSignal
<1>5. CASE ReadClosed
  BY <1>1, <1>5 DEF ReadClosed, Terminating, NoSignal
<1>6. CASE ScoreWord \/ CloseFile \/ Finish
  BY <1>1, <1>6 DEF ScoreWord, CloseFile, Finish
<1>7. CASE EndLine
  BY <1>1, <1>7 DEF EndLine
<1>8. CASE (\E sig \in Signals : Raise(sig)) \/ (\E c \in Cats : Relearn(c))
  BY <1>1, <1>8 DEF Raise, Relearn
<1> QED
  BY <1>2, <1>3, <1>4, <1>5, <1>6, <1>7, <1>8 DEF Next, Program

LEMMA StillRight ==
  ASSUME run' = run, raised > 0 => raised' > 0, NEW v, ScoresDocument(v)
  PROVE  ScoresDocument(v)'
<1>1. PICK D : D = Documents(v.name)
  OBVIOUS
<1>2. Documents(v.name)' = D
  BY <1>1, SameRun
<1>3. \A text, w : Scored(text, w)' = Scored(text, w)
  BY SameAdmitted DEF Scored
<1>4. PICK text \in D : \A c \in Cats :
        \/ v.cat[c].score = Scored(text, Versions[c][v.loaded[c]])
        \/ raised > 0 /\ IsPart(v.cat[c].score, Scored(text, Versions[c][v.loaded[c]]))
  BY <1>1 DEF ScoresDocument, IsPart
<1>5. \A c \in Cats :
        \/ v.cat[c].score = Scored(text, Versions[c][v.loaded[c]])'
        \/ raised' > 0 /\ IsPart(v.cat[c].score, Scored(text, Versions[c][v.loaded[c]]))'
  BY <1>3, <1>4
<1>6. \E x \in Documents(v.name)' : \A c \in Cats :
        \/ v.cat[c].score = Scored(x, Versions[c][v.loaded[c]])'
        \/ raised' > 0 /\ IsPart(v.cat[c].score, Scored(x, Versions[c][v.loaded[c]]))'
  BY <1>2, <1>5
<1> QED
  BY <1>6 DEF ScoresDocument, IsPart

(* Who prints a verdict, and on what. *)
LEMMA WhoJudges ==
  ASSUME [Next]_vars
  PROVE  \/ verdicts' = verdicts
         \/ \E name :
              /\ verdicts' = Append(verdicts, Verdict(name))
              /\ \/ EndLine /\ run.mode = "filter" /\ at > 0 /\ name = at
                 \/ CloseFile /\ run.mode = "multifile" /\ name = inputfile
                 \/ Finish /\ run.mode = "plain"
<1>1. CASE UNCHANGED vars
  BY <1>1 DEF vars
<1>2. CASE OpenFile \/ OpenDirectory \/ OpenFails \/ OpenStdin \/ NextEntry \/ LeaveDirectory
  BY <1>2 DEF OpenFile, OpenDirectory, OpenFails, OpenStdin, NextEntry, LeaveDirectory, Untouched
<1>3. CASE ExitOnSignal \/ ReadLine \/ ReadClosed \/ ReadExtraLine \/ EndOfFile
  BY <1>3 DEF ExitOnSignal, ReadLine, ReadClosed, ReadExtraLine, EndOfFile, Rest
<1>4. CASE ScoreWord
  BY <1>4 DEF ScoreWord
<1>5. CASE EndLine
  BY <1>5 DEF EndLine, line_score_categories
<1>6. CASE CloseFile
  BY <1>6 DEF CloseFile, file_score_categories, score_categories
<1>7. CASE Finish
  BY <1>7 DEF Finish, score_categories
<1>8. CASE (\E sig \in Signals : Raise(sig)) \/ (\E c \in Cats : Relearn(c))
  BY <1>8 DEF Raise, Relearn
<1> QED
  BY <1>1, <1>2, <1>3, <1>4, <1>5, <1>6, <1>7, <1>8 DEF Next, Program

(* When a run that was not told to stop ends, all its input has been read. *)
LEMMA AllRead ==
  ASSUME TypeOK, Walk, ~Quitting, Finish
  PROVE  Unread = <<>>
<1>1. pc = "next" /\ ~HasArg /\ argi > 0
  BY DEF Finish
<1>2. input.left = <<>> /\ entries = <<>> /\ argi <= IF run.args = <<>> THEN 1 ELSE Len(run.args)
  BY <1>1 DEF Walk
<1>3. ~(argi < Len(run.args))
  BY <1>1 DEF HasArg, Quitting
<1>4. run.args \in Seq(Args) /\ argi \in Nat
  BY RunTypes
<1>5. Unopened = <<>>
  <2>1. CASE run.args = <<>>
    BY <1>1, <2>1 DEF Unopened
  <2>2. CASE run.args # <<>>
    <3>1. argi = Len(run.args)
      BY <1>2, <1>3, <1>4, <2>2
    <3>2. FilesFrom(argi) = FilesFrom(Len(run.args))
      BY <3>1
    <3> QED
      BY <2>2, <3>2, FilesFromEnd DEF Unopened
  <2> QED
    BY <2>1, <2>2
<1>6. Coming = <<>>
  BY <1>2, <1>5 DEF Coming
<1>7. <<>> \o <<>> = <<>>
  OBVIOUS
<1> QED
  BY <1>2, <1>6, <1>7, LinesOfNone DEF Unread

(* What a verdict is on when it is printed.                                *)
LEMMA DocumentJudged ==
  ASSUME TypeOK, Walk, LineInv, QuietInv, NEW p, p \in Seq(Tokens), Tally(p), NEW name,
         \/ EndLine /\ run.mode = "filter" /\ at > 0 /\ name = at
         \/ CloseFile /\ run.mode = "multifile" /\ name = inputfile
         \/ Finish /\ run.mode = "plain"
  PROVE  \E rest : /\ rest \in Seq(Tokens) /\ p \o rest \in Documents(name)
                   /\ raised = 0 => rest = <<>>
<1>1. p \o <<>> = p /\ <<>> \in Seq(Tokens)
  BY ConcatEmptySeq
<1>2. raised = 0 => ~Quitting
  BY DEF QuietInv, Quitting
<1>3. CASE EndLine /\ run.mode = "filter" /\ at > 0 /\ name = at
  <2>1. tokens = <<>> /\ pc = "score"
    BY <1>3 DEF EndLine
  <2>2. p \o <<>> \in Documents(name)
    BY <1>3, <2>1 DEF Tally, Follows, LineText
  <2> QED
    BY <1>1, <2>2
<1>4. CASE CloseFile /\ run.mode = "multifile" /\ name = inputfile
  <2>1. pc = "close"
    BY <1>4 DEF CloseFile
  <2>2. tokens = <<>>
    BY <2>1 DEF LineInv
  <2>3. GoesOn(p, name)
    BY <1>4, <2>1 DEF Tally, Follows, FileText, Within
  <2>4. PICK text, rest :
          /\ text \in Documents(name) /\ rest \in Seq(Tokens)
          /\ (p \o tokens) \o rest = text
          /\ ~Quitting => rest = TextOf(input.left)
    BY <2>3 DEF GoesOn
  <2>5. p \o rest \in Documents(name)
    BY <1>1, <2>2, <2>4
  <2>6. raised = 0 => rest = <<>>
    BY <1>2, <2>1, <2>4, TextOfNone DEF Walk, Quitting
  <2> QED
    BY <2>4, <2>5, <2>6
<1>5. CASE Finish /\ run.mode = "plain"
  <2>1. tokens = <<>>
    BY <1>5 DEF Finish, LineInv
  <2>2. AllText(p)
    BY <1>5 DEF Tally, Follows
  <2>3. PICK rest :
          /\ rest \in Seq(Tokens)
          /\ (p \o tokens) \o rest = TextOf(LinesOf(AllFiles))
          /\ ~Quitting => rest = TextOf(Unread)
    BY <2>2 DEF AllText
  <2>4. p \o rest \in Documents(name)
    <3>1. p \o rest = TextOf(LinesOf(AllFiles))
      BY <1>1, <2>1, <2>3
    <3> QED
      BY <1>5, <3>1 DEF Documents
  <2>5. raised = 0 => rest = <<>>
    BY <1>2, <1>5, <2>3, AllRead, TextOfNone
  <2> QED
    BY <2>3, <2>4, <2>5
<1> QED
  BY <1>3, <1>4, <1>5

VerdictsRight == (\E V : verdicts \in Seq(V)) /\ ScoresItsDocument

LEMMA VerdictsStep ==
  TypeOK /\ Walk /\ LineInv /\ SignalInv /\ QuietInv /\ ScoringInv /\ VerdictsRight /\ [Next]_vars
    => VerdictsRight'
<1> SUFFICES ASSUME TypeOK, Walk, LineInv, SignalInv, QuietInv, ScoringInv, VerdictsRight,
                    [Next]_vars
             PROVE  VerdictsRight'
  OBVIOUS
<1>1. run' = run
  BY WhoScores
<1>2. raised > 0 => raised' > 0
  BY SignalStep DEF SignalInv
<1>3. \A v : ScoresDocument(v) => ScoresDocument(v)'
  BY <1>1, <1>2, StillRight
<1>4. PICK V : verdicts \in Seq(V)
  BY DEF VerdictsRight
<1>5. \A i \in 1..Len(verdicts) : ScoresDocument(verdicts[i])
  BY DEF VerdictsRight, ScoresItsDocument
<1>6. PICK vs : vs = verdicts'
  OBVIOUS
<1>7. (\E W : vs \in Seq(W)) /\ \A i \in 1..Len(vs) : ScoresDocument(vs[i])
  <2>1. CASE verdicts' = verdicts
    BY <1>4, <1>5, <1>6, <2>1
  <2>2. CASE \E name :
              /\ verdicts' = Append(verdicts, Verdict(name))
              /\ \/ EndLine /\ run.mode = "filter" /\ at > 0 /\ name = at
                 \/ CloseFile /\ run.mode = "multifile" /\ name = inputfile
                 \/ Finish /\ run.mode = "plain"
    <3>1. PICK name :
              /\ verdicts' = Append(verdicts, Verdict(name))
              /\ \/ EndLine /\ run.mode = "filter" /\ at > 0 /\ name = at
                 \/ CloseFile /\ run.mode = "multifile" /\ name = inputfile
                 \/ Finish /\ run.mode = "plain"
      BY <2>2
    <3>2. ~Stopped
      BY <3>1 DEF EndLine, CloseFile, Finish, Stopped
    <3>3. PICK p : p \in Seq(Tokens) /\ Tally(p)
      BY <3>2 DEF ScoringInv
    <3>4. PICK rest : rest \in Seq(Tokens) /\ p \o rest \in Documents(name) /\ (raised = 0 => rest = <<>>)
      BY <3>1, <3>3, DocumentJudged
    <3>5. PICK v : v = Verdict(name)
      OBVIOUS
    <3>6. v.name = name /\ v.cat = cat /\ v.loaded = loaded
      BY <3>5 DEF Verdict
    <3>7. ScoresDocument(v)
      BY <3>3, <3>4, <3>6, VerdictRight DEF Tally
    <3>8. verdicts \in Seq(V \cup {v})
      BY <1>4
    <3>9. PICK old : old = verdicts
      OBVIOUS
    <3>10. old \in Seq(V \cup {v}) /\ vs = Append(old, v)
      BY <1>6, <3>1, <3>5, <3>8, <3>9
    <3>11. vs \in Seq(V \cup {v}) /\ Len(vs) = Len(old) + 1 /\ vs[Len(old) + 1] = v
           /\ (\A i \in 1..Len(old) : vs[i] = old[i]) /\ Len(old) \in Nat
      BY <3>10
    <3>12. \A i \in 1..Len(vs) : ScoresDocument(vs[i])
      <4> SUFFICES ASSUME NEW i \in 1..Len(vs) PROVE ScoresDocument(vs[i])
        OBVIOUS
      <4>1. i \in 1..Len(old) \/ i = Len(old) + 1
        BY <3>11
      <4> QED
        BY <1>5, <3>7, <3>9, <3>11, <4>1
    <3> QED
      BY <3>11, <3>12
  <2> QED
    BY <2>1, <2>2, WhoJudges
<1>8. \A i \in 1..Len(vs) : ScoresDocument(vs[i])'
  BY <1>3, <1>7
<1> QED
  BY <1>6, <1>7, <1>8 DEF VerdictsRight, ScoresItsDocument

(* Every verdict is on the document it names: the score of a category is   *)
(* the sum over the tokens that document holds for it, in order and each   *)
(* once, and over none of a document before it, or, once a signal has come, *)
(* over a part of them without gaps, however many files, directories and   *)
(* lines there are and whenever categories are loaded anew (dbacl.c:185,   *)
(* 559). No directory may have the name of a file, no token the id 0 that  *)
(* marks a free slot, and the table of the empirical measure must keep a   *)
(* free slot.                                                              *)
THEOREM VerdictsScoreTheirDocuments ==
  NamesDiffer /\ NoZeroId /\ FreeSlotRemains /\ Spec => []ScoresItsDocument
<1> DEFINE Hyp == NamesDiffer /\ NoZeroId /\ FreeSlotRemains
<1>1. CASE Hyp
  <2>1. Init => /\ EmpInv(emp) /\ Walk /\ Placed /\ LineInv /\ SignalInv /\ QuietInv /\ ScoringInv
                /\ VerdictsRight
    <3> SUFFICES ASSUME Init
                 PROVE  /\ EmpInv(emp) /\ Walk /\ Placed /\ LineInv /\ SignalInv /\ QuietInv
                        /\ ScoringInv /\ VerdictsRight
      OBVIOUS
    <3>1. EmpInv(emp) /\ LineInv /\ SignalInv /\ QuietInv
      BY InitEmpirical DEF Init, LineInv, SignalInv, QuietInv
    <3>2. Walk /\ Placed
      BY PlacedInit
    <3>3. ScoringInv
      BY <1>1, ScoringInit
    <3>4. verdicts = <<>>
      BY DEF Init
    <3>5. <<>> \in Seq({}) /\ \A i \in 1..Len(<<>>) : ScoresDocument(<<>>[i])
      OBVIOUS
    <3> QED
      BY <3>1, <3>2, <3>3, <3>4, <3>5 DEF VerdictsRight, ScoresItsDocument
  <2>2. TypeOK /\ EmpInv(emp) /\ [Next]_vars => EmpInv(emp)'
    <3>1. TypeOK /\ EmpInv(emp) /\ [Next]_vars => EmpInv(emp')
      BY <1>1, EmpStep
    <3>2. EmpInv(emp)' <=> EmpInv(emp')
      OBVIOUS
    <3> QED
      BY <3>1, <3>2
  <2>3. TypeOK /\ Walk /\ (~Stopped => Placed) /\ [Next]_vars => (~Stopped => Placed)'
    BY PlacedStep, StaysStopped
  <2>4. SignalInv /\ [Next]_vars => SignalInv'
    BY SignalStep
  <2>5. TypeOK /\ EmpInv(emp) /\ Walk /\ (~Stopped => Placed) /\ LineInv /\ SignalInv /\ ScoringInv
          /\ [Next]_vars => ScoringInv'
    BY <1>1, ScoringStep
  <2>6. VerdictsRight => ScoresItsDocument
    BY DEF VerdictsRight
  <2> QED
    BY <2>1, <2>2, <2>3, <2>4, <2>5, <2>6, WalkStep, LineStep, QuietStep, VerdictsStep, TypeCorrect,
       PTL DEF Spec
<1>2. CASE ~Hyp
  BY <1>2
<1> QED
  BY <1>1, <1>2

=============================================================================
