------------------------- MODULE MailFilter_proofs --------------------------
(***************************************************************************)
(* Proofs about MailFilter, for any lines, options, decoded text and sizes *)
(* of pages.                                                               *)
(***************************************************************************)
EXTENDS MailFilter, WellFoundedInduction, SequenceTheorems, TLAPS

Cells == {"w", "s"} \X Types
Cache == Seq(Cells)
Mimes == [type : Types, encoding : Encodings]
Filters == {"NONE", "SMART", "DUMB"}
Resets == {"UNDEF", "DISABLE", "SMART", "DUMB"}
States == {"UNDEF", "HEADER", "BODY", "ATTACH"}
Substates == {"UNDEF", "OTHER", "TRACK", "MIME", "ARMOR"}

ParserType ==
  /\ mstate \in States /\ substate \in Substates
  /\ header \in Mimes /\ body \in Mimes
  /\ skip \in BOOLEAN /\ skipHeader \in BOOLEAN /\ prevEmpty \in BOOLEAN
  /\ known \in BOOLEAN
  /\ check \in 0..CheckLines

OutType ==
  /\ out.text \in Cache /\ out.fed \in Cache
  /\ out.xml \in Filters
  /\ {out.shown, out.strings, out.message} \subseteq BOOLEAN

(* Room for a page at least. *)
Roomy(r) ==
  /\ DOMAIN r = Coders
  /\ r["B64"] \in Nat /\ r["B64"] >= PageLen
  /\ r["QP"] \in Nat /\ r["QP"] >= PageLen

TypeOK ==
  /\ options \in OptionSets
  /\ ParserType
  /\ b64 \in Cache /\ qp \in Cache
  /\ Roomy(room) /\ fitted \in BOOLEAN
  /\ xml \in Filters
  /\ notHeader \in BOOLEAN
  /\ extra \in 0..Reading
  /\ OutType

-----------------------------------------------------------------------------
(* What is cached.                                                         *)

(* There is no place to break a tail but its start. *)
Tight(c) == \A i \in 2..Len(c) : c[i][1] = "w"

OneCache == b64 = <<>> \/ qp = <<>>

(* The cache of a body is that of its encoding. *)
OwnCache ==
  mstate = "BODY" =>
    /\ \A i \in DOMAIN Pending : Pending[i][2] = body.type
    /\ b64 # <<>> => body.encoding = "B64"
    /\ qp # <<>> => body.encoding = "QP"

(* A tail that may not be broken. *)
TailOnly(c) == Len(c) <= TailLen /\ Tight(c)

CacheInv == OneCache /\ (fitted => TailOnly(Pending)) /\ OwnCache

-----------------------------------------------------------------------------
(* Breaking a line.                                                        *)

LEMMA MaxOfSome ==
  ASSUME NEW n \in Nat, NEW S \in SUBSET (0..n), S # {}
  PROVE  Max(S) \in S /\ \A y \in S : y <= Max(S)
<1> DEFINE R == {d \in Nat \X Nat : d[1] < d[2]}
           T == {n - i : i \in S}
<1>1. IsWellFoundedOn(R, Nat)
  <2>1. R = OpToRel(<, Nat)
    BY Zenon DEF OpToRel
  <2> QED
    BY <2>1, NatLessThanWellFounded, Zenon
<1>2. T \subseteq Nat /\ T # {}
  <2>1. \A i \in S : n - i \in Nat
    OBVIOUS
  <2> QED
    BY <2>1
<1>3. PICK x \in T : \A y \in T : <<y, x>> \notin R
  <2> HIDE DEF R, T
  <2> QED
    BY <1>1, <1>2, WFMin
<1>4. PICK i \in S : x = n - i
  OBVIOUS
<1>5. ASSUME NEW y \in S
      PROVE  i >= y
  <2>1. n - y \in T /\ x \in Nat /\ n - y \in Nat
    BY <1>2
  <2>2. <<n - y, x>> \notin R
    BY <1>3, <2>1
  <2>3. ~(n - y < x)
    BY <2>1, <2>2
  <2> QED
    BY <1>4, <2>3
<1>6. \E m \in S : \A y \in S : m >= y
  BY <1>5
<1>7. Max(S) \in S /\ \A y \in S : Max(S) >= y
  BY <1>6 DEF Max
<1> QED
  BY <1>7

(* Where flush_cache() breaks what it has room for: at the last place to     *)
(* break, unless the tail would be too long.                                *)
LEMMA BreakFacts ==
  ASSUME NEW c \in Cache, NEW m \in Nat
  PROVE  /\ Break(c, m) \in 0..Least(Len(c), m)
         /\ Least(Len(c), m) - Break(c, m) <= TailLen
         /\ \A i \in 0..Least(Len(c), m) : Spaced(c, i) => i <= Break(c, m)
         /\ \/ Break(c, m) = 0
            \/ Spaced(c, Break(c, m))
            \/ Break(c, m) + TailLen = Least(Len(c), m)
<1> DEFINE n == Least(Len(c), m)
           S == {i \in 0..n : i = 0 \/ Spaced(c, i) \/ i + TailLen = n}
<1>1. n \in Nat /\ TailLen \in Nat
  BY MailFilterAssumption DEF Least, Cache
<1>2. Break(c, m) = Max(S)
  BY DEF Break
<1> HIDE DEF n
<1>3. 0 \in S /\ S \subseteq 0..n
  BY <1>1
<1>4. n >= TailLen => n - TailLen \in S
  BY <1>1
<1> HIDE DEF S
<1>5. Max(S) \in S /\ \A y \in S : y <= Max(S)
  BY <1>1, <1>3, MaxOfSome
<1>6. Max(S) \in 0..n
  BY <1>3, <1>5
<1>7. n - Max(S) <= TailLen
  BY <1>1, <1>4, <1>5, <1>6
<1> QED
  BY <1>2, <1>5, <1>6, <1>7 DEF S, n

(* The two parts of a broken cache, which had room for a line of k           *)
(* characters: what stays is k characters shorter than the cache, but for a  *)
(* tail, and only a tail if the cache had room for all.                     *)
LEMMA BreakParts ==
  ASSUME NEW c \in Cache, NEW m \in Nat, NEW k \in 0..m
  PROVE  /\ SubSeq(c, 1, Break(c, m)) \in Cache
         /\ SubSeq(c, Break(c, m) + 1, Len(c)) \in Cache
         /\ c = SubSeq(c, 1, Break(c, m)) \o SubSeq(c, Break(c, m) + 1, Len(c))
         /\ Len(SubSeq(c, Break(c, m) + 1, Len(c))) = Len(c) - Break(c, m)
         /\ k <= Len(c) => Len(c) - Break(c, m) <= Len(c) - k + TailLen
         /\ \A i \in 1..Len(c) - Break(c, m) :
              SubSeq(c, Break(c, m) + 1, Len(c))[i] = c[Break(c, m) + i]
         /\ Break(c, m) = 0 => SubSeq(c, 1, Break(c, m)) = <<>>
         /\ Len(c) <= m => TailOnly(SubSeq(c, Break(c, m) + 1, Len(c)))
<1> DEFINE n == Break(c, m)
           r == SubSeq(c, n + 1, Len(c))
<1>1. /\ n \in 0..Len(c) /\ Len(c) \in Nat /\ TailLen \in Nat
      /\ Least(Len(c), m) = IF Len(c) < m THEN Len(c) ELSE m
      /\ Least(Len(c), m) - n <= TailLen
      /\ \A i \in 0..Least(Len(c), m) : Spaced(c, i) => i <= n
  <2>1. Len(c) \in Nat
    BY DEF Cache
  <2> HIDE DEF n
  <2>2. /\ n \in 0..Least(Len(c), m) /\ Least(Len(c), m) - n <= TailLen
        /\ \A i \in 0..Least(Len(c), m) : Spaced(c, i) => i <= n
    BY BreakFacts DEF n
  <2> QED
    BY <2>1, <2>2, MailFilterAssumption DEF Least
<1> HIDE DEF n
<1>2. c = SubSeq(c, 1, Len(c))
  BY SubSeqFull DEF Cache
<1>3. SubSeq(c, 1, n) \o SubSeq(c, n + 1, Len(c)) = SubSeq(c, 1, Len(c))
  <2>1. /\ 1 \in 1..Len(c) + 1 /\ n \in 1 - 1..Len(c) /\ Len(c) \in n..Len(c)
    BY <1>1
  <2> QED
    BY <2>1, ConcatAdjacentSubSeq DEF Cache
<1>4. \A i \in 1..Len(c) : c[i] \in Cells
  BY DEF Cache
<1>5. SubSeq(c, 1, n) \in Cache
  <2>1. \A i \in 1..n : c[i] \in Cells
    BY <1>1, <1>4
  <2> QED
    BY <1>1, <2>1, SubSeqProperties DEF Cache
<1>6. /\ r \in Cache /\ Len(r) = Len(c) - n
      /\ \A i \in 1..Len(c) - n : r[i] = c[n + i]
  <2>1. \A i \in n + 1..Len(c) : c[i] \in Cells
    BY <1>1, <1>4
  <2>2. n + 1 \in Int /\ Len(c) \in Int
    BY <1>1
  <2>3. /\ r \in Seq(Cells)
        /\ Len(r) = IF n + 1 <= Len(c) THEN Len(c) - (n + 1) + 1 ELSE 0
        /\ \A i \in 1..Len(c) - (n + 1) + 1 : r[i] = c[n + 1 + i - 1]
    BY <2>1, <2>2, SubSeqProperties
  <2>4. Len(r) = Len(c) - n /\ Len(c) - (n + 1) + 1 = Len(c) - n
    BY <1>1, <2>3
  <2>5. ASSUME NEW i \in 1..Len(c) - n
        PROVE  r[i] = c[n + i]
    <3>1. n + 1 + i - 1 = n + i
      BY <1>1
    <3> QED
      BY <2>3, <2>4, <3>1
  <2> QED
    BY <2>3, <2>4, <2>5 DEF Cache
<1> HIDE DEF r
<1>7. ASSUME Len(c) <= m
      PROVE  TailOnly(r)
  <2>1. Least(Len(c), m) = Len(c)
    BY <1>1, <1>7
  <2>2. Len(r) <= TailLen
    BY <1>1, <1>6, <2>1
  <2>3. ASSUME NEW i \in 2..Len(r)
        PROVE  r[i][1] = "w"
    <3>1. i \in 1..Len(c) - n /\ n + i - 1 \in 0..Len(c) /\ ~(n + i - 1 <= n)
          /\ n + i - 1 < Len(c) /\ n + i - 1 + 1 = n + i /\ n + i \in 1..Len(c)
      BY <1>1, <1>6
    <3>2. ~Spaced(c, n + i - 1)
      BY <1>1, <2>1, <3>1
    <3>3. c[n + i][1] # "s"
      BY <3>1, <3>2 DEF Spaced
    <3>4. c[n + i] \in Cells
      BY <1>4, <3>1
    <3> QED
      BY <1>6, <3>1, <3>3, <3>4 DEF Cells
  <2> QED
    BY <2>2, <2>3 DEF TailOnly, Tight
<1>8. n = 0 => SubSeq(c, 1, n) = <<>>
  BY SubSeqEmpty
<1>9. k <= Len(c) => Len(c) - n <= Len(c) - k + TailLen
  BY <1>1
<1> QED
  BY <1>1, <1>2, <1>3, <1>5, <1>6, <1>7, <1>8, <1>9 DEF n, r

-----------------------------------------------------------------------------
(* Flushing a cache.                                                       *)

LEMMA StartFacts ==
  ASSUME NEW c \in Cache, NEW n \in Nat, n >= PageLen
  PROVE  /\ Start(c, n) \in Cache
         /\ Len(c) <= n => Start(c, n) = c
         /\ ~(Len(c) <= n) => CutShort(Start(c, n), c)
<1>1. Len(c) \in Nat /\ PageLen \in Nat /\ \A i \in 1..Len(c) : c[i] \in Cells
  BY MailFilterAssumption DEF Cache
<1>2. CASE Len(c) <= n
  <2>1. Start(c, n) = SubSeq(c, 1, Len(c))
    BY <1>1, <1>2 DEF Start, Least
  <2> QED
    BY <1>2, <2>1, SubSeqFull DEF Cache
<1>3. CASE ~(Len(c) <= n)
  <2>1. Start(c, n) = SubSeq(c, 1, n)
    BY <1>1, <1>3 DEF Start, Least
  <2>2. \A i \in 1..n : c[i] \in Cells
    BY <1>1, <1>3
  <2>3. /\ SubSeq(c, 1, n) \in Seq(Cells)
        /\ Len(SubSeq(c, 1, n)) = IF 1 <= n THEN n - 1 + 1 ELSE 0
    BY <2>2, SubSeqProperties
  <2>4. Len(SubSeq(c, 1, n)) = n
    BY <2>3
  <2> QED
    BY <1>1, <1>3, <2>1, <2>3, <2>4 DEF CutShort, Cache
<1> QED
  BY <1>2, <1>3

(* A full flush shows all of a cache that is no longer than a tail.  Of a     *)
(* longer one it may cut the end off.                                       *)
LEMMA WholeFacts ==
  ASSUME NEW b \in Cache, NEW q \in Cache, NEW r, Roomy(r), NEW fits,
         fits => Len(Full(b, q)) <= TailLen
  PROVE  /\ Whole(b, q, r) \in Cache
         /\ fits => Whole(b, q, r) = Full(b, q)
         /\ Kept(Whole(b, q, r), <<>>, Full(b, q), fits)
<1>1. \E n \in Nat : n >= PageLen /\ Whole(b, q, r) = Start(Full(b, q), n)
  BY DEF Whole, Full, Roomy
<1>2. PICK n \in Nat : n >= PageLen /\ Whole(b, q, r) = Start(Full(b, q), n)
  BY <1>1
<1>3. PICK c \in Cache : c = Full(b, q)
  BY DEF Full
<1>4. /\ Start(c, n) \in Cache
      /\ Len(c) <= n => Start(c, n) = c
      /\ ~(Len(c) <= n) => CutShort(Start(c, n), c)
  BY <1>2, StartFacts
<1>5. fits => Len(c) <= n
  BY <1>2, <1>3, MailFilterAssumption DEF Cache
<1>6. Start(c, n) \o <<>> = Start(c, n)
  BY <1>4, ConcatEmptySeq DEF Cache
<1> QED
  BY <1>2, <1>3, <1>4, <1>5, <1>6 DEF Kept

LEMMA LongestFacts ==
  ASSUME NEW r, Roomy(r), NEW e \in Coders, NEW n \in Nat
  PROVE  /\ Roomy(Longest(r, e, n))
         /\ Longest(r, e, n)[e] \in Nat /\ Longest(r, e, n)[e] >= n
         /\ Longest(r, e, n)[e] >= PageLen
<1>1. CASE e = "B64"
  BY <1>1, MailFilterAssumption DEF Roomy, Longest, Coders
<1>2. CASE e = "QP"
  BY <1>2, MailFilterAssumption DEF Roomy, Longest, Coders
<1> QED
  BY <1>1, <1>2 DEF Coders

-----------------------------------------------------------------------------
(* The work done on a line.                                                *)

(* The cache that work w leaves. *)
Left(w) == Full(w.b64, w.qp)

(* Work that keeps the text together: what was cached and what was decoded  *)
(* is what is shown and what stays in one cache, in order, where a cache had *)
(* room for it.                                                             *)
Conserves(w) ==
  /\ {w.process, w.octet, w.fits} \subseteq BOOLEAN
  /\ w.force \in Resets
  /\ w.text \in Cache /\ w.fed \in Cache
  /\ w.b64 \in Cache /\ w.qp \in Cache
  /\ w.b64 = <<>> \/ w.qp = <<>>
  /\ Roomy(w.room)
  /\ w.fits => fitted /\ TailOnly(Left(w))
  /\ Kept(w.text, Left(w), Pending \o w.fed, w.fits)
  /\ Len(Left(w)) <= Len(Pending) + TailLen
  /\ ~w.process /\ Left(w) # <<>> => w.text = <<>> /\ Pending \o w.fed = Left(w)

(* The three kinds of work: nothing is done with the cache, it is emptied,   *)
(* or a line is decoded into it.                                            *)
Keeps(w) ==
  /\ w.process \in BOOLEAN /\ w.octet \in BOOLEAN
  /\ w.text = <<>> /\ w.fed = <<>> /\ w.force = "UNDEF"
  /\ w.b64 = b64 /\ w.qp = qp
  /\ w.room = room /\ w.fits = fitted

Empties(w) ==
  /\ w.process \in BOOLEAN /\ w.octet \in BOOLEAN
  /\ w.octet <=> Pending # <<>> /\ Octet(body.type)
  /\ w.force = IF Pending # <<>> THEN Defaults(body.type) ELSE "UNDEF"
  /\ w.text = Whole(b64, qp, room) /\ w.fed = <<>>
  /\ w.b64 = <<>> /\ w.qp = IF b64 # <<>> THEN qp ELSE <<>>
  /\ w.room = room /\ w.fits = fitted

Decodes(w, l) == \E d \in Decodings(l) : w = Decode(d)

LEMMA PendingFacts ==
  ASSUME b64 \in Cache, qp \in Cache, OneCache
  PROVE  /\ Pending \in Cache /\ Len(Pending) \in Nat
         /\ Pending = <<>> <=> b64 = <<>> /\ qp = <<>>
         /\ b64 # <<>> => Pending = b64 /\ qp = <<>>
         /\ b64 = <<>> => Pending = qp
         /\ qp # <<>> => Pending = qp
BY DEF Pending, Full, OneCache, Cache

LEMMA EmptyTail == TailOnly(<<>>) /\ Len(<<>>) = 0 /\ <<>> \in Cache
BY MailFilterAssumption DEF TailOnly, Tight, Cache

LEMMA KeepsFacts ==
  ASSUME TypeOK, CacheInv, NEW w, Keeps(w)
  PROVE  /\ Conserves(w) /\ w.b64 = b64 /\ w.qp = qp /\ w.text = <<>> /\ w.fed = <<>>
         /\ w.force = "UNDEF"
<1>1. /\ {w.process, w.octet, w.fits} \subseteq BOOLEAN
      /\ w.text = <<>> /\ w.force = "UNDEF"
      /\ w.b64 = b64 /\ w.qp = qp /\ w.fed = <<>>
      /\ w.room = room /\ w.fits = fitted /\ Roomy(room)
  BY DEF Keeps, TypeOK
<1>2. b64 \in Cache /\ qp \in Cache /\ OneCache /\ (fitted => TailOnly(Pending))
  BY DEF TypeOK, CacheInv
<1>3. Left(w) = Pending /\ Pending \in Cache /\ Len(Pending) \in Nat
  BY <1>1, <1>2, PendingFacts DEF Left, Pending
<1>4. Pending \o <<>> = Pending /\ <<>> \o Pending = Pending
  BY <1>3, ConcatEmptySeq DEF Cache
<1>5. Len(Pending) <= Len(Pending) + TailLen
  BY <1>3, MailFilterAssumption
<1>6. Kept(w.text, Left(w), Pending \o w.fed, w.fits)
  BY <1>1, <1>3, <1>4 DEF Kept
<1>7. w.b64 = <<>> \/ w.qp = <<>>
  BY <1>1, <1>2 DEF OneCache
<1>8. Pending \o w.fed = Left(w)
  BY <1>1, <1>3, <1>4
<1>9. w.fits => fitted /\ TailOnly(Left(w))
  BY <1>1, <1>2, <1>3
<1> QED
  BY <1>1, <1>2, <1>3, <1>5, <1>6, <1>7, <1>8, <1>9, EmptyTail DEF Conserves, Resets

LEMMA EmptiesFacts ==
  ASSUME TypeOK, CacheInv, NEW w, Empties(w)
  PROVE  /\ Conserves(w) /\ w.b64 = <<>> /\ w.qp = <<>> /\ w.fed = <<>>
         /\ fitted => w.text = Pending
         /\ Pending # <<>> => (w.octet <=> Octet(body.type)) /\ w.force = Defaults(body.type)
<1>1. /\ {w.process, w.octet, w.fits} \subseteq BOOLEAN
      /\ w.octet <=> Pending # <<>> /\ Octet(body.type)
      /\ w.force = IF Pending # <<>> THEN Defaults(body.type) ELSE "UNDEF"
      /\ w.text = Whole(b64, qp, room) /\ w.fed = <<>>
      /\ w.b64 = <<>> /\ w.qp = IF b64 # <<>> THEN qp ELSE <<>>
      /\ w.room = room /\ w.fits = fitted /\ Roomy(room)
  BY DEF Empties, TypeOK
<1>2. /\ b64 \in Cache /\ qp \in Cache /\ OneCache
      /\ fitted => Len(Full(b64, qp)) <= TailLen
  BY DEF TypeOK, CacheInv, TailOnly, Pending
<1>3. Pending \in Cache /\ Len(Pending) \in Nat /\ w.qp = <<>>
  BY <1>1, <1>2, PendingFacts
<1>4. /\ w.text \in Cache
      /\ fitted => w.text = Pending
      /\ Kept(w.text, <<>>, Pending, fitted)
  BY <1>1, <1>2, WholeFacts DEF Pending
<1>5. Left(w) = <<>>
  BY <1>1, <1>3 DEF Left, Full
<1>6. w.force \in Resets
  BY <1>1 DEF Defaults, Resets
<1>7. Pending \o w.fed = Pending
  BY <1>1, <1>3, ConcatEmptySeq DEF Cache
<1>8. Kept(w.text, Left(w), Pending \o w.fed, w.fits)
  BY <1>1, <1>4, <1>5, <1>7
<1>9. Len(Left(w)) <= Len(Pending) + TailLen
  BY <1>3, <1>5, EmptyTail, MailFilterAssumption
<1>10. TailOnly(Left(w))
  BY <1>5, EmptyTail
<1>11. Conserves(w)
  BY <1>1, <1>3, <1>4, <1>5, <1>6, <1>8, <1>9, <1>10, EmptyTail DEF Conserves
<1> QED
  BY <1>1, <1>3, <1>4, <1>11

(* No line decodes to more than fits on a page behind a cached tail. *)
ShortLines ==
  /\ \A d \in Decoded : Len(d.text) + TailLen <= PageLen
  /\ 2 + TailLen <= PageLen

(* What lines decode to. *)
LEMMA DecodingFacts ==
  ASSUME NEW l, NEW d \in Decodings(l)
  PROVE  /\ d.text \in Seq({"w", "s"}) /\ d.len \in Nat /\ Len(d.text) <= d.len
         /\ l.is = "empty" => \A i \in 1..Len(d.text) : d.text[i] = "s"
         /\ l.is = "empty" => d.text = <<>> \/ body.encoding = "QP"
         /\ ShortLines => Len(d.text) + TailLen <= PageLen
<1>1. CASE l.is # "empty"
  <2>1. d \in Decoded
    BY <1>1 DEF Decodings
  <2> QED
    BY <1>1, <2>1, MailFilterAssumption DEF ShortLines
<1>2. CASE l.is = "empty" /\ body.encoding = "QP"
  <2>1. d = Coded(<<"s">>) \/ d = Coded(<<"s", "s">>)
    BY <1>2 DEF Decodings
  <2>2. <<"s">> \in Seq({"w", "s"}) /\ Len(<<"s">>) = 1 /\ <<"s">>[1] = "s"
    OBVIOUS
  <2>3. /\ <<"s", "s">> \in Seq({"w", "s"}) /\ Len(<<"s", "s">>) = 2
        /\ <<"s", "s">>[1] = "s" /\ <<"s", "s">>[2] = "s"
    OBVIOUS
  <2>4. \A t : Coded(t).text = t /\ Coded(t).len = Len(t)
    BY DEF Coded
  <2>5. \A i \in 1..1 : i = 1
    OBVIOUS
  <2>6. \A i \in 1..2 : i = 1 \/ i = 2
    OBVIOUS
  <2>7. PICK t : d.text = t /\ d.len = Len(t) /\ (t = <<"s">> \/ t = <<"s", "s">>)
    BY <2>1, <2>4
  <2>10. t \in Seq({"w", "s"}) /\ Len(t) \in {1, 2}
    BY <2>2, <2>3, <2>7, Zenon
  <2>8. t \in Seq({"w", "s"}) /\ Len(t) \in Nat /\ Len(t) <= Len(t)
    BY <2>10
  <2>9. \A i \in 1..Len(t) : t[i] = "s"
    BY <2>2, <2>3, <2>5, <2>6, <2>7
  <2>11. ShortLines => Len(t) + TailLen <= PageLen
    <3>1. ShortLines => 2 + TailLen <= PageLen
      BY DEF ShortLines
    <3>2. 1 <= 2 /\ TailLen \in Nat /\ PageLen \in Nat
      BY MailFilterAssumption
    <3>3. PICK k \in {1, 2} : k = Len(t)
      BY <2>10
    <3>4. 2 + TailLen <= PageLen => k + TailLen <= PageLen
      BY <3>2
    <3> QED
      BY <3>1, <3>3, <3>4
  <2> QED
    BY <1>2, <2>7, <2>8, <2>9, <2>11
<1>3. CASE l.is = "empty" /\ body.encoding # "QP"
  <2>1. d.text = <<>> /\ d.len \in {1, 2}
    BY <1>3 DEF Decodings
  <2>2. <<>> \in Seq({"w", "s"}) /\ Len(<<>>) = 0
    OBVIOUS
  <2>3. d.len \in Nat /\ 0 <= d.len
    BY <2>1
  <2>4. 0 + TailLen <= PageLen
    BY MailFilterAssumption
  <2> QED
    BY <1>3, <2>1, <2>2, <2>3, <2>4
<1> QED
  BY <1>1, <1>2, <1>3

LEMMA DecodesFacts ==
  ASSUME TypeOK, CacheInv, mstate = "BODY", body.encoding \in {"QP", "B64"},
         NEW l, NEW w, Decodes(w, l)
  PROVE  /\ Conserves(w) /\ w.force = "UNDEF" /\ (w.octet <=> Octet(body.type))
         /\ \A i \in DOMAIN w.text : w.text[i][2] = body.type
         /\ \A i \in DOMAIN Left(w) : Left(w)[i][2] = body.type
         /\ w.b64 # <<>> => body.encoding = "B64"
         /\ w.qp # <<>> => body.encoding = "QP"
         /\ w.text # <<>> => w.process
         /\ ShortLines /\ fitted => w.fits
         /\ w.fits /\ l.is = "empty" =>
              \/ ~w.process
              \/ \A i \in DOMAIN Left(w) : Left(w)[i][1] = "s"
<1>1. PICK d \in Decodings(l) : w = Decode(d)
  BY DEF Decodes
<1> DEFINE x == d.text
           fed == [i \in DOMAIN x |-> <<x[i], body.type>>]
           a == IF body.encoding = "QP" THEN qp ELSE b64
           c == a \o fed
           m == Longest(room, body.encoding, d.len)[body.encoding]
           n == Break(c, m)
           t == SubSeq(c, 1, n)
           r == SubSeq(c, n + 1, Len(c))
<1>2. /\ w.text = t /\ w.force = "UNDEF"
      /\ w.b64 = IF body.encoding = "QP" THEN b64 ELSE r
      /\ w.qp = IF body.encoding = "QP" THEN r ELSE qp
      /\ w.fed = fed /\ w.room = Longest(room, body.encoding, d.len)
  BY <1>1 DEF Decode, Work
<1> DEFINE p == n > 0
           o == Octet(body.type)
           f == fitted /\ Len(c) <= m
<1>3. w.process = p /\ w.octet = o /\ w.fits = f
  BY <1>1 DEF Decode, Work
<1>4. /\ (p <=> n > 0) /\ p \in BOOLEAN /\ (o <=> Octet(body.type)) /\ o \in BOOLEAN
      /\ (f <=> fitted /\ Len(c) <= m) /\ f \in BOOLEAN
  <2>1. o \in BOOLEAN
    BY DEF Octet
  <2>2. p \in BOOLEAN
    <3> HIDE DEF n
    <3> QED
      OBVIOUS
  <2>3. f \in BOOLEAN
    <3> HIDE DEF c, m
    <3> QED
      OBVIOUS
  <2> QED
    BY <2>1, <2>2, <2>3
<1> HIDE DEF p, o, f
<1>5. (w.process <=> n > 0) /\ w.process \in BOOLEAN
  BY <1>3, <1>4
<1>6. (w.octet <=> Octet(body.type)) /\ w.octet \in BOOLEAN
  BY <1>3, <1>4
<1>24. (w.fits <=> fitted /\ Len(c) <= m) /\ w.fits \in BOOLEAN
  BY <1>3, <1>4
<1>25. /\ m \in Nat /\ m >= d.len /\ m >= PageLen /\ Roomy(w.room)
       /\ d.len \in Nat /\ TailLen \in Nat
  <2>1. d.len \in Nat /\ TailLen \in Nat
    BY DecodingFacts, MailFilterAssumption
  <2>2. PICK y \in Coders : y = body.encoding
    BY DEF Coders
  <2>3. PICK z : z = room /\ Roomy(z)
    BY DEF TypeOK
  <2>4. PICK k \in Nat : k = d.len
    BY <2>1
  <2>5. /\ Roomy(Longest(z, y, k))
        /\ Longest(z, y, k)[y] \in Nat /\ Longest(z, y, k)[y] >= k
        /\ Longest(z, y, k)[y] >= PageLen
    BY <2>3, LongestFacts
  <2> QED
    BY <1>2, <2>1, <2>2, <2>3, <2>4, <2>5, Zenon
<1>7. /\ b64 \in Cache /\ qp \in Cache /\ OneCache /\ (fitted => TailOnly(Pending))
      /\ \A i \in DOMAIN Pending : Pending[i][2] = body.type
      /\ b64 # <<>> => body.encoding = "B64"
      /\ qp # <<>> => body.encoding = "QP"
      /\ body.type \in Types
  BY DEF TypeOK, CacheInv, OwnCache, ParserType, Mimes
<1>8. a = Pending /\ a \in Cache /\ Len(a) \in Nat
  BY <1>7, PendingFacts
<1>9. /\ x \in Seq({"w", "s"}) /\ Len(x) \in Nat /\ Len(x) <= d.len
      /\ l.is = "empty" => \A i \in 1..Len(x) : x[i] = "s"
      /\ l.is = "empty" => x = <<>> \/ body.encoding = "QP"
      /\ ShortLines => Len(x) + TailLen <= PageLen
  <2>1. /\ x \in Seq({"w", "s"}) /\ Len(x) <= d.len
        /\ l.is = "empty" => \A i \in 1..Len(x) : x[i] = "s"
        /\ l.is = "empty" => x = <<>> \/ body.encoding = "QP"
        /\ ShortLines => Len(x) + TailLen <= PageLen
    BY DecodingFacts
  <2> HIDE DEF x
  <2> QED
    BY <2>1
<1> HIDE DEF x, m
<1>10. /\ fed \in Cache /\ Len(fed) = Len(x)
       /\ \A i \in 1..Len(x) : fed[i][1] = x[i] /\ fed[i][2] = body.type
  <2>1. DOMAIN x = 1..Len(x) /\ \A i \in 1..Len(x) : x[i] \in {"w", "s"}
    BY <1>9
  <2>2. \A i \in 1..Len(x) : <<x[i], body.type>> \in Cells
    BY <1>7, <2>1 DEF Cells
  <2>3. fed = [i \in 1..Len(x) |-> <<x[i], body.type>>]
    BY <2>1
  <2> QED
    BY <1>9, <2>2, <2>3 DEF Cache
<1> HIDE DEF fed, a
<1>11. /\ c \in Cache /\ Len(c) = Len(a) + Len(fed) /\ Len(c) \in Nat
       /\ \A i \in 1..Len(c) : c[i] = IF i <= Len(a) THEN a[i] ELSE fed[i - Len(a)]
  <2>1. /\ c \in Seq(Cells) /\ Len(c) = Len(a) + Len(fed)
        /\ \A i \in 1..Len(a) + Len(fed) : c[i] = IF i <= Len(a) THEN a[i] ELSE fed[i - Len(a)]
    <3>1. a \in Seq(Cells) /\ fed \in Seq(Cells)
      BY <1>8, <1>10 DEF Cache
    <3> QED
      BY <3>1, ConcatProperties
  <2> HIDE DEF c
  <2> QED
    BY <1>8, <1>9, <1>10, <2>1 DEF Cache
<1> HIDE DEF c
<1>12. /\ n \in 0..Len(c)
       /\ Len(c) <= m =>
            /\ \A i \in 0..Len(c) : Spaced(c, i) => i <= n
            /\ n = 0 \/ Spaced(c, n) \/ n + TailLen = Len(c)
  <2>1. /\ n \in 0..Least(Len(c), m)
        /\ \A i \in 0..Least(Len(c), m) : Spaced(c, i) => i <= n
        /\ n = 0 \/ Spaced(c, n) \/ n + TailLen = Least(Len(c), m)
    BY <1>11, <1>25, BreakFacts
  <2>2. Least(Len(c), m) = IF Len(c) < m THEN Len(c) ELSE m
    BY DEF Least
  <2> HIDE DEF n
  <2>3. n \in 0..Len(c)
    BY <1>11, <1>25, <2>1, <2>2
  <2>4. Len(c) <= m => Least(Len(c), m) = Len(c)
    <3>1. PICK k \in Nat, j \in Nat : k = Len(c) /\ j = m
      BY <1>11, <1>25
    <3>2. k <= j => Least(k, j) = k
      BY DEF Least
    <3> QED
      BY <3>1, <3>2
  <2> QED
    BY <2>1, <2>3, <2>4
<1>13. Len(x) \in 0..m /\ Len(x) <= Len(c)
  BY <1>8, <1>9, <1>10, <1>11, <1>25
<1>14. /\ t \in Cache /\ r \in Cache /\ c = t \o r
       /\ Len(r) = Len(c) - n /\ Len(c) - n <= Len(c) - Len(x) + TailLen
       /\ Len(c) <= m => TailOnly(r)
       /\ \A i \in 1..Len(c) - n : r[i] = c[n + i]
       /\ n = 0 => t = <<>>
  BY <1>11, <1>13, <1>25, BreakParts
<1>15. \A i \in 1..Len(c) : c[i][2] = body.type
  <2> SUFFICES ASSUME NEW i \in 1..Len(c)
               PROVE  c[i][2] = body.type
    OBVIOUS
  <2>1. CASE i <= Len(a)
    <3>1. i \in DOMAIN Pending /\ c[i] = Pending[i]
      BY <1>8, <1>11, <2>1 DEF Cache
    <3> QED
      BY <1>7, <3>1
  <2>2. CASE ~(i <= Len(a))
    <3>1. i - Len(a) \in 1..Len(x) /\ c[i] = fed[i - Len(a)]
      BY <1>8, <1>9, <1>10, <1>11, <2>2
    <3> QED
      BY <1>10, <3>1
  <2> QED
    BY <2>1, <2>2
<1>16. \A i \in DOMAIN t : t[i][2] = body.type
  <2>1. \A i \in 1..n : c[i] \in Cells
    BY <1>11, <1>12 DEF Cache
  <2>2. Len(t) = (IF 1 <= n THEN n - 1 + 1 ELSE 0) /\ \A i \in 1..n - 1 + 1 : t[i] = c[1 + i - 1]
    BY <1>12, <2>1, SubSeqProperties
  <2>3. Len(t) = n /\ \A i \in 1..n : t[i] = c[i]
    BY <1>12, <2>2
  <2>4. DOMAIN t = 1..n
    BY <1>14, <2>3 DEF Cache
  <2> HIDE DEF t
  <2> QED
    BY <1>12, <1>15, <2>3, <2>4
<1> HIDE DEF t, r, n
<1>17. DOMAIN r = 1..Len(c) - n
  BY <1>14 DEF Cache
<1>18. \A i \in DOMAIN r : r[i][2] = body.type
  <2> SUFFICES ASSUME NEW i \in 1..Len(c) - n
               PROVE  r[i][2] = body.type
    BY <1>17
  <2>1. n + i \in 1..Len(c)
    BY <1>11, <1>12
  <2> QED
    BY <1>14, <1>15, <2>1
<1>19. Left(w) = r
  BY <1>2, <1>7 DEF Left, Full
<1>20. Conserves(w)
  <2>1. {w.process, w.octet, w.fits} \subseteq BOOLEAN
    BY <1>5, <1>6, <1>24
  <2>2. w.b64 \in Cache /\ w.qp \in Cache /\ (w.b64 = <<>> \/ w.qp = <<>>)
    BY <1>2, <1>7, <1>14
  <2>3. /\ Pending \o w.fed = w.text \o Left(w)
        /\ Kept(w.text, Left(w), Pending \o w.fed, w.fits)
    BY <1>2, <1>8, <1>14, <1>19 DEF c, Kept
  <2>4. ~w.process => w.text = <<>> /\ Pending \o w.fed = Left(w)
    <3>1. ~w.process => w.text = <<>>
      BY <1>2, <1>12, <1>14, <1>5
    <3>2. <<>> \o r = r
      BY <1>14, ConcatEmptySeq DEF Cache
    <3> QED
      BY <1>19, <2>3, <3>1, <3>2
  <2>5. Len(Left(w)) <= Len(Pending) + TailLen
    BY <1>8, <1>9, <1>10, <1>11, <1>12, <1>14, <1>19, <1>25
  <2>6. w.fits => fitted /\ TailOnly(Left(w))
    BY <1>14, <1>19, <1>24
  <2>7. w.fed \in Cache /\ w.text \in Cache /\ w.force \in Resets
    BY <1>2, <1>10, <1>14 DEF Resets
  <2> QED
    BY <1>25, <2>1, <2>2, <2>3, <2>4, <2>5, <2>6, <2>7 DEF Conserves
<1>21. w.text # <<>> => w.process
  BY <1>2, <1>12, <1>14, <1>5
<1>22. ASSUME w.fits, l.is = "empty", w.process
       PROVE  \A i \in DOMAIN r : r[i][1] = "s"
  <2> SUFFICES ASSUME NEW i \in 1..Len(c) - n
               PROVE  r[i][1] = "s"
    BY <1>17
  <2>1. n > 0 /\ n + i \in 1..Len(c)
    BY <1>11, <1>12, <1>22, <1>5
  <2>8. /\ \A j \in 0..Len(c) : Spaced(c, j) => j <= n
        /\ n = 0 \/ Spaced(c, n) \/ n + TailLen = Len(c)
        /\ Len(a) <= TailLen /\ Tight(a)
    BY <1>7, <1>8, <1>12, <1>22, <1>24 DEF TailOnly
  <2>2. Len(a) <= n
    <3>1. CASE x = <<>>
      <4>1. Len(c) = Len(a) /\ Len(a) <= TailLen
        BY <1>8, <1>10, <1>11, <2>8, <3>1
      <4>2. Spaced(c, n)
        <5>1. n \in Nat /\ TailLen \in Nat /\ Len(c) \in Nat /\ n > 0 /\ Len(c) <= TailLen
          BY <1>11, <1>12, <2>1, <4>1, MailFilterAssumption
        <5>2. n # 0 /\ n + TailLen # Len(c)
          BY <5>1
        <5>3. n = 0 \/ Spaced(c, n) \/ n + TailLen = Len(c)
          BY <2>8
        <5> QED
          BY <5>2, <5>3
      <4>3. n + 1 \in 2..Len(a) /\ c[n + 1][1] = "s" /\ c[n + 1] = a[n + 1]
        BY <1>11, <1>12, <2>1, <4>1, <4>2 DEF Spaced
      <4>4. a[n + 1][1] = "w"
        BY <1>8, <2>8, <4>3 DEF Tight
      <4> QED
        BY <4>3, <4>4
    <3>2. CASE x # <<>>
      <4>1. 1 \in 1..Len(x) /\ Len(a) \in 0..Len(c) /\ Len(a) < Len(c)
            /\ Len(a) + 1 \in 1..Len(c) /\ Len(a) + 1 - Len(a) = 1 /\ ~(Len(a) + 1 <= Len(a))
        BY <1>8, <1>9, <1>10, <1>11, <3>2
      <4>2. c[Len(a) + 1] = fed[1] /\ fed[1][1] = "s"
        BY <1>9, <1>10, <1>11, <1>22, <4>1
      <4>3. Spaced(c, Len(a))
        BY <4>1, <4>2 DEF Spaced
      <4>4. \A j \in 0..Len(c) : Spaced(c, j) => j <= n
        BY <2>8
      <4>5. Len(a) \in 0..Len(c)
        BY <4>1
      <4> QED
        BY <4>3, <4>4, <4>5
    <3> QED
      BY <3>1, <3>2
  <2>3. ~(n + i <= Len(a)) /\ n + i - Len(a) \in 1..Len(x)
    BY <1>8, <1>9, <1>10, <1>11, <1>12, <2>1, <2>2
  <2>4. PICK j \in 1..Len(c) : j = n + i
    BY <2>1
  <2>5. ~(j <= Len(a)) /\ j - Len(a) \in 1..Len(x)
    BY <1>8, <1>12, <2>3, <2>4
  <2>6. c[j] = fed[j - Len(a)]
    BY <1>11, <2>5
  <2>7. fed[j - Len(a)][1] = "s"
    BY <1>9, <1>10, <1>22, <2>5
  <2> QED
    BY <1>14, <2>4, <2>6, <2>7
<1>23. (w.b64 # <<>> => body.encoding = "B64") /\ (w.qp # <<>> => body.encoding = "QP")
  BY <1>2, <1>7
<1>26. ASSUME ShortLines, fitted
       PROVE  w.fits
  <2>1. Len(a) <= TailLen /\ Len(x) + TailLen <= PageLen
    BY <1>7, <1>8, <1>9, <1>26 DEF TailOnly
  <2>2. Len(c) <= m
    BY <1>8, <1>9, <1>10, <1>11, <1>25, <2>1, MailFilterAssumption
  <2> QED
    BY <1>24, <1>26, <2>2
<1> QED
  BY <1>2, <1>16, <1>18, <1>19, <1>20, <1>21, <1>22, <1>23, <1>26, <1>6

-----------------------------------------------------------------------------
(* The step that every line ends with.                                     *)

(* Whether a line shows what was cached after all. *)
Late(l, w) == ~w.process /\ ~w.octet /\ l.is = "empty" /\ Left(w) # <<>>

Hidden == mstate' = "BODY" /\ skip'

(* The filter that a line selects. *)
Selected(w) ==
  IF w.force # "UNDEF" THEN w.force
  ELSE IF mstate' # "BODY" THEN "DISABLE"
  ELSE IF Hidden THEN "UNDEF" ELSE Defaults(body'.type)

LEMMA ResetFacts ==
  ASSUME NEW r \in Resets \ {"UNDEF"}
  PROVE  Reset(r) \in Filters
BY DEF Reset, Filters, Resets

(* What it does to the caches. *)
LEMMA ProcessCaches ==
  ASSUME TypeOK, NEW l, NEW w, Conserves(w), Process(l, w)
  PROVE  /\ b64' \in Cache /\ qp' \in Cache /\ OneCache'
         /\ Roomy(room') /\ fitted' \in BOOLEAN
         /\ (fitted' <=> w.fits) /\ (fitted' => fitted)
         /\ IF Late(l, w) THEN b64' = <<>> /\ qp' = <<>> ELSE b64' = w.b64 /\ qp' = w.qp
         /\ Pending' = IF Late(l, w) THEN <<>> ELSE Left(w)
         /\ fitted' => out'.text = IF Late(l, w) THEN Left(w) ELSE w.text
         /\ out'.text \in Cache /\ out'.fed = w.fed
         /\ fitted' => TailOnly(Pending')
         /\ Kept(out'.text, Pending', Pending \o out'.fed, fitted')
         /\ Len(Pending') <= Len(Pending) + TailLen
<1>1. /\ b64' = IF Late(l, w) THEN <<>> ELSE w.b64
      /\ qp' = IF Late(l, w) /\ w.b64 = <<>> THEN <<>> ELSE w.qp
      /\ room' = w.room /\ fitted' = w.fits
      /\ out'.text = IF Late(l, w) THEN Whole(w.b64, w.qp, w.room) ELSE w.text
      /\ out'.fed = w.fed
  BY DEF Process, Late, Left
<1>2. /\ w.text \in Cache /\ w.fed \in Cache /\ w.b64 \in Cache /\ w.qp \in Cache
      /\ w.b64 = <<>> \/ w.qp = <<>>
      /\ Roomy(w.room) /\ w.fits \in BOOLEAN
      /\ w.fits => fitted /\ TailOnly(Left(w))
      /\ Kept(w.text, Left(w), Pending \o w.fed, w.fits)
      /\ Len(Left(w)) <= Len(Pending) + TailLen
      /\ ~w.process /\ Left(w) # <<>> => w.text = <<>> /\ Pending \o w.fed = Left(w)
  BY DEF Conserves
<1>3. /\ Whole(w.b64, w.qp, w.room) \in Cache
      /\ w.fits => Whole(w.b64, w.qp, w.room) = Left(w)
      /\ Kept(Whole(w.b64, w.qp, w.room), <<>>, Left(w), w.fits)
  <2>1. PICK b \in Cache, q \in Cache : b = w.b64 /\ q = w.qp
    BY <1>2
  <2>0. PICK fits : fits = w.fits
    OBVIOUS
  <2>2. fits => Len(Full(b, q)) <= TailLen
    BY <1>2, <2>0, <2>1 DEF Left, TailOnly
  <2>3. PICK y : y = w.room /\ Roomy(y)
    BY <1>2
  <2>4. /\ Whole(b, q, y) \in Cache
        /\ fits => Whole(b, q, y) = Full(b, q)
        /\ Kept(Whole(b, q, y), <<>>, Full(b, q), fits)
    BY <2>2, <2>3, WholeFacts
  <2> QED
    BY <2>0, <2>1, <2>3, <2>4 DEF Left
<1>4. Pending' = Full(b64', qp')
  BY DEF Pending
<1>5. IF Late(l, w) THEN b64' = <<>> /\ qp' = <<>> ELSE b64' = w.b64 /\ qp' = w.qp
  BY <1>1, <1>2
<1>6. Pending' = IF Late(l, w) THEN <<>> ELSE Left(w)
  BY <1>4, <1>5 DEF Full, Left
<1>7. b64' \in Cache /\ qp' \in Cache /\ OneCache'
  BY <1>2, <1>5, EmptyTail DEF OneCache
<1>8. fitted' => TailOnly(Pending')
  BY <1>1, <1>2, <1>6, EmptyTail
<1>9. Len(Pending') <= Len(Pending) + TailLen
  <2>1. b64 \in Cache /\ qp \in Cache
    BY DEF TypeOK
  <2>2. Len(Pending) \in Nat
    BY <2>1 DEF Pending, Full, Cache
  <2> QED
    BY <1>2, <1>6, <2>2, EmptyTail, MailFilterAssumption
<1>10. Kept(out'.text, Pending', Pending \o out'.fed, fitted')
  BY <1>1, <1>2, <1>3, <1>6 DEF Late
<1>11. out'.text \in Cache
  BY <1>1, <1>2, <1>3
<1> QED
  BY <1>1, <1>2, <1>3, <1>5, <1>6, <1>7, <1>8, <1>9, <1>10, <1>11

(* What it does to the rest, and what becomes of the line. *)
LEMMA ProcessLine ==
  ASSUME TypeOK, NEW l, l.is \in Kinds, NEW w, Conserves(w), Process(l, w)
  PROVE  /\ options' = options
         /\ prevEmpty' \in BOOLEAN /\ (prevEmpty' <=> l.is = "empty")
         /\ notHeader' \in BOOLEAN /\ (notHeader' <=> mstate' # "HEADER")
         /\ out'.message <=> notHeader /\ mstate' = "HEADER"
         /\ out'.shown <=>
              l.is = "empty" \/ ((w.process \/ w.octet) /\ (Hidden => w.force # "UNDEF"))
         /\ out'.strings <=> w.octet
         /\ Selected(w) # "UNDEF" => out'.xml = Reset(Selected(w))
         /\ xml' \in Filters /\ OutType'
<1> DEFINE x == IF Selected(w) = "UNDEF" THEN xml ELSE Reset(Selected(w))
<1>1. /\ options' = options
      /\ prevEmpty' \in BOOLEAN /\ (prevEmpty' <=> l.is = "empty")
      /\ notHeader' \in BOOLEAN /\ (notHeader' <=> mstate' # "HEADER")
  BY DEF Process
<1>2. /\ out'.message \in BOOLEAN
      /\ out'.message <=> notHeader /\ mstate' = "HEADER"
  BY DEF Process
<1>3. /\ out'.shown \in BOOLEAN
      /\ out'.shown <=>
           l.is = "empty" \/ ((w.process \/ w.octet) /\ (Hidden => w.force # "UNDEF"))
  BY DEF Process, Hidden
<1>4. out'.strings = w.octet
  BY DEF Process
<1>5. out'.xml = x /\ xml' = x
  BY DEF Process, Selected, Hidden
<1>6. xml \in Filters /\ w.octet \in BOOLEAN /\ w.force \in Resets
  BY DEF TypeOK, Conserves
<1>7. \A t : Defaults(t) \in Resets
  BY DEF Defaults, Resets
<1>8. Selected(w) \in Resets
  BY <1>6, <1>7 DEF Selected, Resets
<1>9. x \in Filters
  BY <1>6, <1>8, ResetFacts
<1>10. Selected(w) # "UNDEF" => out'.xml = Reset(Selected(w))
  BY <1>5
<1> HIDE DEF x
<1>11. out'.strings \in BOOLEAN /\ (out'.strings <=> w.octet)
  BY <1>4, <1>6
<1>12. out'.text \in Cache /\ out'.fed \in Cache
  BY ProcessCaches DEF Conserves
<1>13. OutType'
  BY <1>2, <1>3, <1>5, <1>9, <1>11, <1>12 DEF OutType
<1> QED
  BY <1>1, <1>2, <1>3, <1>5, <1>9, <1>10, <1>11, <1>13

-----------------------------------------------------------------------------
(* The work each line is given, and where it leaves the parser.            *)

IsLine(l) ==
  /\ l.is \in Kinds
  /\ l.is = "type" => l.val \in Types \cup {"multipart"}
  /\ l.is = "encoding" => l.val \in Encodings

EmptyLine == [is |-> "empty", val |-> ""]

LEMMA LinesAreLines ==
  /\ \A l \in Lines : IsLine(l)
  /\ IsLine(EmptyLine) /\ EmptyLine.is = "empty"
  /\ IsLine([is |-> "cont", val |-> ""])
BY MailFilterAssumption DEF IsLine, EmptyLine, Kinds

LEMMA MimeFacts ==
  /\ \A t \in Types, e \in Encodings : Mime(t, e) \in Mimes
  /\ Undefined \in Mimes
  /\ \A m \in Mimes : m.type \in Types /\ m.encoding \in Encodings
  /\ {"UNDEF", "TEXT_PLAIN", "MESSAGE_RFC822", "APPLICATION_MSWORD"} \subseteq Types
  /\ {"UNDEF", "B64"} \subseteq Encodings
BY DEF Mime, Undefined, Mimes, Types, PlainTypes, OctetTypes, Encodings

LEMMA DescribedType ==
  ASSUME NEW m \in Mimes, NEW l, IsLine(l)
  PROVE  Described(m, l) \in Mimes
BY MimeFacts DEF Described, IsLine, Mimes

LEMMA SubstateType ==
  ASSUME NEW l, NEW s \in Substates
  PROVE  HeaderSubstate(l, s) \in Substates /\ AttachSubstate(l, s) \in Substates
BY DEF HeaderSubstate, AttachSubstate, HeaderType, Substates

LEMMA WorkKeeps ==
  ASSUME NEW p \in BOOLEAN
  PROVE  /\ Keeps(Work(p))
         /\ \A o \in BOOLEAN : Keeps([Work(p) EXCEPT !.octet = o])
         /\ Keeps([Work(FALSE) EXCEPT !.process = p])
         /\ Empties([Flushed EXCEPT !.process = p])
         /\ Empties(Flushed)
<1>1. Keeps(Work(p))
  BY DEF Work, Keeps
<1>2. \A o \in BOOLEAN : Keeps([Work(p) EXCEPT !.octet = o])
  BY DEF Work, Keeps
<1>3. Keeps([Work(FALSE) EXCEPT !.process = p])
  BY DEF Work, Keeps
<1>4. Empties([Flushed EXCEPT !.process = p])
  BY DEF Work, Flushed, Empties, Octet
<1>5. Empties(Flushed)
  BY DEF Work, Flushed, Empties, Octet
<1> QED
  BY <1>1, <1>2, <1>3, <1>4, <1>5

(* Work on a line that is processed, or not. *)
Treated(w, p) == [w EXCEPT !.process = p]

LEMMA ReadHeaderWork ==
  ASSUME NEW l, NEW a, IsLine(a), NEW s \in Substates, NEW h \in Mimes,
         NEW left \in BOOLEAN, NEW w, known \in BOOLEAN, ReadHeader(l, a, s, h, left, w)
  PROVE  /\ substate' \in Substates /\ header' \in Mimes
         /\ known' \in BOOLEAN /\ skipHeader' \in BOOLEAN
         /\ \E p \in BOOLEAN : Process(l, Treated(w, p))
<1>1. substate' \in Substates
  BY SubstateType DEF ReadHeader
<1>2. header' \in Mimes
  BY DescribedType DEF ReadHeader
<1>3. known' \in BOOLEAN
  BY DEF ReadHeader
<1>4. skipHeader' \in BOOLEAN
  BY DEF ReadHeader, Unlisted
<1>5. Labels(a) \subseteq BOOLEAN
  BY DEF Labels
<1>6. \E p \in BOOLEAN : Process(l, Treated(w, p))
  BY <1>5 DEF ReadHeader, Treated
<1> QED
  BY <1>1, <1>2, <1>3, <1>4, <1>6

LEMMA EnterHeaderWork ==
  ASSUME TypeOK, NEW l, IsLine(l), EnterHeader(l)
  PROVE  /\ mstate' = "HEADER" /\ substate' \in Substates
         /\ header' \in Mimes /\ body' \in Mimes
         /\ skip' = FALSE /\ check' = 0
         /\ known' \in BOOLEAN /\ skipHeader' \in BOOLEAN
         /\ \E w : Empties(w) /\ Process(l, w)
<1>1. /\ mstate' = "HEADER" /\ body' = Undefined /\ skip' = FALSE /\ check' = 0
  BY DEF EnterHeader
<1>2. PICK a \in Analysed(l) : ReadHeader(l, a, "OTHER", Undefined, FALSE, Flushed)
  BY DEF EnterHeader
<1>3. IsLine(a)
  BY LinesAreLines DEF Analysed
<1>4. "OTHER" \in Substates /\ Undefined \in Mimes /\ known \in BOOLEAN
  BY MimeFacts DEF Substates, TypeOK, ParserType
<1>5. /\ substate' \in Substates /\ header' \in Mimes
      /\ known' \in BOOLEAN /\ skipHeader' \in BOOLEAN
      /\ \E p \in BOOLEAN : Process(l, Treated(Flushed, p))
  <2>1. PICK w : w = Flushed
    OBVIOUS
  <2>2. PICK s \in Substates, h \in Mimes, left \in BOOLEAN :
           s = "OTHER" /\ h = Undefined /\ left = FALSE
    BY <1>4
  <2>3. ReadHeader(l, a, s, h, left, w)
    BY <1>2, <2>1, <2>2
  <2>4. /\ substate' \in Substates /\ header' \in Mimes
        /\ known' \in BOOLEAN /\ skipHeader' \in BOOLEAN
        /\ \E p \in BOOLEAN : Process(l, Treated(w, p))
    BY <1>3, <1>4, <2>3, ReadHeaderWork
  <2> QED
    BY <2>1, <2>4
<1> QED
  BY <1>1, <1>4, <1>5, WorkKeeps DEF Treated

LEMMA ReadAttachWork ==
  ASSUME TypeOK, NEW l, IsLine(l), NEW s \in Substates, NEW b \in Mimes,
         ReadAttach(l, s, b)
  PROVE  /\ mstate' = "ATTACH" /\ substate' \in Substates
         /\ header' \in Mimes /\ body' \in Mimes
         /\ known' \in BOOLEAN /\ skipHeader' \in BOOLEAN
         /\ \E w : Keeps(w) /\ Process(l, w)
<1>1. header \in Mimes /\ skipHeader \in BOOLEAN /\ known \in BOOLEAN
  BY DEF TypeOK, ParserType
<1>2. mstate' = "ATTACH" /\ header' = header /\ skipHeader' = skipHeader
  BY DEF ReadAttach
<1>3. substate' \in Substates
  BY SubstateType DEF ReadAttach
<1>4. body' \in Mimes
  BY DescribedType DEF ReadAttach
<1>5. known' \in BOOLEAN
  BY DEF ReadAttach
<1>6. Labels(l) \subseteq BOOLEAN
  BY DEF Labels
<1>7. \E p \in BOOLEAN : Process(l, Work(p))
  BY <1>6 DEF ReadAttach
<1> QED
  BY <1>1, <1>2, <1>3, <1>4, <1>5, <1>7, WorkKeeps

LEMMA EnterBodyWork ==
  ASSUME TypeOK, NEW l, NEW b \in Mimes, EnterBody(l, b)
  PROVE  /\ mstate' = "BODY" /\ substate' = "TRACK"
         /\ header' \in Mimes /\ body' \in Mimes
         /\ known' \in BOOLEAN /\ skipHeader' \in BOOLEAN
         /\ Empties(Flushed) /\ Process(l, Flushed)
<1>1. header \in Mimes /\ skipHeader \in BOOLEAN /\ known \in BOOLEAN
  BY DEF TypeOK, ParserType
<1>2. /\ mstate' = "BODY" /\ substate' = "TRACK" /\ header' = header
      /\ skipHeader' = skipHeader /\ known' = known /\ Process(l, Flushed)
  BY DEF EnterBody
<1>3. body' \in Mimes
  BY <1>1, MimeFacts DEF EnterBody
<1> QED
  BY <1>1, <1>2, <1>3, WorkKeeps

(* Which text of a body is read: not that of images and the like. *)
Skimmed == body.type \in MediaTypes \/ (Octet(body.type) /\ "atts" \notin options)
Encoded == body.encoding \in {"QP", "B64"}

(* The work on a line of a body. *)
BodyWork(l, w) ==
  \/ substate' = "ARMOR" /\ Keeps(w)
  \/ substate' # "ARMOR" /\ skip' /\ Keeps(w)
  \/ substate' # "ARMOR" /\ ~skip' /\ Skimmed /\ Keeps(w) /\ ~w.process /\ ~w.octet
  \/ substate' # "ARMOR" /\ ~skip' /\ ~Skimmed /\ ~Encoded /\ Keeps(w)
  \/ substate' # "ARMOR" /\ ~skip' /\ ~Skimmed /\ Encoded /\ Decodes(w, l)

LEMMA DisplayWork ==
  ASSUME NEW l, Display(l)
  PROVE  \E w : /\ Process(l, w)
                /\ \/ Skimmed /\ Keeps(w) /\ ~w.process /\ ~w.octet
                   \/ ~Skimmed /\ ~Encoded /\ Keeps(w)
                   \/ ~Skimmed /\ Encoded /\ Decodes(w, l)
<1>1. CASE Skimmed /\ Process(l, Work(FALSE))
  <2>1. PICK w : w = Work(FALSE)
    OBVIOUS
  <2>2. Keeps(w) /\ ~w.process /\ ~w.octet
    BY <2>1 DEF Work, Keeps
  <2> QED
    BY <1>1, <2>1, <2>2
<1>2. CASE ~Skimmed /\ Encoded /\ \E d \in Decodings(l) : Process(l, Decode(d))
  <2>1. PICK d \in Decodings(l) : Process(l, Decode(d))
    BY <1>2
  <2>2. PICK w : w = Decode(d)
    OBVIOUS
  <2>3. Decodes(w, l)
    BY <2>2 DEF Decodes
  <2> QED
    BY <1>2, <2>1, <2>2, <2>3
<1>3. CASE ~Skimmed /\ ~Encoded /\
           \E p \in BOOLEAN : Process(l, [Work(p) EXCEPT !.octet = Octet(body.type)])
  <2>1. PICK p \in BOOLEAN : Process(l, [Work(p) EXCEPT !.octet = Octet(body.type)])
    BY <1>3
  <2>2. PICK w : w = [Work(p) EXCEPT !.octet = Octet(body.type)]
    OBVIOUS
  <2>3. Keeps(w)
    BY <2>2 DEF Work, Keeps, Octet
  <2> QED
    BY <1>3, <2>1, <2>2, <2>3
<1>4. Display(l) => \/ Skimmed /\ Process(l, Work(FALSE))
                    \/ ~Skimmed /\ Encoded /\ \E d \in Decodings(l) : Process(l, Decode(d))
                    \/ ~Skimmed /\ ~Encoded /\
                         \E p \in BOOLEAN : Process(l, [Work(p) EXCEPT !.octet = Octet(body.type)])
  BY DEF Display, Skimmed, Encoded
<1> QED
  BY <1>1, <1>2, <1>3, <1>4

LEMMA BodyLineWork ==
  ASSUME TypeOK, NEW l, IsLine(l), BodyLine(l)
  PROVE  /\ mstate = "BODY" /\ mstate' = "BODY" /\ body' = body /\ header' = header
         /\ known' = known /\ skipHeader' = skipHeader
         /\ substate' \in Substates /\ check' \in 0..CheckLines
         /\ skip' \in BOOLEAN /\ (skip' => skip)
         /\ substate' = "ARMOR" => substate = "ARMOR" \/ Expected
         /\ \E w : BodyWork(l, w) /\ Process(l, w)
<1>1. /\ mstate = "BODY" /\ mstate' = mstate /\ body' = body /\ header' = header
      /\ known' = known /\ skipHeader' = skipHeader
      /\ skip' = (skip /\ ~AtArmorEnd(l))
      /\ check' = ToCheck(l)
  BY DEF BodyLine
<1>2. skip \in BOOLEAN /\ check \in 0..CheckLines /\ substate \in Substates
  BY DEF TypeOK, ParserType
<1>3. skip' \in BOOLEAN /\ (skip' => skip)
  BY <1>1, <1>2
<1>4. check' \in 0..CheckLines
  <2>1. 0 \in 0..CheckLines /\ CheckLines \in 0..CheckLines
    BY MailFilterAssumption
  <2>2. check > 0 => check - 1 \in 0..CheckLines
    BY <1>2, MailFilterAssumption
  <2>3. ToCheck(l) \in 0..CheckLines
    BY <1>2, <2>1, <2>2 DEF ToCheck
  <2> QED
    BY <1>1, <2>3
<1>5. substate' \in Substates
  BY <1>2 DEF BodyLine, Substates
<1>6. substate' = "ARMOR" => substate = "ARMOR" \/ Expected
  BY DEF BodyLine
<1>7. \E w : BodyWork(l, w) /\ Process(l, w)
  <2>1. CASE substate' = "ARMOR" /\ \E p \in BOOLEAN : Process(l, Work(p))
    BY <2>1, WorkKeeps DEF BodyWork
  <2>2. CASE substate' # "ARMOR" /\ skip' /\ Process(l, Work(FALSE))
    BY <2>2, WorkKeeps DEF BodyWork
  <2>3. CASE substate' # "ARMOR" /\ ~skip' /\ Display(l)
    BY <2>3, DisplayWork DEF BodyWork
  <2> QED
    BY <2>1, <2>2, <2>3 DEF BodyLine
<1> QED
  BY <1>1, <1>3, <1>4, <1>5, <1>6, <1>7

(* The work on any line.  Only the body keeps what is cached in a body. *)
LineWork(l, w) ==
  \/ Keeps(w) /\ (mstate' = "BODY" => mstate = "BODY" /\ body' = body)
  \/ Empties(w)
  \/ /\ Encoded /\ Decodes(w, l)
     /\ mstate = "BODY" /\ mstate' = "BODY" /\ body' = body

LEMMA FilterLineWork ==
  ASSUME TypeOK, NEW l, IsLine(l), FilterLine(l)
  PROVE  /\ mstate' \in States /\ substate' \in Substates
         /\ header' \in Mimes /\ body' \in Mimes
         /\ skip' \in BOOLEAN /\ skipHeader' \in BOOLEAN /\ known' \in BOOLEAN
         /\ check' \in 0..CheckLines
         /\ \E w : LineWork(l, w) /\ Process(l, w)
<1>1. /\ mstate \in States /\ substate \in Substates
      /\ header \in Mimes /\ body \in Mimes
      /\ skip \in BOOLEAN /\ skipHeader \in BOOLEAN /\ known \in BOOLEAN
      /\ check \in 0..CheckLines
  BY DEF TypeOK, ParserType
<1>2. /\ States = {"UNDEF", "HEADER", "BODY", "ATTACH"}
      /\ {"TRACK", "MIME"} \subseteq Substates
      /\ 0 \in 0..CheckLines /\ CheckLines \in 0..CheckLines
  BY MailFilterAssumption DEF States, Substates
<1>3. CASE Wait(l)
  <2>1. /\ mstate = "UNDEF" /\ mstate' = mstate /\ substate' = substate
        /\ header' = header /\ body' = body /\ skip' = skip /\ skipHeader' = skipHeader
        /\ check' = check /\ known' = known /\ Process(l, Work(FALSE))
    BY <1>3 DEF Wait
  <2> QED
    BY <1>1, <2>1, WorkKeeps DEF LineWork
<1>4. CASE StartMessage(l) \/ FromLine(l) \/ EndEnclosing(l)
  <2>1. EnterHeader(l)
    BY <1>4 DEF StartMessage, FromLine, EndEnclosing
  <2> QED
    BY <1>2, <2>1, EnterHeaderWork DEF LineWork
<1>5. CASE HeaderLine(l)
  <2>1. /\ mstate = "HEADER" /\ mstate' = mstate /\ body' = body /\ skip' = skip
        /\ check' = check
        /\ ReadHeader(l, l, substate, header, skipHeader, Work(FALSE))
    BY <1>5 DEF HeaderLine
  <2>2. PICK w : w = Work(FALSE)
    OBVIOUS
  <2>3. PICK s \in Substates, h \in Mimes, left \in BOOLEAN :
           s = substate /\ h = header /\ left = skipHeader
    BY <1>1
  <2>4. ReadHeader(l, l, s, h, left, w)
    BY <2>1, <2>2, <2>3
  <2>5. /\ substate' \in Substates /\ header' \in Mimes
        /\ known' \in BOOLEAN /\ skipHeader' \in BOOLEAN
        /\ \E p \in BOOLEAN : Process(l, Treated(w, p))
    BY <1>1, <2>4, ReadHeaderWork
  <2>6. PICK p \in BOOLEAN : Process(l, Treated(w, p))
    BY <2>5
  <2>7. Keeps(Treated(w, p))
    BY <2>2, WorkKeeps DEF Treated
  <2>8. LineWork(l, Treated(w, p))
    BY <2>1, <2>7 DEF LineWork
  <2> QED
    BY <1>1, <2>1, <2>5, <2>6, <2>8
<1>6. CASE EndHeader(l) \/ EndAttach(l)
  <2>1. PICK b : EnterBody(l, b) /\ b \in Mimes
    <3>1. CASE EndHeader(l)
      BY <1>1, <3>1 DEF EndHeader
    <3>2. CASE EndAttach(l)
      BY <1>1, <3>2, MimeFacts DEF EndAttach
    <3> QED
      BY <1>6, <3>1, <3>2
  <2>2. skip' \in BOOLEAN /\ check' \in 0..CheckLines
    BY <1>1, <1>2, <1>6 DEF EndHeader, EndAttach
  <2>3. /\ mstate' = "BODY" /\ substate' = "TRACK"
        /\ header' \in Mimes /\ body' \in Mimes
        /\ known' \in BOOLEAN /\ skipHeader' \in BOOLEAN
        /\ Empties(Flushed) /\ Process(l, Flushed)
    BY <2>1, EnterBodyWork
  <2> QED
    BY <1>2, <2>2, <2>3 DEF LineWork
<1>7. CASE Boundary(l)
  <2>1. /\ mstate' = "ATTACH" /\ substate' = "TRACK" /\ body' = header
        /\ skip' \in BOOLEAN /\ check' = 0
        /\ header' = header /\ skipHeader' = skipHeader /\ known' = known
        /\ Process(l, Flushed)
    BY <1>7 DEF Boundary
  <2> QED
    BY <1>1, <1>2, <2>1, WorkKeeps DEF LineWork
<1>8. CASE Digest(l) \/ ContentLine(l) \/ AttachLine(l)
  <2>1. \E s \in Substates, b \in Mimes : ReadAttach(l, s, b)
    <3>1. CASE Digest(l)
      <4>1. [body EXCEPT !.type = "MESSAGE_RFC822"] \in Mimes
        BY <1>1, MimeFacts DEF Mimes
      <4> QED
        BY <1>2, <3>1, <4>1 DEF Digest
    <3>2. CASE ContentLine(l)
      BY <1>1, <1>2, <3>2 DEF ContentLine
    <3>3. CASE AttachLine(l)
      BY <1>1, <3>3 DEF AttachLine
    <3> QED
      BY <1>8, <3>1, <3>2, <3>3
  <2>2. skip' \in BOOLEAN /\ check' \in 0..CheckLines
    BY <1>1, <1>2, <1>8 DEF Digest, ContentLine, AttachLine
  <2>3. /\ mstate' = "ATTACH" /\ substate' \in Substates
        /\ header' \in Mimes /\ body' \in Mimes
        /\ known' \in BOOLEAN /\ skipHeader' \in BOOLEAN
        /\ \E w : Keeps(w) /\ Process(l, w)
    BY <2>1, ReadAttachWork
  <2> QED
    BY <1>2, <2>2, <2>3 DEF LineWork
<1>9. CASE BodyLine(l)
  <2>1. /\ mstate = "BODY" /\ mstate' = "BODY" /\ body' = body /\ header' = header
        /\ known' = known /\ skipHeader' = skipHeader
        /\ substate' \in Substates /\ check' \in 0..CheckLines
        /\ skip' \in BOOLEAN
        /\ \E w : BodyWork(l, w) /\ Process(l, w)
    BY <1>9, BodyLineWork
  <2> QED
    BY <1>1, <1>2, <2>1 DEF LineWork, BodyWork
<1> QED
  BY <1>3, <1>4, <1>5, <1>6, <1>7, <1>8, <1>9 DEF FilterLine

-----------------------------------------------------------------------------
(* A line.                                                                 *)

LEMMA LineWorkConserves ==
  ASSUME TypeOK, CacheInv, NEW l, NEW w, LineWork(l, w)
  PROVE  Conserves(w)
<1>1. CASE Keeps(w)
  BY <1>1, KeepsFacts
<1>2. CASE Empties(w)
  BY <1>2, EmptiesFacts
<1>3. CASE Encoded /\ Decodes(w, l) /\ mstate = "BODY"
  BY <1>3, DecodesFacts DEF Encoded
<1> QED
  BY <1>1, <1>2, <1>3 DEF LineWork

LEMMA LineOwnCache ==
  ASSUME TypeOK, CacheInv, NEW l, NEW w, LineWork(l, w), Process(l, w)
  PROVE  OwnCache'
<1> SUFFICES ASSUME mstate' = "BODY", Pending' # <<>>
             PROVE  /\ \A i \in DOMAIN Pending' : Pending'[i][2] = body'.type
                    /\ b64' # <<>> => body'.encoding = "B64"
                    /\ qp' # <<>> => body'.encoding = "QP"
  <2>1. Conserves(w)
    BY LineWorkConserves
  <2>2. b64' \in Cache /\ qp' \in Cache /\ OneCache'
    BY <2>1, ProcessCaches
  <2>3. Pending' = <<>> => b64' = <<>> /\ qp' = <<>>
    BY <2>2 DEF Pending, Full, OneCache
  <2>4. DOMAIN <<>> = {}
    OBVIOUS
  <2> QED
    BY <2>3, <2>4 DEF OwnCache
<1>1. Conserves(w)
  BY LineWorkConserves
<1>2. Pending' = Left(w) /\ b64' = w.b64 /\ qp' = w.qp
  BY <1>1, ProcessCaches
<1>3. CASE Keeps(w) /\ mstate = "BODY" /\ body' = body
  <2>1. w.b64 = b64 /\ w.qp = qp /\ Left(w) = Pending
    BY <1>3, KeepsFacts DEF Left, Pending
  <2> QED
    BY <1>2, <1>3, <2>1 DEF CacheInv, OwnCache
<1>4. CASE Empties(w)
  BY <1>2, <1>4, EmptiesFacts DEF Left, Full
<1>5. CASE Encoded /\ Decodes(w, l) /\ mstate = "BODY" /\ body' = body
  <2>1. /\ \A i \in DOMAIN Left(w) : Left(w)[i][2] = body.type
        /\ w.b64 # <<>> => body.encoding = "B64"
        /\ w.qp # <<>> => body.encoding = "QP"
    BY <1>5, DecodesFacts DEF Encoded
  <2> QED
    BY <1>2, <1>5, <2>1
<1> QED
  BY <1>3, <1>4, <1>5 DEF LineWork

LEMMA LineStep ==
  ASSUME TypeOK, CacheInv, NEW l, IsLine(l), FilterLine(l)
  PROVE  /\ options' \in OptionSets /\ ParserType' /\ b64' \in Cache /\ qp' \in Cache
         /\ Roomy(room') /\ fitted' \in BOOLEAN /\ (fitted' => fitted)
         /\ xml' \in Filters /\ notHeader' \in BOOLEAN /\ OutType'
         /\ CacheInv'
         /\ Kept(out'.text, Pending', Pending \o out'.fed, fitted')
         /\ Len(Pending') <= Len(Pending) + TailLen
         /\ options' = options
         /\ prevEmpty' <=> l.is = "empty"
         /\ notHeader' <=> mstate' # "HEADER"
         /\ out'.message <=> notHeader /\ mstate' = "HEADER"
<1>1. /\ mstate' \in States /\ substate' \in Substates
      /\ header' \in Mimes /\ body' \in Mimes
      /\ skip' \in BOOLEAN /\ skipHeader' \in BOOLEAN /\ known' \in BOOLEAN
      /\ check' \in 0..CheckLines
      /\ \E w : LineWork(l, w) /\ Process(l, w)
  BY FilterLineWork
<1>2. PICK w : LineWork(l, w) /\ Process(l, w)
  BY <1>1
<1>3. Conserves(w) /\ OwnCache'
  BY <1>2, LineWorkConserves, LineOwnCache
<1>4. /\ b64' \in Cache /\ qp' \in Cache /\ OneCache'
      /\ Roomy(room') /\ fitted' \in BOOLEAN /\ (fitted' => fitted)
      /\ fitted' => TailOnly(Pending')
      /\ Kept(out'.text, Pending', Pending \o out'.fed, fitted')
      /\ Len(Pending') <= Len(Pending) + TailLen
  BY <1>2, <1>3, ProcessCaches
<1>5. /\ options' = options
      /\ prevEmpty' \in BOOLEAN /\ (prevEmpty' <=> l.is = "empty")
      /\ notHeader' \in BOOLEAN /\ (notHeader' <=> mstate' # "HEADER")
      /\ out'.message <=> notHeader /\ mstate' = "HEADER"
      /\ xml' \in Filters /\ OutType'
  BY <1>2, <1>3, ProcessLine DEF IsLine
<1>6. options' \in OptionSets
  BY <1>5 DEF TypeOK
<1>7. ParserType'
  BY <1>1, <1>5 DEF ParserType
<1>8. CacheInv'
  BY <1>3, <1>4 DEF CacheInv
<1> QED
  BY <1>4, <1>5, <1>6, <1>7, <1>8

-----------------------------------------------------------------------------
(* The reading of files.                                                   *)

IInv == TypeOK /\ CacheInv

(* A step of a line, in or after the input. *)
LEMMA LineReads ==
  ASSUME (\E l \in Lines : ReadLine(l)) \/ ExtraLine
  PROVE  \E l : IsLine(l) /\ FilterLine(l) /\ extra' \in 0..Reading /\ LineRead
<1>1. CASE \E l \in Lines : ReadLine(l)
  <2>1. PICK l \in Lines : extra = Reading /\ FilterLine(l) /\ extra' = extra
    BY <1>1 DEF ReadLine
  <2>2. extra' \in 0..Reading /\ LineRead
    BY <2>1 DEF Reading, LineRead
  <2> QED
    BY <2>1, <2>2, LinesAreLines
<1>2. CASE ExtraLine
  <2>1. FilterLine(EmptyLine) /\ extra \in 1..2 /\ extra' = extra - 1
    BY <1>2 DEF ExtraLine, EmptyLine
  <2>2. extra' \in 0..Reading /\ LineRead
    BY <2>1 DEF Reading, LineRead
  <2> QED
    BY <2>1, <2>2, LinesAreLines
<1> QED
  BY <1>1, <1>2

LEMMA InitSound == Init => IInv
<1> SUFFICES ASSUME Init
             PROVE  IInv
  OBVIOUS
<1>1. <<>> \in Cache
  BY EmptyTail
<1>2. Pending = <<>>
  BY DEF Init, Pending, Full
<1>3. CacheInv
  BY <1>2, EmptyTail DEF Init, CacheInv, OneCache, OwnCache
<1>8. Roomy(room) /\ fitted \in BOOLEAN
  BY MailFilterAssumption DEF Init, Roomy, Coders
<1>4. ParserType
  <2>1. 0 \in 0..CheckLines
    BY MailFilterAssumption
  <2> QED
    BY <2>1, MimeFacts DEF Init, ParserType, States, Substates
<1>5. xml \in Filters /\ "NONE" \in Filters
  BY DEF Init, Filters
<1>6. OutType
  BY <1>1, <1>5 DEF Init, OutType
<1>7. TypeOK
  BY <1>1, <1>4, <1>5, <1>6, <1>8 DEF Init, TypeOK, Reading
<1> QED
  BY <1>3, <1>7 DEF IInv

LEMMA EndOfInputFacts ==
  ASSUME EndOfInput
  PROVE  /\ extra' \in {0, 2} /\ ~LineRead
         /\ UNCHANGED <<options, parser, caches, xml, notHeader, out>>
         /\ Pending' = Pending
BY DEF EndOfInput, ExtraLines, LineRead, Reading, caches, Pending

LEMMA NextFileFacts ==
  ASSUME NextFile
  PROVE  /\ extra' = Reading /\ ~LineRead /\ extra = 0
         /\ mstate' = "UNDEF" /\ prevEmpty' = TRUE /\ skip' = FALSE
         /\ options' = options /\ b64' = b64 /\ qp' = qp
         /\ room' = room /\ fitted' = fitted
         /\ notHeader' = notHeader /\ out' = out
         /\ Pending' = Pending
BY DEF NextFile, LineRead, Reading, caches, Pending

LEMMA StepSound == IInv /\ [Next]_vars => IInv'
<1> SUFFICES ASSUME IInv, [Next]_vars
             PROVE  IInv'
  OBVIOUS
<1> USE DEF IInv
<1>1. CASE (\E l \in Lines : ReadLine(l)) \/ ExtraLine
  <2>1. PICK l : IsLine(l) /\ FilterLine(l) /\ extra' \in 0..Reading
    BY <1>1, LineReads
  <2>2. /\ options' \in OptionSets /\ ParserType' /\ b64' \in Cache /\ qp' \in Cache
        /\ Roomy(room') /\ fitted' \in BOOLEAN
        /\ xml' \in Filters /\ notHeader' \in BOOLEAN /\ OutType'
        /\ CacheInv'
    BY <2>1, LineStep
  <2> QED
    BY <2>1, <2>2 DEF TypeOK
<1>2. CASE EndOfInput
  <2>1. /\ extra' \in 0..Reading
        /\ UNCHANGED <<options, parser, caches, xml, notHeader, out>>
        /\ Pending' = Pending
    BY <1>2, EndOfInputFacts DEF Reading
  <2>2. ParserType' /\ OutType'
    BY <2>1 DEF TypeOK, ParserType, OutType, parser
  <2>3. CacheInv'
    BY <2>1 DEF CacheInv, OneCache, OwnCache, parser, caches
  <2> QED
    BY <2>1, <2>2, <2>3 DEF TypeOK, caches
<1>3. CASE NextFile
  <2>1. /\ extra' = Reading /\ mstate' = "UNDEF" /\ options' = options
        /\ b64' = b64 /\ qp' = qp /\ room' = room /\ fitted' = fitted
        /\ notHeader' = notHeader /\ out' = out
        /\ Pending' = Pending
    BY <1>3, NextFileFacts
  <2>2. ParserType'
    <3>1. 0 \in 0..CheckLines
      BY MailFilterAssumption
    <3> QED
      BY <1>3, <3>1, MimeFacts DEF NextFile, ParserType, States, Substates
  <2>3. xml' \in Filters
    BY <1>3 DEF NextFile, Filters
  <2>4. CacheInv'
    BY <2>1 DEF CacheInv, OneCache, OwnCache
  <2>5. OutType'
    BY <2>1 DEF TypeOK, OutType
  <2> QED
    BY <2>1, <2>2, <2>3, <2>4, <2>5 DEF TypeOK, Reading
<1>4. CASE UNCHANGED vars
  <2>1. ParserType' /\ OutType'
    BY <1>4 DEF TypeOK, ParserType, OutType, vars, parser
  <2>2. CacheInv'
    BY <1>4 DEF CacheInv, OneCache, OwnCache, Pending, vars, parser, caches
  <2> QED
    BY <1>4, <2>1, <2>2 DEF TypeOK, vars, caches
<1> QED
  BY <1>1, <1>2, <1>3, <1>4 DEF Next

(* The variables of the mail filter keep their types: what is cached and     *)
(* what overwrites a line is decoded text of a known type, a cache has room  *)
(* for a page and for every line it was fed, and every file leaves a number  *)
(* of extra lines that process_file() can count.                            *)
THEOREM TypeCorrect == Spec => []TypeOK
<1>1. IInv => TypeOK
  BY DEF IInv
<1> QED
  BY <1>1, InitSound, StepSound, PTL DEF Spec

(* Only one of the two decoding caches is in use, and in a body it holds text *)
(* of that body, whatever the lines, with lost boundaries and over several   *)
(* files.  Until a line is decoded behind a cached tail that leaves no room  *)
(* for it, the tail is all that stays in a cache.                           *)
THEOREM CachesSound == Spec => []CachesInStep
<1>1. IInv => CachesInStep
  BY DEF IInv, CacheInv, OneCache, OwnCache, TailOnly, CachesInStep
<1> QED
  BY <1>1, InitSound, StepSound, PTL DEF Spec

(* Every line takes out of the caches what it shows, from the front, and     *)
(* adds what it decodes to at the end: nothing is repeated or reordered,     *)
(* between files nothing is touched, and nothing is lost until a line was    *)
(* decoded that a cache had no room for.  Even then only a flush of the      *)
(* whole cache loses text, and only behind a page of it; and no line, of     *)
(* whatever length, leaves more than a tail above what was cached before.    *)
THEOREM TextKept == Spec => TextConserved
<1>1. IInv /\ [Next]_vars =>
        [IF LineRead
         THEN /\ Kept(out'.text, Pending', Pending \o out'.fed, fitted')
              /\ Len(Pending') <= Len(Pending) + TailLen
         ELSE Pending' = Pending]_vars
  <2> SUFFICES ASSUME IInv, Next
               PROVE  IF LineRead
                      THEN /\ Kept(out'.text, Pending', Pending \o out'.fed, fitted')
                           /\ Len(Pending') <= Len(Pending) + TailLen
                      ELSE Pending' = Pending
    OBVIOUS
  <2>1. CASE (\E l \in Lines : ReadLine(l)) \/ ExtraLine
    <3>1. PICK l : IsLine(l) /\ FilterLine(l) /\ LineRead
      BY <2>1, LineReads
    <3>2. /\ Kept(out'.text, Pending', Pending \o out'.fed, fitted')
          /\ Len(Pending') <= Len(Pending) + TailLen
      BY <3>1, LineStep DEF IInv
    <3> QED
      BY <3>1, <3>2
  <2>2. CASE EndOfInput
    BY <2>2, EndOfInputFacts
  <2>3. CASE NextFile
    BY <2>3, NextFileFacts
  <2> QED
    BY <2>1, <2>2, <2>3 DEF Next
<1> QED
  BY <1>1, InitSound, StepSound, PTL DEF Spec, TextConserved

(* In a mail whose lines are shorter than a page by a tail, a cache has room *)
(* for every line: with TextKept, no text of it is ever lost, and with       *)
(* CachesSound no cache ever holds more than a tail between two lines.       *)
THEOREM ShortLinesFit == ShortLines /\ Spec => []fitted
<1>1. ShortLines /\ IInv /\ fitted /\ [Next]_vars => fitted'
  <2> SUFFICES ASSUME ShortLines, IInv, fitted, [Next]_vars
               PROVE  fitted'
    OBVIOUS
  <2>1. CASE (\E l \in Lines : ReadLine(l)) \/ ExtraLine
    <3>1. PICK l : IsLine(l) /\ FilterLine(l)
      BY <2>1, LineReads
    <3>2. PICK w : LineWork(l, w) /\ Process(l, w)
      BY <3>1, FilterLineWork DEF IInv
    <3>3. w.fits
      BY <3>2, DecodesFacts DEF LineWork, Keeps, Empties, Encoded, IInv
    <3>4. Conserves(w)
      BY <3>2, LineWorkConserves DEF IInv
    <3> QED
      BY <3>2, <3>3, <3>4, ProcessCaches DEF IInv
  <2>2. CASE EndOfInput \/ UNCHANGED vars
    BY <2>2 DEF EndOfInput, vars, caches
  <2>3. CASE NextFile
    BY <2>3, NextFileFacts
  <2> QED
    BY <2>1, <2>2, <2>3 DEF Next
<1>2. Init => fitted
  BY DEF Init
<1>3. CASE ShortLines
  <2>1. IInv /\ fitted /\ [Next]_vars => fitted'
    BY <1>1, <1>3
  <2> QED
    BY <1>2, <2>1, InitSound, StepSound, PTL DEF Spec
<1>4. CASE ~ShortLines
  BY <1>4
<1> QED
  BY <1>3, <1>4

-----------------------------------------------------------------------------
(* Messages.  Two empty lines after the input take the parser out of the     *)
(* headers, unless the lines are only filtered.                             *)

NoFilter == \A o \in OptionSets : "filter" \notin o

EndInv ==
  /\ notHeader <=> mstate # "HEADER"
  /\ extra = 1 => mstate # "ATTACH"
  /\ extra = 0 => mstate \in {"BODY", "UNDEF"} /\ prevEmpty

LEMMA EmptyLineMoves ==
  ASSUME NEW l, l.is = "empty", FilterLine(l)
  PROVE  /\ mstate = "UNDEF" => mstate' = "UNDEF"
         /\ mstate \in {"HEADER", "BODY"} => mstate' = "BODY"
         /\ mstate = "ATTACH" => mstate' \in {"HEADER", "BODY"}
<1>1. /\ Wait(l) => mstate = "UNDEF" /\ mstate' = "UNDEF"
      /\ ~StartMessage(l) /\ ~HeaderLine(l) /\ ~AttachLine(l)
  BY DEF Wait, StartMessage, HeaderLine, AttachLine
<1>2. ~Boundary(l) /\ ~Digest(l) /\ ~ContentLine(l) /\ ~FromLine(l)
  BY DEF Boundary, Digest, ContentLine, FromLine, AtBoundary, AtDigest, AtContent, AtFrom,
         MimeHeader
<1>3. BodyLine(l) => mstate = "BODY" /\ mstate' = "BODY"
  BY DEF BodyLine
<1>4. /\ EndHeader(l) => mstate = "HEADER" /\ mstate' = "BODY"
      /\ EndAttach(l) => mstate = "ATTACH" /\ mstate' = "BODY"
  BY DEF EndHeader, EndAttach, EnterBody
<1>5. EndEnclosing(l) => mstate = "ATTACH" /\ mstate' = "HEADER"
  BY DEF EndEnclosing, EnterHeader
<1> QED
  BY <1>1, <1>2, <1>3, <1>4, <1>5 DEF FilterLine

LEMMA InitEnds == Init => EndInv
BY DEF Init, EndInv, Reading

LEMMA StepEnds ==
  ASSUME NoFilter
  PROVE  IInv /\ EndInv /\ [Next]_vars => EndInv'
<1> SUFFICES ASSUME IInv, EndInv, [Next]_vars
             PROVE  EndInv'
  OBVIOUS
<1>1. mstate \in States /\ notHeader \in BOOLEAN
  BY DEF IInv, TypeOK, ParserType
<1>2. CASE \E l \in Lines : ReadLine(l)
  <2>1. PICK l \in Lines : FilterLine(l) /\ extra' = Reading
    BY <1>2 DEF ReadLine
  <2>2. notHeader' <=> mstate' # "HEADER"
    BY <2>1, LinesAreLines, LineStep DEF IInv
  <2> QED
    BY <2>1, <2>2 DEF EndInv, Reading
<1>3. CASE ExtraLine
  <2>1. FilterLine(EmptyLine) /\ extra \in 1..2 /\ extra' = extra - 1
    BY <1>3 DEF ExtraLine, EmptyLine
  <2>2. (notHeader' <=> mstate' # "HEADER") /\ prevEmpty'
    BY <2>1, LinesAreLines, LineStep DEF IInv
  <2>3. /\ mstate = "UNDEF" => mstate' = "UNDEF"
        /\ mstate \in {"HEADER", "BODY"} => mstate' = "BODY"
        /\ mstate = "ATTACH" => mstate' \in {"HEADER", "BODY"}
    BY <2>1, LinesAreLines, EmptyLineMoves
  <2>4. mstate' # "ATTACH"
    BY <1>1, <2>3 DEF States
  <2>5. extra' = 0 => mstate' \in {"BODY", "UNDEF"}
    BY <1>1, <2>1, <2>3 DEF States, EndInv
  <2> QED
    BY <2>2, <2>4, <2>5 DEF EndInv
<1>4. CASE EndOfInput
  <2>1. options \in OptionSets
    BY DEF IInv, TypeOK
  <2>2. extra' = 2
    BY <1>4, <2>1 DEF EndOfInput, ExtraLines, NoFilter
  <2>3. mstate' = mstate /\ notHeader' = notHeader
    BY <1>4 DEF EndOfInput, parser
  <2> QED
    BY <2>2, <2>3 DEF EndInv
<1>5. CASE NextFile
  <2>1. /\ extra' = 3 /\ mstate' = "UNDEF" /\ notHeader' = notHeader
        /\ mstate \in {"BODY", "UNDEF"}
    BY <1>5, NextFileFacts DEF EndInv, Reading
  <2> QED
    BY <2>1 DEF EndInv
<1>6. CASE UNCHANGED vars
  BY <1>6 DEF EndInv, vars, parser
<1> QED
  BY <1>2, <1>3, <1>4, <1>5, <1>6 DEF Next

(* Where dbacl reads a corpus, so that two empty lines end every file, a     *)
(* message is counted when, and only when, a header begins, over all files.  *)
(* With -T email:filter the count may miss a message whose file follows one  *)
(* that ends in a header.                                                   *)
THEOREM EveryMessageCounted == NoFilter /\ Spec => MessageCounted
<1>1. IInv /\ EndInv /\ [Next]_vars =>
        [LineRead => (out'.message <=> (mstate # "HEADER" /\ mstate' = "HEADER"))]_vars
  <2> SUFFICES ASSUME IInv, EndInv, Next, LineRead
               PROVE  out'.message <=> (mstate # "HEADER" /\ mstate' = "HEADER")
    OBVIOUS
  <2>1. (\E l \in Lines : ReadLine(l)) \/ ExtraLine
    BY EndOfInputFacts, NextFileFacts DEF Next
  <2>2. PICK l : IsLine(l) /\ FilterLine(l)
    BY <2>1, LineReads
  <2>3. out'.message <=> notHeader /\ mstate' = "HEADER"
    BY <2>2, LineStep DEF IInv
  <2> QED
    BY <2>3 DEF EndInv
<1>2. CASE NoFilter
  <2>1. IInv /\ EndInv /\ [Next]_vars => EndInv'
    BY <1>2, StepEnds
  <2> QED
    BY <1>1, <2>1, InitSound, StepSound, InitEnds, PTL DEF Spec, MessageCounted
<1>3. CASE ~NoFilter
  BY <1>3
<1> QED
  BY <1>2, <1>3

-----------------------------------------------------------------------------
(* Words.  Where the parser is tells what sort of text may still be cached. *)

WordInv ==
  fitted =>
    /\ mstate = "UNDEF" => ~Readable(Pending)
    /\ mstate = "HEADER" => Pending = <<>>
    /\ mstate = "ATTACH" => ~Words(Pending)
    /\ mstate = "BODY" =>
         /\ prevEmpty /\ ~Octet(body.type) => ~Words(Pending)
         /\ substate = "ARMOR" => ~Words(Pending)
         /\ Skimmed => ~Words(Pending)
    /\ skip => mstate = "ATTACH"

WellShown == EveryWordShown /\ FilteredAsItsPart

LEMMA NoText == ~Words(<<>>) /\ ~Readable(<<>>)
BY DEF Words, Readable

LEMMA Wordless ==
  ASSUME NEW c, ~Words(c)
  PROVE  ~Readable(c)
BY DEF Words, Readable

(* A line that shows no words, or none that are to be told apart. *)
LEMMA ShowsNothing ==
  ASSUME \/ ~Words(out'.text)
         \/ ~Readable(out'.text) /\ mstate' \notin {"BODY", "ATTACH"}
  PROVE  WellShown'
<1>1. EveryWordShown'
  BY Wordless DEF EveryWordShown
<1>2. FilteredAsItsPart'
  BY DEF FilteredAsItsPart, Words, Readable
<1> QED
  BY <1>1, <1>2 DEF WellShown

(* A line that shows the words of one part, as that part. *)
LEMMA ShowsItsPart ==
  ASSUME NEW t, \A i \in DOMAIN out'.text : out'.text[i][2] = t,
         out'.shown, options' = options,
         out'.xml = Reset(Defaults(t)),
         out'.strings \in BOOLEAN, out'.strings <=> Octet(t)
  PROVE  WellShown'
<1>1. EveryWordShown'
  BY DEF EveryWordShown
<1>2. FilteredAsItsPart'
  <2> SUFFICES ASSUME NEW i \in DOMAIN out'.text
               PROVE  /\ out'.xml = Reset(Defaults(out.text[i][2])')
                      /\ out'.strings = Octet(out'.text[i][2])
    BY DEF FilteredAsItsPart
  <2>1. out'.text[i][2] = t
    OBVIOUS
  <2>2. Defaults(out.text[i][2])' = Defaults(t)
    BY <2>1 DEF Defaults
  <2>3. Octet(t) \in BOOLEAN
    BY DEF Octet
  <2> QED
    BY <2>1, <2>2, <2>3
<1> QED
  BY <1>1, <1>2 DEF WellShown

(* A line that leaves the caches alone may show what was cached if it is     *)
(* empty.                                                                  *)
LEMMA KeptWords ==
  ASSUME TypeOK, CacheInv, fitted', NEW l, IsLine(l), NEW w, Keeps(w), Process(l, w),
         l.is = "empty" => \/ ~Words(Pending)
                           \/ ~Readable(Pending) /\ mstate' \notin {"BODY", "ATTACH"}
  PROVE  /\ WellShown'
         /\ Pending' \in {<<>>, Pending}
         /\ l.is = "empty" /\ ~w.process /\ ~w.octet => Pending' = <<>>
<1>1. Conserves(w) /\ Left(w) = Pending /\ w.text = <<>>
  BY KeepsFacts DEF Left, Pending
<1>2. /\ Pending' = IF Late(l, w) THEN <<>> ELSE Left(w)
      /\ out'.text = IF Late(l, w) THEN Left(w) ELSE w.text
  BY <1>1, ProcessCaches
<1>3. WellShown'
  BY <1>1, <1>2, NoText, ShowsNothing DEF Late
<1> QED
  BY <1>1, <1>2, <1>3 DEF Late

LEMMA EmptiedWords ==
  ASSUME TypeOK, CacheInv, fitted', NEW l, IsLine(l), NEW w, Empties(w), Process(l, w)
  PROVE  /\ Pending' = <<>>
         /\ \/ ~Words(Pending)
            \/ ~Readable(Pending) /\ mstate' \notin {"BODY", "ATTACH"}
            \/ mstate = "BODY" /\ mstate' # "BODY" /\ (w.process <=> Pending # <<>>)
            => WellShown'
<1>1. /\ Conserves(w) /\ Left(w) = <<>> /\ (fitted => w.text = Pending)
      /\ Pending # <<>> => (w.octet <=> Octet(body.type)) /\ w.force = Defaults(body.type)
  BY EmptiesFacts DEF Left, Full
<1>5. /\ Pending' = IF Late(l, w) THEN <<>> ELSE Left(w)
      /\ out'.text = IF Late(l, w) THEN Left(w) ELSE w.text
      /\ fitted
  BY <1>1, ProcessCaches
<1>2. Pending' = <<>> /\ out'.text = Pending
  BY <1>1, <1>5 DEF Late
<1>3. ASSUME \/ ~Words(Pending)
             \/ ~Readable(Pending) /\ mstate' \notin {"BODY", "ATTACH"}
      PROVE  WellShown'
  BY <1>2, <1>3, ShowsNothing
<1>4. ASSUME mstate = "BODY" /\ mstate' # "BODY" /\ (w.process <=> Pending # <<>>)
      PROVE  WellShown'
  <2>1. CASE Pending = <<>>
    BY <1>2, <2>1, NoText, ShowsNothing
  <2>2. CASE Pending # <<>>
    <3>1. PICK t : t = body.type
      OBVIOUS
    <3>2. \A i \in DOMAIN out'.text : out'.text[i][2] = t
      BY <1>2, <1>4, <3>1 DEF CacheInv, OwnCache
    <3>3. Defaults(t) \in {"DISABLE", "SMART", "DUMB"}
      BY DEF Defaults
    <3>4. Selected(w) = Defaults(t) /\ Selected(w) # "UNDEF"
      BY <1>1, <2>2, <3>1, <3>3 DEF Selected
    <3>5. ~Hidden
      BY <1>4 DEF Hidden
    <3>6. /\ options' = options
          /\ out'.shown <=>
               l.is = "empty" \/ ((w.process \/ w.octet) /\ (Hidden => w.force # "UNDEF"))
          /\ out'.strings <=> w.octet
          /\ out'.xml = Reset(Selected(w))
          /\ OutType'
      BY <1>1, <3>4, ProcessLine DEF IsLine
    <3>7. out'.shown
      BY <1>4, <2>2, <3>5, <3>6
    <3>8. out'.strings <=> Octet(t)
      BY <1>1, <2>2, <3>1, <3>6
    <3>9. out'.strings \in BOOLEAN
      BY <3>6 DEF OutType
    <3> QED
      BY <3>2, <3>4, <3>6, <3>7, <3>8, <3>9, ShowsItsPart
  <2> QED
    BY <2>1, <2>2
<1> QED
  BY <1>2, <1>3, <1>4

(* A decoded line shows words of its body only, and an empty line leaves no   *)
(* words behind, but in an octet stream.                                    *)
LEMMA DecodedWords ==
  ASSUME TypeOK, CacheInv, fitted', NEW l, IsLine(l), NEW w, Decodes(w, l), Encoded, Process(l, w),
         mstate = "BODY", mstate' = "BODY", body' = body, ~skip'
  PROVE  /\ WellShown'
         /\ l.is = "empty" /\ ~Octet(body.type) => ~Words(Pending')
<1>1. /\ Conserves(w) /\ w.force = "UNDEF" /\ (w.octet <=> Octet(body.type))
      /\ \A i \in DOMAIN w.text : w.text[i][2] = body.type
      /\ \A i \in DOMAIN Left(w) : Left(w)[i][2] = body.type
      /\ w.text # <<>> => w.process
      /\ w.fits /\ l.is = "empty" => ~w.process \/ \A i \in DOMAIN Left(w) : Left(w)[i][1] = "s"
  BY DecodesFacts DEF Encoded
<1>2. /\ w.fits
      /\ Pending' = IF Late(l, w) THEN <<>> ELSE Left(w)
      /\ out'.text = IF Late(l, w) THEN Left(w) ELSE w.text
  BY <1>1, ProcessCaches
<1>3. ~Hidden
  BY DEF Hidden
<1>4. Selected(w) = Defaults(body.type) /\ Selected(w) \in {"DISABLE", "SMART", "DUMB"}
  BY <1>1, <1>3 DEF Selected, Defaults
<1>5. /\ options' = options
      /\ out'.shown <=>
           l.is = "empty" \/ ((w.process \/ w.octet) /\ (Hidden => w.force # "UNDEF"))
      /\ out'.strings <=> w.octet
      /\ out'.xml = Reset(Selected(w))
      /\ OutType'
  BY <1>1, <1>4, ProcessLine DEF IsLine
<1>6. ASSUME out'.text = <<>>
      PROVE  WellShown'
  BY <1>6, NoText, ShowsNothing
<1>7. ASSUME out'.text # <<>>
      PROVE  WellShown'
  <2>1. PICK t : t = body.type
    OBVIOUS
  <2>2. \A i \in DOMAIN out'.text : out'.text[i][2] = t
    BY <1>1, <1>2, <2>1
  <2>3. out'.shown
    BY <1>1, <1>2, <1>3, <1>5, <1>7 DEF Late
  <2>4. out'.strings \in BOOLEAN /\ (out'.strings <=> Octet(t))
    BY <1>1, <1>5, <2>1 DEF OutType
  <2>5. out'.xml = Reset(Defaults(t))
    BY <1>4, <1>5, <2>1
  <2> QED
    BY <1>5, <2>2, <2>3, <2>4, <2>5, ShowsItsPart
<1>8. ASSUME l.is = "empty", ~Octet(body.type)
      PROVE  ~Words(Pending')
  <2>1. CASE Late(l, w)
    BY <1>2, <2>1, NoText
  <2>2. CASE ~Late(l, w)
    <3>1. Pending' = Left(w)
      BY <1>2, <2>2
    <3>2. CASE Left(w) = <<>>
      BY <3>1, <3>2, NoText
    <3>3. CASE Left(w) # <<>>
      <4>1. w.process
        BY <1>1, <1>8, <2>2, <3>3 DEF Late
      <4> QED
        BY <1>1, <1>2, <1>8, <3>1, <4>1 DEF Words
    <3> QED
      BY <3>2, <3>3
  <2> QED
    BY <2>1, <2>2
<1> QED
  BY <1>6, <1>7, <1>8

LEMMA NothingKept ==
  ASSUME Pending' = <<>>, skip' => mstate' = "ATTACH"
  PROVE  WordInv'
BY NoText DEF WordInv

LEMMA LineWords ==
  ASSUME TypeOK, CacheInv, WordInv, ~Interrupted, NEW l, IsLine(l), FilterLine(l)
  PROVE  WordInv' /\ WellShown'
<1> SUFFICES ASSUME fitted'
             PROVE  WordInv' /\ WellShown'
  BY DEF WordInv, WellShown, EveryWordShown, FilteredAsItsPart
<1>10. fitted
  BY LineStep
<1> USE <1>10
<1>1. /\ skip \in BOOLEAN /\ mstate \in States
      /\ Expected => ~Words(Pending)
  BY DEF TypeOK, ParserType, Expected
<1>2. CASE Wait(l)
  <2>1. /\ mstate = "UNDEF" /\ mstate' = "UNDEF" /\ skip' = skip /\ l.is = "empty"
        /\ Process(l, Work(FALSE))
    BY <1>2 DEF Wait
  <2>2. PICK w : w = Work(FALSE)
    OBVIOUS
  <2>3. Keeps(w) /\ ~w.process /\ ~w.octet
    BY <2>2 DEF Work, Keeps
  <2>4. Process(l, w) /\ ~Readable(Pending)
    BY <2>1, <2>2 DEF WordInv
  <2>5. WellShown' /\ Pending' = <<>>
    BY <2>1, <2>3, <2>4, KeptWords
  <2>6. ~skip'
    BY <2>1 DEF WordInv
  <2> QED
    BY <2>5, <2>6, NothingKept
<1>3. CASE StartMessage(l) \/ FromLine(l) \/ EndEnclosing(l)
  <2>1. EnterHeader(l)
    BY <1>3 DEF StartMessage, FromLine, EndEnclosing
  <2>2. mstate' = "HEADER" /\ skip' = FALSE /\ \E w : Empties(w) /\ Process(l, w)
    BY <2>1, EnterHeaderWork
  <2>3. ~Readable(Pending)
    <3>1. CASE StartMessage(l)
      BY <3>1 DEF StartMessage, WordInv
    <3>2. CASE FromLine(l)
      <4>1. mstate = "BODY" /\ prevEmpty
        BY <3>2 DEF FromLine, AtFrom
      <4>2. CASE Octet(body.type)
        BY <4>1, <4>2 DEF CacheInv, OwnCache, Readable
      <4>3. CASE ~Octet(body.type)
        BY <4>1, <4>3, Wordless DEF WordInv
      <4> QED
        BY <4>2, <4>3
    <3>3. CASE EndEnclosing(l)
      BY <3>3, Wordless DEF EndEnclosing, WordInv
    <3> QED
      BY <1>3, <3>1, <3>2, <3>3
  <2>4. PICK w : Empties(w) /\ Process(l, w)
    BY <2>2
  <2>5. Pending' = <<>> /\ WellShown'
    BY <2>2, <2>3, <2>4, EmptiedWords
  <2> QED
    BY <2>2, <2>5, NothingKept
<1>4. CASE HeaderLine(l)
  <2>1. /\ mstate = "HEADER" /\ mstate' = "HEADER" /\ skip' = skip /\ l.is # "empty"
    BY <1>4 DEF HeaderLine
  <2>2. PICK w : LineWork(l, w) /\ Process(l, w)
    BY FilterLineWork
  <2>3. Pending = <<>> /\ ~Words(Pending) /\ ~skip'
    BY <2>1, NoText DEF WordInv
  <2>4. Pending' = <<>> /\ WellShown'
    <3>1. CASE Keeps(w)
      BY <2>1, <2>2, <2>3, <3>1, KeptWords
    <3>2. CASE Empties(w)
      BY <2>2, <2>3, <3>2, EmptiedWords
    <3> QED
      BY <2>1, <2>2, <3>1, <3>2 DEF LineWork
  <2> QED
    BY <2>3, <2>4, NothingKept
<1>5. CASE EndHeader(l) \/ EndAttach(l)
  <2>1. /\ \E b : EnterBody(l, b)
        /\ mstate \in {"HEADER", "ATTACH"}
        /\ ~skip'
    BY <1>1, <1>5 DEF EndHeader, EndAttach, WordInv
  <2>2. mstate' = "BODY" /\ Process(l, Flushed)
    BY <2>1 DEF EnterBody
  <2>3. ~Words(Pending)
    BY <2>1, NoText DEF WordInv
  <2>4. PICK w : w = Flushed
    OBVIOUS
  <2>5. Empties(w) /\ Process(l, w)
    BY <2>2, <2>4, WorkKeeps
  <2>6. Pending' = <<>> /\ WellShown'
    BY <2>3, <2>5, EmptiedWords
  <2> QED
    BY <2>1, <2>6, NothingKept
<1>6. CASE Boundary(l)
  <2>1. mstate = "BODY" /\ mstate' = "ATTACH" /\ Process(l, Flushed)
    BY <1>6 DEF Boundary
  <2>2. PICK w : w = Flushed
    OBVIOUS
  <2>3. Empties(w) /\ Process(l, w) /\ (w.process <=> Pending # <<>>)
    BY <2>1, <2>2, WorkKeeps DEF Flushed, Work
  <2>4. Pending' = <<>> /\ WellShown'
    BY <2>1, <2>3, EmptiedWords
  <2> QED
    BY <2>1, <2>4, NothingKept
<1>7. CASE Digest(l) \/ ContentLine(l) \/ AttachLine(l)
  <2>1. mstate' = "ATTACH" /\ l.is # "empty"
    BY <1>7 DEF Digest, ContentLine, AttachLine, ReadAttach, AtDigest, AtContent, MimeHeader
  <2>2. ~Words(Pending)
    BY <1>1, <1>7 DEF Digest, ContentLine, AttachLine, WordInv
  <2>3. PICK w : LineWork(l, w) /\ Process(l, w)
    BY FilterLineWork
  <2>4. Pending' \in {<<>>, Pending} /\ WellShown'
    <3>1. CASE Keeps(w)
      BY <2>1, <2>3, <3>1, KeptWords
    <3>2. CASE Empties(w)
      BY <2>2, <2>3, <3>2, EmptiedWords
    <3> QED
      BY <2>1, <2>3, <3>1, <3>2 DEF LineWork
  <2>5. ~Words(Pending')
    BY <2>2, <2>4, NoText
  <2> QED
    BY <2>1, <2>4, <2>5 DEF WordInv
<1>8. CASE BodyLine(l)
  <2>1. /\ mstate = "BODY" /\ mstate' = "BODY" /\ body' = body /\ (skip' => skip)
        /\ substate' = "ARMOR" => substate = "ARMOR" \/ Expected
    BY <1>8, BodyLineWork
  <2>2. PICK w : BodyWork(l, w) /\ Process(l, w)
    BY <1>8, BodyLineWork
  <2>3. ~skip' /\ (substate' = "ARMOR" => ~Words(Pending))
    BY <1>1, <2>1 DEF WordInv
  <2>4. /\ options' = options /\ (prevEmpty' <=> l.is = "empty")
    BY LineStep
  <2>5. Skimmed' <=> Skimmed
    BY <2>1, <2>4 DEF Skimmed
  <2>6. CASE Keeps(w) /\ ~Words(Pending)
    <3>1. WellShown' /\ Pending' \in {<<>>, Pending}
      BY <2>2, <2>6, KeptWords
    <3>2. ~Words(Pending')
      BY <2>6, <3>1, NoText
    <3> QED
      BY <2>1, <2>3, <3>1, <3>2 DEF WordInv
  <2>7. CASE substate' # "ARMOR" /\ ~Skimmed /\ Encoded /\ Decodes(w, l)
    <3>1. WellShown' /\ (l.is = "empty" /\ ~Octet(body.type) => ~Words(Pending'))
      BY <2>1, <2>2, <2>3, <2>7, DecodedWords
    <3> QED
      BY <2>1, <2>3, <2>4, <2>5, <2>7, <3>1 DEF WordInv
  <2>8. ~Encoded => ~Words(Pending)
    <3>1. /\ b64 # <<>> => body.encoding = "B64"
          /\ qp # <<>> => body.encoding = "QP"
      BY <2>1 DEF CacheInv, OwnCache
    <3>2. ~Encoded => Pending = <<>>
      BY <3>1 DEF Encoded, Pending, Full
    <3> QED
      BY <3>2, NoText
  <2>9. Skimmed => ~Words(Pending)
    BY <2>1 DEF WordInv
  <2> QED
    BY <2>2, <2>3, <2>6, <2>7, <2>8, <2>9 DEF BodyWork
<1> QED
  BY <1>2, <1>3, <1>4, <1>5, <1>6, <1>7, <1>8 DEF FilterLine

LEMMA InitWords == Init => WordInv /\ WellShown
<1> SUFFICES ASSUME Init
             PROVE  WordInv /\ WellShown
  OBVIOUS
<1>1. Pending = <<>> /\ mstate = "UNDEF" /\ ~skip
  BY DEF Init, Pending, Full
<1>2. WordInv
  BY <1>1, NoText DEF WordInv
<1>3. out.text = <<>>
  BY DEF Init
<1>4. EveryWordShown /\ FilteredAsItsPart
  BY <1>3 DEF EveryWordShown, FilteredAsItsPart, Readable
<1> QED
  BY <1>2, <1>4 DEF WellShown

LEMMA StepWords ==
  ASSUME NoFilter, ~Interrupted
  PROVE  IInv /\ EndInv /\ WordInv /\ WellShown /\ [Next]_vars => WordInv' /\ WellShown'
<1> SUFFICES ASSUME IInv, EndInv, WordInv, WellShown, [Next]_vars
             PROVE  WordInv' /\ WellShown'
  OBVIOUS
<1>1. CASE (\E l \in Lines : ReadLine(l)) \/ ExtraLine
  <2>1. PICK l : IsLine(l) /\ FilterLine(l)
    BY <1>1, LineReads
  <2> QED
    BY <2>1, LineWords DEF IInv
<1>2. CASE EndOfInput \/ UNCHANGED vars
  <2>1. /\ mstate' = mstate /\ substate' = substate /\ body' = body /\ skip' = skip
        /\ prevEmpty' = prevEmpty /\ options' = options /\ out' = out
        /\ b64' = b64 /\ qp' = qp /\ fitted' = fitted
    BY <1>2 DEF EndOfInput, vars, parser, caches
  <2>2. Pending' = Pending
    BY <2>1 DEF Pending
  <2>3. WordInv'
    BY <2>1, <2>2 DEF WordInv, Skimmed
  <2>4. EveryWordShown' /\ FilteredAsItsPart'
    BY <2>1 DEF WellShown, EveryWordShown, FilteredAsItsPart, Defaults
  <2> QED
    BY <2>3, <2>4 DEF WellShown
<1>3. CASE NextFile
  <2>1. /\ mstate' = "UNDEF" /\ skip' = FALSE /\ options' = options /\ out' = out
        /\ Pending' = Pending /\ fitted' = fitted
    BY <1>3, NextFileFacts
  <2>2. mstate \in {"BODY", "UNDEF"} /\ prevEmpty
    BY <1>3, NextFileFacts DEF EndInv
  <2>3. fitted => ~Readable(Pending)
    <3>1. CASE mstate = "UNDEF"
      BY <3>1 DEF WordInv
    <3>2. CASE mstate = "BODY" /\ Octet(body.type)
      BY <3>2 DEF IInv, CacheInv, OwnCache, Readable
    <3>3. CASE mstate = "BODY" /\ ~Octet(body.type)
      BY <2>2, <3>3, Wordless DEF WordInv
    <3> QED
      BY <2>2, <3>1, <3>2, <3>3
  <2>4. WordInv'
    BY <2>1, <2>3 DEF WordInv
  <2>5. EveryWordShown'
    BY <2>1 DEF WellShown, EveryWordShown
  <2>6. FilteredAsItsPart'
    BY <2>1 DEF WellShown, FilteredAsItsPart, Defaults
  <2> QED
    BY <2>4, <2>5, <2>6 DEF WellShown
<1> QED
  BY <1>1, <1>2, <1>3 DEF Next

LEMMA WordsSound == NoFilter /\ ~Interrupted /\ Spec => []WellShown
<1>1. CASE NoFilter /\ ~Interrupted
  <2>1. IInv /\ EndInv /\ [Next]_vars => EndInv'
    BY <1>1, StepEnds
  <2>2. IInv /\ EndInv /\ WordInv /\ WellShown /\ [Next]_vars => WordInv' /\ WellShown'
    BY <1>1, StepWords
  <2> QED
    BY <2>1, <2>2, InitSound, StepSound, InitEnds, InitWords, PTL DEF Spec
<1>2. CASE ~(NoFilter /\ ~Interrupted)
  BY <1>2
<1> QED
  BY <1>1, <1>2

(* While a cache has room for what is decoded into it, a decoded word is     *)
(* shown when it leaves the cache, whichever line it overwrites, if every    *)
(* part ends in an empty line or a boundary (a line that was broken off is  *)
(* not followed by a stray header) and two empty lines end every file.      *)
THEOREM DecodedWordsShown == NoFilter /\ ~Interrupted /\ Spec => []EveryWordShown
<1>1. WellShown => EveryWordShown
  BY DEF WellShown
<1> QED
  BY <1>1, WordsSound, PTL

(* Under the same conditions a decoded word is read with the markup filter   *)
(* and the string extraction of the part it comes from, though the line it    *)
(* overwrites belongs to the next one.                                      *)
THEOREM DecodedWordsFiltered == NoFilter /\ ~Interrupted /\ Spec => []FilteredAsItsPart
<1>1. WellShown => FilteredAsItsPart
  BY DEF WellShown
<1> QED
  BY <1>1, WordsSound, PTL

=============================================================================
