------------------------- MODULE OnlineDump_proofs --------------------------
(***************************************************************************)
(* Proofs about OnlineDump, for any number of runs, tokens, option sets     *)
(* and merged dumps, and any capacities.                                    *)
(***************************************************************************)
EXTENDS OnlineDump, FiniteSetTheorems, TLAPS

Dumps == [items : Counts, list : Seq(Ids), address : BOOLEAN]

DiskType ==
  /\ online \in Files \cup {None}
  /\ head \in [Files -> Heads]
  /\ items \in [Files -> Counts]
  /\ list \in [Files -> Seq(Ids \cup {None})]

PlaceType ==
  /\ pc \in [Learners -> Labels]
  /\ opt \in [Learners -> SUBSET {"m", "H", "O"}]
  /\ input \in [Learners -> Nat]

CountingType ==
  /\ unique \in [Learners -> Nat]
  /\ room \in [Learners -> Nat]
  /\ shared \in [Learners -> BOOLEAN]
  /\ table \in [Learners -> Counts]

MergingType ==
  /\ other \in [Learners -> Dumps]
  /\ merged \in [Learners -> Nat]
  /\ pending \in [Learners -> SUBSET Ids]

TmpType ==
  /\ file \in [Learners -> Files \cup {None}]
  /\ access \in [Learners -> {"stdio", "map", "stale"}]
  /\ at \in [Learners -> Nat]
  /\ used \in [Learners -> Nat]
  /\ avail \in [Learners -> Nat]
  /\ buffer \in [Learners -> Seq(Ids)]
  /\ walked \in [Learners -> Seq(Ids \cup {None})]

(* A process that does not run has its initial values again. *)
IdleAt(p) ==
  /\ unique[p] = 0 /\ shared[p] = FALSE /\ table[p] = Empty
  /\ merged[p] = 0 /\ file[p] = None /\ access[p] = "stdio"
  /\ at[p] = 0 /\ used[p] = 0 /\ buffer[p] = <<>>

(* A run has a token file, and what stdio has not written of it lies before *)
(* the cursor.                                                             *)
OpenAt(p) == file[p] \in Files /\ Len(buffer[p]) <= at[p]

TypeOK ==
  /\ DiskType /\ PlaceType /\ CountingType /\ MergingType /\ TmpType
  /\ \A p \in Learners : IF Running(p) THEN OpenAt(p) ELSE IdleAt(p)
  /\ \A p \in Learners : pc[p] = "copy" => buffer[p] = <<>>

-----------------------------------------------------------------------------
(* One run at a time.                                                      *)

Alone == \A p, q \in Learners : Running(p) /\ Running(q) => p = q

(* Where the files of a run are.  Its own dump is the dump only once it has *)
(* been renamed, and it only changes a dump in place with -m.               *)
PlacedAt(p) ==
  /\ pc[p] \notin {"walk", "save"} \cup Ended => online # NewDump(p)
  /\ Running(p) => file[p] # NewDump(p)
  /\ shared[p] => /\ file[p] = online
                  /\ "m" \in opt[p]
                  /\ pc[p] \notin {"copy", "rename"}
  /\ access[p] = "stale" => "m" \notin opt[p]
  /\ pc[p] \in {"mergeTokens", "mergeHashes"} => other[p] \in Others
  /\ pc[p] = "rename" => items[NewDump(p)] = table[p]

Placed == Alone /\ \A p \in Learners : PlacedAt(p)

-----------------------------------------------------------------------------
(* The token list and the table belong together.                           *)

(* Token t is among the first n of the list s. *)
ListsWithin(s, n, t) == \E k \in 1..n : k \in DOMAIN s /\ s[k] = t

(* A dump whose parts agree. *)
Whole(f) ==
  /\ IsFiniteSet(Filled(items[f]))
  /\ head[f].unique = Cardinality(Filled(items[f]))
  /\ head[f].used <= Len(list[f])
  /\ \A t \in Filled(items[f]) : ListsWithin(list[f], head[f].used, t)

Learning == {"mergeTokens", "mergeHashes", "learn", "dump"}

CountedAt(p) ==
  /\ IsFiniteSet(Filled(Table(p)))
  /\ unique[p] = Cardinality(Filled(Table(p)))

(* Tokens are written at the end of the list, until it is read back. *)
CursorAt(p) ==
  /\ pc[p] \in Learning \/ buffer[p] # <<>> => at[p] = used[p]
  /\ access[p] # "stdio" => buffer[p] = <<>>
  /\ pc[p] = "mergeTokens" /\ merged[p] = 0 => buffer[p] = <<>>
  /\ pc[p] = "save" => buffer[p] = <<>>

CoveredAt(p) ==
  /\ pc[p] # "save" =>
       \A t \in Filled(Table(p)) : ListsWithin(Flushed(p), used[p], t)
  /\ pc[p] = "save" =>
       \A t \in Filled(Table(p)) : \E k \in DOMAIN walked[p] : walked[p][k] = t

(* A merged token is listed before it is counted. *)
MergedAt(p) ==
  /\ pc[p] = "mergeTokens" =>
       /\ merged[p] <= Len(other[p].list)
       /\ \A k \in 1..merged[p] : ListsWithin(Flushed(p), used[p], other[p].list[k])
  /\ pc[p] = "mergeHashes" =>
       /\ pending[p] \subseteq Filled(other[p].items)
       /\ \A t \in pending[p] : ListsWithin(Flushed(p), used[p], t)

(* What a run does to the dump it has found.  Without -m it appends tokens   *)
(* behind those that the learner_t counts, which are thus unaffected.  With  *)
(* -m the parts of the dump may disagree from the first change of the run,   *)
(* even if the table is no longer mapped, until the learner_t is overwritten *)
(* or the dump is replaced by a new one.                                    *)
FoundAt(p) ==
  IF "m" \notin opt[p]
  THEN head[online].used <= used[p] - Len(buffer[p])
  ELSE /\ head[online].unique <= unique[p]
       /\ pc[p] = "mergeTokens" /\ merged[p] = 0 => Whole(online)
       /\ pc[p] \in {"walk", "save"} => shared[p]
       /\ pc[p] = "walk" => /\ at[p] = used[p]
                            /\ head[online].unique = unique[p]
                            /\ head[online].used = used[p]
       /\ pc[p] = "save" => Whole(online)

(* What it does to its own. *)
MadeAt(p) ==
  /\ pc[p] \in {"dump", "copy"} => unique[p] > 0
  /\ pc[p] = "copy" => at[p] = 0 /\ used[p] <= Len(list[file[p]])
  /\ pc[p] = "rename" => Whole(NewDump(p)) /\ head[NewDump(p)].unique > 0

RunAt(p) ==
  /\ CountedAt(p) /\ CursorAt(p) /\ CoveredAt(p) /\ MergedAt(p) /\ MadeAt(p)
  /\ file[p] = online => FoundAt(p)

OnlineWhole ==
  online # None => /\ head[online].unique > 0
                   /\ ~InPlace(online) => Whole(online)

IInv == Placed /\ OnlineWhole /\ \A p \in Learners : Running(p) => RunAt(p)

-----------------------------------------------------------------------------
(* The token list.                                                         *)

Tokens == Ids \cup {None}

(* What Overwrite does to a list: the tokens up to the cursor stay, those    *)
(* written follow, and the list never becomes shorter.                      *)
LEMMA OverwriteFacts ==
  ASSUME NEW s \in Seq(Tokens), NEW k \in Nat, NEW w \in Seq(Ids)
  PROVE  /\ Overwrite(s, k, w) \in Seq(Tokens)
         /\ Len(Overwrite(s, k, w)) >= Len(s)
         /\ Len(Overwrite(s, k, w)) >= k + Len(w)
         /\ Len(Overwrite(s, k, w)) = Len(s) \/ Len(Overwrite(s, k, w)) = k + Len(w)
         /\ \A i \in 1..Len(Overwrite(s, k, w)) :
              Overwrite(s, k, w)[i] = IF i \in k + 1..k + Len(w) THEN w[i - k]
                                      ELSE IF i \in DOMAIN s THEN s[i] ELSE None
<1> DEFINE n == IF Len(s) < k + Len(w) THEN k + Len(w) ELSE Len(s)
           e(i) == IF i \in k + 1..k + Len(w) THEN w[i - k]
                   ELSE IF i \in DOMAIN s THEN s[i] ELSE None
<1>1. n \in Nat /\ Len(s) \in Nat /\ Len(w) \in Nat
  OBVIOUS
<1>2. \A i \in 1..n : e(i) \in Tokens
  <2> SUFFICES ASSUME NEW i \in 1..n PROVE e(i) \in Tokens
    OBVIOUS
  <2>1. CASE i \in k + 1..k + Len(w)
    <3>1. i - k \in 1..Len(w)
      BY <2>1, <1>1
    <3> QED
      BY <2>1, <3>1 DEF Tokens
  <2>2. CASE i \notin k + 1..k + Len(w)
    BY <2>2 DEF Tokens
  <2> QED
    BY <2>1, <2>2
<1>3. Overwrite(s, k, w) = [i \in 1..n |-> e(i)]
  BY DEF Overwrite
<1>4. [i \in 1..n |-> e(i)] \in Seq(Tokens) /\ Len([i \in 1..n |-> e(i)]) = n
  BY <1>1, <1>2
<1> QED
  BY <1>1, <1>3, <1>4

(* Nothing written within a list leaves it as it is. *)
LEMMA OverwriteNothing ==
  ASSUME NEW s \in Seq(Tokens), NEW n \in Nat, n <= Len(s)
  PROVE  Overwrite(s, n, <<>>) = s
<1>1. s = [i \in 1..Len(s) |-> s[i]] /\ Len(s) \in Nat /\ DOMAIN s = 1..Len(s)
  OBVIOUS
<1>2. Len(<<>>) = 0
  OBVIOUS
<1>3. (IF Len(s) < n + Len(<<>>) THEN n + Len(<<>>) ELSE Len(s)) = Len(s)
  BY <1>1, <1>2
<1>4. \A i \in 1..Len(s) : i \notin n + 1..n + Len(<<>>)
  BY <1>2
<1>5. Overwrite(s, n, <<>>) = [i \in 1..Len(s) |-> s[i]]
  BY <1>1, <1>3, <1>4 DEF Overwrite
<1> QED
  BY <1>1, <1>5

(* Flushing again writes nothing. *)
LEMMA OverwriteAgain ==
  ASSUME NEW s \in Seq(Tokens), NEW k \in Nat, NEW w \in Seq(Ids),
         NEW n \in Nat, n <= k + Len(w)
  PROVE  Overwrite(Overwrite(s, k, w), n, <<>>) = Overwrite(s, k, w)
<1> DEFINE o == Overwrite(s, k, w)
<1>1. o \in Seq(Tokens) /\ Len(o) >= k + Len(w)
  BY OverwriteFacts
<1> HIDE DEF o
<1>2. n <= Len(o)
  BY <1>1
<1> QED
  BY <1>1, <1>2, OverwriteNothing DEF o

(* A token more to write: what was listed still is, and so is the token.     *)
LEMMA OverwriteAppend ==
  ASSUME NEW s \in Seq(Tokens), NEW k \in Nat, NEW w \in Seq(Ids), NEW t \in Ids,
         NEW n, n = k + Len(w)
  PROVE  /\ \A x : ListsWithin(Overwrite(s, k, w), n, x)
                   => ListsWithin(Overwrite(s, k, Append(w, t)), n + 1, x)
         /\ ListsWithin(Overwrite(s, k, Append(w, t)), n + 1, t)
<1> DEFINE v == Append(w, t)
           o == Overwrite(s, k, w)
           e == Overwrite(s, k, v)
<1>1. /\ v \in Seq(Ids) /\ Len(v) = Len(w) + 1 /\ Len(w) \in Nat /\ Len(s) \in Nat
      /\ v[Len(w) + 1] = t /\ \A i \in 1..Len(w) : v[i] = w[i]
  OBVIOUS
<1> HIDE DEF v
<1>2. /\ o \in Seq(Tokens) /\ Len(o) >= Len(s) /\ Len(o) >= n
      /\ Len(o) = Len(s) \/ Len(o) = n
      /\ \A i \in 1..Len(o) : o[i] = IF i \in k + 1..k + Len(w) THEN w[i - k]
                                  ELSE IF i \in DOMAIN s THEN s[i] ELSE None
  BY OverwriteFacts
<1>3. /\ e \in Seq(Tokens) /\ Len(e) >= Len(s) /\ Len(e) >= k + Len(v)
      /\ \A i \in 1..Len(e) : e[i] = IF i \in k + 1..k + Len(v) THEN v[i - k]
                                  ELSE IF i \in DOMAIN s THEN s[i] ELSE None
  <2>1. v \in Seq(Ids)
    BY <1>1
  <2> QED
    BY <2>1, OverwriteFacts
<1> HIDE DEF o, e
<1>4. \A i \in 1..n : i \in DOMAIN o /\ i \in DOMAIN e /\ e[i] = o[i]
  <2> SUFFICES ASSUME NEW i \in 1..n
               PROVE  i \in DOMAIN o /\ i \in DOMAIN e /\ e[i] = o[i]
    OBVIOUS
  <2>1. i \in 1..Len(o) /\ i \in 1..Len(e) /\ n \in Nat
    BY <1>1, <1>2, <1>3
  <2>2. CASE i \in k + 1..k + Len(w)
    <3>1. i \in k + 1..k + Len(v) /\ i - k \in 1..Len(w)
      BY <2>2, <1>1
    <3>2. o[i] = w[i - k]
      BY <1>2, <2>1, <2>2
    <3>3. e[i] = v[i - k]
      BY <1>3, <2>1, <3>1
    <3>4. v[i - k] = w[i - k]
      BY <1>1, <3>1
    <3> QED
      BY <1>2, <1>3, <2>1, <3>2, <3>3, <3>4
  <2>3. CASE i \notin k + 1..k + Len(w)
    <3>1. i \notin k + 1..k + Len(v)
      BY <2>1, <2>3, <1>1
    <3> QED
      BY <1>2, <1>3, <2>1, <2>3, <3>1
  <2> QED
    BY <2>2, <2>3
<1>5. n + 1 \in 1..Len(e) /\ e[n + 1] = t
  <2>1. n + 1 \in k + 1..k + Len(v) /\ n + 1 - k = Len(w) + 1 /\ n + 1 \in 1..Len(e)
    BY <1>1, <1>3
  <2> QED
    BY <1>1, <1>3, <2>1
<1>6. n \in Nat /\ n + 1 \in 1..n + 1 /\ \A i \in 1..n : i \in 1..n + 1
  BY <1>1
<1>7. ListsWithin(e, n + 1, t)
  BY <1>3, <1>5, <1>6 DEF ListsWithin
<1>8. ASSUME NEW x, ListsWithin(o, n, x)
      PROVE  ListsWithin(e, n + 1, x)
  BY <1>4, <1>6, <1>8 DEF ListsWithin
<1> QED
  BY <1>7, <1>8 DEF o, e, v

(* One token written at position n. *)
LEMMA OverwriteOne ==
  ASSUME NEW s \in Seq(Tokens), NEW n \in Nat, NEW t \in Ids
  PROVE  /\ Len(Overwrite(s, n, <<t>>)) >= Len(s)
         /\ \A i \in 1..Len(s) : i <= n => Overwrite(s, n, <<t>>)[i] = s[i]
         /\ Overwrite(Overwrite(s, n, <<t>>), n + 1, <<>>) = Overwrite(s, n, <<t>>)
         /\ \A x : ListsWithin(Overwrite(s, n, <<>>), n, x)
                   => ListsWithin(Overwrite(s, n, <<t>>), n + 1, x)
         /\ ListsWithin(Overwrite(s, n, <<t>>), n + 1, t)
<1> DEFINE u == <<t>>
           v == Append(<<>>, t)
<1>1. u \in Seq(Ids) /\ Len(u) = 1 /\ v = u /\ <<>> \in Seq(Ids) /\ Len(<<>>) = 0
  OBVIOUS
<1> HIDE DEF u
<1>2. n = n + Len(<<>>) /\ n + 1 \in Nat /\ n + 1 <= n + Len(u)
  BY <1>1
<1>3. /\ Len(Overwrite(s, n, u)) >= Len(s)
      /\ Overwrite(s, n, u) \in Seq(Tokens)
      /\ \A i \in 1..Len(Overwrite(s, n, u)) :
           Overwrite(s, n, u)[i] = IF i \in n + 1..n + Len(u) THEN u[i - n]
                                   ELSE IF i \in DOMAIN s THEN s[i] ELSE None
  BY <1>1, OverwriteFacts
<1>4. \A i \in 1..Len(s) : i <= n => Overwrite(s, n, u)[i] = s[i]
  BY <1>3
<1>5. Overwrite(Overwrite(s, n, u), n + 1, <<>>) = Overwrite(s, n, u)
  BY <1>1, <1>2, OverwriteAgain
<1>6. /\ \A x : ListsWithin(Overwrite(s, n, <<>>), n, x)
                 => ListsWithin(Overwrite(s, n, v), n + 1, x)
      /\ ListsWithin(Overwrite(s, n, v), n + 1, t)
  <2> HIDE DEF v
  <2>1. /\ \A x : ListsWithin(Overwrite(s, n, <<>>), n, x)
                 => ListsWithin(Overwrite(s, n, Append(<<>>, t)), n + 1, x)
        /\ ListsWithin(Overwrite(s, n, Append(<<>>, t)), n + 1, t)
    BY <1>1, <1>2, OverwriteAppend
  <2> QED
    BY <2>1 DEF v
<1>7. v = u
  BY <1>1
<1> HIDE DEF v
<1> QED
  BY <1>3, <1>4, <1>5, <1>6, <1>7 DEF u

(* The part of a list that is read back has the tokens listed there. *)
LEMMA ListedFacts ==
  ASSUME NEW s \in Seq(Tokens), NEW n \in Nat
  PROVE  /\ Listed(s, n) \in Seq(Tokens)
         /\ n <= Len(s) => Len(Listed(s, n)) = n
         /\ \A x : ListsWithin(s, n, x) => \E k \in DOMAIN Listed(s, n) : Listed(s, n)[k] = x
         /\ \A x : ListsWithin(s, n, x) => ListsWithin(Listed(s, n), n, x)
<1> DEFINE m == IF Len(s) < n THEN Len(s) ELSE n
           r == SubSeq(s, 1, m)
<1>1. m \in 0..Len(s) /\ m <= n /\ (n <= Len(s) => m = n)
  OBVIOUS
<1> HIDE DEF m
<1>2. r \in Seq(Tokens) /\ Len(r) = m /\ \A i \in 1..m : r[i] = s[i]
  BY <1>1
<1>3. Listed(s, n) = r
  BY DEF Listed, m, r
<1> HIDE DEF r
<1>4. ASSUME NEW k \in 1..n, k \in DOMAIN s
      PROVE  k \in 1..m
  BY <1>4, <1>1 DEF m
<1>5. DOMAIN r = 1..m
  BY <1>2
<1>6. ASSUME NEW x, ListsWithin(s, n, x)
      PROVE  /\ \E k \in DOMAIN r : r[k] = x
             /\ ListsWithin(r, n, x)
  <2>1. PICK k \in 1..n : k \in DOMAIN s /\ s[k] = x
    BY <1>6 DEF ListsWithin
  <2>2. k \in 1..m /\ r[k] = x
    BY <1>2, <1>4, <2>1
  <2> QED
    BY <1>5, <2>1, <2>2 DEF ListsWithin
<1> QED
  BY <1>1, <1>2, <1>3, <1>6

-----------------------------------------------------------------------------
(* Types.                                                                  *)

LEMMA ConstantTypes ==
  /\ NoHead \in Heads
  /\ Empty \in Counts
  /\ NoOther \in Dumps
  /\ None \notin Files \cup Ids \cup Counts
  /\ Others \subseteq Dumps
  /\ {MaxInput, Capacity, MaxCapacity, ListGrow, Margin} \subseteq Nat
  /\ \A o \in OptionSets : o \in SUBSET {"m", "H", "O"}
  /\ \A p \in Learners : TokenFile(p) \in Files /\ NewDump(p) \in Files
BY OnlineDumpAssumption
   DEF NoHead, Heading, Heads, Empty, Counts, NoOther, Dumps, Files, TokenFile, NewDump

(* A step of one run leaves the rest to the others. *)
Still(q) ==
  /\ pc'[q] = pc[q] /\ opt'[q] = opt[q] /\ input'[q] = input[q]
  /\ unique'[q] = unique[q] /\ room'[q] = room[q]
  /\ shared'[q] = shared[q] /\ table'[q] = table[q]
  /\ other'[q] = other[q] /\ merged'[q] = merged[q] /\ pending'[q] = pending[q]
  /\ file'[q] = file[q] /\ access'[q] = access[q]
  /\ at'[q] = at[q] /\ used'[q] = used[q] /\ avail'[q] = avail[q]
  /\ buffer'[q] = buffer[q] /\ walked'[q] = walked[q]

LEMMA TypeInit == Init => TypeOK
<1> SUFFICES ASSUME Init PROVE TypeOK
  OBVIOUS
<1> USE ConstantTypes DEF Init
<1>1. DiskType
  BY DEF DiskType
<1>2. PlaceType
  BY DEF PlaceType, Labels
<1>3. CountingType
  BY DEF CountingType
<1>4. MergingType
  BY DEF MergingType
<1>5. TmpType
  BY DEF TmpType
<1>6. \A p \in Learners : ~Running(p) /\ IdleAt(p) /\ pc[p] # "copy"
  BY DEF Running, Ended, IdleAt
<1> QED
  BY <1>1, <1>2, <1>3, <1>4, <1>5, <1>6 DEF TypeOK

(* The end of a process. *)
LEMMA ExitType ==
  ASSUME TypeOK, NEW p \in Learners, NEW l \in Ended, Exit(p, l), UNCHANGED online
  PROVE  /\ TypeOK'
         /\ ~Running(p)' /\ pc'[p] = l
         /\ \A q \in Learners \ {p} : Still(q)
<1> USE ConstantTypes DEF TypeOK, Exit, GoTo
<1>1. DiskType'
  BY DEF DiskType
<1>2. PlaceType' /\ pc' = [pc EXCEPT ![p] = l]
  BY DEF PlaceType, Labels, Ended
<1>3. CountingType'
  BY DEF CountingType
<1>4. MergingType'
  BY DEF MergingType
<1>5. TmpType'
  BY DEF TmpType
<1>6. \A q \in Learners \ {p} : Still(q)
  BY DEF Still, PlaceType, CountingType, MergingType, TmpType
<1>7. IdleAt(p)'
  BY DEF IdleAt, CountingType, MergingType, TmpType
<1>8. pc'[p] = l /\ ~Running(p)'
  BY <1>2 DEF Running, PlaceType
<1>9. \A q \in Learners \ {p} : Running(q)' = Running(q) /\ OpenAt(q)' = OpenAt(q)
                                  /\ IdleAt(q)' = IdleAt(q)
  BY <1>6 DEF Still, Running, OpenAt, IdleAt
<1>10. \A q \in Learners : IF Running(q)' THEN OpenAt(q)' ELSE IdleAt(q)'
  BY <1>7, <1>8, <1>9
<1>11. \A q \in Learners : pc'[q] = "copy" => buffer'[q] = <<>>
  BY <1>6, <1>8 DEF Still, Ended
<1> QED
  BY <1>1, <1>2, <1>3, <1>4, <1>5, <1>6, <1>8, <1>10, <1>11 DEF TypeOK

(* What a run writes of its own keeps the types of the rest. *)
LEMMA StepType ==
  ASSUME TypeOK, NEW p \in Learners,
         DiskType', PlaceType', CountingType', MergingType', TmpType',
         \A q \in Learners \ {p} : Still(q),
         Running(p)', OpenAt(p)', pc'[p] = "copy" => buffer'[p] = <<>>
  PROVE  TypeOK'
<1>1. \A q \in Learners \ {p} : Running(q)' = Running(q) /\ OpenAt(q)' = OpenAt(q)
                                  /\ IdleAt(q)' = IdleAt(q)
  BY DEF Still, Running, OpenAt, IdleAt
<1>2. \A q \in Learners : IF Running(q)' THEN OpenAt(q)' ELSE IdleAt(q)'
  BY <1>1 DEF TypeOK
<1>3. \A q \in Learners : pc'[q] = "copy" => buffer'[q] = <<>>
  BY DEF Still, TypeOK
<1> QED
  BY <1>2, <1>3 DEF TypeOK

LEMMA FlushedType ==
  ASSUME TypeOK, NEW p \in Learners, Running(p)
  PROVE  /\ Flushed(p) \in Seq(Tokens)
         /\ file[p] \in Files
         /\ list[file[p]] \in Seq(Tokens)
         /\ at[p] - Len(buffer[p]) \in Nat
<1>1. /\ file[p] \in Files /\ list[file[p]] \in Seq(Tokens)
      /\ at[p] \in Nat /\ buffer[p] \in Seq(Ids) /\ Len(buffer[p]) <= at[p]
  BY DEF TypeOK, OpenAt, DiskType, TmpType, Tokens
<1>2. at[p] - Len(buffer[p]) \in Nat
  BY <1>1
<1> QED
  BY <1>1, <1>2, OverwriteFacts DEF Flushed

LEMMA WriteTokenType ==
  ASSUME TypeOK, NEW p \in Learners, Running(p), NEW t \in Ids,
         WriteToken(p, t), UNCHANGED walked
  PROVE  /\ TmpType' /\ list' \in [Files -> Seq(Tokens)]
         /\ OpenAt(p)'
         /\ \A q \in Learners \ {p} :
              /\ file'[q] = file[q] /\ access'[q] = access[q]
              /\ at'[q] = at[q] /\ used'[q] = used[q] /\ avail'[q] = avail[q]
              /\ buffer'[q] = buffer[q] /\ walked'[q] = walked[q]
<1> USE ConstantTypes DEF TypeOK
<1>1. /\ file[p] \in Files /\ list[file[p]] \in Seq(Tokens)
      /\ at[p] \in Nat /\ buffer[p] \in Seq(Ids) /\ Len(buffer[p]) <= at[p]
  BY DEF OpenAt, DiskType, TmpType, Tokens
<1>2. <<t>> \in Seq(Ids) /\ Append(buffer[p], t) \in Seq(Ids)
      /\ Len(Append(buffer[p], t)) = Len(buffer[p]) + 1
  BY <1>1
<1>3. PICK a \in Accesses(p) \ {"stale"} :
        LET k == IF a = "stdio" /\ access[p] # "stdio" THEN Resumed(p) ELSE at[p] IN
        /\ access' = [access EXCEPT ![p] = a]
        /\ at' = [at EXCEPT ![p] = k + 1]
        /\ \/ /\ a = "map"
              /\ list' = [list EXCEPT ![file[p]] = Overwrite(@, k, <<t>>)]
              /\ used' = [used EXCEPT ![p] = k + 1]
              /\ UNCHANGED buffer
           \/ /\ a = "stdio"
              /\ buffer' = [buffer EXCEPT ![p] = Append(@, t)]
              /\ used' = [used EXCEPT ![p] = @ + 1]
              /\ UNCHANGED list
  BY DEF WriteToken
<1>4. /\ a \in {"stdio", "map", "stale"}
      /\ at' = [at EXCEPT ![p] = at[p] + 1]
      /\ access' = [access EXCEPT ![p] = a]
  BY <1>3 DEF Accesses, Resumed, TmpType
<1>5. avail' \in [Learners -> Nat] /\ \A q \in Learners \ {p} : avail'[q] = avail[q]
  BY DEF WriteToken, TmpType
<1>8. UNCHANGED file
  BY DEF WriteToken
<1>9. /\ at' \in [Learners -> Nat] /\ access' \in [Learners -> {"stdio", "map", "stale"}]
      /\ at'[p] = at[p] + 1
      /\ \A q \in Learners \ {p} : at'[q] = at[q] /\ access'[q] = access[q]
  BY <1>1, <1>4 DEF TmpType
<1>6. CASE a = "map"
  <2>1. /\ list' = [list EXCEPT ![file[p]] = Overwrite(@, at[p], <<t>>)]
        /\ used' = [used EXCEPT ![p] = at[p] + 1]
        /\ UNCHANGED buffer
    BY <1>3, <1>6 DEF Resumed
  <2>2. Overwrite(list[file[p]], at[p], <<t>>) \in Seq(Tokens)
    BY <1>1, <1>2, OverwriteFacts
  <2>3. list' \in [Files -> Seq(Tokens)]
    BY <2>1, <2>2 DEF DiskType, Tokens
  <2>4. /\ used' \in [Learners -> Nat] /\ \A q \in Learners \ {p} : used'[q] = used[q]
        /\ buffer' \in [Learners -> Seq(Ids)]
        /\ \A q \in Learners : buffer'[q] = buffer[q]
    BY <1>1, <2>1 DEF TmpType
  <2>5. OpenAt(p)'
    BY <1>1, <1>8, <1>9, <2>4 DEF OpenAt
  <2> QED
    BY <1>5, <1>8, <1>9, <2>3, <2>4, <2>5 DEF TmpType
<1>7. CASE a = "stdio"
  <2>1. /\ buffer' = [buffer EXCEPT ![p] = Append(@, t)]
        /\ used' = [used EXCEPT ![p] = @ + 1]
        /\ UNCHANGED list
    BY <1>3, <1>7
  <2>2. list' \in [Files -> Seq(Tokens)]
    BY <2>1 DEF DiskType, Tokens
  <2>3. /\ used' \in [Learners -> Nat] /\ \A q \in Learners \ {p} : used'[q] = used[q]
        /\ buffer' \in [Learners -> Seq(Ids)]
        /\ buffer'[p] = Append(buffer[p], t)
        /\ \A q \in Learners \ {p} : buffer'[q] = buffer[q]
    BY <1>2, <2>1 DEF TmpType
  <2>4. OpenAt(p)'
    BY <1>1, <1>2, <1>8, <1>9, <2>3 DEF OpenAt
  <2> QED
    BY <1>5, <1>8, <1>9, <2>2, <2>3, <2>4 DEF TmpType
<1> QED
  BY <1>3, <1>6, <1>7

LEMMA CountType ==
  ASSUME TypeOK, NEW p \in Learners, Running(p), NEW t \in Ids, NEW n \in Nat,
         Count(p, t, n)
  PROVE  /\ CountingType' /\ items' \in [Files -> Counts]
         /\ Table(p) \in Counts
         /\ \A q \in Learners \ {p} :
              /\ unique'[q] = unique[q] /\ room'[q] = room[q]
              /\ shared'[q] = shared[q] /\ table'[q] = table[q]
<1>1. file[p] \in Files /\ Table(p) \in Counts
  BY DEF TypeOK, OpenAt, DiskType, CountingType, Table
<1>2. Increase(Table(p), t, n) \in Counts
  BY <1>1 DEF Increase, Counts
<1> DEFINE new == Increase(Contents(p, t), t, n)
<1>3. new \in Counts
  BY <1>2 DEF Contents
<1> HIDE DEF new
<1>4. items' \in [Files -> Counts] /\ table' \in [Learners -> Counts]
      /\ \A q \in Learners \ {p} : table'[q] = table[q]
  <2>1. IF shared[p] /\ ~Grows(p, t)
        THEN items' = [items EXCEPT ![file[p]] = new] /\ UNCHANGED table
        ELSE table' = [table EXCEPT ![p] = new] /\ UNCHANGED items
    BY DEF Count, new
  <2> QED
    BY <1>1, <1>3, <2>1 DEF TypeOK, DiskType, CountingType
<1>5. unique' \in [Learners -> Nat] /\ \A q \in Learners \ {p} : unique'[q] = unique[q]
  BY DEF Count, TypeOK, CountingType
<1>6. room' \in [Learners -> Nat] /\ \A q \in Learners \ {p} : room'[q] = room[q]
  BY DEF Count, TypeOK, CountingType
<1>7. shared' \in [Learners -> BOOLEAN] /\ \A q \in Learners \ {p} : shared'[q] = shared[q]
  <2>1. shared' = [shared EXCEPT ![p] = shared[p] /\ ~Grows(p, t)]
    BY DEF Count
  <2>2. (shared[p] /\ ~Grows(p, t)) \in BOOLEAN
    BY Zenon
  <2> QED
    BY <2>1, <2>2 DEF TypeOK, CountingType
<1> QED
  BY <1>1, <1>4, <1>5, <1>6, <1>7 DEF CountingType

LEMMA BeginType ==
  ASSUME TypeOK, NEW p \in Learners, BeginEmpty(p) \/ Load(p)
  PROVE  TypeOK' /\ Running(p)' /\ \A q \in Learners \ {p} : Still(q)
<1> USE ConstantTypes DEF TypeOK
<1>1. PICK o \in OptionSets :
        /\ opt' = [opt EXCEPT ![p] = o]
        /\ IF "O" \in o
           THEN GoTo(p, "mergeTokens") /\ \E d \in Others : other' = [other EXCEPT ![p] = d]
           ELSE GoTo(p, "learn") /\ UNCHANGED other
  BY DEF BeginEmpty, Load, Options
<1>2. PICK l \in {"mergeTokens", "learn"} : pc' = [pc EXCEPT ![p] = l]
  BY <1>1 DEF GoTo
<1>3. /\ pc' \in [Learners -> Labels] /\ pc'[p] = l
      /\ opt' \in [Learners -> SUBSET {"m", "H", "O"}]
      /\ other' \in [Learners -> Dumps]
      /\ \A q \in Learners \ {p} : pc'[q] = pc[q] /\ opt'[q] = opt[q] /\ other'[q] = other[q]
  <2>1. o \in SUBSET {"m", "H", "O"}
    OBVIOUS
  <2>2. UNCHANGED other \/ \E d \in Dumps : other' = [other EXCEPT ![p] = d]
    BY <1>1
  <2>3. pc' \in [Learners -> Labels] /\ pc'[p] = l /\ \A q \in Learners \ {p} : pc'[q] = pc[q]
    BY <1>2 DEF PlaceType, Labels
  <2>4. /\ opt' \in [Learners -> SUBSET {"m", "H", "O"}]
        /\ \A q \in Learners \ {p} : opt'[q] = opt[q]
    BY <1>1, <2>1 DEF PlaceType
  <2>5. other' \in [Learners -> Dumps] /\ \A q \in Learners \ {p} : other'[q] = other[q]
    BY <2>2 DEF MergingType
  <2> QED
    BY <2>3, <2>4, <2>5
<1>4. ~Running(p) /\ IdleAt(p)
  BY DEF BeginEmpty, Load, Running
<1>5. /\ UNCHANGED <<disk, input, merged, pending, buffer, walked>>
      /\ Running(p)'
  BY <1>3 DEF BeginEmpty, Load, Running, Ended
<1>6. CASE BeginEmpty(p)
  <2>1. /\ file' = [file EXCEPT ![p] = TokenFile(p)]
        /\ UNCHANGED <<counting, access, at, used, avail>>
    BY <1>6 DEF BeginEmpty
  <2>2. DiskType' /\ PlaceType' /\ CountingType' /\ MergingType' /\ TmpType'
    BY <1>3, <1>5, <2>1 DEF disk, counting, DiskType, PlaceType, CountingType, MergingType, TmpType
  <2>3. OpenAt(p)'
    BY <1>4, <1>5, <2>1 DEF OpenAt, IdleAt, TmpType
  <2>4. \A q \in Learners \ {p} : Still(q)
    BY <1>3, <1>5, <2>1 DEF Still, counting, TmpType
  <2> QED
    BY <1>3, <1>5, <2>2, <2>3, <2>4, StepType
<1>7. CASE Load(p)
  <2>1. /\ online \in Files /\ head[online] \in Heads /\ items[online] \in Counts
        /\ head[online].unique \in Nat /\ head[online].room \in Nat
        /\ head[online].used \in Nat /\ head[online].avail \in Nat
    BY <1>7 DEF Load, DiskType, Heads
  <2>2. /\ file' = [file EXCEPT ![p] = online]
        /\ unique' = [unique EXCEPT ![p] = head[online].unique]
        /\ room' = [room EXCEPT ![p] = head[online].room]
        /\ used' = [used EXCEPT ![p] = head[online].used]
        /\ at' = [at EXCEPT ![p] = head[online].used]
        /\ avail' = [avail EXCEPT ![p] = head[online].avail]
    BY <1>7 DEF Load
  <2>3. PICK sh \in BOOLEAN, tb \in {Empty, items[online]}, ac \in {"map", "stdio", "stale"} :
          /\ shared' = [shared EXCEPT ![p] = sh]
          /\ table' = [table EXCEPT ![p] = tb]
          /\ access' = [access EXCEPT ![p] = ac]
    <3>1. CASE "m" \in opt'[p]
      <4>1. PICK mapped \in BOOLEAN :
              /\ shared' = [shared EXCEPT ![p] = mapped]
              /\ table' = [table EXCEPT ![p] = IF mapped THEN Empty ELSE items[online]]
        BY <1>7, <3>1 DEF Load
      <4>2. PICK ac \in {"map", "stdio"} : access' = [access EXCEPT ![p] = ac]
        BY <1>7, <3>1 DEF Load
      <4> QED
        BY <4>1, <4>2
    <3>2. CASE "m" \notin opt'[p]
      <4>1. /\ table' = [table EXCEPT ![p] = items[online]]
            /\ access' = [access EXCEPT ![p] =
                            IF head[online].address THEN "stale" ELSE "stdio"]
            /\ UNCHANGED shared
        BY <1>7, <3>2 DEF Load
      <4>2. shared' = [shared EXCEPT ![p] = FALSE]
        BY <4>1, <1>4 DEF IdleAt, CountingType
      <4> QED
        BY <4>1, <4>2
    <3> QED
      BY <3>1, <3>2
  <2>4. DiskType' /\ PlaceType' /\ MergingType'
    BY <1>3, <1>5 DEF disk, DiskType, PlaceType, MergingType
  <2>5. CountingType'
    BY <2>1, <2>2, <2>3 DEF CountingType
  <2>6. TmpType'
    BY <1>5, <2>1, <2>2, <2>3 DEF TmpType
  <2>7. OpenAt(p)'
    <3>1. buffer'[p] = <<>> /\ at'[p] \in Nat /\ file'[p] \in Files
      BY <1>4, <1>5, <2>1, <2>2 DEF IdleAt, TmpType
    <3> QED
      BY <3>1 DEF OpenAt
  <2>8. \A q \in Learners \ {p} : Still(q)
    BY <1>3, <1>5, <2>2, <2>3 DEF Still, CountingType, TmpType
  <2> QED
    BY <1>3, <1>5, <2>4, <2>5, <2>6, <2>7, <2>8, StepType
<1> QED
  BY <1>5, <1>6, <1>7

(* The actions at whose end the process has gone. *)
Ends(p) ==
  \/ LoadFaults(p) \/ MergeFaults(p) \/ ListFaults(p) \/ NothingLearned(p) \/ Save(p)
  \/ ReadFaults(p) \/ Crash(p) \/ \E t \in Ids : NewFaults(p, t)

LEMMA EndsExit ==
  ASSUME NEW p \in Learners, Ends(p)
  PROVE  /\ \E l \in Ended : Exit(p, l)
         /\ UNCHANGED online
         /\ LoadFaults(p) \/ Running(p)
BY DEF Ends, LoadFaults, MergeFaults, ListFaults, NothingLearned, Save, ReadFaults, Crash,
       NewFaults, MoreInput, Ended, Running

LEMMA EndsType ==
  ASSUME TypeOK, NEW p \in Learners, Ends(p)
  PROVE  TypeOK' /\ ~Running(p)' /\ \A q \in Learners \ {p} : Still(q)
<1>1. PICK l \in Ended : Exit(p, l)
  BY EndsExit
<1> QED
  BY <1>1, EndsExit, ExitType

(* The actions between the first and the last of a run. *)
Merges(p) ==
  \/ MergeToken(p) \/ TokensMerged(p) \/ Merged(p) \/ \E t \in Ids : MergeItem(p, t)

Learns(p) ==
  \E t \in Ids : CountKnown(p, t) \/ CountNew(p, t) \/ Refuse(p, t)

Saves(p) ==
  \/ EndOfInput(p) \/ DumpInPlace(p) \/ DumpSeek(p) \/ DumpCopy(p)
  \/ DumpRename(p) \/ DumpFails(p) \/ Walk(p)

Works(p) == Merges(p) \/ Learns(p) \/ Saves(p) \/ Flush(p)

LEMMA StepKinds ==
  ASSUME NEW p \in Learners, Run(p) \/ Flush(p) \/ Crash(p)
  PROVE  BeginEmpty(p) \/ Load(p) \/ Ends(p) \/ Works(p)
BY DEF Run, Ends, Works, Merges, Learns, Saves

LEMMA GoToType ==
  ASSUME TypeOK, NEW p \in Learners, NEW l \in Labels \ (Ended \cup {"off"}), GoTo(p, l)
  PROVE  /\ pc' \in [Learners -> Labels] /\ pc'[p] = l /\ Running(p)'
         /\ \A q \in Learners \ {p} : pc'[q] = pc[q]
BY DEF TypeOK, PlaceType, GoTo, Running

LEMMA MergesType ==
  ASSUME TypeOK, NEW p \in Learners, Merges(p)
  PROVE  /\ TypeOK' /\ Running(p) /\ Running(p)'
         /\ \A q \in Learners \ {p} : Still(q)
<1> USE ConstantTypes
<1>0. Running(p)
  BY DEF Merges, MergeToken, TokensMerged, Merged, MergeItem, Running, Ended
<1>1. OpenAt(p)
  BY <1>0 DEF TypeOK
<1>9. pc'[p] # "copy"
  BY DEF Merges, MergeToken, TokensMerged, Merged, MergeItem, GoTo, TypeOK, PlaceType
<1>2. CASE MergeToken(p)
  <2>1. UNCHANGED <<online, head, items, pc, opt, input, counting, other, pending, walked>>
    BY <1>2 DEF MergeToken
  <2>2. merged' \in [Learners -> Nat] /\ \A q \in Learners \ {p} : merged'[q] = merged[q]
    BY <1>2 DEF MergeToken, TypeOK, MergingType
  <2>3. /\ TmpType' /\ list' \in [Files -> Seq(Tokens)] /\ OpenAt(p)'
        /\ \A q \in Learners \ {p} :
              /\ file'[q] = file[q] /\ access'[q] = access[q]
              /\ at'[q] = at[q] /\ used'[q] = used[q] /\ avail'[q] = avail[q]
              /\ buffer'[q] = buffer[q] /\ walked'[q] = walked[q]
    <3>1. CASE ToList(p) /\ WriteToken(p, NextListed(p))
      <4>1. NextListed(p) \in Ids
        <5>1. other[p].list \in Seq(Ids) /\ merged[p] \in Nat
          BY DEF TypeOK, MergingType, Dumps
        <5>2. merged[p] + 1 \in 1..Len(other[p].list)
          BY <1>2, <5>1 DEF MergeToken
        <5> QED
          BY <5>1, <5>2 DEF NextListed
      <4>2. UNCHANGED walked
        BY <2>1
      <4> QED
        BY <1>0, <3>1, <4>1, <4>2, WriteTokenType
    <3>2. CASE UNCHANGED <<list, tmp>>
      BY <1>1, <2>1, <3>2 DEF TypeOK, DiskType, TmpType, OpenAt, tmp, Tokens
    <3> QED
      BY <1>2, <3>1, <3>2 DEF MergeToken
  <2>4. DiskType' /\ PlaceType' /\ CountingType' /\ MergingType' /\ TmpType'
    BY <2>1, <2>2, <2>3 DEF TypeOK, DiskType, PlaceType, CountingType, MergingType, counting, Tokens
  <2>5. Running(p)' /\ \A q \in Learners \ {p} : Still(q)
    BY <1>0, <1>9, <2>1, <2>2, <2>3 DEF Running, Still, counting
  <2> QED
    BY <1>0, <1>9, <2>3, <2>4, <2>5, StepType
<1>3. CASE TokensMerged(p)
  <2>1. /\ UNCHANGED <<disk, opt, input, counting, other, merged, tmp, walked>>
        /\ pending' = [pending EXCEPT ![p] = Filled(other[p].items)]
        /\ GoTo(p, "mergeHashes")
    BY <1>3 DEF TokensMerged
  <2>2. /\ pc' \in [Learners -> Labels] /\ Running(p)'
        /\ \A q \in Learners \ {p} : pc'[q] = pc[q]
    BY <2>1, GoToType DEF Labels, Ended
  <2>3. Filled(other[p].items) \in SUBSET Ids
    BY DEF Filled
  <2>4. DiskType' /\ PlaceType' /\ CountingType' /\ MergingType' /\ TmpType'
    BY <2>1, <2>2, <2>3
       DEF TypeOK, DiskType, PlaceType, CountingType, MergingType, TmpType, counting, disk, tmp
  <2>5. OpenAt(p)' /\ \A q \in Learners \ {p} : Still(q)
    BY <1>1, <2>1, <2>2 DEF OpenAt, Still, counting, tmp, TypeOK, MergingType
  <2> QED
    BY <1>0, <1>9, <2>2, <2>4, <2>5, StepType
<1>4. CASE Merged(p)
  <2>1. UNCHANGED <<disk, opt, input, counting, merging, tmp, walked>> /\ GoTo(p, "learn")
    BY <1>4 DEF Merged
  <2>2. /\ pc' \in [Learners -> Labels] /\ Running(p)'
        /\ \A q \in Learners \ {p} : pc'[q] = pc[q]
    BY <2>1, GoToType DEF Labels, Ended
  <2>4. DiskType' /\ PlaceType' /\ CountingType' /\ MergingType' /\ TmpType'
    BY <2>1, <2>2
       DEF TypeOK, DiskType, PlaceType, CountingType, MergingType, TmpType, counting, disk, tmp, merging
  <2>5. OpenAt(p)' /\ \A q \in Learners \ {p} : Still(q)
    BY <1>1, <2>1, <2>2 DEF OpenAt, Still, counting, tmp, merging
  <2> QED
    BY <1>0, <1>9, <2>2, <2>4, <2>5, StepType
<1>5. CASE \E t \in Ids : MergeItem(p, t)
  <2>0. PICK t \in Ids : MergeItem(p, t)
    BY <1>5
  <2>1. /\ UNCHANGED <<online, head, list, pc, opt, input, other, merged, tmp, walked>>
        /\ pending' = [pending EXCEPT ![p] = @ \ {t}]
    BY <2>0 DEF MergeItem
  <2>2. pending' \in [Learners -> SUBSET Ids] /\ \A q \in Learners \ {p} : pending'[q] = pending[q]
    BY <2>1 DEF TypeOK, MergingType
  <2>3. /\ CountingType' /\ items' \in [Files -> Counts]
        /\ \A q \in Learners \ {p} :
              /\ unique'[q] = unique[q] /\ room'[q] = room[q]
              /\ shared'[q] = shared[q] /\ table'[q] = table[q]
    <3>1. CASE Count(p, t, other[p].items[t])
      <4>1. other[p].items[t] \in Nat
        BY DEF TypeOK, MergingType, Dumps, Counts
      <4> QED
        BY <1>0, <3>1, <4>1, CountType
    <3>2. CASE UNCHANGED <<counting, items>>
      BY <3>2 DEF TypeOK, CountingType, DiskType, counting
    <3> QED
      BY <2>0, <3>1, <3>2 DEF MergeItem
  <2>4. DiskType' /\ PlaceType' /\ MergingType' /\ TmpType'
    BY <2>1, <2>2, <2>3 DEF TypeOK, DiskType, PlaceType, MergingType, TmpType, tmp
  <2>5. Running(p)' /\ OpenAt(p)' /\ \A q \in Learners \ {p} : Still(q)
    BY <1>0, <1>1, <2>1, <2>2, <2>3 DEF Running, OpenAt, Still, tmp
  <2> QED
    BY <1>0, <1>9, <2>3, <2>4, <2>5, StepType
<1> QED
  BY <1>2, <1>3, <1>4, <1>5 DEF Merges

LEMMA LearnsType ==
  ASSUME TypeOK, NEW p \in Learners, Learns(p)
  PROVE  /\ TypeOK' /\ Running(p) /\ Running(p)'
         /\ \A q \in Learners \ {p} : Still(q)
<1>0. PICK t \in Ids : CountKnown(p, t) \/ CountNew(p, t) \/ Refuse(p, t)
  BY DEF Learns
<1>1. /\ ReadInput(p) /\ UNCHANGED pc /\ Running(p) /\ pc[p] = "learn"
      /\ UNCHANGED <<online, head, opt, merging, walked>>
  BY <1>0 DEF CountKnown, CountNew, Refuse, ReadInput, MoreInput, Running, Ended
<1>2. input' \in [Learners -> Nat] /\ \A q \in Learners \ {p} : input'[q] = input[q]
  BY <1>1 DEF ReadInput, MoreInput, TypeOK, PlaceType
<1>3. OpenAt(p)
  BY <1>1 DEF TypeOK
<1>4. /\ CountingType' /\ items' \in [Files -> Counts]
      /\ \A q \in Learners \ {p} :
            /\ unique'[q] = unique[q] /\ room'[q] = room[q]
            /\ shared'[q] = shared[q] /\ table'[q] = table[q]
  <2>1. CASE Count(p, t, 1)
    BY <1>1, <2>1, CountType
  <2>2. CASE UNCHANGED <<counting, items>>
    BY <2>2 DEF TypeOK, CountingType, DiskType, counting
  <2> QED
    BY <1>0, <2>1, <2>2 DEF CountKnown, CountNew, Refuse
<1>5. /\ TmpType' /\ list' \in [Files -> Seq(Tokens)] /\ OpenAt(p)'
      /\ \A q \in Learners \ {p} :
            /\ file'[q] = file[q] /\ access'[q] = access[q]
            /\ at'[q] = at[q] /\ used'[q] = used[q] /\ avail'[q] = avail[q]
            /\ buffer'[q] = buffer[q] /\ walked'[q] = walked[q]
  <2>1. CASE WriteToken(p, t)
    BY <1>1, <2>1, WriteTokenType
  <2>2. CASE UNCHANGED <<list, tmp>>
    BY <1>1, <1>3, <2>2 DEF TypeOK, DiskType, TmpType, OpenAt, tmp, Tokens
  <2> QED
    BY <1>0, <2>1, <2>2 DEF CountKnown, CountNew, Refuse
<1>6. DiskType' /\ PlaceType' /\ MergingType'
  BY <1>1, <1>2, <1>4, <1>5 DEF TypeOK, DiskType, PlaceType, MergingType, merging, Tokens
<1>7. Running(p)' /\ \A q \in Learners \ {p} : Still(q)
  BY <1>1, <1>2, <1>4, <1>5 DEF Running, Still, merging
<1> QED
  BY <1>1, <1>4, <1>5, <1>6, <1>7, StepType

LEMMA SeekStartType ==
  ASSUME TypeOK, NEW p \in Learners, Running(p), SeekStart(p), UNCHANGED <<file, access, used, avail>>,
         walked' \in [Learners -> Seq(Tokens)]
  PROVE  /\ TmpType' /\ list' \in [Files -> Seq(Tokens)] /\ OpenAt(p)'
         /\ \A q \in Learners \ {p} : at'[q] = at[q] /\ buffer'[q] = buffer[q]
<1>1. Flushed(p) \in Seq(Tokens) /\ file[p] \in Files
  BY FlushedType
<1>2. /\ list' \in [Files -> Seq(Tokens)] /\ at' \in [Learners -> Nat]
      /\ buffer' \in [Learners -> Seq(Ids)]
      /\ at'[p] = 0 /\ buffer'[p] = <<>>
      /\ \A q \in Learners \ {p} : at'[q] = at[q] /\ buffer'[q] = buffer[q]
  BY <1>1 DEF SeekStart, TypeOK, DiskType, TmpType, Tokens
<1>3. TmpType'
  BY <1>2 DEF TypeOK, TmpType, Tokens
<1>4. OpenAt(p)'
  BY <1>1, <1>2 DEF OpenAt
<1> QED
  BY <1>2, <1>3, <1>4

LEMMA FlushTypes ==
  ASSUME TypeOK, NEW p \in Learners, Flush(p)
  PROVE  /\ TypeOK' /\ Running(p) /\ Running(p)'
         /\ \A q \in Learners \ {p} : Still(q)
<1>1. /\ Running(p) /\ Running(p)' /\ OpenAt(p)
      /\ UNCHANGED <<online, head, items, pc, opt, input, counting, merging,
                     file, access, at, used, avail, walked>>
      /\ list' = [list EXCEPT ![file[p]] = Flushed(p)]
      /\ buffer' = [buffer EXCEPT ![p] = <<>>]
  BY DEF Flush, TypeOK, Running
<1>2. Flushed(p) \in Seq(Tokens) /\ file[p] \in Files /\ at[p] \in Nat
  BY <1>1, FlushedType DEF TypeOK, TmpType
<1>3. buffer' \in [Learners -> Seq(Ids)] /\ buffer'[p] = <<>>
      /\ \A q \in Learners \ {p} : buffer'[q] = buffer[q]
  BY <1>1 DEF TypeOK, TmpType
<1>4. DiskType' /\ PlaceType' /\ CountingType' /\ MergingType' /\ TmpType'
  BY <1>1, <1>2, <1>3
     DEF TypeOK, DiskType, PlaceType, CountingType, MergingType, TmpType, counting, merging, Tokens
<1>5. OpenAt(p)' /\ \A q \in Learners \ {p} : Still(q)
  BY <1>1, <1>2, <1>3 DEF OpenAt, Still, counting, merging
<1> QED
  BY <1>1, <1>3, <1>4, <1>5, StepType

LEMMA SavesType ==
  ASSUME TypeOK, NEW p \in Learners, Saves(p)
  PROVE  /\ TypeOK' /\ Running(p) /\ Running(p)'
         /\ \A q \in Learners \ {p} : Still(q)
<1> USE ConstantTypes
<1>1. /\ Running(p)
      /\ UNCHANGED <<opt, input, counting, merging, file, access, used, avail>>
      /\ \E l \in {"dump", "walk", "copy", "rename", "save"} : GoTo(p, l)
  BY DEF Saves, EndOfInput, DumpInPlace, DumpSeek, DumpCopy, DumpRename, DumpFails, Walk,
         Running, Ended, tmp
<1>2. /\ pc' \in [Learners -> Labels] /\ Running(p)'
      /\ \A q \in Learners \ {p} : pc'[q] = pc[q]
  <2>1. PICK l \in {"dump", "walk", "copy", "rename", "save"} : GoTo(p, l)
    BY <1>1
  <2> QED
    BY <2>1, GoToType DEF Labels, Ended
<1>3. OpenAt(p) /\ file[p] \in Files
  BY <1>1 DEF TypeOK, OpenAt
<1>4. /\ online' \in Files \cup {None}
      /\ head' \in [Files -> Heads]
      /\ items' \in [Files -> Counts]
  <2>1. Struct(p) \in Heads
    <3>1. (access[p] # "stdio") \in BOOLEAN
      BY Zenon
    <3>2. /\ unique[p] \in Nat /\ room[p] \in Nat /\ used[p] \in Nat /\ avail[p] \in Nat
      BY DEF TypeOK, CountingType, TmpType
    <3> QED
      BY <3>1, <3>2 DEF Struct, Heading, Heads
  <2>2. online' = online \/ online' = NewDump(p)
    BY DEF Saves, EndOfInput, DumpInPlace, DumpSeek, DumpCopy, DumpRename, DumpFails, Walk, disk
  <2>3. \/ UNCHANGED head
        \/ head' = [head EXCEPT ![file[p]] = Struct(p)]
        \/ head' = [head EXCEPT ![NewDump(p)] = Struct(p)]
    BY DEF Saves, EndOfInput, DumpInPlace, DumpSeek, DumpCopy, DumpRename, DumpFails, Walk, disk
  <2>4. UNCHANGED items \/ items' = [items EXCEPT ![NewDump(p)] = table[p]]
    BY DEF Saves, EndOfInput, DumpInPlace, DumpSeek, DumpCopy, DumpRename, DumpFails, Walk, disk
  <2>5. table[p] \in Counts
    BY DEF TypeOK, CountingType
  <2> QED
    BY <1>3, <2>1, <2>2, <2>3, <2>4, <2>5 DEF TypeOK, DiskType
<1>5. /\ TmpType' /\ list' \in [Files -> Seq(Tokens)] /\ OpenAt(p)'
      /\ pc'[p] = "copy" => buffer'[p] = <<>>
      /\ \A q \in Learners \ {p} : at'[q] = at[q] /\ buffer'[q] = buffer[q] /\ walked'[q] = walked[q]
  <2>1. CASE DumpSeek(p) \/ Walk(p)
    <3>1. SeekStart(p)
      BY <2>1 DEF DumpSeek, Walk
    <3>2. /\ walked' \in [Learners -> Seq(Tokens)]
          /\ \A q \in Learners \ {p} : walked'[q] = walked[q]
      <4>1. Flushed(p) \in Seq(Tokens) /\ used[p] \in Nat
        BY <1>1, FlushedType DEF TypeOK, TmpType
      <4>2. Listed(Flushed(p), used[p]) \in Seq(Tokens)
        <5> DEFINE n == IF Len(Flushed(p)) < used[p] THEN Len(Flushed(p)) ELSE used[p]
        <5>1. n \in 0..Len(Flushed(p))
          BY <4>1
        <5>2. SubSeq(Flushed(p), 1, n) \in Seq(Tokens)
          BY <4>1, <5>1
        <5> QED
          BY <5>2 DEF Listed
      <4>3. UNCHANGED walked \/ walked' = [walked EXCEPT ![p] = Listed(Flushed(p), used[p])]
        BY <2>1 DEF DumpSeek, Walk
      <4>4. walked \in [Learners -> Seq(Tokens)]
        BY DEF TypeOK, TmpType, Tokens
      <4> HIDE DEF Listed
      <4> QED
        BY <4>2, <4>3, <4>4
    <3>3. buffer'[p] = <<>>
      BY <3>1 DEF SeekStart, TypeOK, TmpType
    <3> QED
      BY <1>1, <3>1, <3>2, <3>3, SeekStartType
  <2>2. CASE DumpCopy(p)
    <3>1. /\ at' = [at EXCEPT ![p] = used[p]]
          /\ list' = [list EXCEPT ![NewDump(p)] = Listed(list[file[p]], used[p])]
          /\ UNCHANGED <<buffer, walked>>
          /\ pc[p] = "copy"
      BY <2>2 DEF DumpCopy
    <3>2. list[file[p]] \in Seq(Tokens) /\ used[p] \in Nat
      BY <1>3 DEF TypeOK, DiskType, TmpType, Tokens
    <3>3. Listed(list[file[p]], used[p]) \in Seq(Tokens)
      <5> DEFINE s == list[file[p]]
      <5> DEFINE n == IF Len(s) < used[p] THEN Len(s) ELSE used[p]
      <5>1. n \in 0..Len(s)
        BY <3>2
      <5>2. SubSeq(s, 1, n) \in Seq(Tokens)
        BY <3>2, <5>1
      <5> QED
        BY <5>2 DEF Listed
    <3>4. buffer[p] = <<>> /\ at'[p] = used[p]
      BY <3>1 DEF TypeOK, TmpType
    <3>5. OpenAt(p)'
      BY <1>1, <1>3, <3>1, <3>2, <3>4 DEF OpenAt
    <3>6. /\ at' \in [Learners -> Nat] /\ \A q \in Learners \ {p} : at'[q] = at[q]
          /\ list' \in [Files -> Seq(Tokens)]
      BY <3>1, <3>2, <3>3 DEF TypeOK, DiskType, TmpType, Tokens
    <3> QED
      BY <1>1, <3>1, <3>4, <3>5, <3>6 DEF TypeOK, TmpType
  <2>3. CASE /\ UNCHANGED <<list, at, buffer, walked>>
             /\ EndOfInput(p) \/ DumpInPlace(p) \/ DumpRename(p) \/ DumpFails(p)
    <3>1. pc'[p] # "copy"
      BY <2>3 DEF EndOfInput, DumpInPlace, DumpRename, DumpFails, GoTo, TypeOK, PlaceType
    <3> QED
      BY <1>1, <1>3, <2>3, <3>1 DEF TypeOK, DiskType, TmpType, OpenAt, Tokens
  <2> QED
    BY <2>1, <2>2, <2>3
       DEF Saves, EndOfInput, DumpInPlace, DumpRename, DumpFails, disk, tmp
<1>6. DiskType' /\ PlaceType' /\ CountingType' /\ MergingType'
  BY <1>1, <1>2, <1>4, <1>5
     DEF TypeOK, DiskType, PlaceType, CountingType, MergingType, counting, merging, Tokens
<1>7. \A q \in Learners \ {p} : Still(q)
  BY <1>1, <1>2, <1>5 DEF Still, counting, merging
<1> QED
  BY <1>1, <1>2, <1>5, <1>6, <1>7, StepType

LEMMA StepTypes ==
  ASSUME TypeOK, NEW p \in Learners, Run(p) \/ Flush(p) \/ Crash(p)
  PROVE  TypeOK' /\ \A q \in Learners \ {p} : Still(q)
BY StepKinds, BeginType, EndsType, MergesType, LearnsType, SavesType, FlushTypes DEF Works

LEMMA TypeStep == TypeOK /\ [Next]_vars => TypeOK'
<1> SUFFICES ASSUME TypeOK, [Next]_vars PROVE TypeOK'
  OBVIOUS
<1>1. CASE Next
  BY <1>1, StepTypes DEF Next
<1>2. CASE UNCHANGED vars
  BY <1>2 DEF vars, disk, counting, merging, tmp, TypeOK, DiskType, PlaceType, CountingType,
              MergingType, TmpType, OpenAt, IdleAt, Running
<1> QED
  BY <1>1, <1>2

(* The variables of the model keep their types, a run that is under way has  *)
(* a token file, the stdio buffer never reaches back before the start of     *)
(* that file, and nothing is left of a process that has ended - for runs     *)
(* that overlap in any way, are killed and fail.                            *)
THEOREM TypeCorrect == Spec => []TypeOK
<1>1. Init => TypeOK
  BY TypeInit
<1>2. TypeOK /\ [Next]_vars => TypeOK'
  BY TypeStep
<1> QED
  BY <1>1, <1>2, PTL DEF Spec

-----------------------------------------------------------------------------
(* One run at a time.                                                      *)

Step(p) == Run(p) \/ Flush(p) \/ Crash(p)

LEMMA OthersIdle ==
  ASSUME TypeOK, Alone, ~Overlap, NEW p \in Learners, Step(p)
  PROVE  \A q \in Learners \ {p} : /\ ~Running(q) /\ IdleAt(q)
                                  /\ ~Running(q)' /\ IdleAt(q)'
                                  /\ Still(q)
<1>1. \A q \in Learners \ {p} : ~Running(q)
  <2>1. CASE BeginEmpty(p) \/ Load(p) \/ LoadFaults(p)
    BY <2>1 DEF BeginEmpty, Load, LoadFaults, MayBegin
  <2>2. CASE (Ends(p) /\ ~LoadFaults(p)) \/ Works(p)
    <3>1. Running(p)
      BY <2>2, EndsExit, MergesType, LearnsType, SavesType, FlushTypes DEF Works
    <3> QED
      BY <3>1 DEF Alone
  <2> QED
    BY <2>1, <2>2, StepKinds DEF Step
<1>2. \A q \in Learners \ {p} : Still(q)
  BY StepTypes DEF Step
<1> QED
  BY <1>1, <1>2 DEF TypeOK, Still, Running, IdleAt

LEMMA AloneStep ==
  ASSUME TypeOK, Alone, ~Overlap, NEW p \in Learners, Step(p)
  PROVE  Alone'
BY OthersIdle DEF Alone

(* It is enough to look at the run that takes the step. *)
LEMMA PlacedOthers ==
  ASSUME TypeOK, Placed, ~Overlap, NEW p \in Learners, Step(p),
         UNCHANGED online \/ online' = NewDump(p),
         PlacedAt(p)'
  PROVE  Placed'
<1>1. Alone
  BY DEF Placed
<1>2. ASSUME NEW q \in Learners \ {p}
      PROVE  PlacedAt(q)'
  <2>1. ~Running(q)' /\ shared'[q] = FALSE /\ access'[q] = "stdio" /\ pc'[q] = pc[q]
    BY <1>1, OthersIdle DEF IdleAt, Still
  <2>2. pc'[q] \in Ended \cup {"off"}
    BY <2>1 DEF Running
  <2>3. pc[q] \notin {"walk", "save"} \cup Ended => online' # NewDump(q)
    BY DEF Placed, PlacedAt, NewDump
  <2> QED
    BY <2>1, <2>2, <2>3 DEF PlacedAt, Ended, NewDump
<1> QED
  BY <1>1, <1>2, AloneStep DEF Placed

LEMMA PlacedBegin ==
  ASSUME TypeOK, NEW p \in Learners, PlacedAt(p), BeginEmpty(p) \/ Load(p)
  PROVE  PlacedAt(p)' /\ UNCHANGED online
<1>1. /\ online # NewDump(p) /\ UNCHANGED online
      /\ ~Running(p) /\ IdleAt(p)
  BY DEF BeginEmpty, Load, PlacedAt, Ended, disk, Running, TypeOK
<1>2. PICK o \in OptionSets :
        /\ opt' = [opt EXCEPT ![p] = o]
        /\ IF "O" \in o
           THEN GoTo(p, "mergeTokens") /\ \E d \in Others : other' = [other EXCEPT ![p] = d]
           ELSE GoTo(p, "learn") /\ UNCHANGED other
  BY DEF BeginEmpty, Load, Options
<1>3. /\ opt'[p] = o
      /\ pc'[p] \in {"mergeTokens", "learn"}
      /\ pc'[p] = "mergeTokens" => other'[p] \in Others
  BY <1>2 DEF GoTo, TypeOK, PlaceType, MergingType
<1>4. CASE BeginEmpty(p)
  <2>1. /\ file'[p] = TokenFile(p) /\ UNCHANGED <<counting, access>>
    BY <1>4 DEF BeginEmpty, TypeOK, TmpType
  <2> QED
    BY <1>1, <1>3, <2>1 DEF PlacedAt, counting, IdleAt, TokenFile, NewDump
<1>5. CASE Load(p)
  <2>1. file'[p] = online
    BY <1>5 DEF Load, TypeOK, TmpType
  <2>2. CASE "m" \in opt'[p]
    <3>1. access'[p] # "stale"
      <4>1. PICK a \in {"map", "stdio"} : access' = [access EXCEPT ![p] = a]
        BY <1>5, <2>2 DEF Load
      <4> QED
        BY <4>1 DEF TypeOK, TmpType
    <3> QED
      BY <1>1, <1>3, <2>1, <2>2, <3>1 DEF PlacedAt
  <2>3. CASE "m" \notin opt'[p]
    <3>1. shared'[p] = FALSE
      BY <1>1, <1>5, <2>3 DEF Load, IdleAt
    <3> QED
      BY <1>1, <1>3, <2>1, <2>3, <3>1 DEF PlacedAt
  <2> QED
    BY <2>2, <2>3
<1> QED
  BY <1>1, <1>4, <1>5

LEMMA PlacedEnds ==
  ASSUME TypeOK, NEW p \in Learners, PlacedAt(p), Ends(p)
  PROVE  PlacedAt(p)' /\ UNCHANGED online
<1>1. TypeOK' /\ ~Running(p)' /\ UNCHANGED online
  BY EndsType, EndsExit
<1>2. PICK l \in Ended : Exit(p, l)
  BY EndsExit
<1>3. pc'[p] \in Ended
  BY <1>2 DEF Exit, GoTo, TypeOK, PlaceType
<1>4. shared'[p] = FALSE /\ access'[p] = "stdio"
  BY <1>1 DEF TypeOK, IdleAt
<1> QED
  BY <1>1, <1>3, <1>4 DEF PlacedAt, Ended

LEMMA PlacedWorks ==
  ASSUME TypeOK, NEW p \in Learners, PlacedAt(p), Works(p)
  PROVE  PlacedAt(p)' /\ (UNCHANGED online \/ online' = NewDump(p))
<1>0. Running(p) /\ TypeOK'
  BY MergesType, LearnsType, SavesType, FlushTypes DEF Works
<1>1. ASSUME NEW t \in Ids, NEW n, Count(p, t, n)
      PROVE  shared'[p] => shared[p]
  BY <1>1 DEF Count, TypeOK, CountingType
<1>2. ASSUME NEW t \in Ids, WriteToken(p, t)
      PROVE  file'[p] = file[p] /\ (access'[p] = "stale" => access[p] = "stale")
  BY <1>2 DEF WriteToken, Accesses, TypeOK, TmpType
<1>3. CASE Merges(p)
  <2>1. /\ UNCHANGED <<online, opt, other>>
        /\ pc[p] \in {"mergeTokens", "mergeHashes"}
        /\ pc'[p] \in {"mergeTokens", "mergeHashes", "learn"}
    BY <1>3 DEF Merges, MergeToken, TokensMerged, Merged, MergeItem, GoTo, TypeOK, PlaceType,
                disk, merging
  <2>2. shared'[p] => shared[p]
    BY <1>1, <1>3 DEF Merges, MergeToken, TokensMerged, Merged, MergeItem, counting
  <2>3. file'[p] = file[p] /\ (access'[p] = "stale" => access[p] = "stale")
    <3>1. CASE MergeToken(p)
      <4>1. NextListed(p) \in Ids
        <5>1. other[p].list \in Seq(Ids) /\ merged[p] \in Nat
          BY DEF TypeOK, MergingType, Dumps
        <5>2. merged[p] + 1 \in 1..Len(other[p].list)
          BY <3>1, <5>1 DEF MergeToken
        <5> QED
          BY <5>1, <5>2 DEF NextListed
      <4> QED
        BY <1>2, <3>1, <4>1 DEF MergeToken, tmp
    <3>2. CASE ~MergeToken(p)
      BY <1>3, <3>2 DEF Merges, TokensMerged, Merged, MergeItem, tmp
    <3> QED
      BY <3>1, <3>2
  <2> QED
    BY <1>0, <2>1, <2>2, <2>3 DEF PlacedAt, Running, Ended
<1>4. CASE Learns(p)
  <2>1. /\ UNCHANGED <<online, opt, other, pc>> /\ pc[p] = "learn"
    BY <1>4 DEF Learns, CountKnown, CountNew, Refuse, ReadInput, MoreInput, merging
  <2>2. shared'[p] => shared[p]
    BY <1>1, <1>4 DEF Learns, CountKnown, CountNew, Refuse, counting
  <2>3. file'[p] = file[p] /\ (access'[p] = "stale" => access[p] = "stale")
    BY <1>2, <1>4 DEF Learns, CountKnown, CountNew, Refuse, tmp
  <2> QED
    BY <1>0, <2>1, <2>2, <2>3 DEF PlacedAt, Running, Ended
<1>5. CASE Saves(p)
  <2>1. UNCHANGED <<opt, counting, merging, file, access>>
    BY <1>5 DEF Saves, EndOfInput, DumpInPlace, DumpSeek, DumpCopy, DumpRename, DumpFails, Walk,
                tmp
  <2>2. CASE DumpCopy(p)
    <3>1. /\ UNCHANGED online /\ pc[p] = "copy" /\ pc'[p] \in {"rename", "walk"}
          /\ items'[NewDump(p)] = table[p]
      BY <2>2, ConstantTypes DEF DumpCopy, GoTo, TypeOK, PlaceType, DiskType
    <3> QED
      BY <1>0, <2>1, <3>1 DEF PlacedAt, Running, Ended, counting, merging
  <2>3. CASE DumpRename(p)
    <3>1. online' = NewDump(p) /\ pc[p] = "rename" /\ pc'[p] = "walk"
      BY <2>3 DEF DumpRename, GoTo, TypeOK, PlaceType
    <3> QED
      BY <1>0, <2>1, <3>1 DEF PlacedAt, Running, Ended, counting, merging
  <2>4. CASE ~DumpCopy(p) /\ ~DumpRename(p)
    <3>1. UNCHANGED online /\ pc'[p] \in {"dump", "copy", "walk", "save"}
          /\ (pc'[p] = "copy" => ~shared[p])
          /\ pc[p] \in {"learn", "dump", "copy", "rename", "walk"}
          /\ (pc[p] \in {"learn", "dump", "copy", "rename"} \/ pc'[p] = "save")
      BY <1>5, <2>4 DEF Saves, EndOfInput, DumpInPlace, DumpSeek, DumpFails, Walk, GoTo,
                        TypeOK, PlaceType, disk
    <3> QED
      BY <1>0, <2>1, <3>1 DEF PlacedAt, Running, Ended, counting, merging
  <2> QED
    BY <2>2, <2>3, <2>4
<1>6. CASE Flush(p)
  <2>1. UNCHANGED <<online, head, items, pc, opt, counting, merging, file, access>>
    BY <1>6 DEF Flush
  <2> QED
    BY <2>1 DEF PlacedAt, Running, counting, merging
<1> QED
  BY <1>3, <1>4, <1>5, <1>6 DEF Works

LEMMA PlacedStep == ~Overlap /\ TypeOK /\ Placed /\ [Next]_vars => Placed'
<1> SUFFICES ASSUME ~Overlap, TypeOK, Placed, [Next]_vars PROVE Placed'
  OBVIOUS
<1>1. ASSUME NEW p \in Learners, Step(p)
      PROVE  Placed'
  <2>1. PlacedAt(p)
    BY DEF Placed
  <2>2. PlacedAt(p)' /\ (UNCHANGED online \/ online' = NewDump(p))
    BY <1>1, <2>1, StepKinds, PlacedBegin, PlacedEnds, PlacedWorks DEF Step
  <2> QED
    BY <1>1, <2>2, PlacedOthers
<1>2. CASE UNCHANGED vars
  BY <1>2 DEF vars, disk, counting, merging, tmp, Placed, Alone, PlacedAt, Running
<1> QED
  BY <1>1, <1>2 DEF Next, Step

LEMMA PlacedInit == Init => Placed
BY ConstantTypes DEF Init, Placed, Alone, PlacedAt, Running, Ended

LEMMA PlacedAlways == ~Overlap /\ Spec => [](TypeOK /\ Placed)
<1>1. Init => TypeOK /\ Placed
  BY TypeInit, PlacedInit
<1>2. CASE ~Overlap
  <2>1. TypeOK /\ Placed /\ [Next]_vars => TypeOK' /\ Placed'
    BY <1>2, TypeStep, PlacedStep
  <2> QED
    BY <1>1, <2>1, PTL DEF Spec
<1>3. CASE ~(~Overlap)
  BY <1>3
<1> QED
  BY <1>2, <1>3

-----------------------------------------------------------------------------
(* The refinement.                                                         *)

Mine == [p \in Learners |-> IF Running(p) THEN Table(p) ELSE None]

(* The table of a run that is not under way, and what is kept, change only   *)
(* where the abstract counts do.                                            *)
LEMMA MineOthers ==
  ASSUME TypeOK, Placed, ~Overlap, NEW p \in Learners, Step(p)
  PROVE  Mine' = [Mine EXCEPT ![p] = Mine'[p]]
<1>1. Alone
  BY DEF Placed
<1>2. \A q \in Learners \ {p} : ~Running(q) /\ ~Running(q)'
  BY <1>1, OthersIdle
<1>3. Mine = [q \in Learners |-> IF q = p THEN Mine[p] ELSE None]
  BY <1>2 DEF Mine
<1>4. Mine' = [q \in Learners |-> IF q = p THEN Mine'[p] ELSE None]
  BY <1>2 DEF Mine
<1> QED
  BY <1>3, <1>4

LEMMA MineIsTable ==
  ASSUME TypeOK, NEW p \in Learners, Running(p)
  PROVE  Mine[p] = Table(p) /\ Table(p) \in Counts /\ Mine[p] # None
<1>1. Table(p) \in Counts
  BY DEF TypeOK, OpenAt, DiskType, CountingType, Table
<1> QED
  BY <1>1, ConstantTypes DEF Mine

(* Counting a token changes the table of the run, and what is kept only if   *)
(* that is the same table.                                                  *)
LEMMA CountTable ==
  ASSUME TypeOK, NEW p \in Learners, Running(p), NEW t \in Ids, NEW n \in Nat,
         Count(p, t, n), file'[p] = file[p]
  PROVE  /\ Table(p)' = Increase(Table(p), t, n)
         /\ \/ UNCHANGED items /\ shared'[p] = FALSE
            \/ /\ shared[p] /\ shared'[p] = TRUE
               /\ items' = [items EXCEPT ![file[p]] = Table(p)']
<1> DEFINE new == Increase(Contents(p, t), t, n)
<1>1. new = Increase(Table(p), t, n)
  BY DEF Contents
<1> HIDE DEF new
<1>2. file[p] \in Files
  BY DEF TypeOK, OpenAt
<1>3. /\ shared' = [shared EXCEPT ![p] = shared[p] /\ ~Grows(p, t)]
      /\ IF shared[p] /\ ~Grows(p, t)
         THEN items' = [items EXCEPT ![file[p]] = new] /\ UNCHANGED table
         ELSE table' = [table EXCEPT ![p] = new] /\ UNCHANGED items
  BY DEF Count, new
<1>4. CASE shared[p] /\ ~Grows(p, t)
  <2>1. shared'[p] = TRUE /\ items' = [items EXCEPT ![file[p]] = new]
    BY <1>3, <1>4 DEF TypeOK, CountingType
  <2>2. items'[file[p]] = new
    BY <1>2, <2>1 DEF TypeOK, DiskType
  <2> QED
    BY <1>1, <1>4, <2>1, <2>2 DEF Table
<1>5. CASE ~(shared[p] /\ ~Grows(p, t))
  <2>1. shared'[p] = FALSE /\ table'[p] = new /\ UNCHANGED items
    BY <1>3, <1>5 DEF TypeOK, CountingType
  <2> QED
    BY <1>1, <2>1 DEF Table
<1> QED
  BY <1>4, <1>5

LEMMA CountRefines ==
  ASSUME TypeOK, Placed, ~Overlap, NEW p \in Learners, Step(p), Running(p), Running(p)',
         NEW t \in Ids,
         NEW n \in {1} \cup UNION {{d.items[i] : i \in Ids} : d \in Others},
         n \in Nat, Count(p, t, n), file'[p] = file[p], UNCHANGED online
  PROVE  Corpus!Next
<1>1. TypeOK'
  BY StepTypes DEF Step
<1>2. /\ Mine[p] = Table(p) /\ Table(p) \in Counts /\ Mine[p] # None
      /\ Mine'[p] = Table(p)'
  BY <1>1, MineIsTable DEF Mine
<1>3. Mine' = [Mine EXCEPT ![p][t] = @ + n]
  <2>1. Mine'[p] = [Mine[p] EXCEPT ![t] = @ + n]
    <3>1. Table(p)' = Increase(Table(p), t, n)
      BY CountTable
    <3> QED
      BY <1>2, <3>1 DEF Increase
  <2>2. Mine' = [Mine EXCEPT ![p] = Mine'[p]]
    BY MineOthers
  <2> QED
    BY <2>1, <2>2
<1>4. \/ UNCHANGED Kept
      \/ Kept = Mine[p] /\ Kept' = Mine'[p]
  <2>1. CASE UNCHANGED items
    BY <2>1 DEF Kept
  <2>2. CASE shared[p] /\ items' = [items EXCEPT ![file[p]] = Table(p)']
    <3>1. file[p] = online /\ file[p] \in Files /\ online # None
      BY <2>2, ConstantTypes DEF Placed, PlacedAt, TypeOK, OpenAt
    <3>2. Kept = items[file[p]] /\ Kept' = items'[file[p]]
      BY <3>1 DEF Kept
    <3>3. items'[file[p]] = Table(p)'
      BY <2>2, <3>1 DEF TypeOK, DiskType
    <3> QED
      BY <1>2, <2>2, <3>2, <3>3 DEF Table
  <2> QED
    BY <2>1, <2>2, CountTable
<1>5. Corpus!Add(p, t, n)
  BY <1>2, <1>3, <1>4 DEF Corpus!Add, Mine
<1> QED
  BY <1>5 DEF Corpus!Next

LEMMA QuietRefines ==
  ASSUME TypeOK, Placed, ~Overlap, NEW p \in Learners, Step(p), Running(p), Running(p)',
         UNCHANGED Kept, Table(p)' = Table(p)
  PROVE  UNCHANGED Corpus!vars
<1>1. Mine'[p] = Mine[p] /\ Mine' = [Mine EXCEPT ![p] = Mine'[p]]
  BY MineOthers DEF Mine
<1>2. Mine' = Mine
  BY <1>1 DEF Mine
<1> QED
  BY <1>2 DEF Corpus!vars, Mine

(* A run begins with what was kept. *)
LEMMA BeginTable ==
  ASSUME TypeOK, NEW p \in Learners, BeginEmpty(p) \/ Load(p)
  PROVE  /\ Table(p)' = Kept
         /\ ~Running(p) /\ IdleAt(p) /\ Running(p)' /\ UNCHANGED <<online, items>>
<1>1. ~Running(p) /\ IdleAt(p) /\ Running(p)' /\ UNCHANGED <<online, items>>
  BY BeginType DEF BeginEmpty, Load, disk, Running, TypeOK
<1>2. Table(p)' = Kept
  <2>1. CASE BeginEmpty(p)
    BY <1>1, <2>1 DEF BeginEmpty, counting, IdleAt, Table, Kept
  <2>2. CASE Load(p)
    <3>1. online # None /\ file'[p] = online
      BY <2>2 DEF Load, TypeOK, TmpType
    <3>2. CASE "m" \in opt'[p]
      <4>1. PICK mapped \in BOOLEAN :
              /\ shared' = [shared EXCEPT ![p] = mapped]
              /\ table' = [table EXCEPT ![p] = IF mapped THEN Empty ELSE items[online]]
        BY <2>2, <3>2 DEF Load
      <4>2. shared'[p] = mapped /\ table'[p] = IF mapped THEN Empty ELSE items[online]
        BY <4>1 DEF TypeOK, CountingType
      <4> QED
        BY <1>1, <3>1, <4>2 DEF Table, Kept
    <3>3. CASE "m" \notin opt'[p]
      <4>1. shared'[p] = FALSE /\ table'[p] = items[online]
        BY <1>1, <2>2, <3>3 DEF Load, IdleAt, TypeOK, CountingType
      <4> QED
        BY <3>1, <4>1 DEF Table, Kept
    <3> QED
      BY <3>2, <3>3
  <2> QED
    BY <2>1, <2>2
<1> QED
  BY <1>1, <1>2

LEMMA BeginRefines ==
  ASSUME TypeOK, Placed, ~Overlap, NEW p \in Learners, Step(p), BeginEmpty(p) \/ Load(p)
  PROVE  Corpus!Next
<1>1. ~Running(p) /\ IdleAt(p) /\ Running(p)' /\ UNCHANGED <<online, items>>
  BY BeginTable
<1>2. UNCHANGED Kept
  BY <1>1 DEF Kept
<1>3. Table(p)' = Kept
  BY BeginTable
<1>4. Mine[p] = None /\ Mine' = [Mine EXCEPT ![p] = Kept]
  BY <1>1, <1>3, MineOthers DEF Mine
<1>5. Corpus!Begin(p)
  BY <1>2, <1>4 DEF Corpus!Begin, Mine
<1> QED
  BY <1>5 DEF Corpus!Next

LEMMA EndRefines ==
  ASSUME TypeOK, Placed, ~Overlap, NEW p \in Learners, Step(p), Ends(p)
  PROVE  Corpus!Next \/ UNCHANGED Corpus!vars
<1>1. ~Running(p)' /\ UNCHANGED online
  BY EndsType, EndsExit
<1>2. UNCHANGED Kept
  <2>1. PICK l \in Ended : Exit(p, l)
    BY EndsExit
  <2>2. items' = [f \in Files |-> IF f \in Gone(p) THEN Empty ELSE items[f]]
    BY <2>1 DEF Exit
  <2>3. online \notin Gone(p)
    BY DEF Gone
  <2>4. online # None => online \in Files
    BY DEF TypeOK, DiskType
  <2> QED
    BY <1>1, <2>2, <2>3, <2>4 DEF Kept
<1>3. Mine' = [Mine EXCEPT ![p] = None]
  BY <1>1, MineOthers DEF Mine
<1>4. CASE Running(p)
  <2>1. Mine[p] # None
    BY <1>4, MineIsTable
  <2>2. Corpus!End(p)
    BY <1>2, <1>3, <2>1 DEF Corpus!End, Mine
  <2> QED
    BY <2>2 DEF Corpus!Next
<1>5. CASE ~Running(p)
  <2>1. UNCHANGED Mine
    BY <1>3, <1>5 DEF Mine
  <2> QED
    BY <1>2, <2>1 DEF Corpus!vars, Mine
<1> QED
  BY <1>4, <1>5

(* What the steps in the middle do to the table: nothing, or they count.     *)
LEMMA WorksTable ==
  ASSUME TypeOK, NEW p \in Learners, PlacedAt(p), Works(p)
  PROVE  /\ file'[p] = file[p]
         /\ \/ /\ UNCHANGED <<shared, table>>
               /\ \/ UNCHANGED items
                  \/ DumpCopy(p) /\ items' = [items EXCEPT ![NewDump(p)] = table[p]]
            \/ /\ UNCHANGED online
               /\ \E t \in Ids : \/ Learns(p) /\ Count(p, t, 1)
                                 \/ /\ pc[p] = "mergeHashes" /\ MergeItem(p, t)
                                    /\ Count(p, t, other[p].items[t])
<1>1. CASE MergeToken(p)
  <2>1. UNCHANGED <<items, counting>>
    BY <1>1 DEF MergeToken
  <2>2. file'[p] = file[p]
    BY <1>1 DEF MergeToken, WriteToken, tmp
  <2> QED
    BY <2>1, <2>2 DEF counting
<1>2. CASE TokensMerged(p) \/ Merged(p)
  BY <1>2 DEF TokensMerged, Merged, disk, counting, tmp
<1>3. CASE \E t \in Ids : MergeItem(p, t)
  BY <1>3 DEF MergeItem, counting, tmp
<1>4. CASE Learns(p)
  <2>1. UNCHANGED online
    BY <1>4 DEF Learns, CountKnown, CountNew, Refuse, ReadInput
  <2>2. file'[p] = file[p]
    BY <1>4 DEF Learns, CountKnown, CountNew, Refuse, WriteToken, tmp
  <2> QED
    BY <1>4, <2>1, <2>2 DEF Learns, CountKnown, CountNew, Refuse, counting
<1>5. CASE Saves(p)
  BY <1>5 DEF Saves, EndOfInput, DumpInPlace, DumpSeek, DumpCopy, DumpRename, DumpFails, Walk,
              disk, counting, tmp
<1>6. CASE Flush(p)
  BY <1>6 DEF Flush, counting
<1> QED
  BY <1>1, <1>2, <1>3, <1>4, <1>5, <1>6 DEF Works, Merges

LEMMA WorksRefine ==
  ASSUME TypeOK, Placed, ~Overlap, NEW p \in Learners, Step(p), Works(p)
  PROVE  Corpus!Next \/ UNCHANGED Corpus!vars
<1>1. Running(p) /\ Running(p)' /\ PlacedAt(p) /\ file[p] \in Files
  BY MergesType, LearnsType, SavesType, FlushTypes DEF Works, Placed, TypeOK, OpenAt
<1>2. ASSUME NEW t \in Ids, Learns(p), Count(p, t, 1), UNCHANGED online
      PROVE  Corpus!Next
  BY <1>1, <1>2, WorksTable, CountRefines
<1>3. ASSUME NEW t \in Ids, Count(p, t, other[p].items[t]), pc[p] = "mergeHashes", UNCHANGED online
      PROVE  Corpus!Next
  <2>1. other[p] \in Others /\ other[p].items[t] \in Nat
    BY <1>1, <1>3 DEF PlacedAt, TypeOK, MergingType, Dumps, Counts
  <2>2. other[p].items[t] \in {1} \cup UNION {{d.items[i] : i \in Ids} : d \in Others}
    BY <2>1
  <2> QED
    BY <1>1, <1>3, <2>1, <2>2, WorksTable, CountRefines
<1>4. CASE DumpRename(p)
  <2>1. online' = NewDump(p) /\ UNCHANGED <<items, counting>> /\ pc[p] = "rename"
        /\ NewDump(p) # None
    BY <1>4, ConstantTypes DEF DumpRename
  <2>2. items[NewDump(p)] = table[p] /\ ~shared[p]
    BY <1>1, <2>1 DEF PlacedAt
  <2>3. Kept' = Table(p) /\ Table(p)' = Table(p)
    BY <2>1, <2>2 DEF Kept, Table, counting
  <2>4. Mine[p] = Table(p) /\ Mine[p] # None /\ Mine'[p] = Mine[p]
    BY <1>1, <2>3, MineIsTable DEF Mine
  <2>5. UNCHANGED Mine
    <3>1. Mine' = [Mine EXCEPT ![p] = Mine'[p]]
      BY MineOthers
    <3> QED
      BY <2>4, <3>1 DEF Mine
  <2>6. Corpus!Keep(p)
    BY <2>3, <2>4, <2>5 DEF Corpus!Keep, Mine
  <2> QED
    BY <2>6 DEF Corpus!Next
<1>5. CASE DumpCopy(p)
  <2>1. /\ UNCHANGED <<online, shared, table>> /\ file'[p] = file[p]
        /\ items' = [items EXCEPT ![NewDump(p)] = table[p]]
        /\ pc[p] = "copy"
    BY <1>5 DEF DumpCopy, counting
  <2>2. online # NewDump(p) /\ file[p] # NewDump(p)
    BY <1>1, <2>1 DEF PlacedAt, Ended
  <2>3. online # None => online \in Files
    BY DEF TypeOK, DiskType
  <2>4. UNCHANGED Kept /\ Table(p)' = Table(p)
    BY <1>1, <2>1, <2>2, <2>3 DEF Kept, Table, TypeOK, DiskType
  <2> QED
    BY <1>1, <2>4, QuietRefines
<1>6. CASE /\ ~DumpRename(p) /\ UNCHANGED <<items, shared, table>>
           /\ file'[p] = file[p]
  <2>1. UNCHANGED online
    BY <1>6 DEF Works, Merges, Learns, Saves, Flush, MergeToken, TokensMerged, Merged, MergeItem,
                CountKnown, CountNew, Refuse, ReadInput, EndOfInput, DumpInPlace, DumpSeek,
                DumpCopy, DumpFails, Walk, disk
  <2>2. UNCHANGED Kept /\ Table(p)' = Table(p)
    BY <1>6, <2>1 DEF Kept, Table
  <2> QED
    BY <1>1, <2>2, QuietRefines
<1> QED
  BY <1>1, <1>2, <1>3, <1>4, <1>5, <1>6, WorksTable

LEMMA CorpusStep == ~Overlap /\ TypeOK /\ Placed /\ [Next]_vars => [Corpus!Next]_(Corpus!vars)
<1> SUFFICES ASSUME ~Overlap, TypeOK, Placed, [Next]_vars
             PROVE  Corpus!Next \/ UNCHANGED Corpus!vars
  OBVIOUS
<1>1. ASSUME NEW p \in Learners, Step(p)
      PROVE  Corpus!Next \/ UNCHANGED Corpus!vars
  BY <1>1, StepKinds, BeginRefines, EndRefines, WorksRefine DEF Step
<1>2. CASE UNCHANGED vars
  BY <1>2 DEF vars, disk, counting, merging, tmp, Corpus!vars, Kept, Table, Running
<1> QED
  BY <1>1, <1>2 DEF Next, Step

(* Runs that do not overlap count together what one run would count: every   *)
(* run begins with the counts that were kept, adds what it reads and merges, *)
(* and keeps its counts all at once, or, with -m, as it goes - whether it    *)
(* ends, is killed or fails, mapping fails or the dump cannot be written.    *)
THEOREM IncrementalLearning == ~Overlap /\ Spec => LearnsIncrementally
<1>1. Init => Corpus!Init
  BY DEF Init, Corpus!Init, Kept, Running, Ended, Empty
<1>2. CASE ~Overlap
  <2>1. TypeOK /\ Placed /\ [Next]_vars => TypeOK' /\ Placed'
    BY <1>2, TypeStep, PlacedStep
  <2>2. TypeOK /\ Placed /\ [Next]_vars => [Corpus!Next]_(Corpus!vars)
    BY <1>2, CorpusStep
  <2>3. Init => TypeOK /\ Placed
    BY TypeInit, PlacedInit
  <2> QED
    BY <1>1, <2>1, <2>2, <2>3, PTL DEF Spec, LearnsIncrementally, Corpus!Spec
<1>3. CASE ~(~Overlap)
  BY <1>3
<1> QED
  BY <1>2, <1>3

-----------------------------------------------------------------------------
(* The token list of a run.                                                *)

(* A step of p writes in its token file only behind what is there for good,  *)
(* and in no other file.                                                    *)
Appends(p) ==
  /\ Len(list'[file[p]]) >= Len(list[file[p]])
  /\ \A i \in 1..Len(list[file[p]]) :
       i <= used[p] - Len(buffer[p]) => list'[file[p]][i] = list[file[p]][i]

AppendsOnly(p) ==
  /\ \A f \in Files \ {file[p]} : list'[f] = list[f]
  /\ Appends(p)

(* What the list had, it has. *)
KeepsListed(p) ==
  \A x : ListsWithin(Flushed(p), used[p], x) => ListsWithin(Flushed(p), used[p], x)'

LEMMA RunTypes ==
  ASSUME TypeOK, NEW p \in Learners, Running(p)
  PROVE  /\ file[p] \in Files /\ list[file[p]] \in Seq(Tokens)
         /\ at[p] \in Nat /\ used[p] \in Nat /\ unique[p] \in Nat /\ merged[p] \in Nat
         /\ buffer[p] \in Seq(Ids) /\ Len(buffer[p]) \in Nat /\ Len(buffer[p]) <= at[p]
         /\ at[p] - Len(buffer[p]) \in Nat
         /\ other[p] \in Dumps /\ other[p].list \in Seq(Ids) /\ other[p].items \in Counts
         /\ Table(p) \in Counts /\ Flushed(p) \in Seq(Tokens)
<1>1. /\ file[p] \in Files /\ list[file[p]] \in Seq(Tokens)
      /\ at[p] \in Nat /\ used[p] \in Nat /\ unique[p] \in Nat /\ merged[p] \in Nat
      /\ buffer[p] \in Seq(Ids) /\ Len(buffer[p]) <= at[p]
      /\ other[p] \in Dumps
  BY DEF TypeOK, OpenAt, DiskType, TmpType, CountingType, MergingType, Tokens
<1>2. Len(buffer[p]) \in Nat /\ at[p] - Len(buffer[p]) \in Nat
  BY <1>1
<1>3. other[p].list \in Seq(Ids) /\ other[p].items \in Counts
  BY <1>1 DEF Dumps
<1> QED
  BY <1>1, <1>2, <1>3, FlushedType, MineIsTable

LEMMA WriteTokenLists ==
  ASSUME TypeOK, NEW p \in Learners, Running(p), NEW t \in Ids,
         WriteToken(p, t), UNCHANGED walked,
         at[p] = used[p], access[p] # "stdio" => buffer[p] = <<>>
  PROVE  /\ used'[p] = used[p] + 1 /\ at'[p] = used'[p]
         /\ access'[p] # "stdio" => buffer'[p] = <<>>
         /\ used[p] - Len(buffer[p]) <= used'[p] - Len(buffer'[p])
         /\ KeepsListed(p)
         /\ ListsWithin(Flushed(p), used[p], t)'
         /\ AppendsOnly(p)
<1> DEFINE s == list[file[p]]
           k == at[p] - Len(buffer[p])
           w == buffer[p]
           n == used[p]
<1>1. /\ file[p] \in Files /\ s \in Seq(Tokens) /\ k \in Nat /\ w \in Seq(Ids)
      /\ n \in Nat /\ n = k + Len(w) /\ Len(w) \in Nat /\ at[p] \in Nat
  BY RunTypes
<1>2. PICK a \in Accesses(p) \ {"stale"} :
        LET j == IF a = "stdio" /\ access[p] # "stdio" THEN Resumed(p) ELSE at[p] IN
        /\ access' = [access EXCEPT ![p] = a]
        /\ at' = [at EXCEPT ![p] = j + 1]
        /\ \/ /\ a = "map"
              /\ list' = [list EXCEPT ![file[p]] = Overwrite(@, j, <<t>>)]
              /\ used' = [used EXCEPT ![p] = j + 1]
              /\ UNCHANGED buffer
           \/ /\ a = "stdio"
              /\ buffer' = [buffer EXCEPT ![p] = Append(@, t)]
              /\ used' = [used EXCEPT ![p] = @ + 1]
              /\ UNCHANGED list
  BY DEF WriteToken
<1>3. /\ at'[p] = n + 1 /\ access'[p] = a /\ file'[p] = file[p]
  BY <1>2 DEF Resumed, TypeOK, TmpType, WriteToken
<1>4. CASE a = "map"
  <2>1. w = <<>> /\ k = n /\ Len(w) = 0
    <3>1. access[p] # "stdio"
      BY <1>4 DEF Accesses
    <3>2. w = <<>> /\ Len(<<>>) = 0
      BY <3>1
    <3> QED
      BY <1>1, <3>2
  <2>2. /\ list' = [list EXCEPT ![file[p]] = Overwrite(s, n, <<t>>)]
        /\ used' = [used EXCEPT ![p] = n + 1]
        /\ UNCHANGED buffer
    BY <1>2, <1>4 DEF Resumed
  <2>3. /\ list'[file[p]] = Overwrite(s, n, <<t>>)
        /\ \A f \in Files \ {file[p]} : list'[f] = list[f]
        /\ used'[p] = n + 1
    BY <1>1, <2>2 DEF TypeOK, DiskType, TmpType
  <2>4. Flushed(p) = Overwrite(s, n, <<>>)
    BY <2>1 DEF Flushed
  <2>5. Flushed(p)' = Overwrite(s, n, <<t>>)
    <3>1. at'[p] - Len(buffer'[p]) = n + 1
      BY <1>1, <1>3, <2>1, <2>2
    <3>2. Flushed(p)' = Overwrite(Overwrite(s, n, <<t>>), n + 1, <<>>)
      BY <1>3, <2>1, <2>2, <2>3, <3>1 DEF Flushed
    <3> QED
      BY <1>1, <3>2, OverwriteOne
  <2>0. /\ Len(Overwrite(s, n, <<t>>)) >= Len(s)
        /\ \A i \in 1..Len(s) : i <= n => Overwrite(s, n, <<t>>)[i] = s[i]
        /\ \A x : ListsWithin(Overwrite(s, n, <<>>), n, x)
                  => ListsWithin(Overwrite(s, n, <<t>>), n + 1, x)
        /\ ListsWithin(Overwrite(s, n, <<t>>), n + 1, t)
    BY <1>1, OverwriteOne
  <2>6. KeepsListed(p) /\ ListsWithin(Flushed(p), used[p], t)'
    BY <2>0, <2>3, <2>4, <2>5 DEF KeepsListed
  <2>7. AppendsOnly(p)
    <3>1. n - Len(w) = n
      BY <1>1, <2>1
    <3>2. /\ used[p] - Len(buffer[p]) = n
          /\ \A i \in 1..Len(s) : i <= n => list'[file[p]][i] = s[i]
          /\ Len(list'[file[p]]) >= Len(s)
      BY <2>0, <2>3, <3>1
    <3> QED
      BY <2>3, <3>2 DEF AppendsOnly, Appends
  <2> QED
    BY <1>1, <1>3, <2>1, <2>2, <2>3, <2>6, <2>7
<1>5. CASE a = "stdio"
  <2>1. /\ buffer'[p] = Append(w, t)
        /\ used'[p] = n + 1
        /\ UNCHANGED list
    BY <1>2, <1>5 DEF TypeOK, TmpType
  <2>2. Len(Append(w, t)) = Len(w) + 1
    BY <1>1
  <2>3. Flushed(p) = Overwrite(s, k, w)
    BY DEF Flushed
  <2>4. Flushed(p)' = Overwrite(s, k, Append(w, t))
    <3>1. at'[p] - Len(buffer'[p]) = k
      BY <1>1, <1>3, <2>1, <2>2
    <3> QED
      BY <1>3, <2>1, <3>1 DEF Flushed
  <2>5. /\ \A x : ListsWithin(Overwrite(s, k, w), n, x)
                   => ListsWithin(Overwrite(s, k, Append(w, t)), n + 1, x)
        /\ ListsWithin(Overwrite(s, k, Append(w, t)), n + 1, t)
    <3> HIDE DEF n, s, k, w
    <3> QED
      BY <1>1, OverwriteAppend
  <2>6. KeepsListed(p) /\ ListsWithin(Flushed(p), used[p], t)'
    BY <2>1, <2>3, <2>4, <2>5 DEF KeepsListed
  <2>7. AppendsOnly(p)
    BY <1>1, <2>1 DEF AppendsOnly, Appends
  <2> QED
    BY <1>1, <1>3, <1>5, <2>1, <2>2, <2>6, <2>7
<1> QED
  BY <1>2, <1>4, <1>5

(* Writing the buffer out does not change what the list will be. *)
LEMMA FlushedLists ==
  ASSUME TypeOK, NEW p \in Learners, Running(p), buffer[p] # <<>> => at[p] = used[p],
         list' = [list EXCEPT ![file[p]] = Flushed(p)], buffer'[p] = <<>>,
         file'[p] = file[p], used'[p] = used[p], at'[p] \in Nat, at'[p] <= at[p]
  PROVE  /\ Flushed(p)' = Flushed(p) /\ list'[file[p]] = Flushed(p)
         /\ Len(Flushed(p)) >= at[p]
         /\ used[p] - Len(buffer[p]) <= used'[p] - Len(buffer'[p])
         /\ KeepsListed(p)
         /\ AppendsOnly(p)
<1> DEFINE s == list[file[p]]
           k == at[p] - Len(buffer[p])
           w == buffer[p]
           e == Flushed(p)
<1>1. /\ file[p] \in Files /\ s \in Seq(Tokens) /\ k \in Nat /\ w \in Seq(Ids)
      /\ at[p] = k + Len(w) /\ Len(w) \in Nat /\ at[p] \in Nat /\ used[p] \in Nat
  BY RunTypes
<1>2. e = Overwrite(s, k, w)
  BY DEF Flushed
<1>3. list'[file[p]] = e /\ \A f \in Files \ {file[p]} : list'[f] = list[f]
  BY <1>1 DEF TypeOK, DiskType
<1>4. /\ Len(e) >= Len(s) /\ Len(e) >= k + Len(w) /\ e \in Seq(Tokens)
      /\ \A i \in 1..Len(e) : e[i] = IF i \in k + 1..k + Len(w) THEN w[i - k]
                                  ELSE IF i \in DOMAIN s THEN s[i] ELSE None
  <2> HIDE DEF s, k, w, e
  <2>1. /\ Overwrite(s, k, w) \in Seq(Tokens)
        /\ Len(Overwrite(s, k, w)) >= Len(s)
        /\ Len(Overwrite(s, k, w)) >= k + Len(w)
        /\ \A i \in 1..Len(Overwrite(s, k, w)) :
             Overwrite(s, k, w)[i] = IF i \in k + 1..k + Len(w) THEN w[i - k]
                                     ELSE IF i \in DOMAIN s THEN s[i] ELSE None
    BY <1>1, OverwriteFacts
  <2> QED
    BY <1>2, <2>1
<1>5. Flushed(p)' = e
  <2>1. Len(<<>>) = 0
    OBVIOUS
  <2>2. at'[p] - Len(buffer'[p]) = at'[p]
    BY <2>1
  <2>3. Flushed(p)' = Overwrite(e, at'[p], <<>>)
    BY <1>3, <2>2 DEF Flushed
  <2>4. Overwrite(e, at'[p], <<>>) = e
    <3>1. at'[p] <= Len(e)
      BY <1>1, <1>4
    <3> HIDE DEF e
    <3> QED
      BY <1>4, <3>1, OverwriteNothing
  <2> QED
    BY <2>3, <2>4
<1>6. AppendsOnly(p)
  <2>1. ASSUME NEW i \in 1..Len(s), i <= used[p] - Len(w)
        PROVE  e[i] = s[i]
    <3>1. i \in 1..Len(e) /\ i \in DOMAIN s
      BY <1>1, <1>4
    <3>2. i \notin k + 1..k + Len(w)
      <4>1. CASE w = <<>>
        BY <4>1, <1>1
      <4>2. CASE w # <<>>
        BY <4>2, <1>1, <2>1
      <4> QED
        BY <4>1, <4>2
    <3> QED
      BY <1>4, <3>1, <3>2
  <2> HIDE DEF e
  <2> QED
    BY <1>3, <1>4, <2>1 DEF AppendsOnly, Appends
<1>7. KeepsListed(p)
  BY <1>5 DEF KeepsListed
<1>8. used[p] - Len(buffer[p]) <= used'[p] - Len(buffer'[p])
  <2>1. Len(<<>>) = 0
    OBVIOUS
  <2> QED
    BY <1>1, <2>1
<1> QED
  BY <1>1, <1>3, <1>4, <1>5, <1>6, <1>7, <1>8

(* A token counted is a token counted. *)
LEMMA CountCounts ==
  ASSUME TypeOK, NEW p \in Learners, Running(p), CountedAt(p),
         NEW t \in Ids, NEW n \in Nat, n > 0, Count(p, t, n), file'[p] = file[p]
  PROVE  /\ CountedAt(p)'
         /\ Filled(Table(p)') = Filled(Table(p)) \cup {t}
         /\ unique[p] <= unique'[p] /\ unique'[p] > 0
<1> DEFINE F == Filled(Table(p))
<1>1. Table(p) \in Counts /\ unique[p] \in Nat
  BY RunTypes
<1>2. Table(p)' = Increase(Table(p), t, n)
  BY CountTable
<1>3. Filled(Increase(Table(p), t, n)) = F \cup {t}
  BY <1>1 DEF Filled, Increase, Counts
<1>4. unique'[p] = IF t \in F THEN unique[p] ELSE unique[p] + 1
  BY DEF Count, Known, TypeOK, CountingType
<1>5. IsFiniteSet(F) /\ unique[p] = Cardinality(F)
  BY DEF CountedAt
<1> HIDE DEF F
<1>6. IsFiniteSet(F \cup {t})
      /\ Cardinality(F \cup {t}) = IF t \in F THEN Cardinality(F) ELSE Cardinality(F) + 1
  BY <1>5, FS_AddElement
<1>7. unique'[p] = Cardinality(F \cup {t})
  BY <1>4, <1>5, <1>6
<1>8. unique'[p] > 0
  <2>1. CASE t \in F
    <3>1. Cardinality(F) # 0
      BY <1>5, <2>1, FS_EmptySet
    <3> QED
      BY <1>1, <1>4, <1>5, <2>1, <3>1
  <2>2. CASE t \notin F
    BY <1>1, <1>4, <2>2
  <2> QED
    BY <2>1, <2>2
<1> QED
  BY <1>1, <1>2, <1>3, <1>4, <1>6, <1>7, <1>8 DEF CountedAt, F

-----------------------------------------------------------------------------
(* The parts of the dump.                                                  *)

(* A dump stays whole while only its list grows. *)
LEMMA WholeKept ==
  ASSUME TypeOK, NEW f \in Files, Whole(f),
         head'[f] = head[f], items'[f] = items[f], list'[f] \in Seq(Tokens),
         Len(list'[f]) >= Len(list[f]),
         \A i \in 1..Len(list[f]) : i <= head[f].used => list'[f][i] = list[f][i]
  PROVE  Whole(f)'
<1>1. list[f] \in Seq(Tokens) /\ head[f].used \in Nat
  BY DEF TypeOK, DiskType, Heads, Tokens
<1>2. ASSUME NEW x, ListsWithin(list[f], head[f].used, x)
      PROVE  ListsWithin(list'[f], head[f].used, x)
  <2>1. PICK i \in 1..head[f].used : i \in DOMAIN list[f] /\ list[f][i] = x
    BY <1>2 DEF ListsWithin
  <2>2. i \in 1..Len(list[f]) /\ i <= head[f].used /\ i \in DOMAIN list'[f]
    BY <1>1, <2>1
  <2>3. list'[f][i] = x
    BY <2>1, <2>2
  <2> QED
    BY <2>1, <2>2, <2>3 DEF ListsWithin
<1>3. Len(list[f]) \in Nat /\ Len(list'[f]) \in Nat
  BY <1>1
<1> QED
  BY <1>1, <1>2, <1>3 DEF Whole

(* What a step must leave alone for the dump to stay whole. *)
SparesOnline(p) ==
  online # None =>
    /\ head'[online] = head[online]
    /\ (file[p] = online /\ "m" \in opt[p]) \/ items'[online] = items[online]
    /\ IF file[p] = online THEN Appends(p) ELSE list'[online] = list[online]

LEMMA OnlineKept ==
  ASSUME TypeOK, IInv, NEW p \in Learners, Running(p), TypeOK', Running(p)',
         UNCHANGED <<online, opt>>, file'[p] = file[p], SparesOnline(p),
         \A q \in Learners \ {p} : ~Running(q)
  PROVE  OnlineWhole'
<1> SUFFICES ASSUME online # None
             PROVE  /\ head'[online].unique > 0
                    /\ ~InPlace(online)' => Whole(online)'
  BY DEF OnlineWhole
<1>1. /\ online \in Files /\ head'[online] = head[online]
      /\ head[online].unique > 0 /\ (~InPlace(online) => Whole(online))
  BY DEF TypeOK, DiskType, SparesOnline, IInv, OnlineWhole
<1>2. ASSUME ~InPlace(online)'
      PROVE  Whole(online)'
  <2>1. ~(file[p] = online /\ "m" \in opt[p])
    BY <1>2 DEF InPlace
  <2>2. Whole(online)
    BY <1>1, <2>1 DEF InPlace
  <2>3. items'[online] = items[online]
    BY <2>1 DEF SparesOnline
  <2>4. list'[online] \in Seq(Tokens) /\ list[online] \in Seq(Tokens)
    BY <1>1 DEF TypeOK, DiskType, Tokens
  <2>5. CASE file[p] = online
    <3>1. head[online].used <= used[p] - Len(buffer[p])
      BY <2>1, <2>5 DEF IInv, RunAt, FoundAt
    <3>2. Appends(p)
      BY <2>5 DEF SparesOnline
    <3>3. head[online].used \in Nat /\ used[p] - Len(buffer[p]) \in Int
      <4>1. used[p] \in Nat /\ Len(buffer[p]) \in Nat
        BY RunTypes
      <4>2. head[online] \in Heads
        BY <1>1 DEF TypeOK, DiskType
      <4> QED
        BY <4>1, <4>2 DEF Heads
    <3>4. /\ Len(list'[online]) >= Len(list[online])
          /\ \A i \in 1..Len(list[online]) :
               i <= head[online].used => list'[online][i] = list[online][i]
      BY <2>5, <3>1, <3>2, <3>3 DEF Appends
    <3> QED
      BY <1>1, <2>2, <2>3, <2>4, <3>4, WholeKept
  <2>6. CASE file[p] # online
    <3>1. list'[online] = list[online]
      BY <2>6 DEF SparesOnline
    <3>2. /\ Len(list'[online]) >= Len(list[online])
          /\ \A i \in 1..Len(list[online]) :
               i <= head[online].used => list'[online][i] = list[online][i]
      BY <2>4, <3>1
    <3> QED
      BY <1>1, <2>2, <2>3, <2>4, <3>2, WholeKept
  <2> QED
    BY <2>5, <2>6
<1> QED
  BY <1>1, <1>2

(* The facts about a run, and what is known of a step by it. *)
LEMMA RunFacts ==
  ASSUME ~Overlap, TypeOK, IInv, NEW p \in Learners, Step(p)
  PROVE  /\ TypeOK' /\ Placed' /\ PlacedAt(p) /\ PlacedAt(p)'
         /\ Running(p) => RunAt(p)
         /\ \A q \in Learners \ {p} : ~Running(q) /\ ~Running(q)'
<1>1. Placed /\ Alone /\ PlacedAt(p)
  BY DEF IInv, Placed
<1>2. [Next]_vars
  BY DEF Step, Next
<1>3. TypeOK' /\ Placed'
  BY <1>1, <1>2, TypeStep, PlacedStep
<1> QED
  BY <1>1, <1>3, OthersIdle DEF IInv, Placed

(* An unshared table means that only the list can change. *)
LEMMA SharedInPlace ==
  ASSUME NEW p \in Learners, PlacedAt(p), shared[p]
  PROVE  file[p] = online /\ "m" \in opt[p]
BY DEF PlacedAt

LEMMA BeginWhole ==
  ASSUME ~Overlap, TypeOK, IInv, NEW p \in Learners, Step(p), BeginEmpty(p) \/ Load(p)
  PROVE  RunAt(p)' /\ OnlineWhole'
<1>1. /\ ~Running(p) /\ IdleAt(p) /\ Running(p)' /\ TypeOK' /\ PlacedAt(p)'
      /\ \A q \in Learners : ~Running(q)
      /\ UNCHANGED <<online, head, items, list, merged, pending, buffer>>
  BY RunFacts, BeginType DEF BeginEmpty, Load, disk, Running, TypeOK
<1>2. pc'[p] \in {"mergeTokens", "learn"}
  <2>1. GoTo(p, "mergeTokens") \/ GoTo(p, "learn")
    BY DEF BeginEmpty, Load, Options
  <2> QED
    BY <2>1 DEF GoTo, TypeOK, PlaceType
<1>3. merged'[p] = 0 /\ buffer'[p] = <<>> /\ Len(<<>>) = 0
  BY <1>1 DEF IdleAt
<1>4. ~InPlace(online)
  BY <1>1 DEF InPlace
<1>5. MergedAt(p)'
  <2>1. other'[p].list \in Seq(Ids)
    BY <1>1 DEF TypeOK, MergingType, Dumps
  <2>2. merged'[p] <= Len(other'[p].list)
    BY <1>3, <2>1
  <2> QED
    BY <1>2, <1>3, <2>2 DEF MergedAt
<1>6. MadeAt(p)'
  BY <1>2 DEF MadeAt
<1>7. CASE BeginEmpty(p)
  <2>1. /\ online = None /\ file' = [file EXCEPT ![p] = TokenFile(p)]
        /\ UNCHANGED <<counting, access, at, used>>
    BY <1>7 DEF BeginEmpty
  <2>2. Table(p)' = Empty /\ unique'[p] = 0 /\ at'[p] = 0 /\ used'[p] = 0
        /\ access'[p] = "stdio"
    BY <1>1, <2>1 DEF counting, Table, IdleAt
  <2>3. Filled(Empty) = {}
    BY DEF Filled, Empty
  <2>4. CountedAt(p)' /\ CoveredAt(p)'
    <3>1. IsFiniteSet({}) /\ Cardinality({}) = 0
      BY FS_EmptySet
    <3>2. CountedAt(p)'
      BY <2>2, <2>3, <3>1 DEF CountedAt
    <3>3. CoveredAt(p)'
      BY <2>2, <2>3 DEF CoveredAt
    <3> QED
      BY <3>2, <3>3
  <2>5. CursorAt(p)'
    BY <1>3, <2>2 DEF CursorAt
  <2>6. file'[p] # online'
    BY <1>1, <2>1, ConstantTypes DEF TypeOK, OpenAt
  <2>7. OnlineWhole'
    BY <1>1, <2>1 DEF OnlineWhole
  <2> QED
    BY <1>5, <1>6, <2>4, <2>5, <2>6, <2>7 DEF RunAt
<1>8. CASE Load(p)
  <2>1. online # None /\ online \in Files
    BY <1>8 DEF Load, TypeOK, DiskType
  <2>2. Whole(online) /\ head[online].unique > 0
    BY <1>4, <2>1 DEF IInv, OnlineWhole
  <2>3. /\ head[online] \in Heads /\ head[online].used \in Nat /\ head[online].unique \in Nat
        /\ list[online] \in Seq(Tokens)
    BY <2>1 DEF TypeOK, DiskType, Heads, Tokens
  <2>4. /\ file'[p] = online
        /\ unique'[p] = head[online].unique
        /\ used'[p] = head[online].used
        /\ at'[p] = head[online].used
    BY <1>8 DEF Load, TypeOK, TmpType, CountingType
  <2>5. Table(p)' = items[online]
    <3>1. Table(p)' = Kept
      BY BeginTable
    <3> QED
      BY <2>1, <3>1 DEF Kept
  <2>6. Flushed(p)' = list[online]
    <3>1. head[online].used <= Len(list[online])
      BY <2>2 DEF Whole
    <3>2. at'[p] - Len(buffer'[p]) = head[online].used
      BY <1>3, <2>3, <2>4
    <3>3. Flushed(p)' = Overwrite(list[online], head[online].used, <<>>)
      BY <1>1, <1>3, <2>4, <3>2 DEF Flushed
    <3> QED
      BY <2>3, <3>1, <3>3, OverwriteNothing
  <2>7. CountedAt(p)'
    BY <2>2, <2>4, <2>5 DEF CountedAt, Whole
  <2>8. CoveredAt(p)'
    BY <1>2, <2>2, <2>4, <2>5, <2>6 DEF CoveredAt, Whole
  <2>9. CursorAt(p)'
    BY <1>3, <2>4 DEF CursorAt
  <2>10. Whole(online)'
    BY <1>1, <2>2 DEF Whole
  <2>11. FoundAt(p)'
    BY <1>1, <1>2, <1>3, <2>3, <2>4, <2>10 DEF FoundAt
  <2>12. OnlineWhole'
    BY <1>1, <2>2, <2>10 DEF OnlineWhole
  <2> QED
    BY <1>5, <1>6, <2>7, <2>8, <2>9, <2>11, <2>12 DEF RunAt
<1> QED
  BY <1>7, <1>8

LEMMA EndsWhole ==
  ASSUME ~Overlap, ~MappedMayFail, TypeOK, IInv, NEW p \in Learners, Step(p), Ends(p)
  PROVE  OnlineWhole'
<1> SUFFICES ASSUME online # None
             PROVE  head'[online].unique > 0 /\ Whole(online)'
  BY EndsExit DEF OnlineWhole
<1>1. /\ Running(p) => RunAt(p)
      /\ LoadFaults(p) \/ Running(p)
      /\ PlacedAt(p) /\ UNCHANGED online
      /\ \A q \in Learners \ {p} : ~Running(q)
  BY RunFacts, EndsExit
<1>2. /\ head'[online] = head[online] /\ items'[online] = items[online]
      /\ list'[online] = list[online]
  <2>1. PICK l \in Ended : Exit(p, l)
    BY EndsExit
  <2>2. /\ head' = [f \in Files |-> IF f \in Gone(p) THEN NoHead ELSE head[f]]
        /\ items' = [f \in Files |-> IF f \in Gone(p) THEN Empty ELSE items[f]]
        /\ list' = [f \in Files |-> IF f \in Gone(p) THEN <<>> ELSE list[f]]
    BY <2>1 DEF Exit
  <2>3. online \notin Gone(p)
    BY DEF Gone
  <2>4. online \in Files
    BY DEF TypeOK, DiskType
  <2> QED
    BY <2>2, <2>3, <2>4
<1>3. head[online].unique > 0 /\ (~InPlace(online) => Whole(online))
  BY DEF IInv, OnlineWhole
<1>4. Whole(online)
  <2>1. CASE Running(p) /\ file[p] = online /\ "m" \in opt[p]
    <3>1. /\ FoundAt(p) /\ access[p] # "stale"
      BY <1>1, <2>1 DEF RunAt, PlacedAt
    <3>2. CASE MergeFaults(p)
      BY <2>1, <3>1, <3>2 DEF MergeFaults, FoundAt
    <3>3. CASE NothingLearned(p)
      <4>1. head[online].unique <= unique[p] /\ unique[p] = 0
        BY <2>1, <3>1, <3>3 DEF NothingLearned, FoundAt
      <4>2. head[online] \in Heads
        BY <2>1 DEF TypeOK, DiskType
      <4> QED
        BY <1>3, <4>1, <4>2 DEF Heads
    <3>4. CASE Save(p)
      BY <2>1, <3>1, <3>4 DEF Save, FoundAt
    <3> QED
      BY <2>1, <3>1, <3>2, <3>3, <3>4
         DEF Ends, LoadFaults, Running, ListFaults, ReadFaults, NewFaults, Crash
  <2>2. CASE ~(Running(p) /\ file[p] = online /\ "m" \in opt[p])
    BY <1>1, <1>3, <2>2 DEF InPlace
  <2> QED
    BY <2>1, <2>2
<1> QED
  BY <1>1, <1>2, <1>3, <1>4 DEF Whole

LEMMA MergeTokenWhole ==
  ASSUME ~Overlap, TypeOK, IInv, NEW p \in Learners, Step(p), MergeToken(p)
  PROVE  RunAt(p)' /\ OnlineWhole'
<1>1. /\ UNCHANGED <<online, head, items, pc, opt, input, counting, other, pending, walked>>
      /\ pc[p] = "mergeTokens"
      /\ merged[p] < Len(other[p].list)
      /\ merged' = [merged EXCEPT ![p] = merged[p] + 1]
  BY DEF MergeToken
<1>2. /\ Running(p) /\ Running(p)' /\ RunAt(p) /\ TypeOK'
      /\ \A q \in Learners \ {p} : ~Running(q)
  BY <1>1, RunFacts DEF Running, Ended
<1>3. /\ used[p] \in Nat /\ merged[p] \in Nat /\ other[p].list \in Seq(Ids)
      /\ Len(buffer[p]) \in Nat
  BY <1>2, RunTypes
<1>4. merged'[p] = merged[p] + 1
  BY <1>1 DEF TypeOK, MergingType
<1>5. merged[p] + 1 \in 1..Len(other[p].list) /\ NextListed(p) \in Ids
  BY <1>1, <1>3 DEF NextListed
<1>15. PICK t \in Ids : t = NextListed(p)
  BY <1>5
<1>6. /\ file'[p] = file[p]
      /\ used[p] - Len(buffer[p]) <= used'[p] - Len(buffer'[p])
      /\ at'[p] = used'[p]
      /\ access'[p] # "stdio" => buffer'[p] = <<>>
      /\ KeepsListed(p)
      /\ ListsWithin(Flushed(p), used[p], t)'
      /\ AppendsOnly(p)
  <2>1. at[p] = used[p] /\ (access[p] # "stdio" => buffer[p] = <<>>)
    BY <1>1, <1>2 DEF RunAt, CursorAt, Learning
  <2>2. CASE ToList(p) /\ WriteToken(p, NextListed(p))
    <3>1. UNCHANGED walked /\ file'[p] = file[p] /\ WriteToken(p, t)
      BY <1>1, <1>15, <2>2 DEF WriteToken
    <3> QED
      BY <1>2, <2>1, <3>1, WriteTokenLists
  <2>3. CASE ~ToList(p) /\ UNCHANGED <<list, tmp>>
    <3>1. t \in Filled(Table(p))
      BY <1>15, <2>3 DEF ToList, Known
    <3>2. ListsWithin(Flushed(p), used[p], t)
      BY <1>1, <1>2, <3>1 DEF RunAt, CoveredAt
    <3>3. Flushed(p)' = Flushed(p) /\ UNCHANGED <<list, file, access, at, used, buffer>>
      BY <2>3 DEF Flushed, tmp
    <3>4. list[file[p]] \in Seq(Tokens)
      BY <1>2, RunTypes
    <3> QED
      BY <1>3, <2>1, <3>2, <3>3, <3>4 DEF KeepsListed, AppendsOnly, Appends
  <2> QED
    BY <2>2, <2>3 DEF MergeToken
<1>7. Table(p)' = Table(p) /\ unique'[p] = unique[p]
  BY <1>1, <1>6 DEF Table, counting
<1>8. CountedAt(p)'
  BY <1>2, <1>7 DEF RunAt, CountedAt
<1>9. CursorAt(p)'
  BY <1>1, <1>3, <1>4, <1>6 DEF CursorAt
<1>10. CoveredAt(p)'
  BY <1>1, <1>2, <1>6, <1>7 DEF RunAt, CoveredAt, KeepsListed
<1>11. MergedAt(p)'
  <2>1. other'[p] = other[p] /\ pc'[p] = "mergeTokens"
    BY <1>1
  <2>2. \A k \in 1..merged[p] : ListsWithin(Flushed(p), used[p], other[p].list[k])'
    BY <1>1, <1>2, <1>6 DEF RunAt, MergedAt, KeepsListed
  <2>3. \A k \in 1..merged[p] + 1 : k \in 1..merged[p] \/ k = merged[p] + 1
    BY <1>3
  <2>4. \A k \in 1..merged[p] + 1 : ListsWithin(Flushed(p), used[p], other[p].list[k])'
    BY <1>1, <1>6, <1>15, <2>2, <2>3 DEF NextListed
  <2> QED
    BY <1>3, <1>4, <1>5, <2>1, <2>4 DEF MergedAt
<1>12. MadeAt(p)'
  BY <1>1 DEF MadeAt
<1>13. file'[p] = online' => FoundAt(p)'
  <2> SUFFICES ASSUME file[p] = online
               PROVE  FoundAt(p)'
    BY <1>1, <1>6
  <2>1. FoundAt(p) /\ head[online] \in Heads
    BY <1>2 DEF RunAt, TypeOK, OpenAt, DiskType
  <2>2. used'[p] \in Nat /\ Len(buffer'[p]) \in Nat
    BY <1>2, RunTypes DEF TypeOK, TmpType
  <2>3. CASE "m" \notin opt[p]
    <3>1. head[online].used \in Nat /\ head[online].used <= used[p] - Len(buffer[p])
      BY <2>1, <2>3 DEF FoundAt, Heads
    <3>2. head[online].used <= used'[p] - Len(buffer'[p])
      BY <1>3, <1>6, <2>2, <3>1
    <3> QED
      BY <1>1, <2>3, <3>2 DEF FoundAt
  <2>4. CASE "m" \in opt[p]
    BY <1>1, <1>3, <1>4, <1>7, <2>1, <2>4 DEF FoundAt
  <2> QED
    BY <2>3, <2>4
<1>14. OnlineWhole'
  <2>1. SparesOnline(p)
    BY <1>1, <1>6 DEF SparesOnline, AppendsOnly, Appends, TypeOK, DiskType
  <2> QED
    BY <1>1, <1>2, <1>6, <2>1, OnlineKept
<1> QED
  BY <1>8, <1>9, <1>10, <1>11, <1>12, <1>13, <1>14 DEF RunAt

(* Steps that only go on: the files, the table and the list are as before.   *)
LEMMA GoOnWhole ==
  ASSUME ~Overlap, TypeOK, IInv, NEW p \in Learners, Step(p), Running(p), Running(p)',
         UNCHANGED <<disk, opt, counting, other, merged, tmp, walked>>
  PROVE  /\ RunAt(p) /\ CountedAt(p)' /\ OnlineWhole'
         /\ Table(p)' = Table(p) /\ Flushed(p)' = Flushed(p)
<1>1. RunAt(p) /\ TypeOK' /\ \A q \in Learners \ {p} : ~Running(q)
  BY RunFacts
<1>2. Table(p)' = Table(p) /\ Flushed(p)' = Flushed(p)
  BY DEF Table, Flushed, disk, counting, tmp
<1>3. CountedAt(p)'
  BY <1>1, <1>2 DEF RunAt, CountedAt, counting
<1>4. list[file[p]] \in Seq(Tokens)
  BY RunTypes
<1>5. SparesOnline(p) /\ UNCHANGED online /\ file'[p] = file[p]
  BY <1>4 DEF SparesOnline, AppendsOnly, Appends, disk, tmp
<1> QED
  BY <1>1, <1>2, <1>3, <1>5, OnlineKept

LEMMA MergedWhole ==
  ASSUME ~Overlap, TypeOK, IInv, NEW p \in Learners, Step(p), TokensMerged(p) \/ Merged(p)
  PROVE  RunAt(p)' /\ OnlineWhole'
<1>1. /\ UNCHANGED <<disk, opt, counting, other, merged, tmp, walked>>
      /\ pc[p] \in {"mergeTokens", "mergeHashes"}
      /\ pc'[p] \in {"mergeHashes", "learn"}
  BY DEF TokensMerged, Merged, merging, GoTo, TypeOK, PlaceType
<1>2. Running(p) /\ Running(p)'
  BY <1>1 DEF Running, Ended
<1>3. /\ RunAt(p) /\ CountedAt(p)' /\ OnlineWhole'
      /\ Table(p)' = Table(p) /\ Flushed(p)' = Flushed(p)
  BY <1>1, <1>2, GoOnWhole
<1>4. /\ UNCHANGED <<online, head, list, items, unique, file, access, at, used, buffer>>
  BY <1>1 DEF disk, counting, tmp
<1>5. CursorAt(p)'
  BY <1>1, <1>3, <1>4 DEF RunAt, CursorAt, Learning
<1>6. CoveredAt(p)'
  BY <1>1, <1>3, <1>4 DEF RunAt, CoveredAt
<1>7. MadeAt(p)'
  BY <1>1 DEF MadeAt
<1>8. file'[p] = online' => FoundAt(p)'
  BY <1>1, <1>3, <1>4 DEF RunAt, FoundAt
<1>9. MergedAt(p)'
  <2>1. CASE TokensMerged(p)
    <3>1. /\ pc[p] = "mergeTokens" /\ merged[p] = Len(other[p].list)
          /\ pc'[p] = "mergeHashes"
          /\ pending'[p] = Filled(other[p].items)
      BY <2>1 DEF TokensMerged, GoTo, TypeOK, PlaceType, MergingType
    <3>2. other[p] \in Others
      BY <3>1, RunFacts DEF PlacedAt
    <3>3. other[p].list \in Seq(Ids)
      BY <1>2, RunTypes
    <3>4. ASSUME NEW t \in Filled(other[p].items)
          PROVE  ListsWithin(Flushed(p), used[p], t)
      <4>1. PICK k \in DOMAIN other[p].list : other[p].list[k] = t
        BY <3>2, OnlineDumpAssumption DEF Filled
      <4>2. k \in 1..merged[p]
        BY <3>1, <3>3
      <4> QED
        BY <1>3, <3>1, <4>1, <4>2 DEF RunAt, MergedAt
    <3> QED
      BY <1>1, <1>3, <1>4, <3>1, <3>4 DEF MergedAt
  <2>2. CASE Merged(p)
    <3>1. pc'[p] = "learn"
      BY <2>2 DEF Merged, GoTo, TypeOK, PlaceType
    <3> QED
      BY <3>1 DEF MergedAt
  <2> QED
    BY <2>1, <2>2
<1> QED
  BY <1>3, <1>5, <1>6, <1>7, <1>8, <1>9 DEF RunAt

(* A step that counts a listed token, or none, after the list has grown or   *)
(* not.                                                                    *)
LEMMA CountWhole ==
  ASSUME ~Overlap, TypeOK, IInv, NEW p \in Learners, Step(p), Running(p), Running(p)',
         UNCHANGED <<online, head, pc, opt, other, merged>>,
         pc[p] \in {"mergeHashes", "learn"}, file'[p] = file[p],
         used[p] - Len(buffer[p]) <= used'[p] - Len(buffer'[p]),
         at'[p] = used'[p], access'[p] # "stdio" => buffer'[p] = <<>>,
         KeepsListed(p), AppendsOnly(p),
         \/ UNCHANGED <<counting, items>>
         \/ \E t \in Ids, n \in Nat : /\ n > 0 /\ Count(p, t, n)
                                    /\ ListsWithin(Flushed(p), used[p], t)',
         pending'[p] \subseteq pending[p]
  PROVE  RunAt(p)' /\ OnlineWhole'
<1>1. RunAt(p) /\ TypeOK' /\ PlacedAt(p) /\ \A q \in Learners \ {p} : ~Running(q)
  BY RunFacts
<1>2. /\ CountedAt(p)' /\ unique[p] <= unique'[p]
      /\ \A t \in Filled(Table(p)') : t \in Filled(Table(p)) \/ ListsWithin(Flushed(p), used[p], t)'
      /\ \A f \in Files : (items'[f] = items[f]) \/ (f = online /\ file[p] = online /\ "m" \in opt[p])
  <2>1. CASE UNCHANGED <<counting, items>>
    <3>1. Table(p)' = Table(p) /\ unique'[p] = unique[p] /\ unique[p] \in Nat
      BY <2>1, RunTypes DEF Table, counting
    <3> QED
      BY <1>1, <2>1, <3>1 DEF RunAt, CountedAt
  <2>2. CASE \E t \in Ids, n \in Nat : /\ n > 0 /\ Count(p, t, n)
                                        /\ ListsWithin(Flushed(p), used[p], t)'
    <3>0. PICK t \in Ids, n \in Nat : /\ n > 0 /\ Count(p, t, n)
                                     /\ ListsWithin(Flushed(p), used[p], t)'
      BY <2>2
    <3>1. /\ CountedAt(p)'
          /\ Filled(Table(p)') = Filled(Table(p)) \cup {t}
          /\ unique[p] <= unique'[p]
      BY <1>1, <3>0, CountCounts DEF RunAt
    <3>2. \/ UNCHANGED items
          \/ shared[p] /\ items' = [items EXCEPT ![file[p]] = Table(p)']
      BY <3>0, CountTable
    <3>3. \A f \in Files : (items'[f] = items[f]) \/ (f = online /\ file[p] = online /\ "m" \in opt[p])
      BY <1>1, <3>2, SharedInPlace DEF TypeOK, DiskType
    <3> QED
      BY <3>0, <3>1, <3>3
  <2> QED
    BY <2>1, <2>2
<1>3. CursorAt(p)'
  BY <1>1 DEF CursorAt
<1>4. CoveredAt(p)'
  BY <1>1, <1>2 DEF RunAt, CoveredAt, KeepsListed
<1>5. MergedAt(p)'
  BY <1>1 DEF RunAt, MergedAt, KeepsListed
<1>6. MadeAt(p)'
  BY DEF MadeAt
<1>7. file'[p] = online' => FoundAt(p)'
  <2> SUFFICES ASSUME file[p] = online
               PROVE  FoundAt(p)'
    OBVIOUS
  <2>1. FoundAt(p) /\ head[online] \in Heads
    BY <1>1 DEF RunAt, TypeOK, OpenAt, DiskType
  <2>2. /\ used'[p] \in Nat /\ Len(buffer'[p]) \in Nat /\ unique'[p] \in Nat
        /\ used[p] \in Nat /\ Len(buffer[p]) \in Nat /\ unique[p] \in Nat
    <3>1. used'[p] \in Nat /\ buffer'[p] \in Seq(Ids) /\ unique'[p] \in Nat
      BY <1>1 DEF TypeOK, TmpType, CountingType
    <3> QED
      BY <3>1, RunTypes
  <2>3. head[online].used \in Nat /\ head[online].unique \in Nat
    BY <2>1 DEF Heads
  <2>4. CASE "m" \notin opt[p]
    <3>1. head[online].used <= used[p] - Len(buffer[p])
      BY <2>1, <2>4 DEF FoundAt
    <3>2. head[online].used <= used'[p] - Len(buffer'[p])
      BY <2>2, <2>3, <3>1
    <3> QED
      BY <2>4, <3>2 DEF FoundAt
  <2>5. CASE "m" \in opt[p]
    <3>1. head[online].unique <= unique'[p]
      BY <1>2, <2>1, <2>2, <2>3, <2>5 DEF FoundAt
    <3> QED
      BY <2>5, <3>1 DEF FoundAt
  <2> QED
    BY <2>4, <2>5
<1>8. OnlineWhole'
  <2>1. SparesOnline(p)
    BY <1>2 DEF SparesOnline, AppendsOnly, Appends, TypeOK, DiskType
  <2> QED
    BY <1>1, <2>1, OnlineKept
<1> QED
  BY <1>2, <1>3, <1>4, <1>5, <1>6, <1>7, <1>8 DEF RunAt

(* A step that leaves the list and the position alone. *)
LEMMA ListAlone ==
  ASSUME TypeOK, NEW p \in Learners, Running(p), UNCHANGED <<list, tmp>>
  PROVE  /\ file'[p] = file[p]
         /\ used[p] - Len(buffer[p]) <= used'[p] - Len(buffer'[p])
         /\ at'[p] = at[p] /\ used'[p] = used[p]
         /\ access'[p] = access[p] /\ buffer'[p] = buffer[p]
         /\ KeepsListed(p) /\ AppendsOnly(p)
<1>1. Flushed(p)' = Flushed(p) /\ UNCHANGED <<list, file, access, at, used, buffer>>
  BY DEF Flushed, tmp
<1>2. list[file[p]] \in Seq(Tokens) /\ used[p] \in Nat /\ Len(buffer[p]) \in Nat
  BY RunTypes
<1> QED
  BY <1>1, <1>2 DEF KeepsListed, AppendsOnly, Appends

LEMMA MergeItemWhole ==
  ASSUME ~Overlap, TypeOK, IInv, NEW p \in Learners, Step(p), NEW t \in Ids, MergeItem(p, t)
  PROVE  RunAt(p)' /\ OnlineWhole'
<1>1. /\ UNCHANGED <<online, head, list, pc, opt, input, other, merged, tmp, walked>>
      /\ pc[p] = "mergeHashes" /\ t \in pending[p]
      /\ pending' = [pending EXCEPT ![p] = pending[p] \ {t}]
  BY DEF MergeItem
<1>2. Running(p) /\ Running(p)' /\ RunAt(p)
  BY <1>1, RunFacts DEF Running, Ended
<1>3. pending'[p] \subseteq pending[p]
  BY <1>1 DEF TypeOK, MergingType
<1>4. /\ file'[p] = file[p]
      /\ used[p] - Len(buffer[p]) <= used'[p] - Len(buffer'[p])
      /\ at'[p] = at[p] /\ used'[p] = used[p]
      /\ access'[p] = access[p] /\ buffer'[p] = buffer[p]
      /\ KeepsListed(p) /\ AppendsOnly(p)
  BY <1>1, <1>2, ListAlone
<1>5. at'[p] = used'[p] /\ (access'[p] # "stdio" => buffer'[p] = <<>>)
  BY <1>1, <1>2, <1>4 DEF RunAt, CursorAt, Learning
<1>6. \/ UNCHANGED <<counting, items>>
      \/ \E i \in Ids, n \in Nat : /\ n > 0 /\ Count(p, i, n)
                                 /\ ListsWithin(Flushed(p), used[p], i)'
  <2>1. ListsWithin(Flushed(p), used[p], t)'
    BY <1>1, <1>2, <1>4 DEF RunAt, MergedAt, KeepsListed
  <2>2. other[p].items[t] \in Nat /\ other[p].items[t] > 0
    <3>1. other[p].items \in Counts
      BY <1>2, RunTypes
    <3>2. t \in Filled(other[p].items)
      BY <1>1, <1>2 DEF RunAt, MergedAt
    <3> QED
      BY <3>1, <3>2 DEF Counts, Filled
  <2> QED
    BY <2>1, <2>2 DEF MergeItem
<1> QED
  BY <1>1, <1>2, <1>3, <1>4, <1>5, <1>6, CountWhole

LEMMA LearnsWhole ==
  ASSUME ~Overlap, TypeOK, IInv, NEW p \in Learners, Step(p), Learns(p)
  PROVE  RunAt(p)' /\ OnlineWhole'
<1>0. PICK t \in Ids : CountKnown(p, t) \/ CountNew(p, t) \/ Refuse(p, t)
  BY DEF Learns
<1>1. /\ UNCHANGED <<online, head, pc, opt, other, merged, pending, walked>>
      /\ pc[p] = "learn"
  BY <1>0 DEF CountKnown, CountNew, Refuse, ReadInput, MoreInput, merging
<1>2. Running(p) /\ Running(p)' /\ RunAt(p)
  BY <1>1, RunFacts DEF Running, Ended
<1>3. at[p] = used[p] /\ (access[p] # "stdio" => buffer[p] = <<>>)
  BY <1>1, <1>2 DEF RunAt, CursorAt, Learning
<1>4. CASE CountNew(p, t)
  <2>1. Count(p, t, 1) /\ WriteToken(p, t) /\ file'[p] = file[p]
    BY <1>4 DEF CountNew, WriteToken
  <2>2. /\ at'[p] = used'[p]
        /\ access'[p] # "stdio" => buffer'[p] = <<>>
        /\ used[p] - Len(buffer[p]) <= used'[p] - Len(buffer'[p])
        /\ KeepsListed(p)
        /\ ListsWithin(Flushed(p), used[p], t)'
        /\ AppendsOnly(p)
    BY <1>1, <1>2, <1>3, <2>1, WriteTokenLists
  <2>3. \E i \in Ids, n \in Nat : /\ n > 0 /\ Count(p, i, n)
                                /\ ListsWithin(Flushed(p), used[p], i)'
    <3>1. 1 \in Nat /\ 1 > 0
      OBVIOUS
    <3> QED
      BY <2>1, <2>2, <3>1
  <2>4. pending'[p] \subseteq pending[p]
    BY <1>1
  <2> QED
    BY <1>1, <1>2, <2>1, <2>2, <2>3, <2>4, CountWhole
<1>5. CASE CountKnown(p, t) \/ Refuse(p, t)
  <2>1. UNCHANGED <<list, tmp>>
    BY <1>5 DEF CountKnown, Refuse
  <2>2. /\ file'[p] = file[p]
        /\ used[p] - Len(buffer[p]) <= used'[p] - Len(buffer'[p])
        /\ at'[p] = at[p] /\ used'[p] = used[p]
        /\ access'[p] = access[p] /\ buffer'[p] = buffer[p]
        /\ KeepsListed(p) /\ AppendsOnly(p)
    BY <1>2, <2>1, ListAlone
  <2>3. \/ UNCHANGED <<counting, items>>
        \/ \E i \in Ids, n \in Nat : /\ n > 0 /\ Count(p, i, n)
                                   /\ ListsWithin(Flushed(p), used[p], i)'
    <3>1. CASE CountKnown(p, t)
      <4>1. Count(p, t, 1) /\ t \in Filled(Table(p)) /\ 1 \in Nat /\ 1 > 0
        BY <3>1 DEF CountKnown, Known
      <4>2. ListsWithin(Flushed(p), used[p], t)
        BY <1>1, <1>2, <4>1 DEF RunAt, CoveredAt
      <4>3. ListsWithin(Flushed(p), used[p], t)'
        BY <2>2, <4>2 DEF KeepsListed
      <4> QED
        BY <4>1, <4>3
    <3>2. CASE Refuse(p, t)
      BY <3>2 DEF Refuse
    <3> QED
      BY <1>5, <3>1, <3>2
  <2>4. pending'[p] \subseteq pending[p]
    BY <1>1
  <2>5. at'[p] = used'[p] /\ (access'[p] # "stdio" => buffer'[p] = <<>>)
    BY <1>3, <2>2
  <2> QED
    BY <1>1, <1>2, <2>2, <2>3, <2>4, <2>5, CountWhole
<1> QED
  BY <1>0, <1>4, <1>5

LEMMA FlushWhole ==
  ASSUME ~Overlap, TypeOK, IInv, NEW p \in Learners, Step(p), Flush(p)
  PROVE  RunAt(p)' /\ OnlineWhole'
<1>1. /\ Running(p) /\ Running(p)' /\ buffer[p] # <<>>
      /\ list' = [list EXCEPT ![file[p]] = Flushed(p)]
      /\ buffer' = [buffer EXCEPT ![p] = <<>>]
      /\ UNCHANGED <<online, head, items, pc, opt, input, counting, merging,
                     file, access, at, used, avail, walked>>
  BY DEF Flush, Running
<1>2. RunAt(p) /\ TypeOK' /\ PlacedAt(p) /\ \A q \in Learners \ {p} : ~Running(q)
  BY RunFacts, <1>1
<1>3. buffer'[p] = <<>> /\ at[p] = used[p] /\ at[p] \in Nat /\ used[p] \in Nat
  BY <1>1, <1>2, RunTypes DEF TypeOK, TmpType, RunAt, CursorAt
<1>4. /\ Flushed(p)' = Flushed(p) /\ list'[file[p]] = Flushed(p)
      /\ Len(Flushed(p)) >= at[p]
      /\ used[p] - Len(buffer[p]) <= used'[p] - Len(buffer'[p])
      /\ KeepsListed(p)
      /\ AppendsOnly(p)
  <2>1. /\ file'[p] = file[p] /\ used'[p] = used[p] /\ at'[p] = at[p]
        /\ at'[p] \in Nat /\ at'[p] <= at[p]
    BY <1>1, <1>3
  <2> QED
    BY <1>1, <1>3, <2>1, FlushedLists
<1>5. Table(p)' = Table(p)
  BY <1>1 DEF Table, counting
<1>6. CountedAt(p)' /\ CursorAt(p)'
  BY <1>1, <1>2, <1>3, <1>5 DEF RunAt, CountedAt, CursorAt, counting, merging
<1>7. CoveredAt(p)' /\ MergedAt(p)'
  BY <1>1, <1>2, <1>4, <1>5 DEF RunAt, CoveredAt, MergedAt, merging
<1>8. /\ pc[p] # "copy"
      /\ pc[p] = "mergeTokens" => merged[p] # 0
  BY <1>1, <1>2 DEF TypeOK, RunAt, CursorAt
<1>9. ASSUME NEW f \in Files \ {file[p]}, Whole(f)
      PROVE  Whole(f)'
  <2>1. list'[f] = list[f] /\ head'[f] = head[f] /\ items'[f] = items[f]
    BY <1>1, <1>4 DEF AppendsOnly, Appends
  <2> QED
    BY <1>9, <2>1 DEF Whole
<1>10. MadeAt(p)'
  <2>1. NewDump(p) \in Files \ {file[p]}
    BY <1>1, <1>2, ConstantTypes DEF PlacedAt
  <2> QED
    BY <1>1, <1>2, <1>8, <1>9, <2>1 DEF RunAt, MadeAt, counting
<1>11. file'[p] = online' => FoundAt(p)'
  <2> SUFFICES ASSUME file[p] = online
               PROVE  FoundAt(p)'
    BY <1>1
  <2>1. FoundAt(p) /\ head[online] \in Heads
    BY <1>1, <1>2 DEF RunAt, TypeOK, OpenAt, DiskType
  <2>2. CASE "m" \notin opt[p]
    <3>1. /\ head[online].used \in Nat /\ head[online].used <= used[p] - Len(buffer[p])
          /\ used'[p] \in Nat /\ Len(buffer'[p]) = 0 /\ Len(buffer[p]) \in Nat
      BY <1>1, <1>3, <2>1, <2>2, RunTypes DEF FoundAt, Heads
    <3>2. head[online].used <= used'[p] - Len(buffer'[p])
      BY <1>1, <1>3, <3>1
    <3> QED
      BY <1>1, <2>2, <3>2 DEF FoundAt
  <2>3. CASE "m" \in opt[p]
    <3>1. pc[p] # "save"
      BY <1>1, <1>2 DEF RunAt, CursorAt
    <3> QED
      BY <1>1, <1>8, <2>1, <2>3, <3>1 DEF FoundAt, counting, merging
  <2> QED
    BY <2>2, <2>3
<1>12. OnlineWhole'
  <2>1. SparesOnline(p)
    BY <1>1, <1>4 DEF SparesOnline, AppendsOnly, Appends, TypeOK, DiskType
  <2> QED
    BY <1>1, <1>2, <2>1, OnlineKept
<1> QED
  BY <1>6, <1>7, <1>10, <1>11, <1>12 DEF RunAt

(* The dump is begun, or given up. *)
LEMMA DumpGoesOn ==
  ASSUME ~Overlap, ~MappedMayFail, TypeOK, IInv, NEW p \in Learners, Step(p),
         EndOfInput(p) \/ DumpFails(p)
  PROVE  RunAt(p)' /\ OnlineWhole'
<1>1. /\ UNCHANGED <<disk, opt, counting, other, merged, tmp, walked>>
      /\ \/ pc[p] = "learn" /\ unique[p] > 0 /\ pc'[p] = "dump"
         \/ pc[p] \in {"dump", "copy", "rename"} /\ "m" \notin opt[p] /\ pc'[p] = "walk"
  BY DEF EndOfInput, DumpFails, merging, GoTo, TypeOK, PlaceType
<1>2. Running(p) /\ Running(p)'
  BY <1>1 DEF Running, Ended
<1>3. /\ RunAt(p) /\ CountedAt(p)' /\ OnlineWhole'
      /\ Table(p)' = Table(p) /\ Flushed(p)' = Flushed(p)
  BY <1>1, <1>2, GoOnWhole
<1>4. UNCHANGED <<online, head, list, items, unique, file, access, at, used, buffer>>
  BY <1>1 DEF disk, counting, tmp
<1>5. CursorAt(p)'
  BY <1>1, <1>3, <1>4 DEF RunAt, CursorAt, Learning
<1>6. CoveredAt(p)'
  BY <1>1, <1>3, <1>4 DEF RunAt, CoveredAt
<1>7. MergedAt(p)' /\ MadeAt(p)'
  BY <1>1, <1>4 DEF MergedAt, MadeAt
<1>8. file'[p] = online' => FoundAt(p)'
  BY <1>1, <1>3, <1>4 DEF RunAt, FoundAt
<1> QED
  BY <1>3, <1>5, <1>6, <1>7, <1>8 DEF RunAt

LEMMA DumpInPlaceWhole ==
  ASSUME ~Overlap, TypeOK, IInv, NEW p \in Learners, Step(p), DumpInPlace(p)
  PROVE  RunAt(p)' /\ OnlineWhole'
<1>1. /\ pc[p] = "dump" /\ pc'[p] = "walk" /\ shared[p]
      /\ head' = [head EXCEPT ![file[p]] = Struct(p)]
      /\ UNCHANGED <<online, items, list, opt, counting, tmp, walked>>
  BY DEF DumpInPlace, GoTo, TypeOK, PlaceType
<1>2. /\ Running(p) /\ Running(p)' /\ RunAt(p) /\ file[p] = online /\ "m" \in opt[p]
      /\ online \in Files
  BY <1>1, RunFacts, SharedInPlace DEF Running, Ended, TypeOK, OpenAt
<1>3. /\ Table(p)' = Table(p) /\ Flushed(p)' = Flushed(p)
      /\ UNCHANGED <<unique, shared, file, access, at, used, buffer>>
  BY <1>1 DEF Table, Flushed, counting, tmp
<1>4. head'[online].unique = unique[p] /\ head'[online].used = used[p]
  BY <1>1, <1>2 DEF TypeOK, DiskType, Struct, Heading
<1>5. at[p] = used[p] /\ unique[p] > 0 /\ unique[p] \in Nat
  BY <1>1, <1>2, RunTypes DEF RunAt, CursorAt, MadeAt, Learning
<1>6. CountedAt(p)' /\ CursorAt(p)' /\ CoveredAt(p)'
  BY <1>1, <1>2, <1>3, <1>5 DEF RunAt, CountedAt, CursorAt, CoveredAt
<1>7. MergedAt(p)' /\ MadeAt(p)'
  BY <1>1 DEF MergedAt, MadeAt
<1>8. FoundAt(p)'
  BY <1>1, <1>2, <1>3, <1>4, <1>5 DEF FoundAt
<1>9. OnlineWhole'
  BY <1>1, <1>2, <1>3, <1>4, <1>5 DEF OnlineWhole, InPlace
<1> QED
  BY <1>6, <1>7, <1>8, <1>9 DEF RunAt

(* Reading the list back from its start, after the rest of it was written.   *)
LEMMA SeekStartLists ==
  ASSUME TypeOK, NEW p \in Learners, Running(p), CursorAt(p), SeekStart(p),
         file'[p] = file[p], used'[p] = used[p]
  PROVE  /\ Flushed(p)' = Flushed(p) /\ list'[file[p]] = Flushed(p)
         /\ Len(Flushed(p)) >= at[p] /\ at'[p] = 0 /\ buffer'[p] = <<>>
         /\ used[p] - Len(buffer[p]) <= used'[p] - Len(buffer'[p])
         /\ KeepsListed(p)
         /\ AppendsOnly(p)
<1>1. /\ list' = [list EXCEPT ![file[p]] = Flushed(p)]
      /\ buffer'[p] = <<>> /\ at'[p] = 0
  BY DEF SeekStart, TypeOK, TmpType
<1>2. at'[p] \in Nat /\ at'[p] <= at[p] /\ (buffer[p] # <<>> => at[p] = used[p])
  BY <1>1, RunTypes DEF CursorAt
<1> QED
  BY <1>1, <1>2, FlushedLists

LEMMA DumpSeekWhole ==
  ASSUME ~Overlap, TypeOK, IInv, NEW p \in Learners, Step(p), DumpSeek(p)
  PROVE  RunAt(p)' /\ OnlineWhole'
<1>1. /\ pc[p] = "dump" /\ pc'[p] = "copy" /\ SeekStart(p)
      /\ UNCHANGED <<online, head, items, opt, counting, file, access, used, avail, walked>>
  BY DEF DumpSeek, GoTo, TypeOK, PlaceType
<1>2. /\ Running(p) /\ Running(p)' /\ RunAt(p) /\ TypeOK'
      /\ \A q \in Learners \ {p} : ~Running(q)
  BY <1>1, RunFacts DEF Running, Ended
<1>3. CursorAt(p) /\ at[p] = used[p] /\ used[p] \in Nat /\ unique[p] > 0
  BY <1>1, <1>2, RunTypes DEF RunAt, CursorAt, MadeAt, Learning
<1>4. /\ Flushed(p)' = Flushed(p) /\ list'[file[p]] = Flushed(p)
      /\ Len(Flushed(p)) >= at[p] /\ at'[p] = 0 /\ buffer'[p] = <<>>
      /\ used[p] - Len(buffer[p]) <= used'[p] - Len(buffer'[p])
      /\ KeepsListed(p)
      /\ AppendsOnly(p)
  <2>1. file'[p] = file[p] /\ used'[p] = used[p]
    BY <1>1
  <2> QED
    BY <1>1, <1>2, <1>3, <2>1, SeekStartLists
<1>5. Table(p)' = Table(p)
  BY <1>1 DEF Table, counting
<1>6. CountedAt(p)' /\ CursorAt(p)'
  BY <1>1, <1>2, <1>4, <1>5 DEF RunAt, CountedAt, CursorAt, counting, Learning
<1>7. CoveredAt(p)' /\ MergedAt(p)'
  BY <1>1, <1>2, <1>4, <1>5 DEF RunAt, CoveredAt, MergedAt
<1>8. MadeAt(p)'
  <2>1. Flushed(p) \in Seq(Tokens)
    BY <1>2, RunTypes
  <2>2. used[p] <= Len(list'[file[p]])
    BY <1>3, <1>4, <2>1
  <2> QED
    BY <1>1, <1>3, <1>4, <2>2 DEF MadeAt, counting
<1>9. file'[p] = online' => FoundAt(p)'
  <2> SUFFICES ASSUME file[p] = online
               PROVE  FoundAt(p)'
    BY <1>1
  <2>1. FoundAt(p) /\ head[online] \in Heads
    BY <1>2 DEF RunAt, TypeOK, OpenAt, DiskType
  <2>2. CASE "m" \notin opt[p]
    <3>1. /\ head[online].used \in Nat /\ head[online].used <= used[p] - Len(buffer[p])
          /\ Len(buffer[p]) \in Nat /\ Len(<<>>) = 0
      BY <1>2, <2>1, <2>2, RunTypes DEF FoundAt, Heads
    <3>2. head[online].used <= used'[p] - Len(buffer'[p])
      BY <1>1, <1>3, <1>4, <3>1
    <3> QED
      BY <1>1, <2>2, <3>2 DEF FoundAt
  <2>3. CASE "m" \in opt[p]
    BY <1>1, <2>1, <2>3 DEF FoundAt, counting
  <2> QED
    BY <2>2, <2>3
<1>10. OnlineWhole'
  <2>1. SparesOnline(p)
    BY <1>1, <1>4 DEF SparesOnline, AppendsOnly, Appends, TypeOK, DiskType
  <2> QED
    BY <1>1, <1>2, <2>1, OnlineKept
<1> QED
  BY <1>6, <1>7, <1>8, <1>9, <1>10 DEF RunAt

LEMMA DumpCopyWhole ==
  ASSUME ~Overlap, TypeOK, IInv, NEW p \in Learners, Step(p), DumpCopy(p)
  PROVE  RunAt(p)' /\ OnlineWhole'
<1> DEFINE s == list[file[p]]
           d == NewDump(p)
<1>1. /\ pc[p] = "copy"
      /\ head' = [head EXCEPT ![d] = Struct(p)]
      /\ items' = [items EXCEPT ![d] = table[p]]
      /\ list' = [list EXCEPT ![d] = Listed(s, used[p])]
      /\ at' = [at EXCEPT ![p] = used[p]]
      /\ GoTo(p, IF used[p] <= Len(s) THEN "rename" ELSE "walk")
      /\ UNCHANGED <<online, opt, counting, merging, file, access, used, avail, buffer, walked>>
  BY DEF DumpCopy
<1>2. /\ Running(p) /\ RunAt(p) /\ TypeOK' /\ PlacedAt(p)
      /\ \A q \in Learners \ {p} : ~Running(q)
  BY <1>1, RunFacts DEF Running, Ended
<1>3. /\ at[p] = 0 /\ used[p] <= Len(s) /\ unique[p] > 0 /\ buffer[p] = <<>>
      /\ s \in Seq(Tokens) /\ used[p] \in Nat /\ Len(<<>>) = 0
  BY <1>1, <1>2, RunTypes DEF RunAt, MadeAt, TypeOK
<1>4. pc'[p] = "rename" /\ Running(p)'
  BY <1>1, <1>3 DEF GoTo, TypeOK, PlaceType, Running, Ended
<1>5. /\ d \in Files /\ file[p] # d /\ online # d /\ ~shared[p]
  BY <1>1, <1>2, ConstantTypes DEF PlacedAt, Running, Ended
<1>6. /\ head'[d] = Struct(p) /\ items'[d] = table[p]
      /\ list'[d] = Listed(s, used[p])
      /\ \A f \in Files \ {d} : head'[f] = head[f] /\ items'[f] = items[f] /\ list'[f] = list[f]
      /\ at'[p] = used[p]
  BY <1>1, <1>5 DEF TypeOK, DiskType, TmpType
<1>7. list'[file[p]] = s /\ file'[p] = file[p] /\ used'[p] = used[p] /\ buffer'[p] = <<>>
  BY <1>1, <1>2, <1>3, <1>5, <1>6, RunTypes
<1>8. Flushed(p) = s /\ Flushed(p)' = s
  <2>1. at[p] - Len(buffer[p]) = 0
    <3>1. Len(buffer[p]) = 0 /\ at[p] = 0
      BY <1>3
    <3> QED
      BY <3>1
  <2>2. Flushed(p) = Overwrite(s, 0, <<>>)
    BY <1>3, <2>1 DEF Flushed
  <2>3. at'[p] - Len(buffer'[p]) = used[p]
    BY <1>3, <1>6, <1>7
  <2>4. Flushed(p)' = Overwrite(s, used[p], <<>>)
    BY <1>7, <2>3 DEF Flushed
  <2>5. 0 \in Nat /\ 0 <= Len(s)
    BY <1>3
  <2> HIDE DEF s
  <2>6. Overwrite(s, 0, <<>>) = s /\ Overwrite(s, used[p], <<>>) = s
    BY <1>3, <2>5, OverwriteNothing
  <2> QED
    BY <2>2, <2>4, <2>6
<1>9. Table(p) = table[p] /\ Table(p)' = table[p] /\ UNCHANGED <<unique, shared>>
  BY <1>1, <1>5 DEF Table, counting
<1>10. CountedAt(p)'
  BY <1>2, <1>9 DEF RunAt, CountedAt
<1>11. CursorAt(p)'
  BY <1>4, <1>6, <1>7 DEF CursorAt, Learning
<1>12. /\ \A t \in Filled(table[p]) : ListsWithin(s, used[p], t)
       /\ CoveredAt(p)'
  BY <1>1, <1>2, <1>4, <1>7, <1>8, <1>9 DEF RunAt, CoveredAt
<1>13. MergedAt(p)'
  BY <1>4 DEF MergedAt
<1>14. Whole(d)' /\ head'[d].unique > 0
  <2>1. head'[d].unique = unique[p] /\ head'[d].used = used[p]
    BY <1>6 DEF Struct, Heading
  <2>2. /\ Len(Listed(s, used[p])) = used[p]
        /\ \A t \in Filled(table[p]) : ListsWithin(Listed(s, used[p]), used[p], t)
    <3> HIDE DEF s
    <3>1. /\ used[p] <= Len(s) => Len(Listed(s, used[p])) = used[p]
          /\ \A x : ListsWithin(s, used[p], x) => ListsWithin(Listed(s, used[p]), used[p], x)
      BY <1>3, ListedFacts
    <3> QED
      BY <1>3, <1>12, <3>1
  <2>3. IsFiniteSet(Filled(table[p])) /\ unique[p] = Cardinality(Filled(table[p]))
    BY <1>2, <1>9 DEF RunAt, CountedAt
  <2>4. used[p] <= Len(list'[d])
    BY <1>3, <1>6, <2>2
  <2>5. \A t \in Filled(items'[d]) : ListsWithin(list'[d], head'[d].used, t)
    BY <1>6, <2>1, <2>2
  <2> HIDE DEF d
  <2> QED
    BY <1>3, <1>6, <2>1, <2>3, <2>4, <2>5 DEF Whole
<1>15. MadeAt(p)'
  BY <1>4, <1>14 DEF MadeAt
<1>16. file'[p] = online' => FoundAt(p)'
  <2> SUFFICES ASSUME file[p] = online
               PROVE  FoundAt(p)'
    BY <1>1
  <2>1. FoundAt(p) /\ head'[online] = head[online]
    BY <1>2, <1>5, <1>6, RunTypes DEF RunAt
  <2> QED
    BY <1>1, <1>4, <1>7, <1>9, <2>1 DEF FoundAt
<1>17. OnlineWhole'
  <2>1. online # None => /\ head'[online] = head[online] /\ items'[online] = items[online]
                         /\ list'[online] = list[online]
    BY <1>5, <1>6 DEF TypeOK, DiskType
  <2>2. SparesOnline(p)
    BY <1>3, <1>7, <2>1 DEF SparesOnline, Appends
  <2> QED
    BY <1>1, <1>2, <1>4, <1>7, <2>2, OnlineKept
<1> QED
  BY <1>10, <1>11, <1>12, <1>13, <1>15, <1>16, <1>17 DEF RunAt

LEMMA DumpRenameWhole ==
  ASSUME ~Overlap, TypeOK, IInv, NEW p \in Learners, Step(p), DumpRename(p)
  PROVE  RunAt(p)' /\ OnlineWhole'
<1>1. /\ pc[p] = "rename" /\ pc'[p] = "walk" /\ online' = NewDump(p)
      /\ UNCHANGED <<head, items, list, opt, counting, merging, tmp, walked>>
  BY DEF DumpRename, GoTo, TypeOK, PlaceType
<1>2. Running(p) /\ Running(p)' /\ RunAt(p) /\ PlacedAt(p)
  BY <1>1, RunFacts DEF Running, Ended
<1>3. /\ Table(p)' = Table(p) /\ Flushed(p)' = Flushed(p)
      /\ UNCHANGED <<unique, file, access, at, used, buffer>>
  BY <1>1 DEF Table, Flushed, counting, tmp
<1>4. CountedAt(p)' /\ CursorAt(p)' /\ CoveredAt(p)'
  BY <1>1, <1>2, <1>3 DEF RunAt, CountedAt, CursorAt, CoveredAt, Learning
<1>5. MergedAt(p)' /\ MadeAt(p)'
  BY <1>1 DEF MergedAt, MadeAt
<1>6. file'[p] # online'
  BY <1>1, <1>2, <1>3 DEF PlacedAt
<1>7. OnlineWhole'
  <2>1. Whole(NewDump(p)) /\ head[NewDump(p)].unique > 0
    BY <1>1, <1>2 DEF RunAt, MadeAt
  <2> QED
    BY <1>1, <2>1 DEF OnlineWhole, Whole
<1> QED
  BY <1>4, <1>5, <1>6, <1>7 DEF RunAt

LEMMA WalkWhole ==
  ASSUME ~Overlap, TypeOK, IInv, NEW p \in Learners, Step(p), Walk(p)
  PROVE  RunAt(p)' /\ OnlineWhole'
<1>1. /\ pc[p] = "walk" /\ pc'[p] = "save" /\ SeekStart(p)
      /\ walked'[p] = Listed(Flushed(p), used[p])
      /\ UNCHANGED <<online, head, items, opt, counting, file, access, used, avail>>
  BY DEF Walk, GoTo, TypeOK, PlaceType, TmpType
<1>2. /\ Running(p) /\ Running(p)' /\ RunAt(p) /\ TypeOK' /\ PlacedAt(p)
      /\ \A q \in Learners \ {p} : ~Running(q)
  BY <1>1, RunFacts DEF Running, Ended
<1>3. /\ CursorAt(p) /\ used[p] \in Nat /\ Flushed(p) \in Seq(Tokens) /\ file[p] \in Files
  BY <1>1, <1>2, RunTypes DEF RunAt
<1>4. /\ Flushed(p)' = Flushed(p) /\ list'[file[p]] = Flushed(p)
      /\ Len(Flushed(p)) >= at[p] /\ at'[p] = 0 /\ buffer'[p] = <<>>
      /\ used[p] - Len(buffer[p]) <= used'[p] - Len(buffer'[p])
      /\ KeepsListed(p)
      /\ AppendsOnly(p)
  <2>1. file'[p] = file[p] /\ used'[p] = used[p]
    BY <1>1
  <2> QED
    BY <1>1, <1>2, <1>3, <2>1, SeekStartLists
<1>5. Table(p)' = Table(p) /\ UNCHANGED <<unique, shared>>
  BY <1>1 DEF Table, counting
<1>6. CountedAt(p)' /\ CursorAt(p)'
  BY <1>1, <1>2, <1>4, <1>5 DEF RunAt, CountedAt, CursorAt, Learning
<1>7. \A t \in Filled(Table(p)) : ListsWithin(Flushed(p), used[p], t)
  BY <1>1, <1>2 DEF RunAt, CoveredAt
<1>8. CoveredAt(p)'
  <2>1. \A x : ListsWithin(Flushed(p), used[p], x)
               => \E k \in DOMAIN Listed(Flushed(p), used[p]) : Listed(Flushed(p), used[p])[k] = x
    BY <1>3, ListedFacts
  <2> QED
    BY <1>1, <1>5, <1>7, <2>1 DEF CoveredAt
<1>9. MergedAt(p)' /\ MadeAt(p)'
  BY <1>1 DEF MergedAt, MadeAt
<1>10. file'[p] = online' => FoundAt(p)'
  <2> SUFFICES ASSUME file[p] = online
               PROVE  FoundAt(p)'
    BY <1>1
  <2>1. FoundAt(p) /\ head[online] \in Heads
    BY <1>2 DEF RunAt, TypeOK, OpenAt, DiskType
  <2>2. CASE "m" \notin opt[p]
    <3>1. /\ head[online].used \in Nat /\ head[online].used <= used[p] - Len(buffer[p])
          /\ Len(buffer[p]) \in Nat /\ Len(<<>>) = 0
      BY <1>2, <2>1, <2>2, RunTypes DEF FoundAt, Heads
    <3>2. head[online].used <= used'[p] - Len(buffer'[p])
      BY <1>1, <1>3, <1>4, <3>1
    <3> QED
      BY <1>1, <2>2, <3>2 DEF FoundAt
  <2>3. CASE "m" \in opt[p]
    <3>1. /\ shared[p] /\ at[p] = used[p] /\ head[online].unique = unique[p]
          /\ head[online].used = used[p] /\ head[online].unique <= unique[p]
      BY <1>1, <2>1, <2>3 DEF FoundAt
    <3>2. Whole(online)'
      <4>1. items'[online] = items[online] /\ Table(p) = items[online]
        BY <1>1, <3>1 DEF Table
      <4>2. list'[online] = Flushed(p) /\ head'[online] = head[online]
        BY <1>1, <1>4
      <4>3. used[p] <= Len(list'[online])
        BY <1>3, <1>4, <3>1, <4>2
      <4>4. IsFiniteSet(Filled(Table(p))) /\ unique[p] = Cardinality(Filled(Table(p)))
        BY <1>2 DEF RunAt, CountedAt
      <4> QED
        BY <1>1, <1>7, <3>1, <4>1, <4>2, <4>3, <4>4 DEF Whole
    <3> QED
      BY <1>1, <1>5, <2>3, <3>1, <3>2 DEF FoundAt
  <2> QED
    BY <2>2, <2>3
<1>11. OnlineWhole'
  <2>1. SparesOnline(p)
    BY <1>1, <1>4 DEF SparesOnline, AppendsOnly, Appends, TypeOK, DiskType
  <2> QED
    BY <1>1, <1>2, <2>1, OnlineKept
<1> QED
  BY <1>6, <1>8, <1>9, <1>10, <1>11 DEF RunAt

-----------------------------------------------------------------------------
(* The invariant.                                                          *)

LEMMA WorksWhole ==
  ASSUME ~Overlap, ~MappedMayFail, TypeOK, IInv, NEW p \in Learners, Step(p), Works(p)
  PROVE  RunAt(p)' /\ OnlineWhole'
<1>1. CASE Merges(p)
  BY <1>1, MergeTokenWhole, MergedWhole, MergeItemWhole DEF Merges
<1>2. CASE Learns(p)
  BY <1>2, LearnsWhole
<1>3. CASE Saves(p)
  BY <1>3, DumpGoesOn, DumpInPlaceWhole, DumpSeekWhole, DumpCopyWhole, DumpRenameWhole, WalkWhole
     DEF Saves
<1>4. CASE Flush(p)
  BY <1>4, FlushWhole
<1> QED
  BY <1>1, <1>2, <1>3, <1>4 DEF Works

LEMMA IInvInit == Init => IInv
BY PlacedInit DEF IInv, Init, OnlineWhole, Running

LEMMA IInvStep ==
  ASSUME ~Overlap, ~MappedMayFail, TypeOK, IInv, [Next]_vars
  PROVE  IInv'
<1>1. CASE Next
  <2>1. PICK p \in Learners : Step(p)
    BY <1>1 DEF Next, Step
  <2>2. /\ Placed' /\ \A q \in Learners \ {p} : ~Running(q)'
    BY <2>1, RunFacts
  <2>3. CASE BeginEmpty(p) \/ Load(p)
    BY <2>1, <2>2, <2>3, BeginWhole DEF IInv
  <2>4. CASE Ends(p)
    <3>1. OnlineWhole' /\ ~Running(p)'
      BY <2>1, <2>4, EndsWhole, EndsType
    <3> QED
      BY <2>2, <3>1 DEF IInv
  <2>5. CASE Works(p)
    BY <2>1, <2>2, <2>5, WorksWhole DEF IInv
  <2> QED
    BY <2>1, <2>3, <2>4, <2>5, StepKinds DEF Step
<1>2. CASE UNCHANGED vars
  <2>1. /\ UNCHANGED <<online, head, items, list, pc, opt, unique, room, shared, table>>
        /\ UNCHANGED <<other, merged, pending, file, access, at, used, buffer, walked>>
    BY <1>2 DEF vars, disk, counting, merging, tmp
  <2>2. OnlineWhole' /\ Placed'
    BY <2>1 DEF IInv, OnlineWhole, Whole, InPlace, Placed, Alone, PlacedAt, Running
  <2>3. ASSUME NEW p \in Learners, Running(p)'
        PROVE  RunAt(p)'
    <3>1. RunAt(p)
      BY <2>1, <2>3 DEF IInv, Running
    <3>2. /\ Table(p)' = Table(p) /\ Flushed(p)' = Flushed(p)
          /\ \A f \in Files : Whole(f) <=> Whole(f)'
      BY <2>1 DEF Table, Flushed, Whole
    <3>3. /\ CountedAt(p)' /\ CursorAt(p)' /\ CoveredAt(p)' /\ MergedAt(p)' /\ MadeAt(p)'
      BY <2>1, <3>1, <3>2, ConstantTypes
         DEF RunAt, CountedAt, CursorAt, CoveredAt, MergedAt, MadeAt
    <3>4. file'[p] = online' => FoundAt(p)'
      BY <2>1, <3>1 DEF RunAt, FoundAt, Whole
    <3> QED
      BY <3>3, <3>4 DEF RunAt
  <2> QED
    BY <2>2, <2>3 DEF IInv
<1> QED
  BY <1>1, <1>2

LEMMA IInvAlways == ~Overlap /\ ~MappedMayFail /\ Spec => [](TypeOK /\ IInv)
<1>1. Init => TypeOK /\ IInv
  BY TypeInit, IInvInit
<1>2. CASE ~Overlap /\ ~MappedMayFail
  <2>1. TypeOK /\ IInv /\ [Next]_vars => (TypeOK /\ IInv)'
    BY <1>2, TypeStep, IInvStep
  <2> QED
    BY <1>1, <2>1, PTL DEF Spec
<1>3. CASE ~(~Overlap /\ ~MappedMayFail)
  BY <1>3
<1> QED
  BY <1>2, <1>3

(* A dump that nobody is changing in place agrees with itself: write_online_ *)
(* learner_struct() leaves a learner_t that counts the tokens of the table   *)
(* and a list that has each of them, after any number of runs one after the  *)
(* other, whichever of -m, -H and -O they have, whatever they read and merge,*)
(* wherever stdio writes its buffer, mmap() fails or a run without -m is     *)
(* killed or cannot write its dump.                                         *)
THEOREM DumpAlwaysConsistent == ~Overlap /\ ~MappedMayFail /\ Spec => []DumpConsistent
<1>1. ASSUME TypeOK, IInv PROVE DumpConsistent
  <2> SUFFICES ASSUME online # None, ~InPlace(online)
               PROVE  /\ head[online].unique = Cardinality(Filled(items[online]))
                      /\ head[online].used <= Len(list[online])
                      /\ \A t \in Filled(items[online]) :
                           \E k \in 1..head[online].used : list[online][k] = t
    BY DEF DumpConsistent
  <2> QED
    BY <1>1 DEF IInv, OnlineWhole, Whole, ListsWithin
<1>2. CASE ~Overlap /\ ~MappedMayFail
  BY <1>1, <1>2, IInvAlways, PTL
<1>3. CASE ~(~Overlap /\ ~MappedMayFail)
  BY <1>3
<1> QED
  BY <1>2, <1>3

(* No token of the table lacks its reference weight when the category is     *)
(* saved: the walk of recalculate_reference_measure() through the token list *)
(* meets each one, those of earlier runs and of merged dumps as well.        *)
THEOREM AllTokensWeighed == ~Overlap /\ ~MappedMayFail /\ Spec => []EveryTokenWeighed
<1>1. ASSUME TypeOK, IInv PROVE EveryTokenWeighed
  BY <1>1 DEF EveryTokenWeighed, IInv, RunAt, CoveredAt, Running, Ended
<1>2. CASE ~Overlap /\ ~MappedMayFail
  BY <1>1, <1>2, IInvAlways, PTL
<1>3. CASE ~(~Overlap /\ ~MappedMayFail)
  BY <1>3
<1> QED
  BY <1>2, <1>3

=============================================================================
