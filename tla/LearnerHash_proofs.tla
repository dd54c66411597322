-------------------------- MODULE LearnerHash_proofs --------------------------
(***************************************************************************)
(* Proofs about LearnerHash, for every table size, token set, limit and    *)
(* HASH_FULL.                                                              *)
(***************************************************************************)
EXTENDS LearnerHash, FiniteSetTheorems, TLAPS

(* The inductive invariant: what a half-moved table looks like. *)
IInv == TypeOK /\ NoDuplicates /\ RehashInv

(* A token's home is a slot of the table. *)
LEMMA HomeInSlots ==
  ASSUME NEW n \in Nat \ {0}, NEW id \in Nat
  PROVE  id % n \in 0..(n - 1)
  OBVIOUS

(* A probe meets at most one first slot of a set. *)
LEMMA FirstIsUnique ==
  ASSUME maxTokens \in Nat \ {0},
         NEW S \in SUBSET Slots, NEW id \in Nat,
         NEW r, NEW s, FirstOf(S, id, r), FirstOf(S, id, s)
  PROVE  r = s
<1>1. Alloc \in Nat \ {0}
  BY DEF Alloc
<1>2. Home(id) \in 0..(Alloc - 1)
  BY <1>1, HomeInSlots DEF Home
<1>3. r \in 0..(Alloc - 1) /\ s \in 0..(Alloc - 1)
  BY DEF FirstOf, Slots
<1>4. r \notin Path(Home(id), s) /\ s \notin Path(Home(id), r)
  BY DEF FirstOf
<1> QED
  BY <1>1, <1>2, <1>3, <1>4 DEF Path

LEMMA TypeCorrectInit == Init => TypeOK
<1> SUFFICES ASSUME Init PROVE TypeOK
  OBVIOUS
<1>1. Blank \in Slot
  BY LearnerHashAssumption DEF Blank, Slot, Orders
<1>2. growHash \in BOOLEAN
  BY DEF Init
<1>3. Slots = 0..(InitSize - 1)
  BY DEF Init, Slots, Alloc
<1>4. slot \in [Slots -> Slot]
  BY <1>1, <1>3 DEF Init
<1>5. /\ maxTokens \in Nat \ {0} /\ cursor \in 0..maxTokens
      /\ limit \in Limits /\ session \in 0..Sessions /\ tok = 0
      /\ unique \in 0..CountMax /\ full \in 0..CountMax
  BY LearnerHashAssumption DEF Init
<1>6. /\ fixedUnique \in [Orders -> 0..CountMax]
      /\ fixedFull \in [Orders -> 0..CountMax]
      /\ written \in [Ids -> Nat]
  BY LearnerHashAssumption DEF Init
<1>7. pc = "ready" /\ overflow \in BOOLEAN
  BY DEF Init
<1> QED
  BY <1>2, <1>4, <1>5, <1>6, <1>7 DEF TypeOK

LEMMA IncrementType ==
  ASSUME NEW n \in 0..CountMax
  PROVE  Increment(n) \in 0..CountMax
  BY LearnerHashAssumption DEF Increment

(* The counting that every learned token goes through keeps the types. *)
LEMMA TallyType ==
  ASSUME TypeOK, NEW s \in Slots, NEW e \in Slot, Tally(s, e)
  PROVE  /\ slot' \in [Slots -> Slot]
         /\ full' \in 0..CountMax
         /\ fixedFull' \in [Orders -> 0..CountMax]
<1>1. e.count \in 0..CountMax /\ e.order \in Orders
  BY DEF Slot
<1>2. [e EXCEPT !.count = Increment(@)] \in Slot
  BY <1>1, IncrementType DEF Slot
<1>3. Increment(full) \in 0..CountMax
  BY IncrementType DEF TypeOK
<1>4. Increment(fixedFull[e.order]) \in 0..CountMax
  BY <1>1, IncrementType DEF TypeOK
<1> QED
  BY <1>2, <1>3, <1>4 DEF Tally, TypeOK

(* The three outcomes of a probe keep the types of what they change. *)
LEMMA OutcomeType ==
  ASSUME TypeOK, NEW t \in Ids, NEW s \in Slots,
         Known(s) \/ New(t, s) \/ Dropped(s)
  PROVE  /\ slot' \in [Slots -> Slot]
         /\ unique' \in 0..CountMax
         /\ full' \in 0..CountMax
         /\ fixedUnique' \in [Orders -> 0..CountMax]
         /\ fixedFull' \in [Orders -> 0..CountMax]
         /\ overflow' \in BOOLEAN
         /\ written' \in [Ids -> Nat]
<1>1. slot[s] \in Slot
  BY DEF TypeOK
<1>2. CASE Known(s)
  BY <1>1, <1>2, TallyType DEF Known, TypeOK, CountersStuck
<1>3. CASE Dropped(s)
  BY <1>1, <1>3, TallyType DEF Dropped, TypeOK, CountersStuck
<1>4. CASE New(t, s)
  <2> DEFINE e == [id |-> t, count |-> slot[s].count,
                   order |-> OrderOf[t], mark |-> FALSE]
  <2>1. e \in Slot /\ e.order \in Orders
    BY <1>1, LearnerHashAssumption DEF Slot, Orders
  <2>2. Tally(s, e)
    BY <1>4 DEF New
  <2>3. Increment(unique) \in 0..CountMax
    BY IncrementType DEF TypeOK
  <2>4. Increment(fixedUnique[e.order]) \in 0..CountMax
    BY <2>1, IncrementType DEF TypeOK
  <2> QED
    BY <1>4, <2>1, <2>2, <2>3, <2>4, TallyType DEF New, TypeOK, CountersStuck
<1> QED
  BY <1>2, <1>3, <1>4

-----------------------------------------------------------------------------
(* One lemma per action: it keeps the types. *)

LEMMA LearnType ==
  ASSUME TypeOK, NEW t \in Ids, Learn(t)
  PROVE  TypeOK'
<1>1. PICK s \in Slots : Known(s) \/ New(t, s) \/ Dropped(s)
  BY DEF Learn
<1>2. Slots' = Slots /\ Orders' = Orders
  BY DEF Learn, Slots, Alloc, Orders
<1>3. growHash' \in BOOLEAN
  BY DEF Learn, TypeOK
<1>4. UNCHANGED <<maxTokens, limit, session, pc, tok, cursor>>
  BY DEF Learn
<1> QED
  BY <1>1, <1>2, <1>3, <1>4, OutcomeType DEF TypeOK

LEMMA InsertType ==
  ASSUME TypeOK, Insert
  PROVE  TypeOK'
<1>0. tok \in Ids
  BY DEF Insert, TypeOK
<1>1. PICK s \in Slots : Known(s) \/ New(tok, s) \/ Dropped(s)
  BY DEF Insert
<1>2. Slots' = Slots
  BY DEF Insert, Slots, Alloc
<1>3. UNCHANGED <<maxTokens, options, cursor>> /\ pc' = "ready" /\ tok' = 0
  BY DEF Insert
<1> QED
  BY <1>0, <1>1, <1>2, <1>3, OutcomeType DEF TypeOK, options

LEMMA BeginGrowType ==
  ASSUME TypeOK, NEW t \in Ids, BeginGrow(t)
  PROVE  TypeOK'
<1>1. Slots = 0..(maxTokens - 1) /\ Slots' = 0..(2 * maxTokens - 1)
  BY DEF BeginGrow, Slots, Alloc
<1>2. Blank \in Slot
  BY LearnerHashAssumption DEF Blank, Slot, Orders
<1>3. ASSUME NEW s \in Slots
      PROVE  Marked(s) \in Slot
  BY DEF Marked, Slot, TypeOK
<1>4. slot' \in [Slots' -> Slot]
  BY <1>1, <1>2, <1>3 DEF BeginGrow, TypeOK
<1>5. UNCHANGED <<maxTokens, options, counters>> /\ pc' = "relocate"
      /\ tok' = t /\ cursor' = 0
  BY DEF BeginGrow
<1> QED
  BY <1>4, <1>5 DEF TypeOK, options, counters

LEMMA RefileType ==
  ASSUME TypeOK, Refile
  PROVE  TypeOK'
<1>1. Slots' = Slots /\ cursor \in Slots
  BY DEF Refile, Slots, Alloc, TypeOK
<1>2. PICK s \in Slots :
        slot' = [slot EXCEPT
                   ![cursor] = IF slot[s].mark THEN slot[s] ELSE Blank,
                   ![s] = [slot[cursor] EXCEPT !.mark = FALSE]]
  BY DEF Refile
<1>3. Blank \in Slot
  BY LearnerHashAssumption DEF Blank, Slot, Orders
<1>4. slot[s] \in Slot /\ slot[cursor] \in Slot
  BY <1>1 DEF TypeOK
<1>5. [slot[cursor] EXCEPT !.mark = FALSE] \in Slot
  BY <1>4 DEF Slot
<1>6. slot' \in [Slots' -> Slot]
  <2> DEFINE left == IF slot[s].mark THEN slot[s] ELSE Blank
             mine == [slot[cursor] EXCEPT !.mark = FALSE]
  <2>1. left \in Slot /\ mine \in Slot
    BY <1>3, <1>4, <1>5
  <2>2. slot' = [slot EXCEPT ![cursor] = left, ![s] = mine]
    BY <1>2
  <2> HIDE DEF left, mine
  <2> QED
    BY <1>1, <2>1, <2>2 DEF TypeOK
<1>7. UNCHANGED <<maxTokens, options, counters, pc, tok, cursor>>
  BY DEF Refile
<1> QED
  BY <1>6, <1>7 DEF TypeOK, options, counters

LEMMA OtherTypes ==
  ASSUME TypeOK, NextSlot \/ EndGrow \/ Reload \/ UNCHANGED vars
  PROVE  TypeOK'
<1>1. Slots' = Slots /\ slot' = slot
  BY DEF NextSlot, EndGrow, Reload, vars, Slots, Alloc
<1>2. CASE NextSlot
  BY <1>1, <1>2 DEF NextSlot, TypeOK, options, counters
<1>3. CASE EndGrow
  BY <1>1, <1>3 DEF EndGrow, TypeOK, options, counters
<1>4. CASE Reload
  <2>0. growHash' \in BOOLEAN
    BY <1>4 DEF Reload
  <2>1. overflow' = FALSE /\ limit' \in Limits
    BY <1>4 DEF Reload
  <2>2. session' \in 0..Sessions
    BY <1>4, LearnerHashAssumption DEF Reload, TypeOK
  <2>3. UNCHANGED <<maxTokens, unique, full, fixedUnique, fixedFull,
                    written, pc, tok, cursor>>
    BY <1>4 DEF Reload
  <2> QED
    BY <1>1, <2>0, <2>1, <2>2, <2>3 DEF TypeOK
<1>5. CASE UNCHANGED vars
  BY <1>1, <1>5 DEF vars, TypeOK, options, counters
<1> QED
  BY <1>2, <1>3, <1>4, <1>5

LEMMA TypeCorrectStep == TypeOK /\ [Next]_vars => TypeOK'
<1> SUFFICES ASSUME TypeOK, [Next]_vars PROVE TypeOK'
  OBVIOUS
<1>1. CASE \E t \in Ids : Learn(t) \/ BeginGrow(t)
  BY <1>1, LearnType, BeginGrowType
<1>2. CASE Refile
  BY <1>2, RefileType
<1>3. CASE Insert
  BY <1>3, InsertType
<1>4. CASE NextSlot \/ EndGrow \/ Reload \/ UNCHANGED vars
  BY <1>4, OtherTypes
<1> QED
  BY <1>1, <1>2, <1>3, <1>4 DEF Next, Grow

(* The table, its counters and the rehash's cursor are always well formed. *)
THEOREM TypeCorrect == Spec => []TypeOK
<1>1. Init => TypeOK
  BY TypeCorrectInit
<1>2. TypeOK /\ [Next]_vars => TypeOK'
  BY TypeCorrectStep
<1> QED
  BY <1>1, <1>2, PTL DEF Spec

-----------------------------------------------------------------------------
(* The shape of the table.                                                 *)

LEMMA SlotFacts ==
  ASSUME TypeOK
  PROVE  /\ Alloc \in Nat \ {0}
         /\ \A s \in Slots : s \in 0..(Alloc - 1)
         /\ \A s \in Slots : /\ slot[s].id \in Nat
                             /\ slot[s].mark \in BOOLEAN
                             /\ Home(slot[s].id) \in 0..(Alloc - 1)
<1>1. Alloc \in Nat \ {0}
  BY DEF Alloc, TypeOK
<1>2. \A s \in Slots : slot[s].id \in Nat /\ slot[s].mark \in BOOLEAN
  BY DEF TypeOK, Slot
<1>3. \A s \in Slots : Home(slot[s].id) \in 0..(Alloc - 1)
  BY <1>1, <1>2, HomeInSlots DEF Home
<1> QED
  BY <1>1, <1>2, <1>3 DEF Slots

LEMMA PathInSlots ==
  ASSUME TypeOK, NEW h \in Slots, NEW s \in Slots
  PROVE  Path(h, s) \subseteq Slots
  BY SlotFacts DEF Path, Slots

(* At rest a probe for a token of the table ends at its slot. *)
LEMMA RehashInvFinds ==
  ASSUME IInv, pc # "relocate", NEW s \in Filled
  PROVE  FindsAt(slot[s].id, s)
<1>1. s \in Slots /\ FilledP(s) /\ Placed(s)
  BY DEF Filled, IInv, RehashInv, Placed
<1>2. Path(Home(slot[s].id), s) \subseteq Slots
  BY <1>1, SlotFacts, PathInSlots DEF IInv, Slots
<1>3. ASSUME NEW x \in Path(Home(slot[s].id), s)
      PROVE  slot[x].id \notin {0, slot[s].id}
  <2>1. x \in Slots /\ Placed(x)
    BY <1>1, <1>2, <1>3 DEF IInv, RehashInv
  <2>2. x # s
    BY <1>1, <1>3, SlotFacts DEF IInv, Path, Slots
  <2> QED
    BY <1>1, <2>1, <2>2 DEF IInv, NoDuplicates, Filled, Placed, FilledP
<1> QED
  BY <1>1, <1>3 DEF FindsAt, FirstOf

(* A step that only changes counts changes nothing in the table's shape. *)
LEMMA ShapeKept ==
  ASSUME IInv, maxTokens' = maxTokens, pc # "relocate", pc' # "relocate",
         \A x \in Slots : /\ slot'[x].id = slot[x].id
                          /\ slot'[x].mark = slot[x].mark
  PROVE  NoDuplicates' /\ RehashInv'
<1>1. Alloc' = Alloc /\ Slots' = Slots
  BY DEF Alloc, Slots
<1>2. \A x \in Slots : FilledP(x)' = FilledP(x) /\ Placed(x)' = Placed(x)
  BY DEF FilledP, Placed
<1>3. NoDuplicates'
  BY <1>1, <1>2 DEF IInv, NoDuplicates, Filled
<1>4. \A x \in Slots : ~slot[x].mark
  BY DEF IInv, RehashInv
<1>5. ASSUME NEW s \in Slots, Placed(s)', NEW x \in Path(Home(slot[s].id), s)'
      PROVE  Placed(x)'
  <2>1. Home(slot[s].id)' = Home(slot[s].id)
    BY <1>1 DEF Home
  <2>2. Path(Home(slot[s].id), s)' = Path(Home(slot[s].id), s)
    BY <1>1, <2>1 DEF Path
  <2>3. Placed(x) /\ x \in Slots
    BY <1>2, <1>5, <2>2, SlotFacts, PathInSlots DEF IInv, RehashInv, Slots
  <2> QED
    BY <1>2, <2>3
<1>6. RehashInv'
  BY <1>1, <1>4, <1>5 DEF RehashInv
<1> QED
  BY <1>3, <1>6

(* A new token goes to the empty slot its probe ended at: no other slot    *)
(* can hold it, and no probe crossed that slot.                            *)
LEMMA NewShape ==
  ASSUME IInv, TypeOK', maxTokens' = maxTokens,
         pc # "relocate", pc' # "relocate",
         NEW t \in Ids, NEW s \in Slots, FindsAt(t, s), New(t, s)
  PROVE  NoDuplicates' /\ RehashInv'
<1>1. Alloc' = Alloc /\ Slots' = Slots
  BY DEF Alloc, Slots
<1>2. t \in Nat
  BY LearnerHashAssumption
<1>3. /\ slot'[s].id = t /\ slot'[s].mark = FALSE
      /\ \A x \in Slots : x # s => slot'[x] = slot[x]
  BY DEF New, Tally, IInv, TypeOK
<1>4. \A x \in Slots : ~slot[x].mark
  BY DEF IInv, RehashInv
<1>5. \A x \in Slots : ~slot'[x].mark
  BY <1>3, <1>4
<1>6. ASSUME NEW x \in Filled PROVE slot[x].id # t
  <2> SUFFICES ASSUME slot[x].id = t PROVE FALSE
    OBVIOUS
  <2>1. FindsAt(t, x)
    BY RehashInvFinds
  <2> DEFINE S == {y \in Slots : slot[y].id \in {0, t}}
  <2>2. FirstOf(S, t, x) /\ FirstOf(S, t, s)
    BY <2>1 DEF FindsAt
  <2>3. S \in SUBSET Slots
    OBVIOUS
  <2> HIDE DEF S
  <2>4. x = s
    BY <1>2, <2>2, <2>3, FirstIsUnique DEF IInv, TypeOK
  <2> QED
    BY <2>4 DEF New, Filled
<1>7. NoDuplicates'
  BY <1>1, <1>3, <1>6 DEF IInv, NoDuplicates, Filled, FilledP
<1>8. ASSUME NEW y \in Slots, Placed(y)', NEW x \in Path(Home(slot[y].id), y)'
      PROVE  Placed(x)'
  <2>1. x \in Slots
    <3>1. slot'[y].id \in Nat
      BY <1>1 DEF TypeOK, Slot
    <3>2. slot'[y].id % Alloc \in Slots
      BY <3>1, SlotFacts, HomeInSlots DEF Slots, IInv
    <3>3. x \in Path(slot'[y].id % Alloc, y)
      BY <1>1, <1>8 DEF Path, Home
    <3> QED
      BY <3>2, <3>3, PathInSlots DEF IInv
  <2>2. FilledP(x)'
    <3>1. CASE y # s
      <4>1. slot'[y] = slot[y] /\ Placed(y)
        BY <1>3, <1>8, <3>1 DEF Placed, FilledP
      <4>2. x \in Path(Home(slot[y].id), y)
        BY <1>1, <1>8, <4>1 DEF Path, Home
      <4>3. Placed(x) /\ x # s
        BY <4>1, <4>2 DEF IInv, RehashInv, New, Placed
      <4> QED
        BY <1>3, <2>1, <4>3 DEF Placed, FilledP
    <3>2. CASE y = s
      <4>1. x \in Path(Home(t), s)
        BY <1>1, <1>3, <1>8, <3>2 DEF Path, Home
      <4>2. slot[x].id \notin {0, t}
        BY <2>1, <4>1 DEF FindsAt, FirstOf
      <4>3. x # s
        BY <4>2 DEF New, FilledP
      <4> QED
        BY <1>3, <2>1, <4>2, <4>3 DEF FilledP
    <3> QED
      BY <3>1, <3>2
  <2> QED
    BY <1>5, <2>1, <2>2 DEF Placed
<1>9. RehashInv'
  BY <1>1, <1>5, <1>8 DEF RehashInv
<1> QED
  BY <1>7, <1>9

(* Any outcome of a probe at rest keeps the shape. *)
LEMMA OutcomeShape ==
  ASSUME IInv, TypeOK', maxTokens' = maxTokens,
         pc # "relocate", pc' # "relocate",
         NEW t \in Ids, NEW s \in Slots, FindsAt(t, s),
         Known(s) \/ New(t, s) \/ Dropped(s)
  PROVE  NoDuplicates' /\ RehashInv'
<1>1. CASE New(t, s)
  BY <1>1, NewShape
<1>2. CASE Known(s) \/ Dropped(s)
  <2>1. slot[s] \in Slot
    BY DEF IInv, TypeOK
  <2>2. Tally(s, slot[s])
    BY <1>2 DEF Known, Dropped
  <2>3. \A x \in Slots : /\ slot'[x].id = slot[x].id
                         /\ slot'[x].mark = slot[x].mark
    BY <2>1, <2>2 DEF Tally, IInv, TypeOK, Slot
  <2> QED
    BY <2>3, ShapeKept
<1> QED
  BY <1>1, <1>2

LEMMA BeginGrowShape ==
  ASSUME IInv, TypeOK', NEW t \in Ids, BeginGrow(t)
  PROVE  NoDuplicates' /\ RehashInv'
<1>1. /\ Slots = 0..(maxTokens - 1)
      /\ Slots' = 0..(2 * maxTokens - 1)
      /\ maxTokens \in Nat \ {0}
      /\ maxTokens' = maxTokens /\ pc' = "relocate" /\ cursor' = 0
  BY DEF BeginGrow, Slots, Alloc, IInv, TypeOK, options, counters
<1>2. \A s \in Slots' : slot'[s] = IF s < maxTokens THEN Marked(s) ELSE Blank
  BY <1>1 DEF BeginGrow
<1>3. \A s \in Slots : /\ Marked(s).id = slot[s].id
                       /\ FilledP(s) => Marked(s).mark = TRUE
                       /\ ~FilledP(s) => Marked(s).mark = slot[s].mark
  BY DEF Marked, IInv, TypeOK, Slot
<1>4. \A s \in Slots : ~slot[s].mark
  BY DEF IInv, RehashInv, BeginGrow
<1>5. \A s \in Slots' :
        /\ FilledP(s)' => s \in Slots /\ FilledP(s) /\ slot'[s].id = slot[s].id
        /\ slot'[s].mark <=> FilledP(s)'
  BY <1>1, <1>2, <1>3, <1>4 DEF FilledP, Blank
<1>6. NoDuplicates'
  BY <1>5 DEF IInv, NoDuplicates, Filled
<1>7. RehashInv'
  BY <1>1, <1>5 DEF RehashInv, Placed
<1> QED
  BY <1>6, <1>7

(* The heart of the in-place rehash: neither the entry being moved nor the *)
(* slot it moves to lies on the path of an entry already placed.           *)
LEMMA RefileShape ==
  ASSUME IInv, TypeOK', Refile
  PROVE  NoDuplicates' /\ RehashInv'
<1> DEFINE S == {x \in Slots : ~FilledP(x) \/ slot[x].mark}
<1>1. /\ Alloc' = Alloc /\ Slots' = Slots /\ cursor \in Slots
      /\ pc' = pc /\ maxTokens' = maxTokens /\ cursor' = cursor
  BY DEF Refile, Slots, Alloc, IInv, TypeOK
<1>2. PICK s \in Slots :
        /\ FirstOf(S, slot[cursor].id, s)
        /\ slot' = [slot EXCEPT
                      ![cursor] = IF slot[s].mark THEN slot[s] ELSE Blank,
                      ![s] = [slot[cursor] EXCEPT !.mark = FALSE]]
  BY DEF Refile
<1>3. slot[cursor].mark /\ FilledP(cursor) /\ cursor < maxTokens
  BY <1>1 DEF Refile, IInv, RehashInv
<1>4. s \in S /\ Path(Home(slot[cursor].id), s) \cap S = {}
  BY <1>2 DEF FirstOf
<1>5. /\ slot'[s].id = slot[cursor].id /\ slot'[s].mark = FALSE
      /\ \A x \in Slots : x \notin {s, cursor} => slot'[x] = slot[x]
  BY <1>1, <1>2 DEF IInv, TypeOK, Slot
<1>6. s # cursor =>
        slot'[cursor] = IF slot[s].mark THEN slot[s] ELSE Blank
  BY <1>1, <1>2 DEF IInv, TypeOK
<1>7. \A x \in Slots : Placed(x) => x \notin {s, cursor} /\ Placed(x)'
  BY <1>3, <1>4, <1>5 DEF Placed, FilledP
<1>8. Placed(s)'
  BY <1>3, <1>5 DEF Placed, FilledP
<1>9. NoDuplicates'
  <2>1. \A x \in Filled' :
          \/ x = s
          \/ x = cursor /\ x # s /\ s \in Filled /\ slot'[x].id = slot[s].id
          \/ x \notin {s, cursor} /\ x \in Filled /\ slot'[x].id = slot[x].id
    BY <1>1, <1>5, <1>6 DEF Filled, FilledP, Blank
  <2>2. cursor \in Filled
    BY <1>1, <1>3 DEF Filled
  <2> QED
    BY <1>5, <2>1, <2>2 DEF IInv, NoDuplicates
<1>10. ASSUME NEW y \in Slots, Placed(y)', NEW x \in Path(Home(slot[y].id), y)'
       PROVE  Placed(x)'
  <2>1. CASE y = s
    <3>1. x \in Path(Home(slot[cursor].id), s)
      BY <1>1, <1>5, <1>10, <2>1 DEF Path, Home
    <3>2. x \in Slots
      BY <1>1, <3>1, SlotFacts, PathInSlots DEF IInv, Slots
    <3>3. Placed(x)
      BY <1>4, <3>1, <3>2 DEF Placed
    <3> QED
      BY <1>7, <3>2, <3>3
  <2>2. CASE y # s
    <3>1. y # cursor
      BY <1>6, <1>10, <2>2 DEF Placed, FilledP, Blank
    <3>2. slot'[y] = slot[y] /\ Placed(y)
      BY <1>5, <1>10, <2>2, <3>1 DEF Placed, FilledP
    <3>3. x \in Path(Home(slot[y].id), y)
      BY <1>1, <1>10, <3>2 DEF Path, Home
    <3>4. x \in Slots
      BY <3>3, SlotFacts, PathInSlots DEF IInv, Slots
    <3>5. Placed(x)
      BY <3>2, <3>3 DEF IInv, RehashInv
    <3> QED
      BY <1>7, <3>4, <3>5
  <2> QED
    BY <2>1, <2>2
<1>11. ASSUME NEW y \in Slots, slot'[y].mark
       PROVE  /\ pc' = "relocate" /\ FilledP(y)'
              /\ y \in cursor'..(maxTokens' - 1)
  <2>1. y # s
    BY <1>5, <1>11
  <2>2. CASE y = cursor
    <3>1. slot[s].mark /\ slot'[y] = slot[s]
      BY <1>6, <1>11, <2>1, <2>2 DEF Blank
    <3> QED
      BY <1>1, <1>3, <2>2, <3>1 DEF IInv, RehashInv, FilledP, TypeOK
  <2>3. CASE y # cursor
    BY <1>1, <1>5, <1>11, <2>1, <2>3 DEF IInv, RehashInv, FilledP
  <2> QED
    BY <2>2, <2>3
<1>12. RehashInv'
  BY <1>1, <1>10, <1>11 DEF RehashInv
<1> QED
  BY <1>9, <1>12

LEMMA OtherShapes ==
  ASSUME IInv, NextSlot \/ EndGrow \/ Reload \/ UNCHANGED vars
  PROVE  NoDuplicates' /\ RehashInv'
<1>1. /\ Alloc' = Alloc /\ Slots' = Slots /\ slot' = slot
      /\ pc' = pc \/ (pc = "relocate" /\ cursor = maxTokens /\ pc' = "insert")
  BY DEF NextSlot, EndGrow, Reload, vars, Slots, Alloc
<1>2. NoDuplicates'
  BY <1>1 DEF IInv, NoDuplicates, Filled, FilledP
<1>3. \A s \in Slots :
        Placed(s)' => \A x \in Path(Home(slot[s].id), s)' : Placed(x)'
  BY <1>1 DEF IInv, RehashInv, Placed, FilledP, Path, Home
<1>4. ASSUME NEW s \in Slots, slot'[s].mark
      PROVE  /\ pc' = "relocate" /\ FilledP(s)'
             /\ s \in cursor'..(maxTokens' - 1)
  <2>1. pc = "relocate" /\ FilledP(s) /\ s \in cursor..(maxTokens - 1)
    BY <1>1, <1>4 DEF IInv, RehashInv
  <2>2. CASE NextSlot
    BY <1>1, <1>4, <2>1, <2>2 DEF NextSlot, FilledP, IInv, TypeOK
  <2>3. CASE EndGrow
    BY <2>1, <2>3 DEF EndGrow, IInv, TypeOK
  <2>4. CASE Reload
    BY <2>1, <2>4 DEF Reload
  <2>5. CASE UNCHANGED vars
    BY <1>1, <2>1, <2>5 DEF vars, FilledP
  <2> QED
    BY <2>2, <2>3, <2>4, <2>5
<1>5. RehashInv'
  BY <1>1, <1>3, <1>4 DEF RehashInv
<1> QED
  BY <1>2, <1>5

LEMMA IInvInit == Init => IInv
<1> SUFFICES ASSUME Init PROVE NoDuplicates /\ RehashInv
  BY TypeCorrectInit DEF IInv
<1>1. \A s \in Slots : ~FilledP(s) /\ slot[s].mark = FALSE
  BY DEF Init, Slots, Alloc, FilledP, Blank
<1> QED
  BY <1>1 DEF NoDuplicates, RehashInv, Filled, Placed

LEMMA IInvStep == IInv /\ [Next]_vars => IInv'
<1> SUFFICES ASSUME IInv, [Next]_vars PROVE IInv'
  OBVIOUS
<1>1. TypeOK'
  BY TypeCorrectStep DEF IInv
<1>2. ASSUME NEW t \in Ids, Learn(t) PROVE IInv'
  <2>1. PICK s \in Slots :
          FindsAt(t, s) /\ (Known(s) \/ New(t, s) \/ Dropped(s))
    BY <1>2 DEF Learn
  <2>2. maxTokens' = maxTokens /\ pc # "relocate" /\ pc' # "relocate"
    BY <1>2 DEF Learn
  <2> QED
    BY <1>1, <2>1, <2>2, OutcomeShape DEF IInv
<1>3. ASSUME NEW t \in Ids, BeginGrow(t) PROVE IInv'
  BY <1>1, <1>3, BeginGrowShape DEF IInv
<1>4. CASE Refile
  BY <1>1, <1>4, RefileShape DEF IInv
<1>5. CASE Insert
  <2>1. PICK s \in Slots :
          FindsAt(tok, s) /\ (Known(s) \/ New(tok, s) \/ Dropped(s))
    BY <1>5 DEF Insert
  <2>2. maxTokens' = maxTokens /\ pc # "relocate" /\ pc' # "relocate"
    BY <1>5 DEF Insert
  <2>3. tok \in Ids
    BY <1>5 DEF Insert, IInv, TypeOK
  <2> QED
    BY <1>1, <2>1, <2>2, <2>3, OutcomeShape DEF IInv
<1>6. CASE NextSlot \/ EndGrow \/ Reload \/ UNCHANGED vars
  BY <1>1, <1>6, OtherShapes DEF IInv
<1> QED
  BY <1>2, <1>3, <1>4, <1>5, <1>6 DEF Next, Grow

LEMMA IInvAlways == Spec => []IInv
<1>1. Init => IInv
  BY IInvInit
<1>2. IInv /\ [Next]_vars => IInv'
  BY IInvStep
<1> QED
  BY <1>1, <1>2, PTL DEF Spec

(* No token ever has two slots, whatever happens to the table. *)
THEOREM NeverTwice == Spec => []NoDuplicates
<1>1. IInv => NoDuplicates
  BY DEF IInv
<1> QED
  BY <1>1, IInvAlways, PTL

(* The half-moved table always satisfies the rehash's invariant. *)
THEOREM RehashCorrect == Spec => []RehashInv
<1>1. IInv => RehashInv
  BY DEF IInv
<1> QED
  BY <1>1, IInvAlways, PTL

(* Outside grow_learner_hash() every token of the table is found. *)
THEOREM AlwaysFindable == Spec => []Findable
<1>1. IInv => Findable
  BY RehashInvFinds DEF Findable
<1> QED
  BY <1>1, IInvAlways, PTL

-----------------------------------------------------------------------------
(* How full the table is.                                                  *)

(* Every size the table can take is small enough for the 32-bit products   *)
(* of the load test not to wrap, and for unique_token_count to count.      *)
NoWrap ==
  \A l \in Limits \cup {InitSize} : /\ 200 * l + 100 <= WordSize
                                   /\ 2 * l <= CountMax

(* The table has its first size, or was doubled below some limit. *)
SizeInv ==
  /\ maxTokens = InitSize \/ \E l \in Limits : maxTokens < 2 * l
  /\ pc = "relocate" => maxTokens < limit
  /\ InitSize <= maxTokens

(* At most one token more than HASH_FULL percent of the table. *)
LoadInv == 100 * unique < HashFull * maxTokens + 100

LoadIInv == IInv /\ SizeInv /\ LoadInv /\ UniqueCounts

LEMMA WordIsIdentity ==
  ASSUME NEW n \in Nat, n < WordSize
  PROVE  Word(n) = n
  BY LearnerHashAssumption DEF Word

LEMMA SizeBounds ==
  ASSUME NoWrap, TypeOK, SizeInv
  PROVE  100 * maxTokens + 100 <= WordSize /\ maxTokens <= CountMax
<1>1. CASE maxTokens = InitSize
  BY <1>1, LearnerHashAssumption DEF NoWrap
<1>2. CASE \E l \in Limits : maxTokens < 2 * l
  BY <1>2, LearnerHashAssumption DEF NoWrap, TypeOK
<1> QED
  BY <1>1, <1>2 DEF SizeInv

(* The load test means what its comment says. *)
LEMMA HasRoomMeaning ==
  ASSUME NoWrap, TypeOK, SizeInv, LoadInv
  PROVE  HasRoom <=> 100 * unique < HashFull * maxTokens
<1> DEFINE u == 100 * unique
           m == HashFull * maxTokens
<1>1. HashFull \in 1..99 /\ maxTokens \in Nat \ {0} /\ unique \in Nat
      /\ WordSize \in Nat
  BY LearnerHashAssumption DEF TypeOK
<1>2. u \in Nat /\ m \in Nat
  BY <1>1
<1>3. m <= 99 * maxTokens
  BY <1>1
<1>4. m + 100 <= WordSize
  BY <1>1, <1>2, <1>3, SizeBounds
<1>5. u < WordSize /\ m < WordSize
  BY <1>1, <1>2, <1>4 DEF LoadInv
<1>6. Word(u) = u /\ Word(m) = m
  <2> HIDE DEF u, m
  <2> QED
    BY <1>2, <1>5, WordIsIdentity
<1> QED
  BY <1>6 DEF HasRoom

LEMMA FilledFinite ==
  ASSUME TypeOK
  PROVE  /\ IsFiniteSet(Slots) /\ Cardinality(Slots) = Alloc
         /\ IsFiniteSet(Filled) /\ Cardinality(Filled) \in Nat
<1>1. Alloc \in Nat \ {0}
  BY SlotFacts
<1>2. IsFiniteSet(Slots) /\ Cardinality(Slots) = Alloc
  BY <1>1, FS_Interval DEF Slots
<1>3. Filled \in SUBSET Slots
  BY DEF Filled
<1>4. IsFiniteSet(Filled)
  BY <1>2, <1>3, FS_Subset
<1> QED
  BY <1>2, <1>4, FS_CardinalityType

(* The outcomes of a probe against the load of the table. *)
LEMMA OutcomeLoad ==
  ASSUME NoWrap, LoadIInv, maxTokens' = maxTokens,
         pc # "relocate", pc' # "relocate",
         NEW t \in Ids, NEW s \in Slots,
         Known(s) \/ New(t, s) \/ Dropped(s)
  PROVE  SizeInv' /\ LoadInv' /\ UniqueCounts'
<1> USE DEF LoadIInv, IInv
<1>1. Slots' = Slots
  BY DEF Slots, Alloc
<1>2. SizeInv'
  BY DEF SizeInv
<1>3. CASE Known(s) \/ Dropped(s)
  <2>1. unique' = unique /\ Tally(s, slot[s]) /\ slot[s] \in Slot
    BY <1>3 DEF Known, Dropped, TypeOK
  <2>2. \A x \in Slots : slot'[x].id = slot[x].id
    BY <2>1 DEF Tally, TypeOK, Slot
  <2>3. Filled' = Filled
    BY <1>1, <2>2 DEF Filled, FilledP
  <2> QED
    BY <1>2, <2>1, <2>3 DEF LoadInv, UniqueCounts
<1>4. CASE New(t, s)
  <2>1. /\ slot'[s].id = t
        /\ \A x \in Slots : x # s => slot'[x] = slot[x]
        /\ s \notin Filled
    BY <1>4 DEF New, Tally, TypeOK, Filled
  <2>2. 100 * unique < HashFull * maxTokens
    BY <1>4, HasRoomMeaning DEF New
  <2>3. unique < maxTokens
    BY <2>2, LearnerHashAssumption DEF TypeOK
  <2>4. unique' = unique + 1
    BY <1>4, <2>3, SizeBounds, LearnerHashAssumption DEF New, Increment, TypeOK
  <2>5. LoadInv'
    BY <2>2, <2>4, LearnerHashAssumption DEF LoadInv, TypeOK
  <2>6. Filled' = IF t = 0 THEN Filled ELSE Filled \cup {s}
    BY <1>1, <2>1 DEF Filled, FilledP
  <2>7. Cardinality(Filled \cup {s}) = Cardinality(Filled) + 1
    BY <2>1, FilledFinite, FS_AddElement
  <2>8. UniqueCounts'
    BY <2>4, <2>6, <2>7, FilledFinite DEF UniqueCounts, TypeOK
  <2> QED
    BY <1>2, <2>5, <2>8
<1> QED
  BY <1>3, <1>4

(* Moving an entry keeps the number of used slots. *)
LEMMA RefileLoad ==
  ASSUME LoadIInv, Refile
  PROVE  Cardinality(Filled') = Cardinality(Filled)
<1> USE DEF LoadIInv, IInv
<1>1. /\ Slots' = Slots /\ cursor \in Slots
      /\ slot[cursor].mark /\ FilledP(cursor)
  BY DEF Refile, Slots, Alloc, TypeOK, RehashInv
<1>2. PICK s \in Slots :
        /\ ~FilledP(s) \/ slot[s].mark
        /\ slot' = [slot EXCEPT
                      ![cursor] = IF slot[s].mark THEN slot[s] ELSE Blank,
                      ![s] = [slot[cursor] EXCEPT !.mark = FALSE]]
  BY DEF Refile, FirstOf
<1>3. /\ slot'[s].id = slot[cursor].id
      /\ \A x \in Slots : x \notin {s, cursor} => slot'[x] = slot[x]
      /\ s # cursor =>
           slot'[cursor] = IF slot[s].mark THEN slot[s] ELSE Blank
  BY <1>1, <1>2 DEF TypeOK, Slot
<1>4. slot[s].mark => FilledP(s)
  BY DEF RehashInv
<1>5. CASE s = cursor \/ slot[s].mark
  <2>1. Filled' = Filled
    BY <1>1, <1>3, <1>4, <1>5 DEF Filled, FilledP
  <2> QED
    BY <2>1
<1>6. CASE s # cursor /\ ~slot[s].mark
  <2>1. s \notin Filled /\ cursor \in Filled
    BY <1>1, <1>2, <1>6 DEF Filled
  <2>2. Filled' = (Filled \ {cursor}) \cup {s}
    BY <1>1, <1>3, <1>6 DEF Filled, FilledP, Blank
  <2>3. /\ IsFiniteSet(Filled \ {cursor})
        /\ Cardinality(Filled \ {cursor}) = Cardinality(Filled) - 1
    BY <2>1, FilledFinite, FS_RemoveElement
  <2>4. Cardinality(Filled') = Cardinality(Filled \ {cursor}) + 1
    BY <2>1, <2>2, <2>3, FS_AddElement
  <2> QED
    BY <2>3, <2>4, FilledFinite
<1> QED
  BY <1>5, <1>6

LEMMA GrowLoad ==
  ASSUME LoadIInv, (\E t \in Ids : BeginGrow(t)) \/ Refile
  PROVE  SizeInv' /\ LoadInv' /\ UniqueCounts'
<1> USE DEF LoadIInv, IInv
<1>1. CASE \E t \in Ids : BeginGrow(t)
  <2>1. /\ maxTokens' = maxTokens /\ unique' = unique /\ limit' = limit
        /\ maxTokens < limit
    BY <1>1 DEF BeginGrow, options, counters
  <2>2. /\ Slots = 0..(maxTokens - 1) /\ Slots' = 0..(2 * maxTokens - 1)
        /\ maxTokens \in Nat \ {0}
    BY <1>1 DEF BeginGrow, Slots, Alloc, TypeOK, options, counters
  <2>3. \A x \in Slots' : slot'[x] = IF x < maxTokens THEN Marked(x) ELSE Blank
    BY <1>1, <2>2 DEF BeginGrow
  <2>4. \A x \in Slots : Marked(x).id = slot[x].id
    BY DEF Marked, TypeOK, Slot
  <2>5. Filled' = Filled
    BY <2>2, <2>3, <2>4 DEF Filled, FilledP, Blank
  <2> QED
    BY <2>1, <2>5 DEF SizeInv, LoadInv, UniqueCounts
<1>2. CASE Refile
  <2>1. UNCHANGED <<maxTokens, unique, limit, pc>>
    BY <1>2 DEF Refile, options, counters
  <2>2. Cardinality(Filled') = Cardinality(Filled)
    BY <1>2, RefileLoad
  <2> QED
    BY <2>1, <2>2 DEF SizeInv, LoadInv, UniqueCounts
<1> QED
  BY <1>1, <1>2

LEMMA OtherLoads ==
  ASSUME LoadIInv, NextSlot \/ EndGrow \/ Reload \/ UNCHANGED vars
  PROVE  SizeInv' /\ LoadInv' /\ UniqueCounts'
<1> USE DEF LoadIInv, IInv
<1>1. Slots' = Slots /\ slot' = slot /\ unique' = unique
  BY DEF NextSlot, EndGrow, Reload, vars, Slots, Alloc, counters
<1>2. UniqueCounts'
  BY <1>1 DEF UniqueCounts, Filled, FilledP
<1>3. CASE EndGrow
  <2>1. /\ maxTokens' = 2 * maxTokens /\ maxTokens < limit /\ pc' = "insert"
        /\ maxTokens \in Nat \ {0} /\ limit \in Limits /\ limit \in Nat
    BY <1>3, LearnerHashAssumption DEF EndGrow, SizeInv, TypeOK
  <2>2. SizeInv'
    BY <2>1, LearnerHashAssumption DEF SizeInv
  <2>3. LoadInv'
    BY <1>1, <2>1, LearnerHashAssumption DEF LoadInv, TypeOK
  <2> QED
    BY <1>2, <2>2, <2>3
<1>4. CASE NextSlot \/ Reload \/ UNCHANGED vars
  <2>1. maxTokens' = maxTokens /\ (pc' = "relocate" => limit' = limit /\ pc' = pc)
    BY <1>4 DEF NextSlot, Reload, vars, options
  <2> QED
    BY <1>1, <1>2, <2>1 DEF SizeInv, LoadInv
<1> QED
  BY <1>3, <1>4

LEMMA LoadInit == Init => LoadIInv
<1> SUFFICES ASSUME Init PROVE SizeInv /\ LoadInv /\ UniqueCounts
  BY IInvInit DEF LoadIInv
<1>1. Filled = {}
  BY DEF Init, Filled, Slots, Alloc, FilledP, Blank
<1> QED
  BY <1>1, FS_EmptySet, LearnerHashAssumption
     DEF Init, SizeInv, LoadInv, UniqueCounts

LEMMA LoadStep == NoWrap /\ LoadIInv /\ [Next]_vars => LoadIInv'
<1> SUFFICES ASSUME NoWrap, LoadIInv, [Next]_vars
             PROVE  SizeInv' /\ LoadInv' /\ UniqueCounts'
  BY IInvStep DEF LoadIInv
<1>1. ASSUME NEW t \in Ids, Learn(t)
      PROVE  SizeInv' /\ LoadInv' /\ UniqueCounts'
  BY <1>1, OutcomeLoad DEF Learn
<1>2. ASSUME NEW t \in Ids, BeginGrow(t)
      PROVE  SizeInv' /\ LoadInv' /\ UniqueCounts'
  BY <1>2, GrowLoad
<1>3. CASE Refile
  BY <1>3, GrowLoad
<1>4. CASE Insert
  <2>1. tok \in Ids
    BY <1>4 DEF Insert, LoadIInv, IInv, TypeOK
  <2> QED
    BY <1>4, <2>1, OutcomeLoad DEF Insert
<1>5. CASE NextSlot \/ EndGrow \/ Reload \/ UNCHANGED vars
  BY <1>5, OtherLoads
<1> QED
  BY <1>1, <1>2, <1>3, <1>4, <1>5 DEF Next, Grow

LEMMA LoadAlways == NoWrap /\ Spec => []LoadIInv
<1>1. Init => LoadIInv
  BY LoadInit
<1>2. NoWrap /\ LoadIInv /\ [Next]_vars => LoadIInv'
  BY LoadStep
<1>3. CASE NoWrap
  <2>1. LoadIInv /\ [Next]_vars => LoadIInv'
    BY <1>2, <1>3
  <2> QED
    BY <1>1, <2>1, PTL DEF Spec
<1>4. CASE ~NoWrap
  BY <1>4
<1> QED
  BY <1>3, <1>4

(* unique_token_count bounds, and without a zero token equals, the number  *)
(* of slots in use, through growth and reloads.                            *)
THEOREM UniqueTokensCounted == NoWrap /\ Spec => []UniqueCounts
<1>1. LoadIInv => UniqueCounts
  BY DEF LoadIInv
<1> QED
  BY <1>1, LoadAlways, PTL

(* The table never fills up entirely, so find_in_learner() never gives up, *)
(* when the unused share of the first table is at least a slot.            *)
THEOREM EmptySlotAlways == NoWrap /\ Spec => []AnEmptySlotRemains
<1>1. LoadIInv => AnEmptySlotRemains
  <2> SUFFICES ASSUME LoadIInv, (100 - HashFull) * InitSize >= 100,
                      \A s \in Slots : FilledP(s)
               PROVE  FALSE
    BY DEF AnEmptySlotRemains
  <2>1. Filled = Slots
    BY DEF Filled
  <2>2. /\ maxTokens \in Nat /\ unique \in Nat
        /\ Alloc >= maxTokens /\ Alloc \in Nat
    BY LearnerHashAssumption DEF LoadIInv, IInv, TypeOK, Alloc
  <2>3. maxTokens <= unique
    BY <2>1, <2>2, FilledFinite DEF LoadIInv, IInv, UniqueCounts
  <2>4. (100 - HashFull) * maxTokens >= (100 - HashFull) * InitSize
    BY <2>2, LearnerHashAssumption DEF LoadIInv, SizeInv
  <2>5. 100 * maxTokens < HashFull * maxTokens + 100
    BY <2>2, <2>3, LearnerHashAssumption DEF LoadIInv, LoadInv
  <2> QED
    BY <2>2, <2>4, <2>5, LearnerHashAssumption
<1> QED
  BY <1>1, LoadAlways, PTL

-----------------------------------------------------------------------------
(* What the table holds, as opposed to where: the token file lists what    *)
(* the table holds, and the table implements TokenBag.                     *)

(* The table has an entry for token t with count n. *)
Holds(t, n) == \E s \in Filled : slot[s].id = t /\ slot[s].count = n

Stores(t) == \E s \in Filled : slot[s].id = t

LEMMA StoresHolds ==
  ASSUME NEW t
  PROVE  Stores(t) <=> \E n : Holds(t, n)
  BY DEF Stores, Holds

(* find_in_learner() reaches every entry, so that Contents is what slots hold. *)
LEMMA ContentsIs ==
  ASSUME IInv, NEW t \in Ids
  PROVE  /\ \A n : Holds(t, n) => Contents[t] = n
         /\ ~Stores(t) => Contents[t] = 0
<1>1. \A s : s \in HoldersOf(t) <=> s \in Filled /\ slot[s].id = t
  BY RehashInvFinds DEF HoldersOf
<1>2. Contents[t] = IF HoldersOf(t) = {} THEN 0
                    ELSE slot[CHOOSE s \in HoldersOf(t) : TRUE].count
  BY DEF Contents
<1>3. \A r, s \in HoldersOf(t) : r = s
  BY <1>1 DEF IInv, NoDuplicates
<1>4. ASSUME NEW n, Holds(t, n) PROVE Contents[t] = n
  <2>1. PICK s \in HoldersOf(t) : slot[s].count = n
    BY <1>1, <1>4 DEF Holds
  <2>2. (CHOOSE x \in HoldersOf(t) : TRUE) = s
    BY <1>3, <2>1
  <2> QED
    BY <1>2, <2>1, <2>2
<1>5. ASSUME ~Stores(t) PROVE Contents[t] = 0
  BY <1>1, <1>2, <1>5 DEF Stores
<1> QED
  BY <1>4, <1>5

LEMMA ContentsIsNext ==
  ASSUME IInv', NEW t \in Ids
  PROVE  /\ \A n : Holds(t, n)' => Contents'[t] = n
         /\ ~Stores(t)' => Contents'[t] = 0
<1>1. (/\ \A n : Holds(t, n) => Contents[t] = n
       /\ ~Stores(t) => Contents[t] = 0)'
  BY ContentsIs, PTL
<1> QED
  BY <1>1

(* What does not change the entries does not change the contents. *)
LEMMA SameContents ==
  ASSUME IInv, IInv', \A t, n : Holds(t, n)' <=> Holds(t, n)
  PROVE  Contents' = Contents
<1>1. \A t \in Ids : /\ \A n : Holds(t, n) => Contents[t] = n
                     /\ ~Stores(t) => Contents[t] = 0
  BY ContentsIs
<1>2. \A t \in Ids : /\ \A n : Holds(t, n)' => Contents'[t] = n
                     /\ ~Stores(t)' => Contents'[t] = 0
  BY ContentsIsNext
<1>3. \A t : (Stores(t) <=> \E n : Holds(t, n)) /\ (Stores(t)' <=> \E n : Holds(t, n)')
  BY DEF Stores, Holds
<1>4. \A t \in Ids : Contents'[t] = Contents[t]
  BY <1>1, <1>2, <1>3
<1>5. Contents = [t \in Ids |-> Contents[t]] /\ Contents' = [t \in Ids |-> Contents'[t]]
  BY DEF Contents
<1> QED
  BY <1>4, <1>5

-----------------------------------------------------------------------------
(* What the steps do to the entries.                                       *)

LEMMA RefileHolds ==
  ASSUME IInv, Refile
  PROVE  \A t, n : Holds(t, n)' <=> Holds(t, n)
<1> USE DEF IInv
<1>1. /\ Slots' = Slots /\ cursor \in Slots
      /\ slot[cursor].mark /\ FilledP(cursor)
  BY DEF Refile, Slots, Alloc, TypeOK, RehashInv
<1>2. PICK s \in Slots :
        /\ ~FilledP(s) \/ slot[s].mark
        /\ slot' = [slot EXCEPT
                      ![cursor] = IF slot[s].mark THEN slot[s] ELSE Blank,
                      ![s] = [slot[cursor] EXCEPT !.mark = FALSE]]
  BY DEF Refile, FirstOf
<1>3. /\ slot'[s].id = slot[cursor].id /\ slot'[s].count = slot[cursor].count
      /\ \A x \in Slots : x \notin {s, cursor} => slot'[x] = slot[x]
      /\ s # cursor => slot'[cursor] = IF slot[s].mark THEN slot[s] ELSE Blank
  BY <1>1, <1>2 DEF TypeOK, Slot
<1>4. slot[s].mark => FilledP(s)
  BY DEF RehashInv
<1> SUFFICES ASSUME NEW t, NEW n
             PROVE  Holds(t, n)' <=> Holds(t, n)
  OBVIOUS
<1>5. ASSUME Holds(t, n) PROVE Holds(t, n)'
  <2>1. PICK x \in Filled : slot[x].id = t /\ slot[x].count = n
    BY <1>5 DEF Holds
  <2>2. CASE x = cursor
    BY <1>1, <1>3, <2>1, <2>2 DEF Holds, Filled, FilledP
  <2>3. CASE x # cursor /\ x = s
    BY <1>1, <1>2, <1>3, <2>1, <2>3 DEF Holds, Filled, FilledP
  <2>4. CASE x \notin {s, cursor}
    BY <1>1, <1>3, <2>1, <2>4 DEF Holds, Filled, FilledP
  <2> QED
    BY <2>2, <2>3, <2>4
<1>6. ASSUME Holds(t, n)' PROVE Holds(t, n)
  <2>1. PICK x \in Slots : slot'[x].id # 0 /\ slot'[x].id = t /\ slot'[x].count = n
    BY <1>1, <1>6 DEF Holds, Filled, FilledP
  <2>2. CASE x = s
    BY <1>1, <1>3, <2>1, <2>2 DEF Holds, Filled
  <2>3. CASE x # s /\ x = cursor
    <3>1. slot[s].mark /\ slot'[x] = slot[s]
      BY <1>3, <2>1, <2>3 DEF Blank
    <3> QED
      BY <1>4, <2>1, <3>1 DEF Holds, Filled
  <2>4. CASE x \notin {s, cursor}
    BY <1>3, <2>1, <2>4 DEF Holds, Filled, FilledP
  <2> QED
    BY <2>2, <2>3, <2>4
<1> QED
  BY <1>5, <1>6

LEMMA BeginGrowHolds ==
  ASSUME IInv, NEW u \in Ids, BeginGrow(u)
  PROVE  \A t, n : Holds(t, n)' <=> Holds(t, n)
<1>1. /\ Slots = 0..(maxTokens - 1) /\ Slots' = 0..(2 * maxTokens - 1)
      /\ maxTokens \in Nat \ {0}
  BY DEF BeginGrow, Slots, Alloc, IInv, TypeOK, options, counters
<1>2. \A x \in Slots' : slot'[x] = IF x < maxTokens THEN Marked(x) ELSE Blank
  BY <1>1 DEF BeginGrow
<1>3. \A x \in Slots : Marked(x).id = slot[x].id /\ Marked(x).count = slot[x].count
  BY DEF Marked, IInv, TypeOK, Slot
<1>4. Filled' = Filled
  BY <1>1, <1>2, <1>3 DEF Filled, FilledP, Blank
<1>5. \A x \in Filled : slot'[x].id = slot[x].id /\ slot'[x].count = slot[x].count
  BY <1>1, <1>2, <1>3 DEF Filled
<1> QED
  BY <1>4, <1>5 DEF Holds

LEMMA OtherHolds ==
  ASSUME IInv, NextSlot \/ EndGrow \/ Reload \/ UNCHANGED vars
  PROVE  \A t, n : Holds(t, n)' <=> Holds(t, n)
<1>1. Slots' = Slots /\ slot' = slot
  BY DEF NextSlot, EndGrow, Reload, vars, Slots, Alloc
<1> QED
  BY <1>1 DEF Holds, Filled, FilledP

(* A probe that ends at an empty slot was for a token without an entry.    *)
LEMMA NotStored ==
  ASSUME IInv, pc # "relocate", NEW t \in Ids, NEW s \in Slots,
         FindsAt(t, s), ~FilledP(s)
  PROVE  ~Stores(t)
<1> SUFFICES ASSUME NEW x \in Filled, slot[x].id = t PROVE FALSE
  BY DEF Stores
<1>1. FindsAt(t, x)
  BY RehashInvFinds
<1> DEFINE S == {y \in Slots : slot[y].id \in {0, t}}
<1>2. FirstOf(S, t, x) /\ FirstOf(S, t, s) /\ S \in SUBSET Slots
  BY <1>1 DEF FindsAt
<1> HIDE DEF S
<1>3. x = s
  BY <1>2, FirstIsUnique, LearnerHashAssumption DEF IInv, TypeOK
<1> QED
  BY <1>3 DEF Filled

(* A known token: its entry counts one more, the others stay.              *)
LEMMA KnownHolds ==
  ASSUME IInv, maxTokens' = maxTokens, pc # "relocate", pc' # "relocate",
         NEW t \in Ids, NEW s \in Slots, FindsAt(t, s), Known(s)
  PROVE  /\ Holds(t, slot[s].count)
         /\ \A n : n = Increment(slot[s].count) => Holds(t, n)'
         /\ \A u, n : u # t => (Holds(u, n)' <=> Holds(u, n))
<1> USE DEF IInv
<1>1. Slots' = Slots /\ slot[s] \in Slot
  BY DEF Slots, Alloc, TypeOK
<1>2. slot[s].id = t /\ s \in Filled
  BY DEF FindsAt, FirstOf, Known, FilledP, Filled
<1>3. /\ slot'[s].id = t /\ slot'[s].count = Increment(slot[s].count)
      /\ \A x \in Slots : x # s => slot'[x] = slot[x]
  BY <1>1, <1>2 DEF Known, Tally, TypeOK, Slot
<1>4. /\ Holds(t, slot[s].count)
      /\ \A n : n = Increment(slot[s].count) => Holds(t, n)'
  BY <1>1, <1>2, <1>3 DEF Holds, Filled, FilledP
<1>5. \A u, n : u # t => (Holds(u, n)' <=> Holds(u, n))
  BY <1>1, <1>2, <1>3 DEF Holds, Filled, FilledP
<1> QED
  BY <1>4, <1>5

(* A new token: one more entry, unless its hash is 0.                      *)
LEMMA NewHolds ==
  ASSUME IInv, maxTokens' = maxTokens, pc # "relocate", pc' # "relocate",
         NEW t \in Ids, NEW s \in Slots, FindsAt(t, s), New(t, s)
  PROVE  /\ ~Stores(t)
         /\ t # 0 => \A n : n = Increment(slot[s].count) => Holds(t, n)'
         /\ t = 0 => ~Stores(t)'
         /\ \A u, n : u # t => (Holds(u, n)' <=> Holds(u, n))
<1> USE DEF IInv
<1>1. Slots' = Slots
  BY DEF Slots, Alloc
<1>2. ~FilledP(s) /\ s \notin Filled
  BY DEF New, Filled
<1>3. /\ slot'[s].id = t /\ slot'[s].count = Increment(slot[s].count)
      /\ \A x \in Slots : x # s => slot'[x] = slot[x]
  BY DEF New, Tally, TypeOK
<1>4. ~Stores(t)
  BY <1>2, NotStored
<1>5. t # 0 => \A n : n = Increment(slot[s].count) => Holds(t, n)'
  BY <1>1, <1>3 DEF Holds, Filled, FilledP
<1>6. t = 0 => ~Stores(t)'
  BY <1>1 DEF Stores, Filled, FilledP
<1>7. \A u, n : u # t => (Holds(u, n)' <=> Holds(u, n))
  BY <1>1, <1>2, <1>3 DEF Holds, Filled, FilledP
<1> QED
  BY <1>4, <1>5, <1>6, <1>7

LEMMA DroppedHolds ==
  ASSUME IInv, maxTokens' = maxTokens, pc # "relocate", pc' # "relocate",
         NEW t \in Ids, NEW s \in Slots, FindsAt(t, s), Dropped(s)
  PROVE  /\ ~Stores(t)
         /\ \A u, n : Holds(u, n)' <=> Holds(u, n)
<1> USE DEF IInv
<1>1. Slots' = Slots /\ slot[s] \in Slot
  BY DEF Slots, Alloc, TypeOK
<1>2. ~FilledP(s)
  BY DEF Dropped
<1>3. /\ slot'[s].id = slot[s].id
      /\ \A x \in Slots : x # s => slot'[x] = slot[x]
  BY <1>1 DEF Dropped, Tally, TypeOK, Slot
<1>4. \A u, n : Holds(u, n)' <=> Holds(u, n)
  BY <1>1, <1>2, <1>3 DEF Holds, Filled, FilledP
<1> QED
  BY <1>2, <1>4, NotStored

-----------------------------------------------------------------------------
(* The token file.                                                         *)

WrittenInv == IInv /\ WrittenOnce

LEMMA WrittenIsStored ==
  WrittenOnce <=> \A t \in Ids \ {0} : written[t] = IF Stores(t) THEN 1 ELSE 0
  BY DEF WrittenOnce, Stores

LEMMA SameEntriesWritten ==
  ASSUME WrittenOnce, UNCHANGED written, \A t, n : Holds(t, n)' <=> Holds(t, n)
  PROVE  WrittenOnce'
<1>1. \A t : (Stores(t) <=> \E n : Holds(t, n)) /\ (Stores(t)' <=> \E n : Holds(t, n)')
  BY DEF Stores, Holds
<1>2. \A t : Stores(t)' <=> Stores(t)
  BY <1>1
<1> QED
  BY <1>2 DEF WrittenOnce, Stores

LEMMA OutcomeWritten ==
  ASSUME WrittenInv, maxTokens' = maxTokens, pc # "relocate", pc' # "relocate",
         NEW t \in Ids, NEW s \in Slots, FindsAt(t, s),
         Known(s) \/ New(t, s) \/ Dropped(s)
  PROVE  WrittenOnce'
<1>1. IInv /\ WrittenOnce
  BY DEF WrittenInv
<1>2. \A u : (Stores(u) <=> \E n : Holds(u, n)) /\ (Stores(u)' <=> \E n : Holds(u, n)')
  BY DEF Stores, Holds
<1>3. CASE Known(s)
  <2>1. \A u : Stores(u)' <=> Stores(u)
    BY <1>1, <1>2, <1>3, KnownHolds
  <2> QED
    BY <1>1, <1>3, <2>1 DEF Known, WrittenOnce, Stores
<1>4. CASE Dropped(s)
  BY <1>1, <1>4, DroppedHolds, SameEntriesWritten DEF Dropped
<1>5. CASE New(t, s)
  <2>1. /\ ~Stores(t) /\ (t # 0 => Stores(t)')
        /\ \A u : u # t => (Stores(u)' <=> Stores(u))
    BY <1>1, <1>2, <1>5, NewHolds
  <2>2. written' = [written EXCEPT ![t] = @ + 1] /\ written \in [Ids -> Nat]
    BY <1>1, <1>5 DEF New, IInv, TypeOK
  <2>3. \A u \in Ids \ {0} : written[u] = IF Stores(u) THEN 1 ELSE 0
    BY <1>1 DEF WrittenOnce, Stores
  <2>4. \A u \in Ids \ {0} : written'[u] = IF Stores(u)' THEN 1 ELSE 0
    BY <2>1, <2>2, <2>3
  <2> QED
    BY <2>4 DEF WrittenOnce, Stores
<1> QED
  BY <1>3, <1>4, <1>5

LEMMA WrittenStep == WrittenInv /\ [Next]_vars => WrittenInv'
<1> SUFFICES ASSUME WrittenInv, [Next]_vars PROVE WrittenOnce'
  BY IInvStep DEF WrittenInv
<1>1. IInv /\ WrittenOnce
  BY DEF WrittenInv
<1>2. ASSUME NEW t \in Ids, Learn(t) PROVE WrittenOnce'
  BY <1>2, OutcomeWritten DEF Learn
<1>3. CASE Insert
  <2>1. tok \in Ids
    BY <1>1, <1>3 DEF Insert, IInv, TypeOK
  <2> QED
    BY <1>3, <2>1, OutcomeWritten DEF Insert
<1>4. ASSUME NEW t \in Ids, BeginGrow(t) PROVE WrittenOnce'
  BY <1>1, <1>4, BeginGrowHolds, SameEntriesWritten DEF BeginGrow, counters
<1>5. CASE Refile
  BY <1>1, <1>5, RefileHolds, SameEntriesWritten DEF Refile, counters
<1>6. CASE NextSlot \/ EndGrow \/ Reload \/ UNCHANGED vars
  BY <1>1, <1>6, OtherHolds, SameEntriesWritten DEF NextSlot, EndGrow, Reload, vars, counters
<1> QED
  BY <1>2, <1>3, <1>4, <1>5, <1>6 DEF Next, Grow

(* The token file lists each token of the table once, and no other token:  *)
(* so walking the file visits every token whose weight is to be optimised, *)
(* whatever growth, refusals, failed allocations and reloads there were.   *)
THEOREM TokensWrittenOnce == Spec => []WrittenOnce
<1>1. Init => WrittenInv
  <2> SUFFICES ASSUME Init PROVE WrittenOnce
    BY IInvInit DEF WrittenInv
  <2>1. Filled = {}
    BY DEF Init, Filled, Slots, Alloc, FilledP, Blank
  <2> QED
    BY <2>1 DEF Init, WrittenOnce
<1>2. WrittenInv => WrittenOnce
  BY DEF WrittenInv
<1> QED
  BY <1>1, <1>2, WrittenStep, PTL DEF Spec

-----------------------------------------------------------------------------
(* The bag.                                                                *)

(* One run of a learner whose allocations succeed, on tokens none of which  *)
(* hashes to 0, with a table whose used share is at least a whole slot.     *)
OneRun ==
  /\ NoWrap
  /\ Sessions = 0
  /\ ~AllocMayFail
  /\ 0 \notin Ids
  /\ HashFull * InitSize >= 100

(* Empty slots count nothing, until a refused token leaves its trace in one *)
(* for good: from then on there is no room, and none is made.               *)
Clean ==
  /\ pc = "insert" => 100 * unique < HashFull * maxTokens
  /\ \/ \A s \in Slots : ~FilledP(s) => slot[s].count = 0
     \/ pc = "ready" /\ ~HasRoom /\ (growHash => maxTokens >= limit)

BagInv == LoadIInv /\ Clean

LEMMA BagInvInit == Init => BagInv
<1> SUFFICES ASSUME Init PROVE Clean
  BY LoadInit DEF BagInv
<1>1. \A s \in Slots : slot[s].count = 0
  BY DEF Init, Slots, Alloc, Blank
<1> QED
  BY <1>1 DEF Init, Clean

LEMMA LearnClean ==
  ASSUME OneRun, BagInv, NEW t \in Ids, Learn(t)
  PROVE  Clean'
<1> USE DEF BagInv, LoadIInv, IInv
<1>1. PICK s \in Slots :
        /\ FindsAt(t, s)
        /\ \/ Known(s) /\ UNCHANGED growHash
           \/ New(t, s) /\ UNCHANGED growHash
           \/ /\ growHash => maxTokens >= limit
              /\ Dropped(s)
              /\ growHash' = (growHash /\ maxTokens < limit)
  BY DEF Learn, OneRun
<1>2. pc' = "ready" /\ pc = "ready" /\ maxTokens' = maxTokens /\ limit' = limit /\ Slots' = Slots
  BY DEF Learn, Slots, Alloc
<1>3. CASE Known(s) /\ UNCHANGED growHash
  <2>1. HasRoom' = HasRoom
    BY <1>2, <1>3 DEF Known, HasRoom, Word
  <2>2. \A x \in Slots : x # s => slot'[x] = slot[x]
    BY <1>3 DEF Known, Tally, TypeOK
  <2>3. FilledP(s)'
    BY <1>3 DEF Known, Tally, TypeOK, FilledP, Slot
  <2> QED
    BY <1>2, <1>3, <2>1, <2>2, <2>3 DEF Clean, FilledP
<1>4. CASE New(t, s)
  <2>1. \A x \in Slots : ~FilledP(x) => slot[x].count = 0
    BY <1>4 DEF New, Clean
  <2>2. \A x \in Slots : x # s => slot'[x] = slot[x]
    BY <1>4 DEF New, Tally, TypeOK
  <2>3. FilledP(s)'
    BY <1>4 DEF New, Tally, TypeOK, FilledP, OneRun
  <2> QED
    BY <1>2, <2>1, <2>2, <2>3 DEF Clean, FilledP
<1>5. CASE /\ growHash => maxTokens >= limit
           /\ Dropped(s)
           /\ growHash' = (growHash /\ maxTokens < limit)
  <2>1. ~HasRoom'
    BY <1>2, <1>5 DEF Dropped, HasRoom, Word
  <2>2. maxTokens \in Nat /\ limit \in Nat
    BY LearnerHashAssumption DEF TypeOK
  <2>3. ~(growHash /\ maxTokens < limit)
    BY <1>5, <2>2
  <2>4. ~growHash'
    BY <1>5, <2>3, Zenon
  <2> QED
    BY <1>2, <2>1, <2>4 DEF Clean
<1> QED
  BY <1>1, <1>3, <1>4, <1>5

LEMMA GrowClean ==
  ASSUME OneRun, BagInv, (\E t \in Ids : BeginGrow(t)) \/ Refile \/ NextSlot \/ EndGrow
  PROVE  Clean'
<1> USE DEF BagInv, LoadIInv, IInv
<1>1. CASE \E t \in Ids : BeginGrow(t)
  <2>1. /\ Slots = 0..(maxTokens - 1) /\ Slots' = 0..(2 * maxTokens - 1)
        /\ maxTokens \in Nat \ {0} /\ pc' = "relocate"
    BY <1>1 DEF BeginGrow, Slots, Alloc, TypeOK, options, counters
  <2>2. maxTokens < limit /\ growHash /\ limit \in Nat
    BY <1>1, LearnerHashAssumption DEF BeginGrow, TypeOK
  <2>3. \A x \in Slots : ~FilledP(x) => slot[x].count = 0
    BY <2>1, <2>2 DEF Clean
  <2>4. \A x \in Slots' : slot'[x] = IF x < maxTokens THEN Marked(x) ELSE Blank
    BY <1>1, <2>1 DEF BeginGrow
  <2>5. \A x \in Slots : /\ Marked(x).id = slot[x].id
                         /\ Marked(x).count = slot[x].count
    BY DEF Marked, TypeOK, Slot
  <2>6. \A x \in Slots' : ~FilledP(x)' => slot'[x].count = 0
    BY <2>1, <2>3, <2>4, <2>5 DEF FilledP, Blank
  <2> QED
    BY <2>1, <2>6 DEF Clean
<1>2. CASE Refile
  <2>1. /\ Slots' = Slots /\ cursor \in Slots /\ pc' = "relocate"
        /\ slot[cursor].mark /\ FilledP(cursor)
    BY <1>2 DEF Refile, Slots, Alloc, TypeOK, RehashInv
  <2>2. PICK s \in Slots :
          slot' = [slot EXCEPT
                     ![cursor] = IF slot[s].mark THEN slot[s] ELSE Blank,
                     ![s] = [slot[cursor] EXCEPT !.mark = FALSE]]
    BY <1>2 DEF Refile, FirstOf
  <2>3. /\ slot'[s].id = slot[cursor].id
        /\ \A x \in Slots : x \notin {s, cursor} => slot'[x] = slot[x]
        /\ s # cursor => slot'[cursor] = IF slot[s].mark THEN slot[s] ELSE Blank
    BY <2>1, <2>2 DEF TypeOK, Slot
  <2>4. \A x \in Slots : ~FilledP(x) => slot[x].count = 0
    BY <1>2 DEF Clean, Refile
  <2>5. slot[s].mark => FilledP(s)
    BY DEF RehashInv
  <2>6. ASSUME NEW x \in Slots, ~FilledP(x)' PROVE slot'[x].count = 0
    <3>1. x # s
      BY <2>1, <2>3, <2>6 DEF FilledP
    <3>2. CASE x = cursor
      BY <2>3, <2>5, <2>6, <3>1, <3>2 DEF FilledP, Blank
    <3>3. CASE x # cursor
      BY <2>3, <2>4, <2>6, <3>1, <3>3 DEF FilledP
    <3> QED
      BY <3>2, <3>3
  <2> QED
    BY <2>1, <2>6 DEF Clean
<1>3. CASE NextSlot
  <2>1. Slots' = Slots /\ slot' = slot /\ pc' = "relocate" /\ pc = "relocate"
    BY <1>3 DEF NextSlot, Slots, Alloc
  <2> QED
    BY <2>1 DEF Clean, FilledP
<1>4. CASE EndGrow
  <2>1. /\ Slots' = Slots /\ slot' = slot /\ pc' = "insert" /\ pc = "relocate"
        /\ maxTokens' = 2 * maxTokens /\ unique' = unique
    BY <1>4 DEF EndGrow, Slots, Alloc, counters
  <2>2. /\ HashFull \in 1..99 /\ maxTokens \in Nat /\ InitSize \in Nat
        /\ InitSize <= maxTokens /\ HashFull * InitSize >= 100 /\ unique \in Nat
    BY LearnerHashAssumption DEF TypeOK, SizeInv, OneRun
  <2>3. HashFull * maxTokens >= HashFull * InitSize
    BY <2>2
  <2>4. HashFull * (2 * maxTokens) = 2 * (HashFull * maxTokens)
    BY <2>2
  <2>5. 100 * unique < HashFull * (2 * maxTokens)
    <3> DEFINE m == HashFull * maxTokens
    <3>1. 100 * unique < m + 100 /\ m >= 100 /\ m \in Nat
      BY <2>2, <2>3 DEF LoadInv
    <3> QED
      BY <2>2, <2>4, <3>1
  <2> QED
    BY <2>1, <2>5 DEF Clean, FilledP
<1> QED
  BY <1>1, <1>2, <1>3, <1>4

(* After a growth there is room, so that the token is not dropped. *)
LEMMA RoomAfterGrowth ==
  ASSUME OneRun, BagInv, Insert
  PROVE  HasRoom /\ \A s \in Slots : ~FilledP(s) => slot[s].count = 0
<1>1. pc = "insert"
  BY DEF Insert
<1> QED
  BY <1>1, HasRoomMeaning DEF OneRun, BagInv, Clean, LoadIInv, IInv

LEMMA InsertClean ==
  ASSUME OneRun, BagInv, Insert
  PROVE  Clean'
<1> USE DEF BagInv, LoadIInv, IInv
<1>1. PICK s \in Slots : FindsAt(tok, s) /\ (Known(s) \/ New(tok, s))
  BY RoomAfterGrowth DEF Insert, Dropped
<1>2. pc' = "ready" /\ Slots' = Slots /\ tok \in Ids
  BY DEF Insert, Slots, Alloc, TypeOK
<1>3. \A x \in Slots : x # s => slot'[x] = slot[x]
  BY <1>1 DEF Known, New, Tally, TypeOK
<1>4. FilledP(s)'
  <2>1. CASE Known(s)
    BY <2>1 DEF Known, Tally, TypeOK, FilledP, Slot
  <2>2. CASE New(tok, s)
    BY <1>2, <2>2 DEF New, Tally, TypeOK, FilledP, OneRun
  <2> QED
    BY <1>1, <2>1, <2>2
<1> QED
  BY <1>2, <1>3, <1>4, RoomAfterGrowth DEF Clean, FilledP

LEMMA BagInvStep ==
  ASSUME OneRun, BagInv, [Next]_vars
  PROVE  BagInv'
<1>1. LoadIInv'
  BY LoadStep DEF OneRun, BagInv
<1>2. ~Reload
  <2>1. session \in 0..Sessions
    BY DEF BagInv, LoadIInv, IInv, TypeOK
  <2> QED
    BY <2>1 DEF Reload, OneRun
<1>3. ASSUME UNCHANGED vars PROVE Clean'
  <2>1. UNCHANGED <<slot, maxTokens, limit, growHash, unique, pc>>
    BY <1>3 DEF vars, options, counters
  <2>2. Slots' = Slots /\ HasRoom' = HasRoom
    BY <2>1 DEF Slots, Alloc, HasRoom, Word
  <2> QED
    BY <2>1, <2>2 DEF BagInv, Clean, FilledP
<1>4. Clean'
  BY <1>2, <1>3, LearnClean, GrowClean, InsertClean DEF Next, Grow
<1> QED
  BY <1>1, <1>4 DEF BagInv

(* A probe's outcome counts or discards the token. *)
LEMMA OutcomeRefines ==
  ASSUME BagInv, BagInv', maxTokens' = maxTokens, pc # "relocate", pc' # "relocate",
         0 \notin Ids, NEW t \in Ids, NEW s \in Slots, FindsAt(t, s),
         \/ Known(s)
         \/ New(t, s) /\ slot[s].count = 0
         \/ Dropped(s)
  PROVE  Bag!Next
<1>1. IInv /\ IInv'
  BY DEF BagInv, LoadIInv
<1>2. \A u \in Ids : /\ \A n : Holds(u, n) => Contents[u] = n
                     /\ ~Stores(u) => Contents[u] = 0
  BY <1>1, ContentsIs
<1>3. \A u \in Ids : /\ \A n : Holds(u, n)' => Contents'[u] = n
                     /\ ~Stores(u)' => Contents'[u] = 0
  BY <1>1, ContentsIsNext
<1>4. \A u : (Stores(u) <=> \E n : Holds(u, n)) /\ (Stores(u)' <=> \E n : Holds(u, n)')
  BY DEF Stores, Holds
<1>5. Contents = [u \in Ids |-> Contents[u]] /\ Contents' = [u \in Ids |-> Contents'[u]]
  BY DEF Contents
<1>6. full' = Increment(full)
  BY DEF Known, New, Dropped, Tally
<1>7. ASSUME \A u \in Ids \ {t} : \A n : Holds(u, n)' <=> Holds(u, n)
      PROVE  \A u \in Ids \ {t} : Contents'[u] = Contents[u]
  BY <1>2, <1>3, <1>4, <1>7
<1>8. CASE Known(s) \/ (New(t, s) /\ slot[s].count = 0)
  <2>1. Contents'[t] = Increment(Contents[t])
    <3>1. CASE Known(s)
      BY <1>1, <1>2, <1>3, <3>1, KnownHolds
    <3>2. CASE New(t, s) /\ slot[s].count = 0
      <4>1. Contents[t] = 0
        BY <1>1, <1>2, <3>2, NewHolds
      <4>2. Contents'[t] = Increment(0)
        BY <1>1, <1>3, <3>2, NewHolds
      <4> QED
        BY <4>1, <4>2
    <3> QED
      BY <1>8, <3>1, <3>2
  <2>2. \A u \in Ids \ {t} : Contents'[u] = Contents[u]
    BY <1>1, <1>7, <1>8, KnownHolds, NewHolds
  <2>3. Contents' = [Contents EXCEPT ![t] = Increment(Contents[t])]
    <3> DEFINE A == Contents
               B == Contents'
    <3>1. /\ A = [u \in Ids |-> A[u]] /\ B = [u \in Ids |-> B[u]]
          /\ B[t] = Increment(A[t]) /\ \A u \in Ids \ {t} : B[u] = A[u]
      BY <1>5, <2>1, <2>2
    <3> HIDE DEF A, B
    <3>2. B = [A EXCEPT ![t] = Increment(A[t])]
      BY <3>1
    <3> QED
      BY <3>2 DEF A, B
  <2>4. Bag!Count(t)
    BY <1>6, <2>3 DEF Bag!Count, Bag!Up, Increment
  <2> QED
    BY <2>4 DEF Bag!Next
<1>9. CASE Dropped(s)
  <2>1. Contents[t] = 0
    BY <1>1, <1>2, <1>9, DroppedHolds
  <2>2. Contents' = Contents
    BY <1>1, <1>9, DroppedHolds, SameContents
  <2>3. Bag!Discard(t)
    BY <1>6, <2>1, <2>2 DEF Bag!Discard, Bag!Up, Increment
  <2> QED
    BY <2>3 DEF Bag!Next
<1> QED
  BY <1>8, <1>9

LEMMA BagStep ==
  ASSUME OneRun, BagInv, [Next]_vars
  PROVE  [Bag!Next]_(Bag!vars)
<1>1. BagInv' /\ IInv /\ IInv' /\ 0 \notin Ids
  BY BagInvStep DEF BagInv, LoadIInv, OneRun
<1>2. ASSUME NEW t \in Ids, Learn(t) PROVE Bag!Next
  <2>1. PICK s \in Slots : FindsAt(t, s) /\ (Known(s) \/ New(t, s) \/ Dropped(s))
    BY <1>2 DEF Learn
  <2>2. New(t, s) => slot[s].count = 0
    BY DEF New, BagInv, Clean
  <2>3. maxTokens' = maxTokens /\ pc # "relocate" /\ pc' # "relocate"
    BY <1>2 DEF Learn
  <2> QED
    BY <1>1, <2>1, <2>2, <2>3, OutcomeRefines
<1>3. CASE Insert
  <2>1. PICK s \in Slots : FindsAt(tok, s) /\ (Known(s) \/ New(tok, s) \/ Dropped(s))
    BY <1>3 DEF Insert
  <2>2. New(tok, s) => slot[s].count = 0
    BY <1>3, RoomAfterGrowth DEF New
  <2>3. maxTokens' = maxTokens /\ pc # "relocate" /\ pc' # "relocate" /\ tok \in Ids
    BY <1>1, <1>3 DEF Insert, IInv, TypeOK
  <2> QED
    BY <1>1, <2>1, <2>2, <2>3, OutcomeRefines
<1>4. CASE \/ \E t \in Ids : BeginGrow(t)
           \/ Refile \/ NextSlot \/ EndGrow \/ Reload \/ UNCHANGED vars
  <2>1. \A t, n : Holds(t, n)' <=> Holds(t, n)
    BY <1>1, <1>4, BeginGrowHolds, RefileHolds, OtherHolds
  <2>2. Contents' = Contents
    BY <1>1, <2>1, SameContents
  <2>3. full' = full
    BY <1>4 DEF BeginGrow, Refile, NextSlot, EndGrow, Reload, vars, counters
  <2> QED
    BY <2>2, <2>3 DEF Bag!vars
<1> QED
  BY <1>2, <1>3, <1>4 DEF Next, Grow

(* The table is a bag of tokens, whatever the tokens, the table's size and *)
(* its growth: an occurrence of a token is counted once, and discarded     *)
(* only while the table does not hold the token.                           *)
THEOREM TableIsBag == OneRun /\ Spec => ImplementsBag
<1>1. Init => Bag!Init
  <2> SUFFICES ASSUME Init PROVE Bag!Init
    OBVIOUS
  <2>1. Filled = {}
    BY DEF Init, Filled, Slots, Alloc, FilledP, Blank
  <2>2. IInv /\ \A t \in Ids : ~Stores(t)
    BY <2>1, IInvInit DEF Stores
  <2>3. \A t \in Ids : Contents[t] = 0
    BY <2>2, ContentsIs
  <2>4. Contents = [t \in Ids |-> Contents[t]]
    BY DEF Contents
  <2>5. Contents = [t \in Ids |-> 0]
    BY <2>3, <2>4
  <2> QED
    BY <2>5 DEF Bag!Init, Init
<1>2. CASE OneRun
  <2>1. BagInv /\ [Next]_vars => BagInv'
    BY <1>2, BagInvStep
  <2>2. BagInv /\ [Next]_vars => [Bag!Next]_(Bag!vars)
    BY <1>2, BagStep
  <2> QED
    BY <1>1, <2>1, <2>2, BagInvInit, PTL DEF Spec, ImplementsBag, Bag!Spec
<1>3. CASE ~OneRun
  BY <1>3
<1> QED
  BY <1>2, <1>3

=============================================================================
