----------------------------- MODULE LearnerHash -----------------------------
(***************************************************************************)
(* The learner's token table (dbacl.c, learner_t.hash): open addressing    *)
(* with linear probing, tokens are only ever added, and with -H the table  *)
(* doubles in place when it is HASH_FULL percent full.  One token at a     *)
(* time goes through hash_word_and_learn(); the rehash of                  *)
(* grow_learner_hash() is modelled slot by slot, because its correctness   *)
(* rests on what the half-moved table looks like.                          *)
(*                                                                         *)
(* A token is its hash value, with 0 the mark of an empty slot (FILLEDP).  *)
(* The character digrams, the debug output and the -X document stack that  *)
(* the same function updates are other components.                         *)
(*                                                                         *)
(* A definition named Fault_... is no part of the model: it is the one that *)
(* follows it with a bug, to see that a property would notice.             *)
(***************************************************************************)
EXTENDS Integers, FiniteSets

CONSTANTS
  Ids,           \* values of hash_full_token() on the input's tokens
  OrderOf,       \* OrderOf[t] is the n-gram order of token t
  MaxOrder,      \* largest order
  InitSize,      \* 2^default_max_hash_bits, option -h
  Limits,        \* table sizes option -H may allow; 0 stands for no -H
  HashFull,      \* HASH_FULL, the percentage of the table that is used
  CountMax,      \* K_TOKEN_COUNT_MAX
  WordSize,      \* 2^32: hash_count_t and token_count_t arithmetic wraps
  AllocMayFail,  \* may malloc() or realloc() fail in grow_learner_hash()?
  Sessions       \* how many times the table is dumped and reloaded (-o)

ASSUME LearnerHashAssumption ==
  /\ Ids \subseteq Nat
  /\ MaxOrder \in Nat \ {0}
  /\ OrderOf \in [Ids -> 1..MaxOrder]
  /\ InitSize \in Nat \ {0}
  /\ Limits \subseteq Nat
  /\ HashFull \in 1..99
  /\ CountMax \in Nat \ {0}
  /\ WordSize \in Nat \ {0}
  /\ AllocMayFail \in BOOLEAN
  /\ Sessions \in Nat

VARIABLES
  slot,         \* learner->hash
  maxTokens,    \* learner->max_tokens
  limit,        \* 1 << default_max_grow_hash_bits
  growHash,     \* U_OPTION_GROWHASH
  unique,       \* learner->unique_token_count
  full,         \* learner->full_token_count
  fixedUnique,  \* learner->fixed_order_unique_token_count
  fixedFull,    \* learner->fixed_order_token_count
  overflow,     \* overflow_warning
  written,      \* how often a token is in the temporary token file
  pc,           \* "ready", or inside grow_learner_hash(), or just after it
  tok,          \* the token being learned while the table grows
  cursor,       \* c, the slot grow_learner_hash() is relocating
  session       \* number of reloads so far

counters == <<unique, full, fixedUnique, fixedFull, overflow, written>>
options == <<limit, growHash, session>>
vars == <<slot, maxTokens, options, counters, pc, tok, cursor>>

Orders == 0..MaxOrder
Slot == [id : Nat, count : 0..CountMax, order : Orders, mark : BOOLEAN]
Blank == [id |-> 0, count |-> 0, order |-> 0, mark |-> FALSE]

(* The memory block is already doubled while slots are being relocated. *)
Alloc == IF pc = "relocate" THEN 2 * maxTokens ELSE maxTokens
Slots == 0..(Alloc - 1)

FilledP(s) == slot[s].id # 0
Filled == {s \in Slots : FilledP(s)}

-----------------------------------------------------------------------------
(* Probing.                                                                *)

Fault_OldHome(id) == id % maxTokens
Home(id) == id % Alloc

(* The slots a probe that starts at h visits before it reaches s. *)
Path(h, s) == IF h <= s THEN h..(s - 1) ELSE (h..(Alloc - 1)) \cup (0..(s - 1))

(* s is the first slot of the set S that a probe for id meets. *)
FirstOf(S, id, s) == s \in S /\ Path(Home(id), s) \cap S = {}

(* find_in_learner() returns slot s: it holds id, or it is empty. *)
FindsAt(id, s) == FirstOf({x \in Slots : slot[x].id \in {0, id}}, id, s)

(* Wrapping unsigned arithmetic, and INCREMENT, which saturates. *)
Word(n) == n % WordSize
Fault_NoSaturation(n) == n + 1
Increment(n) == IF n < CountMax THEN n + 1 ELSE n

Fault_OneMore == Word(100 * unique) <= Word(HashFull * maxTokens)

HasRoom == Word(100 * unique) < Word(HashFull * maxTokens)

-----------------------------------------------------------------------------
Init ==
  /\ slot = [s \in 0..(InitSize - 1) |-> Blank]
  /\ maxTokens = InitSize
  /\ limit \in Limits
  /\ growHash = (limit > 0)
  /\ unique = 0
  /\ full = 0
  /\ fixedUnique = [o \in Orders |-> 0]
  /\ fixedFull = [o \in Orders |-> 0]
  /\ overflow = FALSE
  /\ written = [t \in Ids |-> 0]
  /\ pc = "ready"
  /\ tok = 0
  /\ cursor = 0
  /\ session = 0

(* The statements every learned token goes through: i->count and the       *)
(* totals, for slot s whose contents are now e.                            *)
Tally(s, e) ==
  /\ slot' = [slot EXCEPT ![s] = [e EXCEPT !.count = Increment(@)]]
  /\ full' = Increment(full)
  /\ fixedFull' = [fixedFull EXCEPT ![e.order] = Increment(@)]

CountersStuck(e) == e.count = CountMax \/ full = CountMax

Fault_KnownAsNew(s) ==
  /\ FilledP(s)
  /\ Tally(s, slot[s])
  /\ overflow' = CountersStuck(slot[s])
  /\ unique' = Increment(unique)
  /\ fixedUnique' = [fixedUnique EXCEPT ![slot[s].order] = Increment(@)]
  /\ written' = [written EXCEPT ![slot[s].id] = @ + 1]

(* The token is in the table ("redundant"). *)
Known(s) ==
  /\ FilledP(s)
  /\ Tally(s, slot[s])
  /\ overflow' = CountersStuck(slot[s])
  /\ UNCHANGED <<unique, fixedUnique, written>>

(* The token takes an empty slot and is appended to the temporary file.    *)
New(t, s) ==
  LET e == [id |-> t, count |-> slot[s].count,
            order |-> OrderOf[t], mark |-> FALSE]
  IN  /\ ~FilledP(s)
      /\ HasRoom
      /\ Tally(s, e)
      /\ unique' = Increment(unique)
      /\ fixedUnique' = [fixedUnique EXCEPT ![e.order] = Increment(@)]
      /\ written' = [written EXCEPT ![t] = @ + 1]
      /\ overflow' = (\/ CountersStuck(e)
                      \/ unique = CountMax
                      \/ fixedUnique[e.order] = CountMax)

(* There is no room: the slot stays empty, but it is counted all the same. *)
Dropped(s) ==
  /\ ~FilledP(s)
  /\ ~HasRoom
  /\ Tally(s, slot[s])
  /\ overflow' = CountersStuck(slot[s])
  /\ UNCHANGED <<unique, fixedUnique, written>>

(* hash_word_and_learn() of token t when the table need not grow first.    *)
(* When find_in_learner() returns NULL nothing modelled here changes.      *)
Learn(t) ==
  /\ pc = "ready"
  /\ ~overflow
  /\ \E s \in Slots :
       /\ FindsAt(t, s)
       /\ \/ Known(s) /\ UNCHANGED growHash
          \/ New(t, s) /\ UNCHANGED growHash
          \/ /\ growHash => maxTokens >= limit \/ AllocMayFail
             /\ Dropped(s)
             /\ growHash' = (growHash /\ maxTokens < limit)
  /\ UNCHANGED <<maxTokens, limit, session, pc, tok, cursor>>

Marked(s) == IF FilledP(s) THEN [slot[s] EXCEPT !.mark = TRUE] ELSE slot[s]

(* hash_word_and_learn() finds the table full and calls                    *)
(* grow_learner_hash(), which reallocates it and marks every used slot.    *)
BeginGrow(t) ==
  /\ pc = "ready"
  /\ ~overflow
  /\ \E s \in Slots : FindsAt(t, s) /\ ~FilledP(s)
  /\ ~HasRoom
  /\ growHash
  /\ maxTokens < limit
  /\ slot' = [s \in 0..(2 * maxTokens - 1) |->
                IF s < maxTokens THEN Marked(s) ELSE Blank]
  /\ pc' = "relocate"
  /\ tok' = t
  /\ cursor' = 0
  /\ UNCHANGED <<maxTokens, options, counters>>

(* One turn of the while loop: the marked entry at the cursor moves to the *)
(* first slot on its new path that is empty or marked, and a marked entry  *)
(* found there comes back to the cursor.                                   *)
Refile ==
  /\ pc = "relocate"
  /\ cursor < maxTokens
  /\ slot[cursor].mark
  /\ \E s \in Slots :
       /\ FirstOf({x \in Slots : ~FilledP(x) \/ slot[x].mark}, slot[cursor].id, s)
       /\ slot' = [slot EXCEPT
                     ![cursor] = IF slot[s].mark THEN slot[s] ELSE Blank,
                     ![s] = [slot[cursor] EXCEPT !.mark = FALSE]]
  /\ UNCHANGED <<maxTokens, options, counters, pc, tok, cursor>>

Fault_SkipLastSlot ==
  /\ pc = "relocate"
  /\ cursor < maxTokens - 1
  /\ ~slot[cursor].mark
  /\ cursor' = cursor + 1
  /\ UNCHANGED <<slot, maxTokens, options, counters, pc, tok>>

NextSlot ==
  /\ pc = "relocate"
  /\ cursor < maxTokens
  /\ ~slot[cursor].mark
  /\ cursor' = cursor + 1
  /\ UNCHANGED <<slot, maxTokens, options, counters, pc, tok>>

EndGrow ==
  /\ pc = "relocate"
  /\ cursor = maxTokens
  /\ maxTokens' = 2 * maxTokens
  /\ pc' = "insert"
  /\ cursor' = 0
  /\ UNCHANGED <<slot, options, counters, tok>>

(* hash_word_and_learn() goes on with the slot of the second probe. *)
Insert ==
  /\ pc = "insert"
  /\ \E s \in Slots : FindsAt(tok, s) /\ (Known(s) \/ New(tok, s) \/ Dropped(s))
  /\ pc' = "ready"
  /\ tok' = 0
  /\ UNCHANGED <<maxTokens, options, cursor>>

(* The run ends with write_online_learner_struct() and a later one starts  *)
(* with read_online_learner_struct(): the table comes back as it was, the  *)
(* options and overflow_warning are those of the new process.              *)
Reload ==
  /\ pc = "ready"
  /\ session < Sessions
  /\ session' = session + 1
  /\ limit' \in Limits
  /\ growHash' = (limit' > 0)
  /\ overflow' = FALSE
  /\ UNCHANGED <<slot, maxTokens, unique, full, fixedUnique, fixedFull,
                 written, pc, tok, cursor>>

Grow == Refile \/ NextSlot \/ EndGrow \/ Insert

Next ==
  \/ \E t \in Ids : Learn(t) \/ BeginGrow(t)
  \/ Grow
  \/ Reload

Spec == Init /\ [][Next]_vars

(* grow_learner_hash() is a loop that nothing can interrupt: signals only  *)
(* set a flag.                                                             *)
FairSpec == Spec /\ WF_vars(Grow)

-----------------------------------------------------------------------------
TypeOK ==
  /\ maxTokens \in Nat \ {0}
  /\ pc \in {"ready", "relocate", "insert"}
  /\ slot \in [Slots -> Slot]
  /\ limit \in Limits
  /\ growHash \in BOOLEAN
  /\ unique \in 0..CountMax
  /\ full \in 0..CountMax
  /\ fixedUnique \in [Orders -> 0..CountMax]
  /\ fixedFull \in [Orders -> 0..CountMax]
  /\ overflow \in BOOLEAN
  /\ written \in [Ids -> Nat]
  /\ tok \in IF pc = "ready" THEN {0} ELSE Ids
  /\ cursor \in 0..maxTokens
  /\ session \in 0..Sessions

(* A token has one slot, at rest and in every intermediate state of the    *)
(* in-place rehash: a second copy would split its count.                   *)
NoDuplicates ==
  \A r, s \in Filled : slot[r].id = slot[s].id => r = s

(* At rest, find_in_learner() reaches every token the table holds: the     *)
(* rehash leaves no empty slot on the way to one.                          *)
Findable ==
  pc # "relocate" => \A s \in Filled : FindsAt(slot[s].id, s)

(* unique_token_count, which decides when the table is full, never falls   *)
(* below the number of slots used, and is that number exactly if no token  *)
(* hashes to 0.                                                            *)
UniqueCounts ==
  /\ Cardinality(Filled) <= unique
  /\ 0 \notin Ids => Cardinality(Filled) = unique

(* The temporary file lists every token of the table, once: the weights    *)
(* are later optimised by walking through that file, not the table.        *)
WrittenOnce ==
  \A t \in Ids \ {0} :
    written[t] = IF \E s \in Filled : slot[s].id = t THEN 1 ELSE 0

(* What the in-place rehash maintains: entries already placed are reached   *)
(* through placed entries only, and the entries still to be moved are       *)
(* marked, filled, and not behind the cursor.                               *)
Placed(s) == FilledP(s) /\ ~slot[s].mark

RehashInv ==
  /\ \A s \in Slots :
       Placed(s) => \A x \in Path(Home(slot[s].id), s) : Placed(x)
  /\ \A s \in Slots :
       slot[s].mark => pc = "relocate" /\ FilledP(s) /\ s \in cursor..(maxTokens - 1)

(* A probe always ends at an empty slot, so that find_in_learner() never   *)
(* returns NULL, as soon as the unused share of the smallest table is a    *)
(* whole slot.                                                             *)
AnEmptySlotRemains ==
  (100 - HashFull) * InitSize >= 100 => \E s \in Slots : ~FilledP(s)

(* "guaranteed to exit since hash is larger than original": the relocation *)
(* of an entry always finds a slot, and growing always ends.               *)
GrowthEnds == (pc = "relocate") ~> (pc = "ready")

-----------------------------------------------------------------------------
(* The table as a bag of tokens.  At rest a token counts if                *)
(* find_in_learner() finds it, while growing if some slot holds it.        *)
HoldersOf(t) ==
  {s \in Filled : slot[s].id = t /\ (pc = "relocate" \/ FindsAt(t, s))}

Contents ==
  [t \in Ids |-> IF HoldersOf(t) = {} THEN 0
                 ELSE slot[CHOOSE s \in HoldersOf(t) : TRUE].count]

Bag == INSTANCE TokenBag WITH bag <- Contents, total <- full

(* The table implements the bag: a known token is always counted, growing  *)
(* and probing lose, double or mix up no count.                            *)
ImplementsBag == Bag!Spec

=============================================================================
