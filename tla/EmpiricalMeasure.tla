-------------------------- MODULE EmpiricalMeasure --------------------------
(***************************************************************************)
(* The table that counts the tokens of the document being classified       *)
(* (empirical_t, catfun.c), as operators on a record: hash is the table,   *)
(* stack the slots filled since it was cleared, kept while track.          *)
(***************************************************************************)
EXTENDS Integers, FiniteSets, Sequences

CONSTANTS
  max_tokens,            \* number of slots
  HASH_FULL,             \* percentage of the slots that may be filled
  K_TOKEN_COUNT_MAX,     \* where the counters stop
  MAX_TOKEN_LINE_STACK   \* room on the stack

ASSUME EmpiricalAssumption ==
  /\ max_tokens \in Nat \ {0}
  /\ HASH_FULL \in 1 .. 99
  /\ K_TOKEN_COUNT_MAX \in Nat \ {0}
  /\ MAX_TOKEN_LINE_STACK \in Nat

Slots == 0 .. max_tokens - 1
Unfilled == [id |-> 0, count |-> 0]
Filled(emp) == {s \in Slots : emp.hash[s].id # 0}
NoSlot == max_tokens

init_empirical ==
  [hash |-> [s \in Slots |-> Unfilled], full |-> 0, unique |-> 0,
   track |-> FALSE, stack |-> <<>>]

clear_empirical(emp, fastemp) ==
  [hash |-> IF emp.track
            THEN [s \in Slots |-> IF \E i \in 1 .. Len(emp.stack) : emp.stack[i] = s
                                  THEN Unfilled ELSE emp.hash[s]]
            ELSE [s \in Slots |-> Unfilled],
   full |-> 0, unique |-> 0, track |-> emp.track \/ fastemp, stack |-> <<>>]

(* The slot that holds id, or the first free one, from its home on; NoSlot *)
(* when the table is full of others.                                       *)
find_in_empirical(emp, id) ==
  LET path(k) == (id + k) % max_tokens
      stops == {k \in Slots : emp.hash[path(k)].id \in {0, id}}
  IN IF stops = {} THEN NoSlot ELSE path(CHOOSE k \in stops : \A j \in stops : k <= j)

HasRoom(emp) == 100 * emp.unique < HASH_FULL * max_tokens
Increased(n) == IF n < K_TOKEN_COUNT_MAX THEN n + 1 ELSE n

(* For the mutant: once the stack is full slots are no longer remembered.  *)
Fault_StackFull(emp, s) ==
  IF emp.track /\ Len(emp.stack) < MAX_TOKEN_LINE_STACK THEN [emp EXCEPT !.stack = Append(@, s)] ELSE emp

(* A new slot is remembered, until there are too many to remember.         *)
Tracked(emp, s) ==
  IF ~emp.track THEN emp
  ELSE IF Len(emp.stack) < MAX_TOKEN_LINE_STACK THEN [emp EXCEPT !.stack = Append(@, s)]
  ELSE [emp EXCEPT !.track = FALSE, !.stack = <<>>]

(* What score_word() does to the table. A token that would be one too many *)
(* is not counted, and not scored either.                                  *)
Refused(emp, id) ==
  LET s == find_in_empirical(emp, id)
  IN s # NoSlot /\ emp.hash[s].id = 0 /\ ~HasRoom(emp)

Counted(emp, id) ==
  LET s == find_in_empirical(emp, id)
  IN IF s = NoSlot \/ Refused(emp, id) THEN emp
     ELSE IF emp.hash[s].id = id
     THEN [emp EXCEPT !.hash[s].count = Increased(@), !.full = Increased(@)]
     ELSE Tracked([emp EXCEPT !.hash[s] = [id |-> id, count |-> 1],
                              !.unique = Increased(@), !.full = Increased(@)], s)
=============================================================================
