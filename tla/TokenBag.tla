------------------------------ MODULE TokenBag ------------------------------
(***************************************************************************)
(* What the learner's hash table promises to the rest of dbacl: a bag of   *)
(* tokens.  Learning a token counts it once.  A token that is not in the   *)
(* bag may be discarded instead (the table is full), and once a token is   *)
(* in the bag no occurrence of it is ever discarded.  `total' is the       *)
(* number of tokens seen, learner->full_token_count.                       *)
(***************************************************************************)
EXTENDS Naturals

CONSTANTS Ids,        \* the token hash values
          CountMax    \* K_TOKEN_COUNT_MAX, where counters stop

VARIABLES bag, total

vars == <<bag, total>>

Up(n) == IF n < CountMax THEN n + 1 ELSE n

Init ==
  /\ bag = [t \in Ids |-> 0]
  /\ total = 0

(* One occurrence of t is recorded. *)
Count(t) ==
  /\ bag' = [bag EXCEPT ![t] = Up(@)]
  /\ total' = Up(total)

(* One occurrence of a token that the bag does not hold is dropped. *)
Discard(t) ==
  /\ bag[t] = 0
  /\ total' = Up(total)
  /\ UNCHANGED bag

Next == \E t \in Ids : Count(t) \/ Discard(t)

Spec == Init /\ [][Next]_vars
=============================================================================
