---------------------------- MODULE OnlineCorpus ----------------------------
(***************************************************************************)
(* What dbacl -o promises about the token counts of a memory dump: a run   *)
(* continues where the last one left off, so that learning documents in     *)
(* several runs counts what learning them in one run counts.  A run has the *)
(* counts that were kept when it began, plus what it has added itself; it   *)
(* keeps them all at once, or, if it writes through, as it learns.          *)
(***************************************************************************)
EXTENDS Naturals

CONSTANTS Learners,  \* runs of dbacl -l -o
          Ids,       \* tokens
          Gains,     \* numbers of occurrences that can be added at once
          Apart      \* stands for the counts of a run that is not learning

VARIABLES
  corpus,  \* how often each token occurs in the documents kept
  mine     \* the counts a run has learned, or Apart

vars == <<corpus, mine>>

Init ==
  /\ corpus = [t \in Ids |-> 0]
  /\ mine = [p \in Learners |-> Apart]

Begin(p) ==
  /\ mine[p] = Apart
  /\ mine' = [mine EXCEPT ![p] = corpus]
  /\ UNCHANGED corpus

(* A token of a document, or n of them from another dump.                   *)
Add(p, t, n) ==
  /\ mine[p] # Apart
  /\ mine' = [mine EXCEPT ![p][t] = @ + n]
  /\ \/ UNCHANGED corpus
     \/ corpus = mine[p] /\ corpus' = mine'[p]

Keep(p) ==
  /\ mine[p] # Apart
  /\ corpus' = mine[p]
  /\ UNCHANGED mine

End(p) ==
  /\ mine[p] # Apart
  /\ mine' = [mine EXCEPT ![p] = Apart]
  /\ UNCHANGED corpus

Next == \E p \in Learners :
  \/ Begin(p)
  \/ \E t \in Ids : \E n \in Gains : Add(p, t, n)
  \/ Keep(p)
  \/ End(p)

Spec == Init /\ [][Next]_vars
=============================================================================
