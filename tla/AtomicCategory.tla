--------------------------- MODULE AtomicCategory ---------------------------
(***************************************************************************)
(* What dbacl promises about a category file that many processes learn and *)
(* classify with at once: there is one current category, a learner replaces *)
(* it in one step and at most once, and a reader that finds a category      *)
(* loads exactly the one that was current when it opened the file.         *)
(***************************************************************************)
CONSTANTS Learners,  \* processes running dbacl -l
          Readers,   \* processes running dbacl -c
          Old,       \* the category that may exist beforehand
          None       \* stands for no category

VARIABLES
  current,    \* the category the file name stands for
  published,  \* the learners that have replaced it
  opened,     \* the readers that have opened the file
  snap,       \* what was current when a reader opened the file
  loaded      \* the category a reader has loaded

vars == <<current, published, opened, snap, loaded>>

Init ==
  /\ current \in {Old, None}
  /\ published = {}
  /\ opened = {}
  /\ snap = [r \in Readers |-> None]
  /\ loaded = [r \in Readers |-> None]

Publish(p) ==
  /\ p \notin published
  /\ published' = published \cup {p}
  /\ current' = p
  /\ UNCHANGED <<opened, snap, loaded>>

Open(r) ==
  /\ r \notin opened
  /\ opened' = opened \cup {r}
  /\ snap' = [snap EXCEPT ![r] = current]
  /\ UNCHANGED <<current, published, loaded>>

Load(r) ==
  /\ r \in opened
  /\ loaded' = [loaded EXCEPT ![r] = snap[r]]
  /\ UNCHANGED <<current, published, opened, snap>>

Next ==
  \/ \E p \in Learners : Publish(p)
  \/ \E r \in Readers : Open(r) \/ Load(r)

Spec == Init /\ [][Next]_vars
=============================================================================
