---------------------------- MODULE MCOnlineDump ----------------------------
(* Instances of OnlineDump for TLC.                                         *)
EXTENDS OnlineDump, TLC

CONSTANTS a, b, c, x, y, z

AllOptions == {{}, {"m"}, {"H"}, {"m", "H"}, {"O"}, {"O", "H"}, {"m", "O"}}
(* A dump with both tokens, left by a run without -m or with it. *)
SomeOthers ==
  {[items |-> [t \in Ids |-> IF t = x THEN 2 ELSE IF t = y THEN 1 ELSE 0],
    list |-> <<y, x>>, address |-> m] : m \in BOOLEAN}
Symmetry == Permutations(Learners)
=============================================================================
