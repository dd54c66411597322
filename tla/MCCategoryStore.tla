--------------------------- MODULE MCCategoryStore ---------------------------
(* Instances of CategoryStore for TLC.                                      *)
EXTENDS CategoryStore

(* Options that save by way of a temporary file only. *)
Stdio == {{}, {"1"}, {"o"}}

(* All options, for a process that is alone. *)
Alone == SUBSET {"m", "o", "O", "1"}

Plain == {{}}
Merging == {{}, {"O"}}
=============================================================================
