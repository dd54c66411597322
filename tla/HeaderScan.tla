----------------------------- MODULE HeaderScan -----------------------------
(***************************************************************************)
(* A line in which the white space, the comments and the bracketed texts   *)
(* have been found.  The code skips them again whenever it comes to them,  *)
(* which is at nearly every token: here they are looked up.                *)
(***************************************************************************)
EXTENDS HeaderLine

CONSTANT ends  \* Ends of this line

Quoted(p) == IF Found(p) THEN ends.quoted[p] ELSE p
Literal(p) == IF Found(p) THEN ends.literal[p] ELSE p

=============================================================================
