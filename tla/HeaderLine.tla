----------------------------- MODULE HeaderLine -----------------------------
(***************************************************************************)
(* What the recognisers of header lines in rfc822.c and rfc2822.c have in  *)
(* common: the line they read and the functions that skip a character, a   *)
(* number of digits, or a bracketed text.                                  *)
(***************************************************************************)
EXTENDS HeaderChars

CONSTANT line  \* what is recognised: a sequence of characters

(* *p, which is NUL at the end of the line. *)
At(p) == IF p \in 1 .. Len(line) THEN line[p] ELSE "nul"

(* The places a pointer can have; an escape at the end skips the NUL. *)
Places == 1 .. Len(line) + 2

------------------------------------------------------------------------------

skip_single_char(p, what) ==
  IF Found(p) /\ At(p) # what THEN NULL ELSE IF Found(p) THEN p + 1 ELSE p

skip_digits(p, n) ==
  IF Found(p) /\ \E i \in 0 .. n - 1 : At(p + i) # "d" THEN NULL
  ELSE IF Found(p) THEN p + n ELSE p

skip_twodigit(p) == skip_digits(p, 2)
skip_fourdigit(p) == skip_digits(p, 4)

skip_single_string(p, what) == skip_single_char(p, what)

skip_string_list(p, list) ==
  IF Found(p) /\ At(p) \notin list THEN NULL ELSE IF Found(p) THEN p + 1 ELSE p

Or(p, q) == IF Found(p) THEN p ELSE q

(* A recogniser that is passed to another is a function of the place. *)
Apply(skip, p) == IF Found(p) THEN skip[p] ELSE p

(***************************************************************************)
(* A bracketed text, which nests if the brackets differ; quote hides the   *)
(* next character.                                                         *)
(***************************************************************************)
skip_recursive(p, opening, closing, quote) ==
  LET inside[q \in Places] == [c \in Nat \ {0} |->
        IF At(q) = "nul" THEN NULL
        ELSE IF At(q) = closing THEN IF c = 1 THEN q + 1 ELSE inside[q + 1][c - 1]
        ELSE IF At(q) = opening THEN inside[q + 1][c + 1]
        ELSE inside[IF At(q) = quote THEN q + 2 ELSE q + 1][c]]
  IN IF Found(p) THEN IF At(p) = opening THEN inside[p + 1][1] ELSE NULL
     ELSE p

(* The position after the run of characters of set S at p. *)
RunOf(p, S) ==
  LET run[q \in Places] == IF At(q) \in S THEN run[q + 1] ELSE q
  IN run[p]

(* A run of at least one character. *)
skip_run(p, S) ==
  IF Found(p) /\ At(p) \notin S THEN NULL ELSE IF Found(p) THEN RunOf(p, S) ELSE p

------------------------------------------------------------------------------
(* White space and comments.                                               *)

skip_822_comment(p) == skip_recursive(p, "(", ")", "\\")

Fault_UnclosedComment(p, min) ==
  LET lwsp[q \in Places] ==
        CASE At(q) \in Space -> lwsp[q + 1]
          [] At(q) = "("     -> LET r == skip_822_comment(q)
                                IN IF Found(r) THEN lwsp[r] ELSE Hang
          [] OTHER           -> q
  IN IF Found(p) THEN lwsp[p] ELSE p

(* White space, with comments; min is 0 or 1. *)
skip_822_lwsp(p, min) ==
  LET lwsp[q \in Places] ==
        CASE At(q) \in Space -> lwsp[q + 1]
          [] At(q) = "("     -> LET r == skip_822_comment(q)
                                IN IF Found(r) THEN lwsp[r] ELSE NULL
          [] OTHER           -> q
  IN IF ~Found(p) THEN p
     ELSE IF min = 1 /\ At(p) \notin Space THEN NULL ELSE lwsp[p + min]

(* Line ends, then blanks, of which there must be one. *)
skip_2822_fws(p) == IF Found(p) THEN skip_run(RunOf(p, {"nl"}), Blank) ELSE p

skip_comment(p) == skip_recursive(p, "(", ")", "\\")

(* White space and comments; min is 0 or 1. *)
skip_2822_cfws(p, min) ==
  LET one(q) == IF At(q) \in Space THEN skip_2822_fws(q) ELSE skip_comment(q)
      cfws[q \in Places] ==
        IF Found(one(q)) THEN cfws[one(q)] ELSE IF At(q) = "(" THEN NULL ELSE q
      start == IF Found(p) /\ min = 1 THEN one(p) ELSE p
  IN IF Found(start) THEN cfws[start] ELSE start

(* Where these, and quoted strings and literals, end that begin at a place. *)
Ends == [
  lwsp |-> [p \in Places |-> [min \in 0 .. 1 |-> skip_822_lwsp(p, min)]],
  cfws |-> [p \in Places |-> [min \in 0 .. 1 |-> skip_2822_cfws(p, min)]],
  quoted |-> [p \in Places |-> skip_recursive(p, "\"", "\"", "\\")],
  literal |-> [p \in Places |-> skip_recursive(p, "[", "]", "\\")]]

=============================================================================
