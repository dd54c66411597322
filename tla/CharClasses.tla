----------------------------- MODULE CharClasses -----------------------------
(***************************************************************************)
(* Which characters belong to a token (good_char() and the machines it     *)
(* chooses from, mbw.c), as operators on a line s of character codes, the  *)
(* place i looked at and char_filter_state st. Each gives the good_char_t  *)
(* and the next state. The eight states of the Asian encodings are named   *)
(* by the bytes that are still to come.                                    *)
(***************************************************************************)
EXTENDS Naturals, Sequences

At(s, i) == IF i \in 1 .. Len(s) THEN s[i] ELSE 0

isupper(c) == c \in 65 .. 90
isalpha(c) == c \in 97 .. 122 \/ isupper(c)
isdigit(c) == c \in 48 .. 57
isalnum(c) == isalpha(c) \/ isdigit(c)
isgraph(c) == c \in 33 .. 126
ispunct(c) == isgraph(c) /\ ~isalnum(c)
tolower(c) == IF isupper(c) THEN c + 32 ELSE c
Quote == 39
Comma == 44
Dash == 45
Dot == 46
Colon == 58
Dollar == 36
Less == 60
Greater == 62
AtSign == 64
Slash == 47

SET1(c) == c \in {Quote, Dash, Dot}
SET2(c) == c \in {Comma, Dot}
SET3(c) == c \in 33 .. 126 \ {Greater}
ISO8859(c) == c \in \hA1 .. \hFE
ATOM(c) == isalnum(c) \/ (ispunct(c) /\ c \notin {34, Quote, 40, 41, Comma, Dot, Slash, Colon, 59, Less,
                                                  Greater, AtSign, 91, 92, 93})
TOKEN(st) == [good |-> "TOKEN", state |-> st]
TOKEN_END == [good |-> "TOKEN_END", state |-> "fDEF"]
IGNORE(st) == [good |-> "IGNORE", state |-> st]
DISCARD(st) == [good |-> "DISCARD", state |-> st]
UNDEF(st) == [good |-> "UNDEF", state |-> st]

(* if( (retval = a) || (retval = b) ) return retval;                       *)
OrElse(a, b) == IF a.good # "UNDEF" THEN a ELSE b

(* A character that comes twice more right after is left out.              *)
Tripled(s, i) == At(s, i) = At(s, i + 1) /\ At(s, i + 1) = At(s, i + 2)

(*--------------------------- bytes above 127 -----------------------------*)
UtfStates == <<"fUTF8_1", "fUTF8_2", "fUTF8_3", "fUTF8_4", "fUTF8_5">>
UtfLeads == <<\hC0 .. \hDF, \hE0 .. \hEF, \hF0 .. \hF7, \hF8 .. \hFB, \hFC .. \hFD>>
is_unicode_case(s, i, st) ==
  LET k == {n \in 1 .. 5 : At(s, i) \in UtfLeads[n] /\ \A j \in 1 .. n : At(s, i + j) \in \h80 .. \hBF}
  IN IF k = {} THEN UNDEF(st) ELSE TOKEN(UtfStates[CHOOSE n \in k : TRUE])

AsianStates == <<"fASIAN_1", "fASIAN_2", "fASIAN_3">>
DoubleBytes ==   \* Shift_JIS, EUC_Japanese (twice), BIG5, BIG5P, Johab (twice)
  {<<\h81 .. \h9F \cup \hE0 .. \hFC, \h40 .. \h7E \cup \h80 .. \hFC>>, <<\hA1 .. \hFE, \hA1 .. \hFE>>,
   <<{\h8E}, \hA0 .. \hDF>>, <<\hA1 .. \hFE, \h40 .. \h7E \cup \hA1 .. \hFE>>,
   <<\h81 .. \hFE, \h40 .. \h7E \cup \h80 .. \hFE>>, <<\h84 .. \hD3, \h41 .. \h7E \cup \h81 .. \hFE>>,
   <<\hD8 .. \hDE \cup \hE0 .. \hF9, \h31 .. \h7E \cup \h91 .. \hFE>>}
is_asian_case(s, i, st) ==
  IF At(s, i) = \h8F /\ At(s, i + 1) \in {\hFD, \hFE} /\ At(s, i + 2) \in \hA1 .. \hFE   \* EUC_Japanese_2
  THEN TOKEN("fASIAN_2")
  ELSE IF \E d \in DoubleBytes : At(s, i) \in d[1] /\ At(s, i + 1) \in d[2] THEN TOKEN("fASIAN_1")
  ELSE UNDEF(st)

Counts(states, st) == {n \in 1 .. Len(states) : states[n] = st}
handle_multibyte_case(states, st) ==
  LET n == CHOOSE n \in Counts(states, st) : TRUE
  IN IF n = 1 THEN TOKEN_END ELSE TOKEN(states[n - 1])

(* What the machines do with such a byte, or UNDEF when they look at it as *)
(* at any other.                                                           *)
HighByte(s, i, st) ==
  IF At(s, i) < \h80 THEN UNDEF(st)
  ELSE OrElse(OrElse(is_unicode_case(s, i, st), is_asian_case(s, i, st)),
              IF At(s, i) < \hA0 THEN DISCARD(st) ELSE UNDEF(st))
Multibyte(st) == Counts(UtfStates, st) # {} \/ Counts(AsianStates, st) # {}
InMultibyte(st) ==
  handle_multibyte_case(IF Counts(UtfStates, st) # {} THEN UtfStates ELSE AsianStates, st)

(*--------------------------- alpha digit punct ---------------------------*)
is_symbolic_case(s, i, st) ==
  IF ~ispunct(At(s, i)) THEN UNDEF(st)
  ELSE IF ispunct(At(s, i + 1)) \/ At(s, i + 1) = 0 THEN TOKEN("fSYMBOL")
  ELSE [TOKEN_END EXCEPT !.state = st]
Fault_SymbolGoesOn(s, i, st) == IF ~ispunct(At(s, i)) THEN DISCARD("fDEF") ELSE TOKEN(st)
handle_symbolic_case(s, i, st) ==
  IF ~ispunct(At(s, i)) THEN DISCARD("fDEF")
  ELSE IF ispunct(At(s, i + 1)) \/ At(s, i + 1) = 0 THEN IF Tripled(s, i) THEN IGNORE(st) ELSE TOKEN(st)
  ELSE TOKEN_END

is_alpha_number_symbol_case(s, i, st) ==
  LET next == At(s, i + 1)
  IN IF ~isalpha(At(s, i)) THEN UNDEF(st)
     ELSE IF isdigit(next) THEN TOKEN("fANSX_2")
     ELSE IF ispunct(next) THEN TOKEN("fANSX_1")
     ELSE IF ~isalpha(next) THEN TOKEN_END
     ELSE TOKEN("fANSX_3")
is_number_symbol_case(s, i, st) ==
  LET next == At(s, i + 1)
  IN IF ~isdigit(At(s, i)) THEN UNDEF(st)
     ELSE IF ispunct(next) THEN TOKEN("fANSX_1")
     ELSE IF ~isdigit(next) THEN TOKEN_END
     ELSE TOKEN("fANSX_2")

Letter(c) == isalpha(c) \/ ISO8859(c)
handle_alpha_number_symbol_case(s, i, st) ==
  LET next == At(s, i + 1)
  IN CASE st = "fANSX_1" ->
            IF ~ispunct(next) THEN TOKEN_END ELSE IF Tripled(s, i) THEN IGNORE(st) ELSE TOKEN(st)
       [] st = "fANSX_2" ->
            IF ispunct(next) THEN TOKEN("fANSX_1")
            ELSE IF Letter(next) THEN TOKEN("fANSX_3")
            ELSE IF ~isdigit(next) THEN TOKEN_END ELSE TOKEN(st)
       [] st = "fANSX_3" ->
            IF isdigit(next) THEN TOKEN("fANSX_2")
            ELSE IF ispunct(next) THEN TOKEN("fANSX_1")
            ELSE IF ~Letter(next) THEN TOKEN_END
            ELSE IF Tripled(s, i) THEN IGNORE(st) ELSE TOKEN(st)

is_adp_char(s, i, st) ==
  CASE st = "fDEF" ->
         OrElse(OrElse(HighByte(s, i, st), is_alpha_number_symbol_case(s, i, st)),
                OrElse(OrElse(is_number_symbol_case(s, i, st), is_symbolic_case(s, i, st)), DISCARD(st)))
    [] st \in {"fANSX_1", "fANSX_2", "fANSX_3"} -> handle_alpha_number_symbol_case(s, i, st)
    [] st = "fSYMBOL" -> handle_symbolic_case(s, i, st)
    [] Multibyte(st) -> InMultibyte(st)
    [] OTHER -> DISCARD("fDEF")

(*------------------------ common email format, old -----------------------*)
is_alpha_number_case(s, i, st) ==
  IF isalpha(At(s, i)) /\ isdigit(At(s, i + 1)) THEN TOKEN("fANX") ELSE UNDEF(st)
handle_alpha_number_case(s, i) ==
  IF ~isdigit(At(s, i)) THEN DISCARD("fDEF") ELSE IF isdigit(At(s, i + 1)) THEN TOKEN("fANX") ELSE TOKEN_END

is_number_alpha_case(s, i, st) ==
  IF isdigit(At(s, i)) /\ isalpha(At(s, i + 1)) THEN TOKEN("fNAX") ELSE UNDEF(st)
handle_number_alpha_case(s, i) ==
  IF ~isalpha(At(s, i)) THEN DISCARD("fDEF") ELSE IF isalpha(At(s, i + 1)) THEN TOKEN("fNAX") ELSE TOKEN_END

is_multi_alpha_case(s, i, st) ==
  IF isalpha(At(s, i)) /\ SET1(At(s, i + 1)) /\ isalpha(At(s, i + 2)) THEN TOKEN("fMUL") ELSE UNDEF(st)
handle_multi_alpha_case(s, i) ==
  IF isalpha(At(s, i + 1)) \/ (SET1(At(s, i + 1)) /\ isalpha(At(s, i + 2))) THEN TOKEN("fMUL") ELSE TOKEN_END

is_repeat_case(s, i, st) ==
  IF At(s, i + 1) # At(s, i) THEN UNDEF(st)
  ELSE TOKEN(IF At(s, i + 2) = At(s, i) THEN "fSEP_3" ELSE "fSEP_2")
handle_repeat_case(s, i, st) ==
  CASE st = "fSEP_1" -> DISCARD(IF At(s, i) # At(s, i + 1) THEN "fDEF" ELSE st)
    [] st = "fSEP_2" -> TOKEN("fSEP_1")
    [] st = "fSEP_3" -> TOKEN("fSEP_2")

is_currency_case(s, i, st) ==
  IF /\ At(s, i) \in {Dollar, \hA3} /\ isdigit(At(s, i + 1))
     /\ \E k \in 2 .. 4 : ~isdigit(At(s, i + k))
  THEN TOKEN("fCUR") ELSE UNDEF(st)
handle_currency_case(s, i) ==
  IF isdigit(At(s, i + 1)) \/ (SET2(At(s, i + 1)) /\ isdigit(At(s, i + 2))) THEN TOKEN("fCUR") ELSE TOKEN_END

is_address_case(s, i, st) ==
  UNDEF(IF At(s, i) = Less /\ \E j \in i + 1 .. Len(s) :
             At(s, j) = Greater /\ \A k \in i + 1 .. j - 1 : SET3(At(s, k))
        THEN "fADD" ELSE st)
handle_address_case(s, i) ==
  IF At(s, i) = Greater THEN DISCARD("fDEF") ELSE IF At(s, i) = AtSign THEN DISCARD("fADD") ELSE TOKEN("fADD")

is_cef_char(s, i, st) ==
  LET c == At(s, i)
      high == HighByte(s, i, st)
      address == is_address_case(s, i, st)
  IN CASE st = "fDEF" ->
            IF high.good # "UNDEF" THEN high
            ELSE IF isalpha(c) THEN OrElse(OrElse(is_alpha_number_case(s, i, st), is_multi_alpha_case(s, i, st)),
                                           TOKEN(st))
            ELSE IF ispunct(c) THEN OrElse(OrElse(is_repeat_case(s, i, st), is_currency_case(s, i, st)),
                                           DISCARD(address.state))
            ELSE IF isdigit(c) THEN OrElse(is_number_alpha_case(s, i, st), DISCARD(st))
            ELSE DISCARD(st)
       [] st = "fANX" -> handle_alpha_number_case(s, i)
       [] st = "fNAX" -> handle_number_alpha_case(s, i)
       [] st = "fMUL" -> handle_multi_alpha_case(s, i)
       [] st = "fADD" -> handle_address_case(s, i)
       [] st = "fCUR" -> handle_currency_case(s, i)
       [] st \in {"fSEP_1", "fSEP_2", "fSEP_3"} -> handle_repeat_case(s, i, st)
       [] Multibyte(st) -> InMultibyte(st)
       [] OTHER -> DISCARD("fDEF")

(*------------------------ common email format, new -----------------------*)
AfterMark(s, i, mark) == ATOM(At(s, i)) \/ (At(s, i) = mark /\ ATOM(At(s, i + 1)))
handle_cef2_atom_case(s, i, st) ==
  IF ATOM(At(s, i)) THEN TOKEN(st)
  ELSE IF AfterMark(s, i, Dot) THEN TOKEN("fCEF2_DOTTED_ATOM")
  ELSE IF AfterMark(s, i, Colon) THEN TOKEN("fCEF2_COLON_ATOM")
  ELSE DISCARD("fDEF")
handle_cef2_marked_case(s, i, st, mark) ==
  IF AfterMark(s, i, mark) THEN TOKEN(st) ELSE DISCARD("fDEF")

is_cef2_char(s, i, st) ==
  CASE st = "fDEF" ->
         OrElse(HighByte(s, i, st), IF ATOM(At(s, i)) THEN TOKEN("fCEF2_ATOM") ELSE DISCARD(st))
    [] st = "fCEF2_ATOM" -> handle_cef2_atom_case(s, i, st)
    [] st = "fCEF2_DOTTED_ATOM" -> handle_cef2_marked_case(s, i, st, Dot)
    [] st = "fCEF2_COLON_ATOM" -> handle_cef2_marked_case(s, i, st, Colon)
    [] Multibyte(st) -> InMultibyte(st)
    [] OTHER -> DISCARD("fDEF")

(*------------------------------ good_char() ------------------------------*)
CharParsers == {"CHAR", "ALPHA", "ALNUM", "GRAPH", "CEF", "CEF2", "ADP"}

(* The end of the line is never part of a token, and no machine sees it.   *)
good_char(s, i, st, cp) ==
  LET c == At(s, i)
      if(b, good) == [good |-> IF b THEN good ELSE "DISCARD", state |-> st]
  IN CASE c = 0 -> DISCARD(st)
       [] c # 0 /\ cp = "ADP" -> is_adp_char(s, i, st)
       [] c # 0 /\ cp = "CEF" -> is_cef_char(s, i, st)
       [] c # 0 /\ cp = "CEF2" -> is_cef2_char(s, i, st)
       [] c # 0 /\ cp = "CHAR" -> if(isgraph(c), "TOKEN_END")
       [] c # 0 /\ cp = "ALPHA" -> if(isalpha(c), "TOKEN")
       [] c # 0 /\ cp = "ALNUM" -> if(isalnum(c), "TOKEN")
       [] c # 0 /\ cp = "GRAPH" -> if(isgraph(c), "TOKEN")
==============================================================================
